------------------------------ MODULE IdealLimiter ------------------------------
(***************************************************************************)
(* What the rate limit promises, with a budget for every principal and no  *)
(* table: each refills with the clock up to the burst, a request takes one *)
(* token if there is one and is refused if not, and touches no other       *)
(* principal's budget (rate-limit/RULES.md RL-1 to RL-3, RL-8).            *)
(***************************************************************************)
EXTENDS Integers

CONSTANTS Principal, Full, Token, None

VARIABLES level, answer

idealVars == <<level, answer>>

IdealInit ==
  /\ level = [p \in Principal |-> Full]
  /\ answer = [who |-> None, kind |-> None]

Serve(p) ==
  /\ level[p] >= Token
  /\ level' = [level EXCEPT ![p] = @ - Token]
  /\ answer' = [who |-> p, kind |-> "served"]

Refuse(p) ==
  /\ level[p] < Token
  /\ answer' = [who |-> p, kind |-> "refused"]
  /\ UNCHANGED level

(* Served free of charge: never to one whose budget is less than full. *)
ServeFree(p) ==
  /\ level[p] = Full
  /\ answer' = [who |-> p, kind |-> "untracked"]
  /\ UNCHANGED level

Refill ==
  /\ level' = [p \in Principal |-> IF level[p] = Full THEN Full ELSE level[p] + 1]
  /\ UNCHANGED answer

IdealNext == Refill \/ \E p \in Principal : Serve(p) \/ Refuse(p) \/ ServeFree(p)

IdealSpec == IdealInit /\ [][IdealNext]_idealVars

=============================================================================
