------------------------------- MODULE IdealPool --------------------------------
(***************************************************************************)
(* What the validation pool promises its callers, with no workers, no      *)
(* queue and no timers: a validation asked for is answered once, with the  *)
(* schema's own verdict on that value, or a timeout, or a failure of its   *)
(* worker; a close answers every validation still open at once, and every  *)
(* later one as it comes (packages/core/src/transport/schema-pool.ts).     *)
(***************************************************************************)
CONSTANTS Job, Verdict

VARIABLES outcome, closed

idealVars == <<outcome, closed>>

IdealInit == outcome = [j \in Job |-> "new"] /\ closed = FALSE

Ask(j) ==
  /\ outcome[j] = "new"
  /\ outcome' = [outcome EXCEPT ![j] = IF closed THEN "closed" ELSE "asked"]
  /\ UNCHANGED closed

Settle(j) ==
  /\ outcome[j] = "asked"
  /\ \E a \in {Verdict[j], "timeout", "failed"} : outcome' = [outcome EXCEPT ![j] = a]
  /\ UNCHANGED closed

CloseAll ==
  /\ closed' = TRUE
  /\ outcome' = [j \in Job |-> IF outcome[j] = "asked" THEN "closed" ELSE outcome[j]]

IdealNext == CloseAll \/ \E j \in Job : Ask(j) \/ Settle(j)

IdealSpec == IdealInit /\ [][IdealNext]_idealVars

=============================================================================
