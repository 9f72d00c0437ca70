--------------------------- MODULE ApprovalLifecycle ---------------------------
(***************************************************************************)
(* What the approval backend promises of each request, with no clock, no   *)
(* table and no link: it is asked once, decided at most once and by        *)
(* someone else, and a grant is used at most once.  approval/RULES.md      *)
(* states these as APR-2 to APR-6; ApprovalBook is shown to implement them. *)
(***************************************************************************)
EXTENDS FiniteSets

CONSTANTS Id, Principal, IdentityOf, Call, HumanOnlyTool, None

VARIABLES status, call, approver, via

lifeVars == <<status, call, approver, via>>

Open == {id \in Id : status[id] \in {"pending", "approved"}}

LifeInit ==
  /\ status = [id \in Id |-> "new"]
  /\ call = [id \in Id |-> None]
  /\ approver = [id \in Id |-> None]
  /\ via = [id \in Id |-> None]

(* One request moves to s while the requests of X, whose time ran out, lapse. *)
Move(X, id, s) ==
  status' = [i \in Id |-> IF i \in X THEN "expired" ELSE IF i = id THEN s ELSE status[i]]

Lapse(X) ==
  /\ status' = [i \in Id |-> IF i \in X THEN "expired" ELSE status[i]]
  /\ UNCHANGED <<call, approver, via>>

Ask(X, id, c) ==
  /\ status[id] = "new"
  /\ Move(X, id, "pending")
  /\ call' = [call EXCEPT ![id] = c]
  /\ UNCHANGED <<approver, via>>

(* Decided by another person, and by a human where only a human may. *)
Decided(X, id, a, v, s) ==
  /\ status[id] = "pending" /\ id \notin X
  /\ IdentityOf[a] # IdentityOf[call[id].principal]
  /\ call[id].tool \in HumanOnlyTool => v = "human"
  /\ Move(X, id, s)
  /\ approver' = [approver EXCEPT ![id] = a]
  /\ via' = [via EXCEPT ![id] = v]
  /\ UNCHANGED call

Use(X, id) ==
  /\ status[id] = "approved" /\ id \notin X
  /\ Move(X, id, "used")
  /\ UNCHANGED <<call, approver, via>>

LifeNext ==
  \E X \in SUBSET Open :
    \/ Lapse(X)
    \/ \E id \in Id :
         \/ \E c \in Call : Ask(X, id, c)
         \/ \E a \in Principal, v \in {"human", "delegated"}, s \in {"approved", "declined"} :
              Decided(X, id, a, v, s)
         \/ Use(X, id)

LifeSpec == LifeInit /\ [][LifeNext]_lifeVars

=============================================================================
