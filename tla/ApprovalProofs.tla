----------------------------- MODULE ApprovalProofs -----------------------------
(***************************************************************************)
(* The approval book and the two sides of the approval service on it, for  *)
(* every set of requests, principals and calls, every lifetime, cap and    *)
(* clock, and any number of callers, places, addresses and budgets.        *)
(*                                                                         *)
(* The book.  The induction goes request by request.  RowOK is what the    *)
(* audit rows of one request may say, in the table or long gone; PairOK    *)
(* relates a record in the table to its rows.  A sweep keeps both for      *)
(* every request, and each method then changes one request more, so each   *)
(* method's proof is about one record and its rows.                        *)
(*                                                                         *)
(* The calls that wait for approvals, and the listener approvers decide    *)
(* at: either acts on the book, whose theorems hold beneath both.          *)
(*                                                                         *)
(* The calls.  Every step of the service is a step of the book or leaves   *)
(* it alone (ServiceStepsBook).  Beyond BookInv the induction needs that a *)
(* call asleep sleeps on the request it asked for, still pending           *)
(* (AsleepInv), that the places counted are those of the calls that wait   *)
(* (PlacesInv), and that a call told to run still has that answer          *)
(* (GrantInv).                                                             *)
(*                                                                         *)
(* The listener.  HandlerMoves says all a handler's step does: it ends or  *)
(* waits with a record n of its request, pays as n's answer says, counts   *)
(* if n is noted, and touches the book as a decision or as something that  *)
(* decides nothing.  Each property is then about one record and one of     *)
(* these aspects.                                                          *)
(***************************************************************************)
EXTENDS ApprovalService, ApprovalListener, FiniteSetTheorems, TLAPS

-----------------------------------------------------------------------------
(* The book. *)
(* The rows of one request, asked or not. *)
RowOK(r) ==
  /\ r \in AuditRows
  /\ r.requested = 0 => r.approver = None /\ r.expired = 0
  /\ r.requested <= 1
  /\ r.approved + r.declined <= r.requested
  /\ r.redeemed <= r.approved
  /\ r.declined + r.redeemed + r.expired <= 1
  /\ r.approved + r.declined > 0 =>
       /\ r.call \in Call /\ r.approver \in Principal
       /\ ~SamePerson(r.approver, r.call.principal)
       /\ r.call.tool \in HumanOnlyTool => r.via = "human"

(* A record in the table and its rows. *)
PairOK(e, r) ==
  /\ e \in Entry
  /\ RowsSay(r) /\ r.call = e.call
  /\ r.declined = (IF e.state = "declined" THEN 1 ELSE 0)
  /\ r.redeemed = (IF e.state = "redeemed" THEN 1 ELSE 0)
  /\ r.expired = (IF e.state = "expired" THEN 1 ELSE 0)
  /\ e.state = "pending" => r.approved = 0
  /\ e.state \in {"approved", "redeemed"} => r.approved = 1

TableOK(table, rows) ==
  /\ DOMAIN table \subseteq Id
  /\ table = [id \in DOMAIN table |-> table[id]]
  /\ rows = [id \in Id |-> rows[id]]
  /\ \A id \in Id : RowOK(rows[id])
  /\ \A id \in DOMAIN table : PairOK(table[id], rows[id])

(* The inductive invariant. *)
BookInv == now \in Nat /\ TableOK(entries, audit)

-----------------------------------------------------------------------------
(* One request at a time. *)

LEMMA LapsePoint ==
  ASSUME NEW e, NEW r, PairOK(e, r), RowOK(r), e.state \in {"pending", "approved"}
  PROVE  /\ PairOK([e EXCEPT !.state = "expired"], [r EXCEPT !.expired = @ + 1])
         /\ RowOK([r EXCEPT !.expired = @ + 1])
  BY DEF PairOK, RowOK, RowsSay, Entry, AuditRows, RequestState

LEMMA AskPoint ==
  ASSUME NEW c \in Call, NEW r, RowOK(r), r.requested = 0, now \in Nat,
         NEW q, q = [r EXCEPT !.call = c, !.requested = @ + 1]
  PROVE  PairOK(NewEntry(c), q) /\ RowOK(q)
<1>1. r \in AuditRows /\ r.requested + 1 \in Nat
  BY DEF RowOK
<1>2. q \in AuditRows
  BY <1>1 DEF AuditRows
<1>3. /\ q.call = c /\ q.requested = 1 /\ q.approver = None
      /\ q.approved = 0 /\ q.declined = 0 /\ q.redeemed = 0 /\ q.expired = 0
  BY <1>1 DEF AuditRows, RowOK
<1>4. NewEntry(c) \in Entry
  BY TtlAssumption DEF NewEntry, Entry, RequestState
<1>5. PairOK(NewEntry(c), q)
  BY <1>3, <1>4 DEF PairOK, RowsSay, NewEntry
<1>6. RowOK(q)
  BY <1>2, <1>3 DEF RowOK
<1> QED  BY <1>5, <1>6

LEMMA RedeemPoint ==
  ASSUME NEW e, NEW r, PairOK(e, r), RowOK(r), e.state = "approved"
  PROVE  /\ PairOK([e EXCEPT !.state = "redeemed"], [r EXCEPT !.redeemed = @ + 1])
         /\ RowOK([r EXCEPT !.redeemed = @ + 1])
  BY DEF PairOK, RowOK, RowsSay, Entry, AuditRows, RequestState

LEMMA ApprovePoint ==
  ASSUME NEW e, NEW r, PairOK(e, r), RowOK(r),
         NEW approver \in Principal, NEW via \in Via, MayDecide(e, approver, via),
         NEW d \in Nat, NEW f, NEW q,
         f = [e EXCEPT !.state = "approved", !.deadline = d, !.linkUsed = @ \/ via = "human"],
         q = [r EXCEPT !.approved = @ + 1, !.approver = approver, !.via = via]
  PROVE  PairOK(f, q) /\ RowOK(q)
<1>1. r \in AuditRows /\ r.approved + 1 \in Nat /\ e \in Entry
  BY DEF RowOK, PairOK, AuditRows
<1>2. q \in AuditRows
  BY <1>1 DEF AuditRows
<1>3. /\ q.call = r.call /\ q.requested = 1 /\ q.approver = approver /\ q.via = via
      /\ q.approved = 1 /\ q.declined = 0 /\ q.redeemed = 0 /\ q.expired = 0
  BY <1>1 DEF AuditRows, RowOK, PairOK, RowsSay, MayDecide
<1>4. f \in Entry /\ f.call = e.call /\ f.state = "approved"
  BY <1>1 DEF Entry, RequestState
<1>5. PairOK(f, q)
  BY <1>3, <1>4, PrincipalAssumption DEF PairOK, RowsSay
<1>6. RowOK(q)
  BY <1>2, <1>3, PrincipalAssumption DEF RowOK, PairOK, MayDecide, Entry, Via
<1> QED  BY <1>5, <1>6

LEMMA DeclinePoint ==
  ASSUME NEW e, NEW r, PairOK(e, r), RowOK(r),
         NEW approver \in Principal, NEW via \in Via, MayDecide(e, approver, via), NEW f, NEW q,
         f = [e EXCEPT !.state = "declined", !.linkUsed = @ \/ via = "human"],
         q = [r EXCEPT !.declined = @ + 1, !.approver = approver, !.via = via]
  PROVE  PairOK(f, q) /\ RowOK(q)
<1>1. r \in AuditRows /\ r.declined + 1 \in Nat /\ e \in Entry
  BY DEF RowOK, PairOK, AuditRows
<1>2. q \in AuditRows
  BY <1>1 DEF AuditRows
<1>3. /\ q.call = r.call /\ q.requested = 1 /\ q.approver = approver /\ q.via = via
      /\ q.approved = 0 /\ q.declined = 1 /\ q.redeemed = 0 /\ q.expired = 0
  BY <1>1 DEF AuditRows, RowOK, PairOK, RowsSay, MayDecide
<1>4. f \in Entry /\ f.call = e.call /\ f.state = "declined"
  BY <1>1 DEF Entry, RequestState
<1>5. PairOK(f, q)
  BY <1>3, <1>4, PrincipalAssumption DEF PairOK, RowsSay
<1>6. RowOK(q)
  BY <1>2, <1>3, PrincipalAssumption DEF RowOK, PairOK, MayDecide, Entry, Via
<1> QED  BY <1>5, <1>6

LEMMA LinkPoint ==
  ASSUME NEW e, NEW r, PairOK(e, r), NEW f,
         \/ f = [e EXCEPT !.linkUsed = TRUE]
         \/ f = [e EXCEPT !.wrongCodes = @ + 1]
  PROVE  PairOK(f, r)
<1>1. e \in Entry /\ e.wrongCodes + 1 \in Nat
  BY DEF PairOK, Entry
<1>2. CASE f = [e EXCEPT !.linkUsed = TRUE]
  BY <1>1, <1>2 DEF PairOK, Entry
<1>3. CASE f = [e EXCEPT !.wrongCodes = @ + 1]
  BY <1>1, <1>3 DEF PairOK, Entry
<1> QED  BY <1>2, <1>3

-----------------------------------------------------------------------------
(* The whole table. *)

LEMMA UpdateOK ==
  ASSUME NEW table, NEW rows, TableOK(table, rows), NEW id \in Id, NEW table2, NEW rows2,
         DOMAIN table2 \subseteq DOMAIN table \cup {id},
         table2 = [i \in DOMAIN table2 |-> table2[i]],
         rows2 = [i \in Id |-> rows2[i]],
         \A i \in DOMAIN table2 \ {id} : table2[i] = table[i],
         \A i \in Id \ {id} : rows2[i] = rows[i],
         RowOK(rows2[id]),
         id \in DOMAIN table2 => PairOK(table2[id], rows2[id])
  PROVE  TableOK(table2, rows2)
  BY DEF TableOK

LEMMA SweptOK ==
  ASSUME BookInv
  PROVE  TableOK(Swept, SweptAudit)
<1>1. /\ DOMAIN Swept \subseteq Id
      /\ Swept = [id \in DOMAIN Swept |-> Swept[id]]
      /\ SweptAudit = [id \in Id |-> SweptAudit[id]]
  BY DEF BookInv, TableOK, Swept, SweptAudit
<1>2. ASSUME NEW id \in Id
      PROVE  RowOK(SweptAudit[id])
  <2>1. CASE id \in LapsedIds
    <3>1. PairOK(entries[id], audit[id]) /\ RowOK(audit[id])
      BY <2>1 DEF LapsedIds, BookInv, TableOK
    <3>2. SweptAudit[id] = [audit[id] EXCEPT !.expired = @ + 1]
      BY <2>1 DEF SweptAudit
    <3> QED  BY <2>1, <3>1, <3>2, LapsePoint DEF LapsedIds, Lapsed
  <2>2. CASE id \notin LapsedIds
    BY <2>2 DEF SweptAudit, BookInv, TableOK
  <2> QED  BY <2>1, <2>2
<1>3. ASSUME NEW id \in DOMAIN Swept
      PROVE  PairOK(Swept[id], SweptAudit[id])
  <2>1. id \in DOMAIN entries /\ id \in Id
    BY DEF Swept, BookInv, TableOK
  <2>2. PairOK(entries[id], audit[id]) /\ RowOK(audit[id])
    BY <2>1 DEF BookInv, TableOK
  <2>3. CASE id \in LapsedIds
    <3>1. SweptAudit[id] = [audit[id] EXCEPT !.expired = @ + 1]
      BY <2>1, <2>3 DEF SweptAudit
    <3>2. Swept[id] = [entries[id] EXCEPT !.state = "expired"]
      BY <2>3 DEF Swept, LapsedIds
    <3> QED  BY <2>2, <2>3, <3>1, <3>2, LapsePoint DEF LapsedIds, Lapsed
  <2>4. CASE id \notin LapsedIds
    <3>1. SweptAudit[id] = audit[id] /\ Swept[id] = entries[id]
      BY <2>1, <2>4 DEF SweptAudit, Swept, LapsedIds
    <3> QED  BY <2>2, <3>1
  <2> QED  BY <2>3, <2>4
<1> QED  BY <1>1, <1>2, <1>3 DEF TableOK

LEMMA InvInit == BookInit => BookInv
  BY DEF BookInit, BookInv, TableOK, RowOK, AuditRows, NoRows

LEMMA InvSweep ==
  ASSUME BookInv, Sweep
  PROVE  BookInv'
  BY SweptOK DEF BookInv, TableOK, Sweep

LEMMA InvOpenNew ==
  ASSUME BookInv, NEW c \in Call, NEW id \in Id, OpenNew(c, id)
  PROVE  BookInv'
<1>1. TableOK(Swept, SweptAudit)
  BY SweptOK
<1>2. audit[id].requested = 0 /\ now \in Nat /\ now' = now
  BY DEF OpenNew, BookInv
<1>3. id \notin LapsedIds
  BY <1>2 DEF LapsedIds, BookInv, TableOK, PairOK, RowsSay
<1>4. SweptAudit[id] = audit[id] /\ RowOK(audit[id])
  BY <1>3 DEF SweptAudit, BookInv, TableOK
<1>5. audit'[id] = [audit[id] EXCEPT !.call = c, !.requested = @ + 1]
  BY <1>1, <1>4 DEF OpenNew, TableOK
<1>6. PairOK(NewEntry(c), audit'[id]) /\ RowOK(audit'[id])
  BY <1>2, <1>4, <1>5, AskPoint
<1>7. /\ DOMAIN entries' = DOMAIN Swept \cup {id}
      /\ entries' = [i \in DOMAIN entries' |-> entries'[i]]
      /\ entries'[id] = NewEntry(c)
      /\ \A i \in DOMAIN entries' \ {id} : entries'[i] = Swept[i]
  BY DEF OpenNew
<1>8. /\ audit' = [i \in Id |-> audit'[i]]
      /\ \A i \in Id \ {id} : audit'[i] = SweptAudit[i]
  BY <1>1 DEF OpenNew, TableOK
<1>9. TableOK(entries', audit')
  BY <1>1, <1>6, <1>7, <1>8, UpdateOK
<1> QED  BY <1>2, <1>9 DEF BookInv

(* A method that changes one record in the table, and perhaps its rows. *)
LEMMA InvChange ==
  ASSUME BookInv, NEW id \in DOMAIN Swept, NEW f, NEW q, NEW later \in Nat,
         entries' = [Swept EXCEPT ![id] = f],
         audit' = [SweptAudit EXCEPT ![id] = q],
         now' = later,
         PairOK(f, q), RowOK(q)
  PROVE  BookInv'
<1>1. TableOK(Swept, SweptAudit)
  BY SweptOK
<1>2. id \in Id
  BY <1>1 DEF TableOK
<1>3. /\ DOMAIN entries' = DOMAIN Swept
      /\ entries' = [i \in DOMAIN entries' |-> entries'[i]]
      /\ entries'[id] = f
      /\ \A i \in DOMAIN entries' \ {id} : entries'[i] = Swept[i]
  BY <1>1 DEF TableOK
<1>4. /\ audit' = [i \in Id |-> audit'[i]]
      /\ audit'[id] = q
      /\ \A i \in Id \ {id} : audit'[i] = SweptAudit[i]
  BY <1>1, <1>2 DEF TableOK
<1>5. TableOK(entries', audit')
  BY <1>1, <1>2, <1>3, <1>4, UpdateOK
<1> QED  BY <1>5 DEF BookInv

LEMMA InvRedeem ==
  ASSUME BookInv, NEW id \in Id, NEW c \in Call, Redeem(id, c)
  PROVE  BookInv'
<1> DEFINE f == [Swept[id] EXCEPT !.state = "redeemed"]
           q == [SweptAudit[id] EXCEPT !.redeemed = @ + 1]
<1>1. TableOK(Swept, SweptAudit)
  BY SweptOK
<1>2. id \in DOMAIN Swept /\ Swept[id].state = "approved"
  BY DEF Redeem, Redeemable
<1>3. PairOK(f, q) /\ RowOK(q)
  BY <1>1, <1>2, RedeemPoint DEF TableOK
<1>4. entries' = [Swept EXCEPT ![id] = f] /\ audit' = [SweptAudit EXCEPT ![id] = q]
  BY <1>1, <1>2 DEF Redeem, TableOK
<1>5. now' \in Nat
  BY DEF Redeem, BookInv
<1> HIDE DEF f, q
<1> QED  BY <1>2, <1>3, <1>4, <1>5, InvChange

LEMMA InvDecide ==
  ASSUME BookInv, NEW id \in DOMAIN Swept, NEW approver \in Principal, NEW via \in Via,
         NEW decision \in Decision,
         MayDecide(Swept[id], approver, via), Decide(id, approver, decision, via)
  PROVE  BookInv'
<1> DEFINE e == Swept[id]
           r == SweptAudit[id]
<1>1. TableOK(Swept, SweptAudit)
  BY SweptOK
<1>2. id \in Id /\ PairOK(e, r) /\ RowOK(r)
  BY <1>1 DEF TableOK
<1>3. PICK later \in now .. now + ReadSkew : Decide(id, approver, decision, via)!(later)
  BY DEF Decide
<1>4. later \in Nat /\ later + GrantTtl \in Nat /\ now' = later
  BY <1>3, CapAssumption, TtlAssumption DEF BookInv
<1>5. CASE decision = "approve"
  <2> DEFINE f == [e EXCEPT !.state = "approved", !.deadline = later + GrantTtl,
                            !.linkUsed = @ \/ via = "human"]
             q == [r EXCEPT !.approved = @ + 1, !.approver = approver, !.via = via]
  <2>1. PairOK(f, q) /\ RowOK(q)
    BY <1>2, <1>4, ApprovePoint
  <2>2. entries' = [Swept EXCEPT ![id] = f] /\ audit' = [SweptAudit EXCEPT ![id] = q]
    BY <1>1, <1>2, <1>3, <1>5 DEF TableOK
  <2> HIDE DEF f, q
  <2> QED  BY <1>4, <2>1, <2>2, InvChange
<1>6. CASE decision # "approve"
  <2> DEFINE f == [e EXCEPT !.state = "declined", !.linkUsed = @ \/ via = "human"]
             q == [r EXCEPT !.declined = @ + 1, !.approver = approver, !.via = via]
  <2>1. PairOK(f, q) /\ RowOK(q)
    BY <1>2, DeclinePoint
  <2>2. entries' = [Swept EXCEPT ![id] = f] /\ audit' = [SweptAudit EXCEPT ![id] = q]
    BY <1>1, <1>2, <1>3, <1>6 DEF TableOK
  <2> HIDE DEF f, q
  <2> QED  BY <1>4, <2>1, <2>2, InvChange
<1> QED  BY <1>5, <1>6

LEMMA InvLink ==
  ASSUME BookInv, NEW id \in Id, LinkRefused(id) \/ WrongCode(id)
  PROVE  BookInv'
<1>1. TableOK(Swept, SweptAudit)
  BY SweptOK
<1>2. id \in DOMAIN Swept
  BY DEF LinkRefused, WrongCode, LinkLive
<1>3. PICK f : /\ \/ f = [Swept[id] EXCEPT !.linkUsed = TRUE]
                  \/ f = [Swept[id] EXCEPT !.wrongCodes = @ + 1]
               /\ entries' = [Swept EXCEPT ![id] = f]
  <2>1. CASE LinkRefused(id)
    BY <1>1, <1>2, <2>1 DEF LinkRefused, TableOK
  <2>2. CASE WrongCode(id)
    BY <1>1, <1>2, <2>2 DEF WrongCode, TableOK
  <2> QED  BY <2>1, <2>2
<1>4. PairOK(f, SweptAudit[id]) /\ RowOK(SweptAudit[id])
  BY <1>1, <1>2, <1>3, LinkPoint DEF TableOK
<1>5. audit' = [SweptAudit EXCEPT ![id] = SweptAudit[id]] /\ now' = now /\ now \in Nat
  BY <1>1 DEF LinkRefused, WrongCode, BookInv, TableOK
<1> QED  BY <1>2, <1>3, <1>4, <1>5, InvChange

LEMMA InvNext ==
  ASSUME BookInv, [BookNext]_bookVars
  PROVE  BookInv'
<1>1. ASSUME NEW c \in Call, OpenHeld(c) PROVE BookInv'
  BY <1>1, InvSweep DEF OpenHeld
<1>2. ASSUME NEW c \in Call, NEW id \in Id, OpenNew(c, id) PROVE BookInv'
  BY <1>2, InvOpenNew
<1>3. ASSUME NEW id \in Id, NEW c \in Call, Redeem(id, c) PROVE BookInv'
  BY <1>3, InvRedeem
<1>4. ASSUME NEW id \in Id, NEW c \in Call, RedeemRefused(id, c) PROVE BookInv'
  BY <1>4, InvSweep DEF RedeemRefused
<1>5. ASSUME NEW id \in Id, NEW a \in Delegate, NEW d \in Decision, DecideDelegated(id, a, d)
      PROVE  BookInv'
  BY <1>5, InvDecide, PrincipalAssumption DEF DecideDelegated, DelegatedDecides, Via
<1>6. ASSUME NEW id \in Id, NEW a \in Delegate, DelegatedRefused(id, a) PROVE BookInv'
  BY <1>6, InvSweep DEF DelegatedRefused
<1>7. ASSUME NEW id \in Id, NEW d \in Decision, DecideByLink(id, d) PROVE BookInv'
  BY <1>7, InvDecide, PrincipalAssumption DEF DecideByLink, LinkDecides, LinkLive, Via
<1>8. ASSUME NEW id \in Id, LinkRefused(id) \/ WrongCode(id) PROVE BookInv'
  BY <1>8, InvLink
<1>9. ASSUME NEW id \in Id, LinkDead(id) PROVE BookInv'
  BY <1>9, InvSweep DEF LinkDead
<1>10. CASE Tick
  BY <1>10 DEF Tick, BookInv, TableOK
<1>11. CASE UNCHANGED bookVars
  BY <1>11 DEF bookVars, BookInv, TableOK
<1> QED
  BY <1>1, <1>2, <1>3, <1>4, <1>5, <1>6, <1>7, <1>8, <1>9, <1>10, <1>11 DEF BookNext

(* The rows and the table agree, whatever the constants. *)
THEOREM InvHolds == BookSpec => []BookInv
<1>1. BookInv /\ [BookNext]_bookVars => BookInv'
  BY InvNext
<1> QED  BY InvInit, <1>1, PTL DEF BookSpec

(* The table holds records, keyed by request, and the rows are counts: the
   type invariant of ApprovalBook. *)
THEOREM TypeCorrect == BookSpec => []BookTypeOK
<1>1. BookInv => BookTypeOK
  BY DEF BookInv, TableOK, PairOK, RowOK, BookTypeOK
<1> QED  BY InvHolds, <1>1, PTL

(* No record is ever in a state its audit rows do not say (book.ts #event). *)
THEOREM RowsAlwaysAgree == BookSpec => []RowsAgree
<1>1. BookInv => RowsAgree
  BY DEF BookInv, TableOK, PairOK, RowsAgree
<1> QED  BY InvHolds, <1>1, PTL

(* A request is decided at most once, ends at most one way, and its grant is
   redeemed at most once, its record dropped or not (APR-3, APR-4). *)
THEOREM OneOutcomeAlways == BookSpec => []OneOutcome
<1>1. BookInv => OneOutcome
  BY DEF BookInv, TableOK, RowOK, OneOutcome
<1> QED  BY InvHolds, <1>1, PTL

(* No decision is the requester's own, under any of its names, and none that
   needs a human is a delegate's (APR-5, APR-6, APR-21). *)
THEOREM DecidedByAnotherAlways == BookSpec => []DecidedByAnother
<1>1. BookInv => DecidedByAnother
  BY DEF BookInv, TableOK, RowOK, DecidedByAnother, SamePerson
<1> QED  BY InvHolds, <1>1, PTL

-----------------------------------------------------------------------------
(* What a sweep leaves alone. *)
LEMMA SweptSame ==
  ASSUME BookInv
  PROVE  /\ DOMAIN Swept \subseteq DOMAIN entries
         /\ \A id \in Id : LET r == audit[id]  q == SweptAudit[id] IN
              /\ q.call = r.call /\ q.approver = r.approver /\ q.via = r.via
              /\ q.requested = r.requested /\ q.approved = r.approved
              /\ q.declined = r.declined /\ q.redeemed = r.redeemed
         /\ \A id \in DOMAIN Swept : LET e == entries[id]  f == Swept[id] IN
              /\ f.call = e.call /\ f.createdAt = e.createdAt /\ f.deadline = e.deadline
              /\ f.wrongCodes = e.wrongCodes /\ f.linkUsed = e.linkUsed
              /\ f.state # "expired" => f.state = e.state /\ ~Lapsed(e)
<1>1. ASSUME NEW id \in Id
      PROVE  LET r == audit[id]  q == SweptAudit[id] IN
              /\ q.call = r.call /\ q.approver = r.approver /\ q.via = r.via
              /\ q.requested = r.requested /\ q.approved = r.approved
              /\ q.declined = r.declined /\ q.redeemed = r.redeemed
  <2>1. audit[id] \in AuditRows
    BY DEF BookInv, TableOK, RowOK
  <2> QED  BY <2>1 DEF SweptAudit, AuditRows
<1>2. ASSUME NEW id \in DOMAIN Swept
      PROVE  LET e == entries[id]  f == Swept[id] IN
              /\ f.call = e.call /\ f.createdAt = e.createdAt /\ f.deadline = e.deadline
              /\ f.wrongCodes = e.wrongCodes /\ f.linkUsed = e.linkUsed
              /\ f.state # "expired" => f.state = e.state /\ ~Lapsed(e)
  <2>1. id \in DOMAIN entries /\ entries[id] \in Entry
    BY DEF BookInv, TableOK, PairOK, Swept
  <2>2. CASE Lapsed(entries[id])
    <3>1. Swept[id] = [entries[id] EXCEPT !.state = "expired"]
      BY <2>2 DEF Swept
    <3> QED  BY <2>1, <3>1 DEF Entry
  <2>3. CASE ~Lapsed(entries[id])
    BY <2>3 DEF Swept
  <2> QED  BY <2>2, <2>3
<1> QED  BY <1>1, <1>2 DEF Swept

(* Every step of the book is a sweep and at most one change more.  Sorted by
   what it does to a request's rows, this is the case split the action
   properties and the refinement share. *)
LEMMA StepCases ==
  ASSUME BookInv, BookNext
  PROVE  \/ entries' = Swept /\ audit' = SweptAudit /\ now' = now
         \/ UNCHANGED <<entries, audit>>
         \/ \E id \in Id, c \in Call : OpenNew(c, id)
         \/ \E id \in Id, c \in Call : Redeem(id, c)
         \/ \E id \in DOMAIN Swept, d \in Decision :
              \/ \E a \in Delegate : MayDecide(Swept[id], a, "delegated") /\ Decide(id, a, d, "delegated")
              \/ LinkDecides(id) /\ Decide(id, HumanApprover, d, "human")
         \/ \E id \in Id : LinkRefused(id) \/ WrongCode(id)
  BY DEF BookNext, OpenHeld, Sweep, RedeemRefused, DecideDelegated, DelegatedDecides,
         DelegatedRefused, DecideByLink, LinkDecides, LinkLive, LinkDead, Tick

(* The rows a decision writes. *)
LEMMA DecideRows ==
  ASSUME BookInv, NEW id \in DOMAIN Swept, NEW approver, NEW via, NEW d \in Decision,
         Decide(id, approver, d, via)
  PROVE  /\ audit'[id].via = via /\ audit'[id].approver = approver
         /\ audit'[id].call = SweptAudit[id].call
         /\ audit'[id].requested = SweptAudit[id].requested
         /\ audit'[id].redeemed = SweptAudit[id].redeemed
         /\ audit'[id].expired = SweptAudit[id].expired
         /\ \/ /\ audit'[id].approved = SweptAudit[id].approved + 1
               /\ audit'[id].declined = SweptAudit[id].declined
            \/ /\ audit'[id].declined = SweptAudit[id].declined + 1
               /\ audit'[id].approved = SweptAudit[id].approved
         /\ audit' = [i \in Id |-> audit'[i]]
         /\ \A i \in Id \ {id} : audit'[i] = SweptAudit[i]
<1>1. /\ SweptAudit = [i \in Id |-> SweptAudit[i]] /\ id \in Id
      /\ SweptAudit[id] \in AuditRows
  BY SweptOK DEF TableOK, RowOK
<1>2. CASE d = "approve"
  <2>1. audit' = [SweptAudit EXCEPT ![id].approved = @ + 1, ![id].approver = approver, ![id].via = via]
    BY <1>2 DEF Decide
  <2> QED  BY <1>1, <2>1 DEF AuditRows
<1>3. CASE d # "approve"
  <2>1. audit' = [SweptAudit EXCEPT ![id].declined = @ + 1, ![id].approver = approver, ![id].via = via]
    BY <1>3 DEF Decide
  <2> QED  BY <1>1, <2>1 DEF AuditRows
<1> QED  BY <1>2, <1>3

SameRows(id) ==
  /\ audit'[id].via = SweptAudit[id].via
  /\ Decisions(audit'[id]) = Decisions(SweptAudit[id])

LEMMA DeadLinkRows ==
  ASSUME BookInv, BookNext, NEW id \in DOMAIN entries, LinkEnded(entries[id])
  PROVE  audit'[id].via = "human" => Decisions(audit'[id]) = Decisions(audit[id])
<1>1. /\ id \in Id /\ SweptAudit[id].via = audit[id].via
      /\ Decisions(SweptAudit[id]) = Decisions(audit[id])
      /\ TableOK(Swept, SweptAudit)
  BY SweptOK, SweptSame DEF BookInv, TableOK, Decisions
<1>2. ~LinkLive(id)
  BY SweptSame, CapAssumption DEF LinkLive, LinkEnded, BookInv, TableOK, PairOK, Entry
<1>3. ASSUME NEW i \in Id, NEW c \in Call, OpenNew(c, i)
      PROVE  SameRows(id)
  <2>1. i # id
    BY <1>3 DEF OpenNew, BookInv, TableOK, PairOK, RowsSay
  <2> QED  BY <1>1, <1>3, <2>1 DEF OpenNew, TableOK, SameRows
<1>4. ASSUME NEW i \in Id, NEW c \in Call, Redeem(i, c)
      PROVE  SameRows(id)
  BY <1>1, <1>4 DEF Redeem, TableOK, RowOK, AuditRows, SameRows, Decisions
<1>5. ASSUME NEW i \in DOMAIN Swept, NEW d \in Decision,
             NEW a \in Delegate, Decide(i, a, d, "delegated")
      PROVE  audit'[id].via = "delegated" \/ SameRows(id)
  BY <1>1, <1>5, DecideRows DEF SameRows
<1>6. ASSUME NEW i \in DOMAIN Swept, NEW d \in Decision,
             LinkDecides(i), Decide(i, HumanApprover, d, "human")
      PROVE  SameRows(id)
  <2>1. i # id
    BY <1>2, <1>6 DEF LinkDecides
  <2> QED  BY <1>1, <1>6, <2>1, DecideRows DEF SameRows
<1>7. ASSUME NEW i \in Id, LinkRefused(i) \/ WrongCode(i)
      PROVE  SameRows(id)
  BY <1>1, <1>7 DEF LinkRefused, WrongCode, SameRows
<1>8. CASE UNCHANGED <<entries, audit>>
  BY <1>8
<1>9. CASE audit' = SweptAudit
  BY <1>1, <1>9
<1> QED  BY <1>1, <1>3, <1>4, <1>5, <1>6, <1>7, <1>8, <1>9, StepCases DEF SameRows

LEMMA DeadLinkHeld ==
  ASSUME BookInv, BookNext, NEW id \in DOMAIN entries, LinkEnded(entries[id]),
         id \in DOMAIN entries'
  PROVE  LinkEnded(entries'[id])
<1>1. CASE entries' = entries
  BY <1>1
<1>2. /\ \A i \in DOMAIN Swept : Swept[i] \in Entry
      /\ id \in DOMAIN Swept => LinkEnded(Swept[id])
      /\ Swept = [i \in DOMAIN Swept |-> Swept[i]]
  BY SweptOK, SweptSame DEF TableOK, PairOK, LinkEnded
<1>3. CASE entries' = Swept
  BY <1>2, <1>3
<1>4. ASSUME NEW i \in Id, NEW c \in Call, OpenNew(c, i)
      PROVE  LinkEnded(entries'[id])
  <2>1. i # id
    BY <1>4 DEF OpenNew, BookInv, TableOK, PairOK, RowsSay
  <2> QED  BY <1>2, <1>4, <2>1 DEF OpenNew
<1>5. ASSUME NEW i \in DOMAIN Swept, NEW f, entries' = [Swept EXCEPT ![i] = f],
             LinkEnded(Swept[i]) => LinkEnded(f)
      PROVE  LinkEnded(entries'[id])
  BY <1>2, <1>5
<1>6. ASSUME NEW i \in Id, NEW c \in Call, Redeem(i, c)
      PROVE  LinkEnded(entries'[id])
  <2> DEFINE f == [Swept[i] EXCEPT !.state = "redeemed"]
  <2>1. i \in DOMAIN Swept
    BY <1>6 DEF Redeem, Redeemable
  <2>2. entries' = [Swept EXCEPT ![i] = f] /\ f.linkUsed = Swept[i].linkUsed /\ f.wrongCodes = Swept[i].wrongCodes
    BY <1>2, <1>6, <2>1 DEF Redeem, Entry
  <2> HIDE DEF f
  <2> QED  BY <1>5, <2>1, <2>2 DEF LinkEnded
<1>7. ASSUME NEW i \in DOMAIN Swept, NEW d \in Decision, NEW a, NEW via, Decide(i, a, d, via)
      PROVE  LinkEnded(entries'[id])
  <2>1. PICK later \in now .. now + ReadSkew : Decide(i, a, d, via)!(later)
    BY <1>7 DEF Decide
  <2> DEFINE u == Swept[i].linkUsed \/ via = "human"
  <2>2. CASE d = "approve"
    <3> DEFINE f == [Swept[i] EXCEPT !.state = "approved", !.deadline = later + GrantTtl,
                                     !.linkUsed = @ \/ via = "human"]
    <3>1. f.linkUsed = u /\ f.wrongCodes = Swept[i].wrongCodes
      BY <1>2 DEF Entry
    <3>2. entries' = [Swept EXCEPT ![i] = f]
      BY <1>2, <2>1, <2>2
    <3> HIDE DEF f
    <3> QED  BY <1>5, <3>1, <3>2 DEF LinkEnded
  <2>3. CASE d # "approve"
    <3> DEFINE f == [Swept[i] EXCEPT !.state = "declined", !.linkUsed = @ \/ via = "human"]
    <3>1. f.linkUsed = u /\ f.wrongCodes = Swept[i].wrongCodes
      BY <1>2 DEF Entry
    <3>2. entries' = [Swept EXCEPT ![i] = f]
      BY <1>2, <2>1, <2>3
    <3> HIDE DEF f
    <3> QED  BY <1>5, <3>1, <3>2 DEF LinkEnded
  <2> QED  BY <2>2, <2>3
<1>8. ASSUME NEW i \in Id, LinkRefused(i)
      PROVE  LinkEnded(entries'[id])
  <2> DEFINE f == [Swept[i] EXCEPT !.linkUsed = TRUE]
  <2>1. i \in DOMAIN Swept
    BY <1>8 DEF LinkRefused, LinkLive
  <2>2. entries' = [Swept EXCEPT ![i] = f] /\ f.linkUsed = TRUE
    BY <1>2, <1>8, <2>1 DEF LinkRefused, Entry
  <2> HIDE DEF f
  <2> QED  BY <1>5, <2>1, <2>2 DEF LinkEnded
<1>9. ASSUME NEW i \in Id, WrongCode(i)
      PROVE  LinkEnded(entries'[id])
  <2> DEFINE f == [Swept[i] EXCEPT !.wrongCodes = @ + 1]
  <2>1. i \in DOMAIN Swept /\ Swept[i] \in Entry
    BY <1>2, <1>9 DEF WrongCode, LinkLive
  <2>2. /\ entries' = [Swept EXCEPT ![i] = f] /\ f.linkUsed = Swept[i].linkUsed
        /\ f.wrongCodes = Swept[i].wrongCodes + 1
    BY <1>9, <2>1 DEF WrongCode, Entry
  <2>3. Swept[i].wrongCodes \in Nat /\ MaxWrongCodes \in Nat
    BY <2>1, CapAssumption DEF Entry
  <2> HIDE DEF f
  <2>4. LinkEnded(Swept[i]) => LinkEnded(f)
    BY <2>2, <2>3 DEF LinkEnded
  <2> QED  BY <1>5, <2>1, <2>2, <2>4
<1> QED  BY <1>1, <1>3, <1>4, <1>6, <1>7, <1>8, <1>9, StepCases

(* A link burned by wrong codes, or spent by a decision or a refused one, stays
   dead, and decides nothing (APR-8, APR-27). *)
THEOREM DeadLinksStayDead == BookSpec => DeadLinkDecidesNothing
<1>1. BookInv /\ [BookNext]_bookVars =>
        [\A id \in DOMAIN entries :
           LinkEnded(entries[id]) =>
             /\ id \in DOMAIN entries' => LinkEnded(entries'[id])
             /\ audit'[id].via = "human" => Decisions(audit'[id]) = Decisions(audit[id])]_bookVars
  BY DeadLinkRows, DeadLinkHeld
<1> QED  BY InvHolds, <1>1, PTL DEF BookSpec, DeadLinkDecidesNothing

-----------------------------------------------------------------------------
(* The book's limits: what a sweep may drop, and how much the table and an
   approver's queue hold. *)

(* What one step does to the records, seen from the swept table. *)
LEMMA TableStep ==
  ASSUME BookInv, BookNext
  PROVE  \/ entries' = entries
         \/ entries' = Swept
         \/ \E id \in Id, c \in Call :
              /\ OpensNew(c)
              /\ entries' = [i \in DOMAIN Swept \cup {id} |-> IF i = id THEN NewEntry(c) ELSE Swept[i]]
         \/ \E id \in DOMAIN Swept : \E f :
              /\ entries' = [Swept EXCEPT ![id] = f]
              /\ f.call = Swept[id].call /\ f.createdAt = Swept[id].createdAt
              /\ f.state = "pending" => Swept[id].state = "pending" /\ f.deadline = Swept[id].deadline
              /\ f.state = "approved" =>
                   \/ Swept[id].state = "approved" /\ f.deadline = Swept[id].deadline
                   \/ /\ Swept[id].state = "pending"
                      /\ \E later \in now .. now + ReadSkew : f.deadline = later + GrantTtl
<1> DEFINE Change(id, f) ==
              /\ entries' = [Swept EXCEPT ![id] = f]
              /\ f.call = Swept[id].call /\ f.createdAt = Swept[id].createdAt
              /\ f.state = "pending" => Swept[id].state = "pending" /\ f.deadline = Swept[id].deadline
              /\ f.state = "approved" =>
                   \/ Swept[id].state = "approved" /\ f.deadline = Swept[id].deadline
                   \/ /\ Swept[id].state = "pending"
                      /\ \E later \in now .. now + ReadSkew : f.deadline = later + GrantTtl
<1>0. /\ \A id \in DOMAIN Swept : Swept[id] \in Entry
      /\ Swept = [id \in DOMAIN Swept |-> Swept[id]]
  BY SweptOK DEF TableOK, PairOK
<1>1. ASSUME NEW id \in Id, NEW c \in Call, Redeem(id, c)
      PROVE  id \in DOMAIN Swept /\ \E f : Change(id, f)
  <2> DEFINE f == [Swept[id] EXCEPT !.state = "redeemed"]
  <2>1. id \in DOMAIN Swept
    BY <1>1 DEF Redeem, Redeemable
  <2>2. /\ f.call = Swept[id].call /\ f.createdAt = Swept[id].createdAt /\ f.state = "redeemed"
        /\ entries' = [Swept EXCEPT ![id] = f]
    BY <1>0, <1>1, <2>1 DEF Redeem, Entry
  <2> QED  BY <2>1, <2>2
<1>2. ASSUME NEW id \in DOMAIN Swept, NEW d \in Decision, NEW a, NEW via, Decide(id, a, d, via),
             Swept[id].state = "pending"
      PROVE  \E f : Change(id, f)
  <2>1. PICK later \in now .. now + ReadSkew : Decide(id, a, d, via)!(later)
    BY <1>2 DEF Decide
  <2>2. CASE d = "approve"
    <3> DEFINE f == [Swept[id] EXCEPT !.state = "approved", !.deadline = later + GrantTtl,
                                      !.linkUsed = @ \/ via = "human"]
    <3>1. /\ f.call = Swept[id].call /\ f.createdAt = Swept[id].createdAt /\ f.state = "approved"
          /\ f.deadline = later + GrantTtl
      BY <1>0 DEF Entry
    <3>2. entries' = [Swept EXCEPT ![id] = f]
      BY <1>0, <2>1, <2>2
    <3> HIDE DEF f
    <3> QED  BY <1>2, <3>1, <3>2
  <2>3. CASE d # "approve"
    <3> DEFINE f == [Swept[id] EXCEPT !.state = "declined", !.linkUsed = @ \/ via = "human"]
    <3>1. f.call = Swept[id].call /\ f.createdAt = Swept[id].createdAt /\ f.state = "declined"
      BY <1>0 DEF Entry
    <3>2. entries' = [Swept EXCEPT ![id] = f]
      BY <1>0, <2>1, <2>3
    <3> HIDE DEF f
    <3> QED  BY <3>1, <3>2
  <2> QED  BY <2>2, <2>3
<1>3. ASSUME NEW id \in Id, LinkRefused(id)
      PROVE  id \in DOMAIN Swept /\ \E f : Change(id, f)
  <2> DEFINE f == [Swept[id] EXCEPT !.linkUsed = TRUE]
  <2>1. id \in DOMAIN Swept
    BY <1>3 DEF LinkRefused, LinkLive
  <2>2. /\ f.call = Swept[id].call /\ f.createdAt = Swept[id].createdAt
        /\ f.state = Swept[id].state /\ f.deadline = Swept[id].deadline
    BY <1>0, <2>1 DEF Entry
  <2>3. entries' = [Swept EXCEPT ![id] = f]
    BY <1>0, <1>3, <2>1 DEF LinkRefused
  <2> HIDE DEF f
  <2> QED  BY <2>1, <2>2, <2>3
<1>4. ASSUME NEW id \in Id, WrongCode(id)
      PROVE  id \in DOMAIN Swept /\ \E f : Change(id, f)
  <2> DEFINE f == [Swept[id] EXCEPT !.wrongCodes = @ + 1]
  <2>1. id \in DOMAIN Swept
    BY <1>4 DEF WrongCode, LinkLive
  <2>2. /\ f.call = Swept[id].call /\ f.createdAt = Swept[id].createdAt
        /\ f.state = Swept[id].state /\ f.deadline = Swept[id].deadline
    BY <1>0, <2>1 DEF Entry
  <2>3. entries' = [Swept EXCEPT ![id] = f]
    BY <1>0, <1>4, <2>1 DEF WrongCode
  <2> HIDE DEF f
  <2> QED  BY <2>1, <2>2, <2>3
<1>5. \A id \in DOMAIN Swept : \A a, via : MayDecide(Swept[id], a, via) => Swept[id].state = "pending"
  BY DEF MayDecide
<1>6. (\E id \in DOMAIN Swept : \E f : Change(id, f)) \/ entries' = entries \/ entries' = Swept
        \/ \E id \in Id, c \in Call : OpenNew(c, id)
  <2> HIDE DEF Change
  <2> QED  BY <1>1, <1>2, <1>3, <1>4, <1>5, StepCases DEF LinkDecides
<1> QED  BY <1>6 DEF OpenNew

-----------------------------------------------------------------------------
(* Deadlines.  A grant is made before its request's deadline, by the sweep's
   reading of the clock, and its lifetime starts at most ReadSkew after that. *)
DeadlineInv ==
  \A id \in DOMAIN entries : LET e == entries[id] IN
    /\ e.state = "pending" => e.deadline <= e.createdAt + RequestTtl
    /\ e.state = "approved" => e.deadline < e.createdAt + RequestTtl + GrantTtl + ReadSkew

LEMMA DeadlineStep ==
  ASSUME BookInv, DeadlineInv, BookNext
  PROVE  DeadlineInv'
<1>1. ASSUME NEW id \in DOMAIN Swept
      PROVE  LET e == Swept[id] IN
               /\ e \in Entry
               /\ e.state = "pending" => e.deadline <= e.createdAt + RequestTtl /\ now < e.deadline
               /\ e.state = "approved" => e.deadline < e.createdAt + RequestTtl + GrantTtl + ReadSkew
  <2>1. id \in DOMAIN entries /\ Swept[id] \in Entry /\ entries[id] \in Entry /\ now \in Nat
    BY SweptOK, SweptSame DEF TableOK, PairOK, BookInv
  <2> QED  BY <2>1, SweptSame DEF DeadlineInv, Lapsed, Entry
<1>2. CASE entries' = entries
  BY <1>2 DEF DeadlineInv
<1>3. CASE entries' = Swept
  BY <1>1, <1>3 DEF DeadlineInv
<1>4. ASSUME NEW id \in Id, NEW c \in Call,
             entries' = [i \in DOMAIN Swept \cup {id} |-> IF i = id THEN NewEntry(c) ELSE Swept[i]]
      PROVE  DeadlineInv'
  <2>1. NewEntry(c).state = "pending" /\ NewEntry(c).deadline = NewEntry(c).createdAt + RequestTtl
        /\ NewEntry(c).deadline \in Nat
    BY TtlAssumption DEF NewEntry, BookInv
  <2> QED  BY <1>1, <1>4, <2>1 DEF DeadlineInv
<1>5. ASSUME NEW id \in DOMAIN Swept, NEW f,
             entries' = [Swept EXCEPT ![id] = f],
             f.createdAt = Swept[id].createdAt,
             f.state = "pending" => Swept[id].state = "pending" /\ f.deadline = Swept[id].deadline,
             f.state = "approved" =>
               \/ Swept[id].state = "approved" /\ f.deadline = Swept[id].deadline
               \/ /\ Swept[id].state = "pending"
                  /\ \E later \in now .. now + ReadSkew : f.deadline = later + GrantTtl
      PROVE  DeadlineInv'
  <2>1. /\ DOMAIN entries' = DOMAIN Swept /\ entries'[id] = f
        /\ \A i \in DOMAIN Swept \ {id} : entries'[i] = Swept[i]
    BY <1>5, SweptOK DEF TableOK
  <2>2. f.state = "pending" => f.deadline <= f.createdAt + RequestTtl
    BY <1>1, <1>5
  <2>3. f.state = "approved" => f.deadline < f.createdAt + RequestTtl + GrantTtl + ReadSkew
    BY <1>1, <1>5, TtlAssumption, CapAssumption DEF BookInv, Entry
  <2> QED  BY <1>1, <2>1, <2>2, <2>3 DEF DeadlineInv
<1> QED  BY <1>2, <1>3, <1>4, <1>5, TableStep

LEMMA DropStep ==
  ASSUME BookInv, DeadlineInv, BookNext, NEW id \in DOMAIN entries \ DOMAIN entries'
  PROVE  /\ entries[id].state = "pending" => now >= entries[id].deadline
         /\ entries[id].state = "approved" => now + ReadSkew > entries[id].deadline
<1>1. id \notin DOMAIN Swept
  BY TableStep, SweptOK DEF TableOK
<1>2. now >= entries[id].createdAt + RequestTtl + GrantTtl
  BY <1>1 DEF Swept, Spent
<1>3. entries[id] \in Entry /\ now \in Nat
  BY DEF BookInv, TableOK, PairOK
<1> QED  BY <1>2, <1>3, TtlAssumption, CapAssumption DEF DeadlineInv, Entry

(* A sweep never drops a request still to be decided; and a grant still to be
   used only in the last moments of its life, fewer than #decide's second reading
   of the clock came after the sweep's (book.ts:131, 257, APR-12). *)
THEOREM NothingLiveDropped == BookSpec => NothingLiveIsDropped
<1>1. BookInit => DeadlineInv
  BY DEF BookInit, DeadlineInv
<1>2. BookInv /\ DeadlineInv /\ [BookNext]_bookVars => DeadlineInv'
  BY DeadlineStep DEF bookVars, DeadlineInv
<1>3. BookInv /\ DeadlineInv /\ [BookNext]_bookVars =>
        [\A id \in DOMAIN entries \ DOMAIN entries' : LET e == entries[id] IN
           /\ e.state = "pending" => now >= e.deadline
           /\ e.state = "approved" => now + ReadSkew > e.deadline]_bookVars
  BY DropStep
<1> QED  BY InvHolds, <1>1, <1>2, <1>3, PTL DEF BookSpec, NothingLiveIsDropped

-----------------------------------------------------------------------------
(* Counting. *)
CountInv == IsFiniteSet(DOMAIN entries) /\ Bounded

LEMMA CountKept ==
  ASSUME CountInv, NEW table,
         DOMAIN table \subseteq DOMAIN entries,
         \A id \in DOMAIN table :
           /\ table[id].call = entries[id].call
           /\ table[id].state = "pending" => entries[id].state = "pending",
         entries' = table
  PROVE  CountInv'
<1>1. IsFiniteSet(DOMAIN entries') /\ Cardinality(DOMAIN entries') <= Cardinality(DOMAIN entries)
  BY FS_Subset DEF CountInv
<1>2. /\ Cardinality(DOMAIN entries) \in Nat /\ Cardinality(DOMAIN entries') \in Nat
      /\ Cardinality(DOMAIN entries) <= MaxPending /\ MaxPending \in Nat
  BY <1>1, FS_CardinalityType, CapAssumption DEF CountInv, Bounded
<1>3. ASSUME NEW p \in Principal
      PROVE  /\ Pending(p)' \subseteq Pending(p)
             /\ Cardinality(Pending(p)') <= MaxPendingPerPrincipal
             /\ \A i, j \in Pending(p)' : entries'[i].call = entries'[j].call => i = j
  <2>1. Pending(p)' \subseteq Pending(p)
    BY DEF Pending
  <2>2. IsFiniteSet(Pending(p)) /\ IsFiniteSet(Pending(p)')
    BY <1>1, FS_Subset DEF Pending, CountInv
  <2>3. Cardinality(Pending(p)') <= Cardinality(Pending(p))
    BY <2>1, <2>2, FS_Subset
  <2>4. Cardinality(Pending(p)) \in Nat /\ Cardinality(Pending(p)') \in Nat
    BY <2>2, FS_CardinalityType
  <2>5. Cardinality(Pending(p)') <= MaxPendingPerPrincipal
    BY <2>3, <2>4, CapAssumption DEF CountInv, Bounded
  <2>6. \A i \in Pending(p)' : entries'[i].call = entries[i].call
    BY DEF Pending
  <2> QED  BY <2>1, <2>5, <2>6 DEF CountInv, Bounded
<1> QED  BY <1>1, <1>2, <1>3 DEF CountInv, Bounded

(* The swept table seen as a table of its own: it counts no more. *)
LEMMA CountSwept ==
  ASSUME BookInv, CountInv
  PROVE  /\ IsFiniteSet(DOMAIN Swept) /\ Cardinality(DOMAIN Swept) <= MaxPending
         /\ \A p \in Principal : PendingOf(p) \subseteq Pending(p) /\ IsFiniteSet(PendingOf(p))
<1>1. /\ DOMAIN Swept \subseteq DOMAIN entries
      /\ \A id \in DOMAIN Swept : /\ Swept[id].call = entries[id].call
                                  /\ Swept[id].state = "pending" => entries[id].state = "pending"
  BY SweptSame
<1>2. IsFiniteSet(DOMAIN Swept) /\ Cardinality(DOMAIN Swept) <= Cardinality(DOMAIN entries)
  BY <1>1, FS_Subset DEF CountInv
<1>3. Cardinality(DOMAIN Swept) \in Nat /\ Cardinality(DOMAIN entries) \in Nat
  BY <1>2, FS_CardinalityType DEF CountInv
<1>4. \A p \in Principal : PendingOf(p) \subseteq Pending(p) /\ IsFiniteSet(PendingOf(p))
  BY <1>1, <1>2, FS_Subset DEF PendingOf, Pending
<1> QED  BY <1>2, <1>3, <1>4, CapAssumption DEF CountInv, Bounded

LEMMA CountOpened ==
  ASSUME BookInv, CountInv, NEW id \in Id, NEW c \in Call, OpensNew(c),
         entries' = [i \in DOMAIN Swept \cup {id} |-> IF i = id THEN NewEntry(c) ELSE Swept[i]]
  PROVE  CountInv'
<1>1. /\ DOMAIN entries' = DOMAIN Swept \cup {id}
      /\ entries'[id] = NewEntry(c)
      /\ \A i \in DOMAIN entries' \ {id} : i \in DOMAIN Swept /\ entries'[i] = Swept[i]
      /\ NewEntry(c).call = c
  BY DEF NewEntry
<1>2. /\ PendingFor(c) = {}
      /\ ~(Cardinality(PendingOf(c.principal)) >= MaxPendingPerPrincipal)
      /\ ~(Cardinality(DOMAIN Swept) >= MaxPending)
  BY DEF OpensNew, TooMany
<1>3. IsFiniteSet(DOMAIN entries') /\ Cardinality(DOMAIN entries') <= MaxPending
  <2>1. IsFiniteSet(DOMAIN Swept) /\ Cardinality(DOMAIN Swept) \in Nat
    BY CountSwept, FS_CardinalityType
  <2>2. IsFiniteSet(DOMAIN entries')
    BY <1>1, <2>1, FS_AddElement
  <2>3. Cardinality(DOMAIN entries') <= Cardinality(DOMAIN Swept) + 1
    <3>1. CASE id \in DOMAIN Swept
      <4>1. DOMAIN entries' = DOMAIN Swept
        BY <1>1, <3>1
      <4> QED  BY <2>1, <4>1
    <3>2. CASE id \notin DOMAIN Swept
      <4>1. Cardinality(DOMAIN Swept \cup {id}) = Cardinality(DOMAIN Swept) + 1
        BY <2>1, <3>2, FS_AddElement
      <4> QED  BY <1>1, <2>1, <4>1
    <3> QED  BY <3>1, <3>2
  <2>4. Cardinality(DOMAIN entries') \in Nat
    BY <2>2, FS_CardinalityType
  <2> QED  BY <1>2, <2>1, <2>2, <2>3, <2>4, CapAssumption
<1>4. ASSUME NEW p \in Principal, p # c.principal
      PROVE  /\ Cardinality(Pending(p)') <= MaxPendingPerPrincipal
             /\ \A i, j \in Pending(p)' : entries'[i].call = entries'[j].call => i = j
  <2>1. Pending(p)' \subseteq PendingOf(p)
    BY <1>1, <1>4 DEF Pending, PendingOf
  <2>2. Pending(p)' \subseteq Pending(p) /\ IsFiniteSet(Pending(p))
    BY <2>1, CountSwept, FS_Subset DEF Pending, CountInv
  <2>3. Cardinality(Pending(p)') <= Cardinality(Pending(p)) /\ IsFiniteSet(Pending(p)')
    BY <2>2, FS_Subset
  <2>4. Cardinality(Pending(p)) \in Nat /\ Cardinality(Pending(p)') \in Nat
    BY <2>2, <2>3, FS_CardinalityType
  <2>5. \A i \in Pending(p)' : entries'[i].call = entries[i].call
    BY <1>1, <1>4, SweptSame DEF Pending
  <2>6. /\ Cardinality(Pending(p)) <= MaxPendingPerPrincipal
        /\ \A i, j \in Pending(p) : entries[i].call = entries[j].call => i = j
    BY DEF CountInv, Bounded
  <2>7. Cardinality(Pending(p)') <= MaxPendingPerPrincipal
    BY <2>3, <2>4, <2>6, CapAssumption
  <2>8. \A i, j \in Pending(p)' : entries'[i].call = entries'[j].call => i = j
    BY <2>2, <2>5, <2>6
  <2> QED  BY <2>7, <2>8
<1>5. ASSUME NEW p \in Principal, p = c.principal
      PROVE  /\ Cardinality(Pending(p)') <= MaxPendingPerPrincipal
             /\ \A i, j \in Pending(p)' : entries'[i].call = entries'[j].call => i = j
  <2>1. Pending(p)' \subseteq PendingOf(p) \cup {id}
    BY <1>1 DEF Pending, PendingOf
  <2>2. IsFiniteSet(PendingOf(p)) /\ PendingOf(p) \subseteq Pending(p)
    BY CountSwept
  <2>3. /\ IsFiniteSet(PendingOf(p) \cup {id})
        /\ Cardinality(PendingOf(p) \cup {id}) <= Cardinality(PendingOf(p)) + 1
        /\ Cardinality(PendingOf(p)) \in Nat
    <3>1. IsFiniteSet(PendingOf(p))
      BY <2>2
    <3>2. Cardinality(PendingOf(p)) \in Nat
      BY <3>1, FS_CardinalityType
    <3>3. /\ IsFiniteSet(PendingOf(p) \cup {id})
          /\ Cardinality(PendingOf(p) \cup {id}) =
               IF id \in PendingOf(p) THEN Cardinality(PendingOf(p)) ELSE Cardinality(PendingOf(p)) + 1
      BY <3>1, FS_AddElement
    <3> QED  BY <3>2, <3>3
  <2>4. /\ Cardinality(Pending(p)') <= Cardinality(PendingOf(p) \cup {id})
        /\ IsFiniteSet(Pending(p)')
    BY <2>1, <2>3, FS_Subset
  <2>5. Cardinality(Pending(p)') \in Nat /\ Cardinality(PendingOf(p) \cup {id}) \in Nat
    BY <2>3, <2>4, FS_CardinalityType
  <2>6. Cardinality(Pending(p)') <= MaxPendingPerPrincipal
    BY <1>2, <1>5, <2>3, <2>4, <2>5, CapAssumption
  <2>7. \A i \in PendingOf(p) : i # id => entries'[i].call = entries[i].call /\ entries'[i].call # c
    BY <1>1, <1>2, <1>5, SweptSame DEF PendingOf, PendingFor
  <2> QED  BY <1>1, <2>1, <2>2, <2>6, <2>7 DEF CountInv, Bounded
<1> QED  BY <1>3, <1>4, <1>5 DEF CountInv, Bounded

LEMMA CountStep ==
  ASSUME BookInv, CountInv, BookNext
  PROVE  CountInv'
<1>1. CASE entries' = entries
  BY <1>1, CountKept
<1>2. CASE entries' = Swept
  BY <1>2, CountKept, SweptSame
<1>3. ASSUME NEW id \in DOMAIN Swept, NEW f,
             entries' = [Swept EXCEPT ![id] = f],
             f.call = Swept[id].call,
             f.state = "pending" => Swept[id].state = "pending"
      PROVE  CountInv'
  <2>1. /\ DOMAIN entries' = DOMAIN Swept /\ entries'[id] = f
        /\ \A i \in DOMAIN Swept \ {id} : entries'[i] = Swept[i]
    BY <1>3, SweptOK DEF TableOK
  <2>2. /\ DOMAIN entries' \subseteq DOMAIN entries
        /\ \A i \in DOMAIN entries' :
             /\ entries'[i].call = entries[i].call
             /\ entries'[i].state = "pending" => entries[i].state = "pending"
    BY <1>3, <2>1, SweptSame
  <2> QED  BY <2>2, CountKept
<1> QED  BY <1>1, <1>2, <1>3, CountOpened, TableStep

(* The table never passes its cap, no principal has more requests in front of
   the approver than its own, and no call is asked twice at once, whatever the
   caps (APR-11, APR-12). *)
THEOREM AlwaysBounded == BookSpec => []Bounded
<1>1. BookInit => CountInv
  <2> SUFFICES ASSUME BookInit PROVE CountInv
    OBVIOUS
  <2>1. DOMAIN entries = {}
    BY DEF BookInit
  <2>2. \A p \in Principal : Pending(p) = {}
    BY <2>1 DEF Pending
  <2>3. IsFiniteSet(DOMAIN entries) /\ Cardinality(DOMAIN entries) = 0
    BY <2>1, FS_EmptySet
  <2>4. \A p \in Principal : Cardinality(Pending(p)) = 0
    BY <2>2, FS_EmptySet
  <2>5. 0 <= MaxPending /\ 0 <= MaxPendingPerPrincipal
    BY CapAssumption
  <2> QED  BY <2>2, <2>3, <2>4, <2>5 DEF CountInv, Bounded
<1>2. BookInv /\ CountInv /\ [BookNext]_bookVars => CountInv'
  BY CountStep DEF bookVars, CountInv, Bounded, Pending
<1>3. CountInv => Bounded
  BY DEF CountInv
<1> QED  BY InvHolds, <1>1, <1>2, <1>3, PTL DEF BookSpec

-----------------------------------------------------------------------------
(* The book implements ApprovalLifecycle: each method, with the sweep it starts
   with, is one step of that life in which the requests whose time ran out lapse
   too. *)

(* Where a request in the table is in its life. *)
LEMMA StatusInTable ==
  ASSUME NEW e, NEW r, PairOK(e, r), RowOK(r)
  PROVE  StatusOf(r) = IF e.state = "redeemed" THEN "used" ELSE e.state
<1>1. e.state \in RequestState /\ r \in AuditRows
  BY DEF PairOK, Entry, RowOK
<1>2. CASE e.state = "pending"
  BY <1>1, <1>2 DEF PairOK, RowsSay, StatusOf, AuditRows
<1>3. CASE e.state = "approved"
  BY <1>1, <1>3 DEF PairOK, RowsSay, StatusOf, AuditRows
<1>4. CASE e.state = "declined"
  BY <1>1, <1>4 DEF PairOK, RowOK, StatusOf, AuditRows
<1>5. CASE e.state = "redeemed"
  BY <1>1, <1>5 DEF PairOK, StatusOf, AuditRows
<1>6. CASE e.state = "expired"
  BY <1>1, <1>6 DEF PairOK, StatusOf, AuditRows
<1> QED  BY <1>1, <1>2, <1>3, <1>4, <1>5, <1>6 DEF RequestState

LEMMA StatusSwept ==
  ASSUME BookInv
  PROVE  /\ LapsedIds \in SUBSET Life!Open
         /\ \A id \in Id :
              StatusOf(SweptAudit[id]) = IF id \in LapsedIds THEN "expired" ELSE StatusOf(audit[id])
<1>1. ASSUME NEW id \in LapsedIds
      PROVE  /\ id \in Id
             /\ StatusOf(audit[id]) \in {"pending", "approved"}
             /\ StatusOf(SweptAudit[id]) = "expired"
  <2>1. id \in Id /\ PairOK(entries[id], audit[id]) /\ RowOK(audit[id])
    BY DEF LapsedIds, BookInv, TableOK
  <2>2. entries[id].state \in {"pending", "approved"}
    BY DEF LapsedIds, Lapsed
  <2>3. StatusOf(audit[id]) \in {"pending", "approved"}
    BY <2>1, <2>2, StatusInTable
  <2>4. SweptAudit[id] = [audit[id] EXCEPT !.expired = @ + 1]
    BY <2>1 DEF SweptAudit
  <2>5. /\ PairOK([entries[id] EXCEPT !.state = "expired"], SweptAudit[id])
        /\ RowOK(SweptAudit[id])
    BY <2>1, <2>2, <2>4, LapsePoint
  <2>6. [entries[id] EXCEPT !.state = "expired"].state = "expired"
    BY <2>1 DEF PairOK, Entry
  <2>7. StatusOf(SweptAudit[id]) = "expired"
    BY <2>5, <2>6, StatusInTable
  <2> QED  BY <2>1, <2>3, <2>7
<1>2. ASSUME NEW id \in Id, id \notin LapsedIds
      PROVE  SweptAudit[id] = audit[id]
  BY <1>2 DEF SweptAudit
<1> QED  BY <1>1, <1>2 DEF Life!Open

-----------------------------------------------------------------------------
(* One lemma per move of the life. *)

LEMMA LapseStep ==
  ASSUME BookInv, audit' = SweptAudit
  PROVE  Life!LifeNext
<1>1. Life!Lapse(LapsedIds)
  BY StatusSwept, SweptSame DEF Life!Lapse
<1> QED  BY <1>1, StatusSwept DEF Life!LifeNext

LEMMA AskStep ==
  ASSUME BookInv, NEW id \in Id, NEW c \in Call, OpenNew(c, id)
  PROVE  Life!LifeNext
<1>1. /\ audit[id].requested = 0 /\ RowOK(audit[id])
      /\ TableOK(Swept, SweptAudit) /\ id \notin LapsedIds
  <2>1. audit[id].requested = 0 /\ RowOK(audit[id])
    BY DEF OpenNew, BookInv, TableOK
  <2>2. id \notin DOMAIN entries
    BY <2>1 DEF BookInv, TableOK, PairOK, RowsSay
  <2> QED  BY <2>1, <2>2, SweptOK DEF LapsedIds
<1>2. StatusOf(audit[id]) = "new"
  BY <1>1 DEF StatusOf, RowOK, AuditRows
<1>3. SweptAudit[id] = audit[id]
  BY <1>1 DEF SweptAudit
<1>4. audit'[id] = [audit[id] EXCEPT !.call = c, !.requested = @ + 1]
  BY <1>1, <1>3 DEF OpenNew, TableOK
<1>5. /\ StatusOf(audit'[id]) = "pending" /\ audit'[id].call = c
      /\ audit'[id].approver = audit[id].approver /\ audit'[id].via = audit[id].via
  BY <1>1, <1>4 DEF StatusOf, RowOK, AuditRows
<1>6. \A i \in Id \ {id} : audit'[i] = SweptAudit[i]
  BY <1>1 DEF OpenNew, TableOK
<1>7. Life!Move(LapsedIds, id, "pending")
  BY <1>1, <1>5, <1>6, StatusSwept DEF Life!Move
<1>8. /\ \A i \in Id : audit'[i].call = IF i = id THEN c ELSE audit[i].call
      /\ \A i \in Id : audit'[i].approver = audit[i].approver /\ audit'[i].via = audit[i].via
  BY <1>5, <1>6, SweptSame
<1>9. Life!Ask(LapsedIds, id, c)
  BY <1>2, <1>7, <1>8 DEF Life!Ask
<1> QED  BY <1>9, StatusSwept DEF Life!LifeNext

LEMMA UseStep ==
  ASSUME BookInv, NEW id \in Id, NEW c \in Call, Redeem(id, c)
  PROVE  Life!LifeNext
<1>1. /\ id \in DOMAIN Swept /\ Swept[id].state = "approved" /\ TableOK(Swept, SweptAudit)
      /\ PairOK(Swept[id], SweptAudit[id]) /\ RowOK(SweptAudit[id])
  BY SweptOK DEF Redeem, Redeemable, TableOK
<1>2. StatusOf(SweptAudit[id]) = "approved"
  BY <1>1, StatusInTable
<1>3. id \notin LapsedIds /\ StatusOf(audit[id]) = "approved"
  BY <1>2, StatusSwept
<1>4. audit'[id] = [SweptAudit[id] EXCEPT !.redeemed = @ + 1]
  BY <1>1 DEF Redeem, TableOK
<1>5. /\ audit'[id].redeemed = SweptAudit[id].redeemed + 1
      /\ audit'[id].call = SweptAudit[id].call
      /\ audit'[id].approver = SweptAudit[id].approver /\ audit'[id].via = SweptAudit[id].via
      /\ SweptAudit[id].redeemed \in Nat
  BY <1>1, <1>4 DEF RowOK, AuditRows
<1>8. StatusOf(audit'[id]) = "used"
  BY <1>5 DEF StatusOf
<1>6. \A i \in Id \ {id} : audit'[i] = SweptAudit[i]
  BY <1>1 DEF Redeem, TableOK
<1>7. Life!Use(LapsedIds, id)
  BY <1>3, <1>5, <1>6, <1>8, StatusSwept, SweptSame DEF Life!Use, Life!Move
<1> QED  BY <1>7, StatusSwept DEF Life!LifeNext

LEMMA DecidedStep ==
  ASSUME BookInv, NEW id \in DOMAIN Swept, NEW a \in Principal, NEW v \in Via, NEW d \in Decision,
         MayDecide(Swept[id], a, v), Decide(id, a, d, v)
  PROVE  Life!LifeNext
<1>1. /\ id \in Id /\ Swept[id].state = "pending"
      /\ PairOK(Swept[id], SweptAudit[id]) /\ RowOK(SweptAudit[id])
  BY SweptOK DEF MayDecide, TableOK
<1>2. StatusOf(SweptAudit[id]) = "pending"
  BY <1>1, StatusInTable
<1>3. id \notin LapsedIds /\ StatusOf(audit[id]) = "pending"
  BY <1>1, <1>2, StatusSwept
<1>4. PICK s \in {"approved", "declined"} : StatusOf(audit'[id]) = s
  <2>1. /\ SweptAudit[id].approved = 0 /\ SweptAudit[id].declined = 0
        /\ SweptAudit[id].redeemed = 0 /\ SweptAudit[id].expired = 0
    BY <1>1 DEF PairOK
  <2>2. \/ audit'[id].approved = 1 /\ audit'[id].declined = 0
        \/ audit'[id].approved = 0 /\ audit'[id].declined = 1
    BY <2>1, DecideRows
  <2>3. audit'[id].redeemed = 0 /\ audit'[id].expired = 0
    BY <2>1, DecideRows
  <2> QED  BY <2>2, <2>3 DEF StatusOf
<1>5. /\ audit'[id].via = v /\ audit'[id].approver = a
      /\ audit'[id].call = audit[id].call
      /\ \A i \in Id \ {id} : audit'[i] = SweptAudit[i]
  BY <1>1, DecideRows, SweptSame
<1>6. /\ IdentityOf[a] # IdentityOf[audit[id].call.principal]
      /\ audit[id].call.tool \in HumanOnlyTool => v = "human"
  BY <1>1, SweptSame DEF MayDecide, SamePerson, PairOK, Via
<1>7. Life!Move(LapsedIds, id, s)
  BY <1>1, <1>3, <1>4, <1>5, StatusSwept DEF Life!Move
<1>8. \A i \in Id :
        /\ audit'[i].call = audit[i].call
        /\ audit'[i].approver = IF i = id THEN a ELSE audit[i].approver
        /\ audit'[i].via = IF i = id THEN v ELSE audit[i].via
  BY <1>1, <1>5, SweptSame
<1>9. Life!Decided(LapsedIds, id, a, v, s)
  BY <1>1, <1>3, <1>6, <1>7, <1>8 DEF Life!Decided
<1> QED  BY <1>1, <1>4, <1>9, StatusSwept DEF Life!LifeNext, Via

LEMMA StepRefines ==
  ASSUME BookInv, BookNext
  PROVE  Life!LifeNext \/ UNCHANGED Life!lifeVars
<1>1. CASE audit' = SweptAudit
  BY <1>1, LapseStep
<1>2. CASE audit' = audit
  BY <1>2 DEF Life!lifeVars
<1>3. ASSUME NEW id \in DOMAIN Swept, NEW d \in Decision, NEW a \in Delegate,
             MayDecide(Swept[id], a, "delegated"), Decide(id, a, d, "delegated")
      PROVE  Life!LifeNext
  BY <1>3, DecidedStep, PrincipalAssumption DEF Via
<1>4. ASSUME NEW id \in DOMAIN Swept, NEW d \in Decision,
             LinkDecides(id), Decide(id, HumanApprover, d, "human")
      PROVE  Life!LifeNext
  BY <1>4, DecidedStep, PrincipalAssumption DEF Via, LinkDecides
<1> QED
  BY <1>1, <1>2, <1>3, <1>4, AskStep, UseStep, StepCases DEF LinkRefused, WrongCode

(* The book implements the life of a request: asked once, decided at most once
   and by another person, used at most once, whatever the clock, the sweeps
   and the caps do (APR-2 to APR-6). *)
THEOREM BookImplementsLifecycle == BookSpec => LifecycleKept
<1>1. BookInit => Life!LifeInit
  BY DEF BookInit, Life!LifeInit, NoRows, StatusOf
<1>2. BookInv /\ [BookNext]_bookVars => [Life!LifeNext]_(Life!lifeVars)
  <2>1. CASE BookNext
    BY <2>1, StepRefines
  <2>2. CASE UNCHANGED bookVars
    BY <2>2 DEF bookVars, Life!lifeVars
  <2> QED  BY <2>1, <2>2
<1> QED  BY <1>1, <1>2, InvHolds, PTL DEF BookSpec, LifecycleKept, Life!LifeSpec

-----------------------------------------------------------------------------
(* The calls that wait. *)
CallTypes ==
  /\ pc \in [Caller -> {"idle", "waiting", "woken", "answered"}]
  /\ ask \in [Caller -> [call : Call \cup {None}, id : Id \cup {None}]]
  /\ aborted \in [Caller -> BOOLEAN]
  /\ wokenBy \in [Caller -> {None, "book", "timer", "abort"}]
  /\ answer \in [Caller -> Answers \cup {None}]
  /\ waiters \in [Id -> SUBSET Caller]
  /\ waiting \in [Principal -> Nat]
  /\ waitingTotal \in Nat
  /\ granted \in [Id -> Nat]

(* A request still to be decided lapses before its record may go. *)
PendingInv ==
  \A id \in DOMAIN entries :
    entries[id].state = "pending" => entries[id].deadline <= entries[id].createdAt + RequestTtl

AsleepInv ==
  /\ \A c \in Caller, id \in Id :
       /\ c \in waiters[id] <=> pc[c] = "waiting" /\ ask[c].id = id
       /\ c \in waiters[id] => id \in DOMAIN entries /\ entries[id].state = "pending"
  /\ \A c \in Caller : Waits(c) => ask[c].call \in Call /\ ask[c].id \in Id

Holders(p) == {c \in Caller : Waits(c) /\ ask[c].call.principal = p}
AllHolders == {c \in Caller : Waits(c)}

PlacesInv ==
  /\ \A p \in Principal :
       /\ IsFiniteSet(Holders(p)) /\ waiting[p] = Cardinality(Holders(p))
       /\ waiting[p] <= MaxWaitingPerPrincipal
  /\ IsFiniteSet(AllHolders) /\ waitingTotal = Cardinality(AllHolders) /\ waitingTotal <= MaxWaiting

GrantInv ==
  /\ \A id \in Id : granted[id] = audit[id].redeemed
  /\ \A c \in Caller : answer[c] = "granted" =>
       /\ pc[c] = "answered" /\ ask[c].id \in Id
       /\ audit[ask[c].id].requested = 1 /\ audit[ask[c].id].call = ask[c].call

ServiceInv == BookInv /\ PendingInv /\ CallTypes /\ AsleepInv /\ PlacesInv /\ GrantInv

-----------------------------------------------------------------------------
(* What one method of the book does to the requests asked and to their rows. *)

(* But for the requests X, whoever waits for a decision still does. *)
StillAsked(X) ==
  \A id \in DOMAIN entries \ X :
    entries[id].state = "pending" => id \in DOMAIN entries' /\ entries'[id].state = "pending"

(* The requests S, and no others, are redeemed. *)
Redeems(S) ==
  \A id \in Id :
    /\ audit'[id].redeemed = audit[id].redeemed + (IF id \in S THEN 1 ELSE 0)
    /\ audit[id].requested = 1 => audit'[id].requested = 1 /\ audit'[id].call = audit[id].call

LEMMA SweptPending ==
  ASSUME BookInv, PendingInv, NEW id \in DOMAIN entries \ LapsedIds, entries[id].state = "pending"
  PROVE  id \in DOMAIN Swept /\ Swept[id] = entries[id]
<1>1. entries[id] \in Entry /\ now \in Nat
  BY DEF BookInv, TableOK, PairOK
<1>2. ~Lapsed(entries[id])
  BY DEF LapsedIds
<1>3. ~Spent(entries[id])
  BY <1>1, <1>2, TtlAssumption DEF PendingInv, Lapsed, Spent, Entry
<1> QED BY <1>2, <1>3 DEF Swept

LEMMA SweptRows ==
  ASSUME BookInv, NEW id \in Id
  PROVE  /\ SweptAudit[id].redeemed = audit[id].redeemed /\ audit[id].redeemed \in Nat
         /\ SweptAudit[id].requested = audit[id].requested /\ SweptAudit[id].call = audit[id].call
         /\ SweptAudit[id] \in AuditRows
BY SweptSame, SweptOK DEF BookInv, TableOK, RowOK, AuditRows

LEMMA SweepEffect ==
  ASSUME BookInv, PendingInv, Sweep
  PROVE  StillAsked(LapsedIds) /\ Redeems({})
<1>1. StillAsked(LapsedIds)
  BY SweptPending DEF StillAsked, Sweep
<1>2. Redeems({})
  BY SweptRows DEF Redeems, Sweep
<1> QED BY <1>1, <1>2

LEMMA OpenEffect ==
  ASSUME BookInv, PendingInv, NEW call \in Call, NEW id \in Id, OpenNew(call, id)
  PROVE  /\ StillAsked(LapsedIds) /\ Redeems({})
         /\ id \in DOMAIN entries' /\ entries'[id].state = "pending" /\ id \notin LapsedIds
<1>1. /\ DOMAIN entries' = DOMAIN Swept \cup {id} /\ entries'[id] = NewEntry(call)
      /\ \A i \in DOMAIN Swept \ {id} : entries'[i] = Swept[i]
  BY DEF OpenNew
<1>2. audit[id].requested = 0 /\ id \notin DOMAIN entries
  BY DEF OpenNew, BookInv, TableOK, PairOK, RowsSay
<1>3. StillAsked(LapsedIds)
  BY <1>1, <1>2, SweptPending DEF StillAsked
<1>4. SweptAudit = [i \in Id |-> SweptAudit[i]] /\ SweptAudit[id] \in AuditRows
  BY SweptRows, SweptOK DEF TableOK
<1>5. /\ audit'[id].redeemed = SweptAudit[id].redeemed
      /\ \A i \in Id \ {id} : audit'[i] = SweptAudit[i]
  BY <1>4 DEF OpenNew, AuditRows
<1>6. Redeems({})
  BY <1>2, <1>5, SweptRows DEF Redeems
<1> QED BY <1>1, <1>2, <1>3, <1>6 DEF NewEntry, LapsedIds

LEMMA RedeemEffect ==
  ASSUME BookInv, PendingInv, NEW id \in Id, NEW call, Redeem(id, call)
  PROVE  /\ StillAsked(LapsedIds) /\ Redeems({id})
         /\ audit'[id].requested = 1 /\ audit'[id].call = call
<1>1. id \in DOMAIN Swept /\ Swept[id].call = call /\ Swept[id].state = "approved"
  BY DEF Redeem, Redeemable
<1>2. /\ DOMAIN entries' = DOMAIN Swept
      /\ \A i \in DOMAIN Swept \ {id} : entries'[i] = Swept[i]
  BY DEF Redeem
<1>3. StillAsked(LapsedIds)
  BY <1>1, <1>2, SweptPending DEF StillAsked
<1>4. SweptAudit = [i \in Id |-> SweptAudit[i]] /\ SweptAudit[id] \in AuditRows
  BY SweptRows, SweptOK DEF TableOK
<1>5. /\ audit'[id].redeemed = SweptAudit[id].redeemed + 1
      /\ audit'[id].requested = SweptAudit[id].requested /\ audit'[id].call = SweptAudit[id].call
      /\ \A i \in Id \ {id} : audit'[i] = SweptAudit[i]
  BY <1>4 DEF Redeem, AuditRows
<1>6. Redeems({id})
  BY <1>5, SweptRows DEF Redeems
<1>7. SweptAudit[id].requested = 1 /\ SweptAudit[id].call = call
  BY <1>1, SweptOK DEF TableOK, PairOK, RowsSay
<1> QED BY <1>3, <1>5, <1>6, <1>7

LEMMA DecideEffect ==
  ASSUME BookInv, PendingInv, NEW id \in Id, NEW d \in Decision,
         (\E a \in Delegate : DecideDelegated(id, a, d)) \/ DecideByLink(id, d)
  PROVE  StillAsked(LapsedIds \cup {id}) /\ Redeems({})
<1>1. PICK a, via : id \in DOMAIN Swept /\ Decide(id, a, d, via)
  BY DEF DecideDelegated, DelegatedDecides, DecideByLink, LinkDecides, LinkLive
<1>2. /\ DOMAIN entries' = DOMAIN Swept
      /\ \A i \in DOMAIN Swept \ {id} : entries'[i] = Swept[i]
  BY <1>1 DEF Decide
<1>3. StillAsked(LapsedIds \cup {id})
  BY <1>2, SweptPending DEF StillAsked
<1>4. /\ audit'[id].redeemed = SweptAudit[id].redeemed
      /\ audit'[id].requested = SweptAudit[id].requested /\ audit'[id].call = SweptAudit[id].call
      /\ \A i \in Id \ {id} : audit'[i] = SweptAudit[i]
  BY <1>1, DecideRows
<1>5. Redeems({})
  BY <1>4, SweptRows DEF Redeems
<1> QED BY <1>3, <1>5

LEMMA LinkEffect ==
  ASSUME BookInv, PendingInv, NEW id \in Id, LinkRefused(id) \/ WrongCode(id)
  PROVE  StillAsked(LapsedIds) /\ Redeems({})
<1>1. /\ DOMAIN entries' = DOMAIN Swept /\ audit' = SweptAudit
      /\ \A i \in DOMAIN Swept \ {id} : entries'[i] = Swept[i]
  BY DEF LinkRefused, WrongCode
<1>2. id \in DOMAIN Swept /\ Swept[id] \in Entry
  BY SweptOK DEF LinkRefused, WrongCode, LinkLive, TableOK, PairOK
<1>3. entries'[id].state = Swept[id].state
  BY <1>2 DEF LinkRefused, WrongCode, Entry
<1>4. StillAsked(LapsedIds)
  BY <1>1, <1>2, <1>3, SweptPending DEF StillAsked
<1> QED BY <1>1, <1>4, SweptRows DEF Redeems

LEMMA PendingStep ==
  ASSUME BookInv, PendingInv, BookNext
  PROVE  PendingInv'
<1>1. \A id \in DOMAIN Swept :
        Swept[id].state = "pending" => Swept[id].deadline <= Swept[id].createdAt + RequestTtl
  BY SweptSame DEF PendingInv
<1>2. CASE entries' = entries
  BY <1>2 DEF PendingInv
<1>3. CASE entries' = Swept
  BY <1>1, <1>3 DEF PendingInv
<1>4. ASSUME NEW id \in Id, NEW c \in Call,
             entries' = [i \in DOMAIN Swept \cup {id} |-> IF i = id THEN NewEntry(c) ELSE Swept[i]]
      PROVE  PendingInv'
  <2>1. NewEntry(c).deadline <= NewEntry(c).createdAt + RequestTtl
    BY TtlAssumption DEF NewEntry, BookInv
  <2> QED BY <1>1, <1>4, <2>1 DEF PendingInv
<1>5. ASSUME NEW id \in DOMAIN Swept, NEW f,
             entries' = [Swept EXCEPT ![id] = f],
             f.createdAt = Swept[id].createdAt,
             f.state = "pending" => Swept[id].state = "pending" /\ f.deadline = Swept[id].deadline
      PROVE  PendingInv'
  <2>1. /\ DOMAIN entries' = DOMAIN Swept /\ entries'[id] = f
        /\ \A i \in DOMAIN Swept \ {id} : entries'[i] = Swept[i]
    BY <1>5, SweptOK DEF TableOK
  <2> QED BY <1>1, <1>5, <2>1 DEF PendingInv
<1> QED BY <1>2, <1>3, <1>4, <1>5, TableStep

-----------------------------------------------------------------------------
(* What a step does to the calls.  The calls asleep on the requests X wake; those
   of C act and wait neither before nor after. *)
Wakes(X, C) ==
  /\ \A id \in Id : waiters'[id] = IF id \in X THEN {} ELSE waiters[id]
  /\ \A k \in Caller \ C :
       pc'[k] = (IF k \in Sleeping(X) THEN "woken" ELSE pc[k]) /\ ask'[k] = ask[k]
  /\ \A k \in C : pc[k] # "waiting" /\ ~Waits(k)'

LEMMA SleepersWait ==
  ASSUME CallTypes, AsleepInv, NEW X \in SUBSET Id, NEW k \in Sleeping(X)
  PROVE  k \in Caller /\ pc[k] = "waiting" /\ ask[k].id \in X
BY DEF CallTypes, AsleepInv, Sleeping

LEMMA AsleepWake ==
  ASSUME CallTypes, AsleepInv, NEW X \in SUBSET Id, NEW C \in SUBSET Caller,
         StillAsked(X), Wakes(X, C)
  PROVE  AsleepInv'
<1>1. \A k \in Caller : k \in Sleeping(X) <=> pc[k] = "waiting" /\ ask[k].id \in X
  BY SleepersWait DEF AsleepInv, Sleeping
<1>2. ASSUME NEW k \in Caller, NEW id \in Id
      PROVE  k \in waiters'[id] <=> pc'[k] = "waiting" /\ ask'[k].id = id
  <2>1. CASE k \in C
    <3>1. pc[k] # "waiting" /\ pc'[k] # "waiting"
      BY <2>1 DEF Wakes, Waits
    <3> QED BY <3>1 DEF Wakes, AsleepInv
  <2>2. CASE k \notin C
    BY <1>1, <2>2 DEF Wakes, AsleepInv
  <2> QED BY <2>1, <2>2
<1>3. ASSUME NEW k \in Caller, NEW id \in Id, k \in waiters'[id]
      PROVE  id \in DOMAIN entries' /\ entries'[id].state = "pending"
  <2>1. id \notin X /\ k \in waiters[id]
    BY <1>3 DEF Wakes
  <2> QED BY <2>1 DEF AsleepInv, StillAsked
<1>4. ASSUME NEW k \in Caller, Waits(k)'
      PROVE  ask'[k].call \in Call /\ ask'[k].id \in Id
  <2>1. k \notin C
    BY <1>4 DEF Wakes
  <2>2. Waits(k) /\ ask'[k] = ask[k]
    BY <1>1, <1>4, <2>1 DEF Wakes, Waits
  <2> QED BY <2>2 DEF AsleepInv
<1> QED BY <1>2, <1>3, <1>4 DEF AsleepInv

(* Places: nobody comes or goes, one comes, one goes. *)
LEMMA PlacesSame ==
  ASSUME PlacesInv, UNCHANGED <<waiting, waitingTotal>>,
         \A k \in Caller : (Waits(k)' <=> Waits(k)) /\ (Waits(k) => ask'[k] = ask[k])
  PROVE  PlacesInv'
<1>1. AllHolders' = AllHolders /\ \A p \in Principal : Holders(p)' = Holders(p)
  BY DEF AllHolders, Holders
<1> QED BY <1>1 DEF PlacesInv

LEMMA PlacesWake ==
  ASSUME CallTypes, AsleepInv, PlacesInv, NEW X \in SUBSET Id, NEW C \in SUBSET Caller, Wakes(X, C),
         \A k \in C : ~Waits(k), UNCHANGED <<waiting, waitingTotal>>
  PROVE  PlacesInv'
<1>1. \A k \in Caller : (Waits(k)' <=> Waits(k)) /\ (Waits(k) => ask'[k] = ask[k])
  BY SleepersWait DEF Wakes, Waits
<1> QED BY <1>1, PlacesSame

LEMMA PlacesMore ==
  ASSUME CallTypes, PlacesInv, NEW c \in Caller, ~Waits(c), Waits(c)',
         NEW p \in Principal, ask'[c].call.principal = p, MayWait(p),
         waiting' = [waiting EXCEPT ![p] = @ + 1], waitingTotal' = waitingTotal + 1,
         \A k \in Caller \ {c} : (Waits(k)' <=> Waits(k)) /\ ask'[k] = ask[k]
  PROVE  PlacesInv'
<1>1. AllHolders' = AllHolders \cup {c} /\ c \notin AllHolders
  BY DEF AllHolders
<1>2. \A q \in Principal : Holders(q)' = (IF q = p THEN Holders(q) \cup {c} ELSE Holders(q))
  BY DEF Holders
<1>3. c \notin Holders(p)
  BY DEF Holders
<1>4. IsFiniteSet(AllHolders') /\ Cardinality(AllHolders') = Cardinality(AllHolders) + 1
  BY <1>1, FS_AddElement DEF PlacesInv
<1>5. IsFiniteSet(Holders(p)') /\ Cardinality(Holders(p)') = Cardinality(Holders(p)) + 1
  BY <1>2, <1>3, FS_AddElement DEF PlacesInv
<1>6. \A q \in Principal :
        /\ IsFiniteSet(Holders(q)') /\ waiting'[q] = Cardinality(Holders(q)')
        /\ waiting'[q] <= MaxWaitingPerPrincipal
  BY <1>2, <1>5, WaitAssumption DEF PlacesInv, CallTypes, MayWait
<1>7. waitingTotal' = Cardinality(AllHolders') /\ waitingTotal' <= MaxWaiting
  BY <1>4, WaitAssumption DEF PlacesInv, CallTypes, MayWait
<1> QED BY <1>4, <1>6, <1>7 DEF PlacesInv

LEMMA PlacesLess ==
  ASSUME CallTypes, PlacesInv, NEW c \in Caller, Waits(c), ~Waits(c)',
         NEW p \in Principal, ask[c].call.principal = p, LeaveWait(p),
         \A k \in Caller \ {c} : (Waits(k)' <=> Waits(k)) /\ ask'[k] = ask[k]
  PROVE  PlacesInv' /\ waiting' \in [Principal -> Nat] /\ waitingTotal' \in Nat
<1>1. AllHolders' = AllHolders \ {c} /\ c \in AllHolders
  BY DEF AllHolders
<1>2. \A q \in Principal : Holders(q)' = (IF q = p THEN Holders(q) \ {c} ELSE Holders(q))
  BY DEF Holders
<1>3. c \in Holders(p)
  BY DEF Holders
<1>4. /\ IsFiniteSet(AllHolders') /\ Cardinality(AllHolders') = Cardinality(AllHolders) - 1
      /\ Cardinality(AllHolders') \in Nat
  BY <1>1, FS_RemoveElement, FS_CardinalityType DEF PlacesInv
<1>5. /\ IsFiniteSet(Holders(p)') /\ Cardinality(Holders(p)') = Cardinality(Holders(p)) - 1
      /\ Cardinality(Holders(p)') \in Nat
  BY <1>2, <1>3, FS_RemoveElement, FS_CardinalityType DEF PlacesInv
<1>6. \A q \in Principal :
        /\ IsFiniteSet(Holders(q)') /\ waiting'[q] = Cardinality(Holders(q)')
        /\ waiting'[q] <= MaxWaitingPerPrincipal /\ waiting'[q] \in Nat
  BY <1>2, <1>5, WaitAssumption DEF PlacesInv, CallTypes, LeaveWait
<1>7. waitingTotal' = Cardinality(AllHolders') /\ waitingTotal' <= MaxWaiting
  BY <1>4, WaitAssumption DEF PlacesInv, CallTypes, LeaveWait
<1>8. waiting' \in [Principal -> Nat]
  BY <1>6 DEF CallTypes, LeaveWait
<1> QED BY <1>4, <1>6, <1>7, <1>8 DEF PlacesInv

(* Grants: the requests S are redeemed, and a call told to run on one was told so
   before or is told so now. *)
TellsRun(k) ==
  answer'[k] = "granted" =>
    /\ pc'[k] = "answered" /\ ask'[k].id \in Id
    /\ audit'[ask'[k].id].requested = 1 /\ audit'[ask'[k].id].call = ask'[k].call

ToldBefore(k) ==
  answer'[k] = answer[k] /\ ask'[k] = ask[k] /\ (pc[k] = "answered" => pc'[k] = "answered")

GrantsOf(S) ==
  /\ granted' \in [Id -> Nat]
  /\ \A id \in Id : granted'[id] = granted[id] + (IF id \in S THEN 1 ELSE 0)

LEMMA GrantKept ==
  ASSUME GrantInv, NEW S, Redeems(S), GrantsOf(S),
         \A k \in Caller : ToldBefore(k) \/ TellsRun(k)
  PROVE  GrantInv'
<1>1. \A id \in Id : granted'[id] = audit'[id].redeemed
  BY DEF GrantInv, Redeems, GrantsOf
<1>2. ASSUME NEW k \in Caller, ToldBefore(k)
      PROVE  TellsRun(k)
  BY <1>2 DEF ToldBefore, TellsRun, GrantInv, Redeems
<1> QED BY <1>1, <1>2 DEF GrantInv, TellsRun

LEMMA GrantsNone ==
  ASSUME CallTypes, UNCHANGED granted
  PROVE  GrantsOf({})
BY DEF GrantsOf, CallTypes

-----------------------------------------------------------------------------
(* Every step of the service is one the book allows, or leaves the book alone. *)
LEMMA ServiceStepsBook ==
  ASSUME ServiceInv, ServiceNext
  PROVE  BookNext \/ UNCHANGED bookVars
<1>1. ASSUME NEW c \in Caller, NEW call \in Call, GateOpen(c, call)
      PROVE  BookNext
  BY <1>1 DEF GateOpen, BookNext
<1>2. ASSUME NEW c \in Caller, NEW call \in Call, NEW id \in Id, GateRedeem(c, call, id)
      PROVE  BookNext
  BY <1>2 DEF GateRedeem, BookNext
<1>3. ASSUME NEW c \in Caller, Resume(c)
      PROVE  BookNext
  <2>1. ask[c].call \in Call /\ ask[c].id \in Id
    BY <1>3 DEF Resume, ServiceInv, AsleepInv, Waits
  <2>2. Redeem(ask[c].id, ask[c].call) \/ Sweep
    BY <1>3 DEF Resume
  <2>3. CASE Redeemable(ask[c].id, ask[c].call) /\ Sweep
    <3>1. LinkDead(ask[c].id)
      BY <2>3 DEF Redeemable, LinkLive, LinkDead
    <3> QED BY <2>1, <3>1 DEF BookNext
  <2> QED BY <2>1, <2>2, <2>3 DEF RedeemRefused, BookNext
<1>4. ASSUME DecisionSide
      PROVE  BookNext
  BY <1>4 DEF DecisionSide, Decides, DecidesNothing, BookNext
<1> QED BY <1>1, <1>2, <1>3, <1>4
        DEF ServiceNext, TimerFires, Disconnect, Return, Passes, BookNext

LEMMA BookStep ==
  ASSUME ServiceInv, ServiceNext
  PROVE  BookInv' /\ PendingInv'
<1>1. CASE BookNext
  BY <1>1, InvNext, PendingStep DEF ServiceInv
<1>2. CASE UNCHANGED bookVars
  BY <1>2, InvNext DEF ServiceInv, PendingInv, bookVars
<1> QED BY <1>1, <1>2, ServiceStepsBook

-----------------------------------------------------------------------------
(* The actions, one by one. *)
CallInv == CallTypes /\ AsleepInv /\ PlacesInv /\ GrantInv

LEMMA Lapse == BookInv => LapsedIds \in SUBSET Id
BY DEF BookInv, TableOK, LapsedIds

LEMMA NothingRedeemed ==
  ASSUME BookInv, UNCHANGED audit
  PROVE  Redeems({})
BY SweptRows DEF Redeems

(* A call answers, and those asleep on what lapsed wake. *)
LEMMA AnswerWakes ==
  ASSUME BookInv, CallTypes, AsleepInv, NEW c \in Caller, pc[c] # "waiting",
         NEW a \in Answers, WakeAndAnswer(LapsedIds, c, a),
         \A k \in Caller \ {c} : ask'[k] = ask[k]
  PROVE  /\ Wakes(LapsedIds, {c}) /\ pc'[c] = "answered" /\ answer'[c] = a
         /\ pc' \in [Caller -> {"idle", "waiting", "woken", "answered"}]
         /\ wokenBy' \in [Caller -> {None, "book", "timer", "abort"}]
         /\ answer' \in [Caller -> Answers \cup {None}]
         /\ waiters' \in [Id -> SUBSET Caller]
         /\ \A k \in Caller \ {c} : ToldBefore(k)
<1>1. \A k \in Sleeping(LapsedIds) : k \in Caller /\ pc[k] = "waiting"
  BY SleepersWait, Lapse
<1>2. /\ pc'[c] = "answered" /\ answer'[c] = a
      /\ \A k \in Caller \ {c} :
           /\ pc'[k] = (IF k \in Sleeping(LapsedIds) THEN "woken" ELSE pc[k])
           /\ answer'[k] = answer[k]
      /\ \A id \in Id : waiters'[id] = IF id \in LapsedIds THEN {} ELSE waiters[id]
  BY DEF WakeAndAnswer, CallTypes
<1>3. Wakes(LapsedIds, {c})
  BY <1>2 DEF Wakes, Waits
<1>4. /\ pc' \in [Caller -> {"idle", "waiting", "woken", "answered"}]
      /\ wokenBy' \in [Caller -> {None, "book", "timer", "abort"}]
      /\ answer' \in [Caller -> Answers \cup {None}]
      /\ waiters' \in [Id -> SUBSET Caller]
  BY DEF WakeAndAnswer, CallTypes
<1> QED BY <1>1, <1>2, <1>3, <1>4 DEF ToldBefore

LEMMA RedeemCall ==
  ASSUME ServiceInv, NEW c \in Caller, NEW call \in Call, NEW id \in Id, GateRedeem(c, call, id)
  PROVE  CallInv'
<1>1. /\ pc[c] = "idle" /\ ~Waits(c) /\ LapsedIds \in SUBSET Id
      /\ UNCHANGED <<aborted, waiting, waitingTotal>>
  BY Lapse DEF GateRedeem, Waits, ServiceInv
<1>2. /\ ask'[c].call = call /\ ask'[c].id = id /\ \A k \in Caller \ {c} : ask'[k] = ask[k]
      /\ ask' \in [Caller -> [call : Call \cup {None}, id : Id \cup {None}]]
  BY DEF GateRedeem, ServiceInv, CallTypes
<1>3. ASSUME NEW a \in Answers, NEW S, StillAsked(LapsedIds), Redeems(S), GrantsOf(S),
             WakeAndAnswer(LapsedIds, c, a),
             a = "granted" => audit'[id].requested = 1 /\ audit'[id].call = call
      PROVE  CallInv'
  <2> BookInv /\ CallTypes /\ AsleepInv /\ pc[c] # "waiting"
    BY <1>1 DEF ServiceInv
  <2>0. \A k \in Caller \ {c} : ask'[k] = ask[k]
    BY <1>2
  <2>1. /\ Wakes(LapsedIds, {c}) /\ pc'[c] = "answered" /\ answer'[c] = a
        /\ \A k \in Caller \ {c} : ToldBefore(k)
    BY <1>1, <1>3, <2>0, AnswerWakes
  <2>2. CallTypes'
    BY <1>1, <1>2, <1>3, AnswerWakes DEF ServiceInv, CallTypes, GrantsOf
  <2>3. AsleepInv'
    BY <1>1, <1>3, <2>1, AsleepWake DEF ServiceInv
  <2>4. PlacesInv'
    BY <1>1, <2>1, PlacesWake DEF ServiceInv
  <2>5. TellsRun(c)
    BY <1>2, <1>3, <2>1 DEF TellsRun
  <2>6. GrantInv'
    BY <1>3, <2>1, <2>5, GrantKept DEF ServiceInv
  <2> QED BY <2>2, <2>3, <2>4, <2>6 DEF CallInv
<1>4. CASE Redeem(id, call)
  <2>1. WakeAndAnswer(LapsedIds, c, "granted") /\ granted' = [granted EXCEPT ![id] = @ + 1]
    BY <1>4 DEF GateRedeem, Redeem, RedeemRefused
  <2>2. GrantsOf({id})
    BY <2>1 DEF ServiceInv, CallTypes, GrantsOf
  <2> QED BY <1>3, <1>4, <2>1, <2>2, RedeemEffect DEF ServiceInv, Answers
<1>5. CASE RedeemRefused(id, call)
  <2>1. WakeAndAnswer(LapsedIds, c, "refused") /\ granted' = granted /\ Sweep
    BY <1>5 DEF GateRedeem, Redeem, RedeemRefused
  <2> QED BY <1>3, <2>1, GrantsNone, SweepEffect DEF ServiceInv, Answers
<1> QED BY <1>4, <1>5 DEF GateRedeem

(* A call that opened a request, or found one, waits on it or answers pending. *)
LEMMA WaitOnCall ==
  ASSUME ServiceInv, NEW c \in Caller, NEW call \in Call, NEW id \in Id,
         pc[c] = "idle", WaitOn(c, call, id), UNCHANGED <<aborted, granted>>,
         StillAsked(LapsedIds), Redeems({}),
         id \in DOMAIN entries', entries'[id].state = "pending", id \notin LapsedIds
  PROVE  CallInv'
<1> BookInv /\ CallTypes /\ AsleepInv /\ PlacesInv /\ GrantInv /\ LapsedIds \in SUBSET Id
  BY Lapse DEF ServiceInv
<1>1. /\ ~Waits(c) /\ pc[c] # "waiting" /\ answer[c] # "granted"
      /\ GrantsOf({})
  BY GrantsNone DEF Waits, GrantInv
<1>2. /\ ask'[c].call = call /\ ask'[c].id = id /\ \A k \in Caller \ {c} : ask'[k] = ask[k]
      /\ ask' \in [Caller -> [call : Call \cup {None}, id : Id \cup {None}]]
  BY DEF WaitOn, CallTypes
<1>3. CASE WakeAndAnswer(LapsedIds, c, "pending") /\ UNCHANGED <<waiting, waitingTotal>>
  <2>1. "pending" \in Answers
    BY DEF Answers
  <2>2. /\ Wakes(LapsedIds, {c}) /\ answer'[c] = "pending"
        /\ \A k \in Caller \ {c} : ToldBefore(k)
    BY <1>1, <1>2, <1>3, <2>1, AnswerWakes
  <2>3. CallTypes'
    BY <1>1, <1>2, <1>3, <2>1, AnswerWakes DEF CallTypes
  <2>4. AsleepInv'
    BY <2>2, AsleepWake
  <2>5. PlacesInv'
    BY <1>1, <1>3, <2>2, PlacesWake
  <2>6. GrantInv'
    BY <1>1, <2>2, GrantKept DEF TellsRun
  <2> QED BY <2>3, <2>4, <2>5, <2>6 DEF CallInv
<1>4. CASE MayWait(call.principal) /\ EnterWait(c, call.principal, id)
  <2>1. /\ \A i \in Id : waiters'[i] = (IF i \in LapsedIds THEN {} ELSE waiters[i])
                                         \cup (IF i = id /\ ~aborted[c] THEN {c} ELSE {})
        /\ pc'[c] = IF aborted[c] THEN "woken" ELSE "waiting"
        /\ \A k \in Caller \ {c} :
             pc'[k] = IF k \in Sleeping(LapsedIds) THEN "woken" ELSE pc[k]
        /\ answer' = answer
    BY <1>4 DEF EnterWait
  <2>2. \A k \in Caller : k \in Sleeping(LapsedIds) <=> pc[k] = "waiting" /\ ask[k].id \in LapsedIds
    BY SleepersWait DEF AsleepInv, Sleeping
  <2>3. call.principal \in Principal /\ aborted[c] \in BOOLEAN
    BY CallAssumption DEF CallTypes
  <2>4. CallTypes'
    <3>1. /\ waiters' \in [Id -> SUBSET Caller]
          /\ waiting' \in [Principal -> Nat] /\ waitingTotal' \in Nat
      BY <1>4, <2>3 DEF EnterWait, CallTypes
    <3>2. /\ pc' \in [Caller -> {"idle", "waiting", "woken", "answered"}]
          /\ wokenBy' \in [Caller -> {None, "book", "timer", "abort"}]
      BY <1>4, <2>3 DEF EnterWait, CallTypes
    <3> QED BY <1>2, <2>1, <3>1, <3>2 DEF CallTypes
  <2>5. AsleepInv'
    <3>1. ASSUME NEW k \in Caller, NEW i \in Id
          PROVE  k \in waiters'[i] <=> pc'[k] = "waiting" /\ ask'[k].id = i
      <4>1. CASE k = c
        <5>1. c \in waiters'[i] <=> i = id /\ ~aborted[c]
          BY <1>1, <2>1 DEF AsleepInv
        <5> QED BY <1>2, <2>1, <2>3, <4>1, <5>1
      <4>2. CASE k # c
        <5>1. k \in waiters'[i] <=> i \notin LapsedIds /\ k \in waiters[i]
          BY <2>1, <4>2
        <5>2. ask'[k] = ask[k] /\ (pc'[k] = "waiting" <=> pc[k] = "waiting" /\ ask[k].id \notin LapsedIds)
          BY <1>2, <2>1, <2>2, <4>2
        <5> QED BY <5>1, <5>2 DEF AsleepInv
      <4> QED BY <4>1, <4>2
    <3>2. ASSUME NEW k \in Caller, NEW i \in Id, k \in waiters'[i]
          PROVE  i \in DOMAIN entries' /\ entries'[i].state = "pending"
      BY <2>1, <3>2 DEF AsleepInv, StillAsked
    <3>3. ASSUME NEW k \in Caller, Waits(k)'
          PROVE  ask'[k].call \in Call /\ ask'[k].id \in Id
      BY <1>2, <2>1, <2>2, <3>3 DEF AsleepInv, Waits
    <3> QED BY <3>1, <3>2, <3>3 DEF AsleepInv
  <2>6. PlacesInv'
    <3>1. Waits(c)' /\ \A k \in Caller \ {c} : (Waits(k)' <=> Waits(k)) /\ ask'[k] = ask[k]
      BY <1>2, <2>1, <2>2, <2>3 DEF Waits
    <3> QED BY <1>1, <1>2, <1>4, <2>3, <3>1, PlacesMore DEF EnterWait
  <2>7. GrantInv'
    <3>1. TellsRun(c) /\ \A k \in Caller \ {c} : ToldBefore(k)
      BY <1>1, <1>2, <2>1, <2>2 DEF TellsRun, ToldBefore
    <3> QED BY <1>1, <3>1, GrantKept
  <2> QED BY <2>4, <2>5, <2>6, <2>7 DEF CallInv
<1> QED BY <1>3, <1>4 DEF WaitOn

LEMMA OpenCall ==
  ASSUME ServiceInv, NEW c \in Caller, NEW call \in Call, GateOpen(c, call)
  PROVE  CallInv'
<1> BookInv /\ PendingInv /\ CallTypes /\ AsleepInv /\ PlacesInv /\ GrantInv
  BY DEF ServiceInv
<1>1. pc[c] = "idle" /\ ~Waits(c) /\ UNCHANGED <<aborted, granted>>
  BY DEF GateOpen, Waits
<1>2. ASSUME NEW id \in Id, OpenNew(call, id), WaitOn(c, call, id)
      PROVE  CallInv'
  BY <1>1, <1>2, OpenEffect, WaitOnCall
<1>3. ASSUME OpenHeld(call), NEW id \in PendingFor(call), WaitOn(c, call, id)
      PROVE  CallInv'
  <2>1. /\ id \in DOMAIN Swept /\ Swept[id].state = "pending" /\ id \in Id
        /\ id \in DOMAIN entries /\ entries[id] \in Entry
    BY SweptSame DEF PendingFor, PendingOf, BookInv, TableOK, PairOK
  <2>2. id \notin LapsedIds
    BY <2>1 DEF LapsedIds, Swept, Entry
  <2>3. Sweep /\ entries' = Swept
    BY <1>3 DEF OpenHeld, Sweep
  <2>4. StillAsked(LapsedIds) /\ Redeems({})
    BY <2>3, SweepEffect
  <2> QED BY <1>1, <1>3, <2>1, <2>2, <2>3, <2>4, WaitOnCall
<1>4. CASE OpenHeld(call) /\ ask' = [ask EXCEPT ![c] = [call |-> call, id |-> None]]
           /\ WakeAndAnswer(LapsedIds, c, "refused") /\ UNCHANGED <<waiting, waitingTotal>>
  <2>1. "refused" \in Answers /\ LapsedIds \in SUBSET Id /\ Sweep /\ GrantsOf({})
    BY <1>1, <1>4, Lapse, GrantsNone DEF Answers, OpenHeld
  <2>2. /\ \A k \in Caller \ {c} : ask'[k] = ask[k]
        /\ ask' \in [Caller -> [call : Call \cup {None}, id : Id \cup {None}]]
    BY <1>4 DEF CallTypes
  <2>3. /\ Wakes(LapsedIds, {c}) /\ answer'[c] = "refused"
        /\ \A k \in Caller \ {c} : ToldBefore(k)
    BY <1>1, <1>4, <2>1, <2>2, AnswerWakes
  <2>4. CallTypes'
    BY <1>1, <1>4, <2>1, <2>2, AnswerWakes DEF CallTypes
  <2>5. StillAsked(LapsedIds) /\ Redeems({})
    BY <2>1, SweepEffect
  <2>6. AsleepInv'
    BY <2>1, <2>3, <2>5, AsleepWake
  <2>7. PlacesInv'
    BY <1>1, <1>4, <2>1, <2>3, PlacesWake
  <2>8. GrantInv'
    BY <2>1, <2>3, <2>5, GrantKept DEF TellsRun
  <2> QED BY <2>4, <2>6, <2>7, <2>8 DEF CallInv
<1> QED BY <1>2, <1>3, <1>4 DEF GateOpen

(* A wait that its timer or its client ends: the book is not touched. *)
LEMMA StopCall ==
  ASSUME ServiceInv, NEW c \in Caller, NEW why \in {"timer", "abort"},
         pc[c] = "waiting", StopsWaiting(c, why), aborted' \in [Caller -> BOOLEAN],
         UNCHANGED <<bookVars, ask, answer, waiting, waitingTotal, granted>>
  PROVE  CallInv'
<1> BookInv /\ CallTypes /\ AsleepInv /\ PlacesInv /\ GrantInv
  BY DEF ServiceInv
<1>1. /\ pc' = [pc EXCEPT ![c] = "woken"] /\ ask[c].id \in Id
      /\ \A id \in Id : waiters'[id] = IF id = ask[c].id THEN waiters[id] \ {c} ELSE waiters[id]
      /\ UNCHANGED <<entries, audit, ask, answer, waiting, waitingTotal, granted>>
  <2>1. ask[c].id \in Id
    BY DEF AsleepInv, Waits
  <2>2. waiters \in [Id -> SUBSET Caller] /\ waiters' = [waiters EXCEPT ![ask[c].id] = @ \ {c}]
    BY DEF StopsWaiting, CallTypes
  <2>3. \A id \in Id : waiters'[id] = IF id = ask[c].id THEN waiters[id] \ {c} ELSE waiters[id]
    BY <2>1, <2>2
  <2>4. UNCHANGED <<entries, audit, ask, answer, waiting, waitingTotal, granted>>
    BY DEF bookVars
  <2> QED BY <2>1, <2>3, <2>4 DEF StopsWaiting
<1>2. CallTypes'
  BY <1>1 DEF StopsWaiting, CallTypes
<1>3. AsleepInv'
  <2>1. ASSUME NEW k \in Caller, NEW id \in Id
        PROVE  k \in waiters'[id] <=> pc'[k] = "waiting" /\ ask'[k].id = id
    <3>0. k \in waiters[id] <=> pc[k] = "waiting" /\ ask[k].id = id
      BY DEF AsleepInv
    <3>1. CASE k = c
      <4>1. pc'[k] = "woken"
        BY <1>1, <3>1 DEF CallTypes
      <4>2. k \notin waiters'[id]
        BY <1>1, <3>0, <3>1
      <4> QED BY <4>1, <4>2
    <3>2. CASE k # c
      <4>1. pc'[k] = pc[k] /\ ask'[k] = ask[k]
        BY <1>1, <3>2 DEF CallTypes
      <4>2. k \in waiters'[id] <=> k \in waiters[id]
        BY <1>1, <3>2
      <4> QED BY <3>0, <4>1, <4>2
    <3> QED BY <3>1, <3>2
  <2>2. ASSUME NEW k \in Caller, NEW id \in Id, k \in waiters'[id]
        PROVE  id \in DOMAIN entries' /\ entries'[id].state = "pending"
    <3>1. k \in waiters[id]
      BY <1>1, <2>2
    <3> QED BY <1>1, <3>1 DEF AsleepInv
  <2>3. ASSUME NEW k \in Caller, Waits(k)'
        PROVE  ask'[k].call \in Call /\ ask'[k].id \in Id
    BY <1>1, <2>3 DEF AsleepInv, Waits, CallTypes
  <2> QED BY <2>1, <2>2, <2>3 DEF AsleepInv
<1>4. PlacesInv'
  BY <1>1, PlacesSame DEF Waits, CallTypes
<1>5. GrantInv'
  BY <1>1 DEF GrantInv, CallTypes
<1> QED BY <1>2, <1>3, <1>4, <1>5 DEF CallInv

(* A woken call leaves its place and answers. *)
LEMMA ResumeCall ==
  ASSUME ServiceInv, NEW c \in Caller, Resume(c)
  PROVE  CallInv'
<1> DEFINE call == ask[c].call
           id == ask[c].id
<1> BookInv /\ PendingInv /\ CallTypes /\ AsleepInv /\ PlacesInv /\ GrantInv
  BY DEF ServiceInv
<1>1. /\ pc[c] = "woken" /\ Waits(c) /\ call \in Call /\ id \in Id /\ call.principal \in Principal
      /\ LeaveWait(call.principal) /\ UNCHANGED <<ask, aborted>> /\ LapsedIds \in SUBSET Id
  BY Lapse, CallAssumption DEF Resume, Waits, AsleepInv
<1>2. ASSUME NEW a \in Answers, NEW S, StillAsked(LapsedIds), Redeems(S), GrantsOf(S),
             WakeAndAnswer(LapsedIds, c, a),
             a = "granted" => audit'[id].requested = 1 /\ audit'[id].call = call
      PROVE  CallInv'
  <2>1. \A k \in Caller \ {c} : ask'[k] = ask[k]
    BY <1>1
  <2>2. /\ Wakes(LapsedIds, {c}) /\ pc'[c] = "answered" /\ answer'[c] = a
        /\ \A k \in Caller \ {c} : ToldBefore(k)
    BY <1>1, <1>2, <2>1, AnswerWakes
  <2>3. /\ pc' \in [Caller -> {"idle", "waiting", "woken", "answered"}]
        /\ wokenBy' \in [Caller -> {None, "book", "timer", "abort"}]
        /\ answer' \in [Caller -> Answers \cup {None}]
        /\ waiters' \in [Id -> SUBSET Caller]
    BY <1>1, <1>2, <2>1, AnswerWakes
  <2>4. AsleepInv'
    BY <1>1, <1>2, <2>2, AsleepWake
  <2>5. PlacesInv' /\ waiting' \in [Principal -> Nat] /\ waitingTotal' \in Nat
    <3>1. ~Waits(c)' /\ \A k \in Caller \ {c} : (Waits(k)' <=> Waits(k)) /\ ask'[k] = ask[k]
      BY <1>1, <2>1, <2>2, SleepersWait DEF Wakes, Waits
    <3> QED BY <1>1, <3>1, PlacesLess
  <2>6. CallTypes'
    BY <1>1, <1>2, <2>3, <2>5 DEF CallTypes, GrantsOf
  <2>7. TellsRun(c)
    BY <1>1, <1>2, <2>2 DEF TellsRun
  <2>8. GrantInv'
    BY <1>2, <2>2, <2>7, GrantKept
  <2> QED BY <2>4, <2>5, <2>6, <2>8 DEF CallInv
<1>3. CASE Redeem(id, call) /\ WakeAndAnswer(LapsedIds, c, "granted")
           /\ granted' = [granted EXCEPT ![id] = @ + 1]
  <2>1. GrantsOf({id}) /\ "granted" \in Answers
    BY <1>1, <1>3 DEF CallTypes, GrantsOf, Answers
  <2>2. /\ StillAsked(LapsedIds) /\ Redeems({id})
        /\ audit'[id].requested = 1 /\ audit'[id].call = call
    BY <1>1, <1>3, RedeemEffect
  <2> QED BY <1>2, <1>3, <2>1, <2>2
<1>4. ASSUME Sweep, UNCHANGED granted,
             NEW a \in {"declined", "expired", "pending"}, WakeAndAnswer(LapsedIds, c, a)
      PROVE  CallInv'
  <2>1. GrantsOf({}) /\ a \in Answers /\ a # "granted"
    BY <1>4, GrantsNone DEF Answers
  <2>2. StillAsked(LapsedIds) /\ Redeems({})
    BY <1>4, SweepEffect
  <2> QED BY <1>2, <1>4, <2>1, <2>2
<1> QED BY <1>3, <1>4 DEF Resume

LEMMA ReturnCall ==
  ASSUME ServiceInv, NEW c \in Caller, Return(c)
  PROVE  CallInv'
<1> BookInv /\ CallTypes /\ AsleepInv /\ PlacesInv /\ GrantInv
  BY DEF ServiceInv
<1>1. /\ pc[c] = "answered" /\ pc' = [pc EXCEPT ![c] = "idle"] /\ ask' = [ask EXCEPT ![c] = NoAsk]
      /\ answer' = [answer EXCEPT ![c] = None]
      /\ UNCHANGED <<entries, audit, waiters, waiting, waitingTotal, granted>>
  BY DEF Return, bookVars, waitVars
<1>2. CallTypes'
  BY <1>1 DEF Return, CallTypes, NoAsk
<1>3. \A k \in Caller : (Waits(k)' <=> Waits(k)) /\ (Waits(k) => ask'[k] = ask[k])
  BY <1>1 DEF Waits, CallTypes
<1>4. AsleepInv'
  BY <1>1, <1>3 DEF AsleepInv, Waits, CallTypes
<1>5. PlacesInv'
  BY <1>1, <1>3, PlacesSame
<1>6. TellsRun(c) /\ \A k \in Caller \ {c} : ToldBefore(k)
  BY <1>1, AnswerAssumption DEF TellsRun, ToldBefore, CallTypes, Answers
<1>7. GrantInv'
  BY <1>1, <1>6, NothingRedeemed, GrantsNone, GrantKept
<1> QED BY <1>2, <1>4, <1>5, <1>7 DEF CallInv

(* What the approver does wakes those asleep on X, and touches no call. *)
LEMMA WakeCalls ==
  ASSUME ServiceInv, NEW X \in SUBSET Id, Wake(X), StillAsked(X), Redeems({}),
         UNCHANGED <<ask, aborted, answer, waiting, waitingTotal, granted>>
  PROVE  CallInv'
<1> BookInv /\ CallTypes /\ AsleepInv /\ PlacesInv /\ GrantInv
  BY DEF ServiceInv
<1>1. \A k \in Sleeping(X) : k \in Caller /\ pc[k] = "waiting"
  BY SleepersWait
<1>2. CallTypes' /\ Wakes(X, {})
  BY DEF Wake, Wakes, CallTypes
<1>3. AsleepInv'
  BY <1>2, AsleepWake
<1>4. PlacesInv'
  BY <1>2, PlacesWake
<1>5. \A k \in Caller : ToldBefore(k)
  BY <1>1 DEF ToldBefore, Wake
<1>6. GrantInv'
  BY <1>5, GrantsNone, GrantKept
<1> QED BY <1>2, <1>3, <1>4, <1>6 DEF CallInv

LEMMA DecisionCall ==
  ASSUME ServiceInv, DecisionSide
  PROVE  CallInv'
<1> BookInv /\ PendingInv /\ LapsedIds \in SUBSET Id
  BY Lapse DEF ServiceInv
<1>1. UNCHANGED <<ask, aborted, answer, waiting, waitingTotal, granted>>
  BY DEF DecisionSide
<1>2. ASSUME NEW id \in Id, Decides(id)
      PROVE  CallInv'
  <2>1. StillAsked(LapsedIds \cup {id}) /\ Redeems({}) /\ Wake(LapsedIds \cup {id})
    BY <1>2, DecideEffect DEF Decides
  <2> QED BY <1>1, <2>1, WakeCalls
<1>3. ASSUME NEW id \in Id, DecidesNothing(id)
      PROVE  CallInv'
  <2>1. Sweep \/ LinkRefused(id) \/ WrongCode(id)
    BY <1>3 DEF DecidesNothing, DelegatedRefused, LinkDead
  <2>2. StillAsked(LapsedIds) /\ Redeems({}) /\ Wake(LapsedIds)
    BY <1>3, <2>1, SweepEffect, LinkEffect DEF DecidesNothing
  <2> QED BY <1>1, <2>2, WakeCalls
<1> QED BY <1>2, <1>3 DEF DecisionSide

LEMMA CallUnmoved ==
  ASSUME ServiceInv, UNCHANGED <<entries, audit, callVars, waitVars, granted>>
  PROVE  CallInv'
<1> /\ UNCHANGED <<entries, audit, pc, ask, aborted, wokenBy, answer>>
    /\ UNCHANGED <<waiters, waiting, waitingTotal, granted>>
  BY DEF callVars, waitVars
<1>1. CallTypes'
  BY DEF ServiceInv, CallTypes
<1>2. AsleepInv'
  BY DEF ServiceInv, AsleepInv, Waits
<1>3. PlacesInv'
  BY PlacesSame DEF ServiceInv, Waits
<1>4. GrantInv'
  BY DEF ServiceInv, GrantInv
<1> QED BY <1>1, <1>2, <1>3, <1>4 DEF CallInv

-----------------------------------------------------------------------------
LEMMA ServiceInvInit == ServiceInit => ServiceInv
<1> SUFFICES ASSUME ServiceInit PROVE ServiceInv
  OBVIOUS
<1>1. BookInv /\ PendingInv
  BY InvInit DEF ServiceInit, BookInit, PendingInv
<1>2. CallTypes
  BY DEF ServiceInit, CallTypes, NoAsk
<1>3. AsleepInv
  BY DEF ServiceInit, AsleepInv, Waits
<1>4. PlacesInv
  <2>1. AllHolders = {} /\ \A p \in Principal : Holders(p) = {}
    BY DEF ServiceInit, AllHolders, Holders, Waits
  <2> QED BY <2>1, FS_EmptySet, WaitAssumption DEF ServiceInit, PlacesInv
<1>5. GrantInv
  BY AnswerAssumption DEF ServiceInit, BookInit, NoRows, GrantInv, Answers
<1> QED BY <1>1, <1>2, <1>3, <1>4, <1>5 DEF ServiceInv

LEMMA ServiceInvNext ==
  ASSUME ServiceInv, [ServiceNext]_serviceVars
  PROVE  ServiceInv'
<1>1. CASE ServiceNext
  <2>1. CallInv'
    <3>1. ASSUME NEW c \in Caller, TimerFires(c)
          PROVE  CallInv'
      BY <3>1, StopCall DEF TimerFires, ServiceInv, CallTypes
    <3>2. ASSUME NEW c \in Caller, Disconnect(c)
          PROVE  CallInv'
      <4>1. aborted' \in [Caller -> BOOLEAN]
        BY <3>2 DEF Disconnect, ServiceInv, CallTypes
      <4>2. CASE pc[c] = "waiting"
        BY <3>2, <4>1, <4>2, StopCall DEF Disconnect
      <4>3. CASE pc[c] # "waiting"
        <5>1. UNCHANGED <<entries, audit, pc, ask, wokenBy, answer, waiters, waiting, waitingTotal, granted>>
          BY <3>2, <4>3 DEF Disconnect, bookVars
        <5>2. CallTypes'
          BY <4>1, <5>1 DEF ServiceInv, CallTypes
        <5>3. AsleepInv'
          BY <5>1 DEF ServiceInv, AsleepInv, Waits
        <5>4. PlacesInv'
          BY <5>1, PlacesSame DEF ServiceInv, Waits
        <5>5. GrantInv'
          BY <5>1 DEF ServiceInv, GrantInv
        <5> QED BY <5>2, <5>3, <5>4, <5>5 DEF CallInv
      <4> QED BY <4>2, <4>3
    <3>3. CASE Passes
      BY <3>3, CallUnmoved DEF Passes, Tick
    <3> QED BY <1>1, <3>1, <3>2, <3>3, RedeemCall, OpenCall, ResumeCall, ReturnCall, DecisionCall
            DEF ServiceNext
  <2> QED BY <1>1, <2>1, BookStep DEF CallInv, ServiceInv
<1>2. CASE UNCHANGED serviceVars
  <2>1. BookInv' /\ PendingInv'
    BY <1>2, InvNext DEF ServiceInv, PendingInv, serviceVars, bookVars
  <2>2. CallInv'
    BY <1>2, CallUnmoved DEF serviceVars, bookVars
  <2> QED BY <2>1, <2>2 DEF CallInv, ServiceInv
<1> QED BY <1>1, <1>2

(* The invariant of the service: the calls, their places and the grants they
   were given agree with the book. *)
THEOREM ServiceAlways == ServiceSpec => []ServiceInv
BY ServiceInvInit, ServiceInvNext, PTL DEF ServiceSpec, ServiceSafety

(* However calls interleave, the book beneath them behaves as the book alone
   does: what is proved of BookSpec holds of it (service.ts reaches the table
   by the book's methods only). *)
THEOREM ServiceRunsTheBook == ServiceSpec => BookSpec
<1>1. ServiceInit => BookInit
  BY DEF ServiceInit
<1>2. ServiceInv /\ [ServiceNext]_serviceVars => [BookNext]_bookVars
  BY ServiceStepsBook DEF serviceVars
<1> QED BY <1>1, <1>2, ServiceAlways, PTL DEF ServiceSpec, ServiceSafety, BookSpec

(* No call sleeps on a request that is decided or gone, the book's waiter sets
   are exactly the calls asleep, and the places counted are those of the calls
   that wait, under both caps (book.ts waitFor and #wake, APR-20). *)
THEOREM WakeupsNeverLost == ServiceSpec => []NoLostWakeup
<1>1. ServiceInv => NoLostWakeup
  <2> SUFFICES ASSUME ServiceInv PROVE NoLostWakeup
    OBVIOUS
  <2>1. ServiceTypeOK
    BY DEF ServiceInv, BookInv, TableOK, PairOK, RowOK, BookTypeOK, CallTypes, ServiceTypeOK
  <2> QED BY <2>1 DEF ServiceInv, AsleepInv, PlacesInv, Holders, AllHolders, NoLostWakeup
<1> QED BY <1>1, ServiceAlways, PTL

(* The calls told to run are the grants redeemed, never more than were
   approved, and each is the call that was approved (APR-2, APR-3). *)
THEOREM OneCallPerGrantAlways == ServiceSpec => []OneCallPerGrant
<1>1. ServiceInv => OneCallPerGrant
  BY DEF ServiceInv, GrantInv, BookInv, TableOK, RowOK, OneCallPerGrant
<1> QED BY <1>1, ServiceAlways, PTL

-----------------------------------------------------------------------------
(* The listener. *)

Rec ==
  [at : {"idle", "verifying", "reading", "answered"},
   kind : {None, "junk", "link", "requests"}, method : {None, "GET", "POST"},
   target : Id \cup {None}, bearer : Bearer \cup {None},
   client : Client \cup {None}, from : AddressKey \cup {None}, okThen : BOOLEAN,
   own : Id \cup Delegate \cup {None},
   sent : {None, "nothing", "wrong code", "code", "decision"}, noted : BOOLEAN,
   answer : {None, "limited", "failed", "refused", "shown", "decided"}]

(* A request is charged to its client's address, or a proxy's. *)
Attributed(q) ==
  /\ q.client \in Client
  /\ q.from \in {KeyOf[a] : a \in {q.client} \cup Proxy}

(* What a handler holds while it waits for the body: the link's own request, if
   the link was live, or the delegate that was verified. *)
Reading(q) ==
  /\ q.kind \in {"link", "requests"}
  /\ q.kind = "link" => q.own = None \/ (q.own = q.target /\ q.target \in Id)
  /\ q.kind = "requests" => q.own \in Delegate

ReqOK(q) ==
  /\ q \in Rec
  /\ q.at # "idle" => Attributed(q)
  /\ q.at # "answered" => q.answer = None /\ ~q.noted /\ q.sent = None
  /\ q.at = "reading" => Reading(q)
  /\ q.at = "verifying" => q.kind = "requests"

Started == {r \in Request : req[r].at # "idle"}

StageInv ==
  /\ req = [r \in Request |-> req[r]]
  /\ \A r \in Request : ReqOK(req[r])
  /\ IsFiniteSet(Started)

MoneyInv ==
  /\ budget \in [Key -> Nat]
  /\ refilled \in [Key -> Nat]
  /\ \A k \in AddressKey : SpentOf(k) = Cardinality(FailedFrom(k))

ToldInv ==
  \A id \in Id :
    /\ Cardinality(ToldDecided(id)) = audit[id].approved + audit[id].declined
    /\ \A r \in ToldDecided(id) : audit[id].approver = ApproverOf(req[r])

WindowInv ==
  /\ burst \in [count : Nat, timer : BOOLEAN, written : Nat]
  /\ CountAddsUp

(* The inductive invariant. *)
ListenerInv == BookInv /\ StageInv /\ MoneyInv /\ ToldInv /\ WindowInv

-----------------------------------------------------------------------------
(* What a handler's step does, by aspect. *)

Pays(n) ==
  IF n.answer = "failed" THEN budget[n.from] > 0 /\ Charge(n.from)
  ELSE UNCHANGED budget \/ \E k \in Id \cup Delegate \cup {None} : Charge(k) /\ (k \in Key => budget[k] > 0)

Counts(n) == IF n.noted THEN Note ELSE UNCHANGED burst

NothingDecided ==
  \/ Sweep \/ UNCHANGED bookVars
  \/ \E id \in Id : LinkRefused(id) \/ WrongCode(id)

Via1(n) == IF n.kind = "link" THEN "human" ELSE "delegated"

TakesDecision(n) ==
  /\ n.target \in DOMAIN Swept
  /\ MayDecide(Swept[n.target], ApproverOf(n), Via1(n))
  /\ IF n.kind = "link" THEN LinkLive(n.target) ELSE n.own \in Delegate
  /\ \E d \in Decision : Decide(n.target, ApproverOf(n), d, Via1(n))

DecidesAs(n) == IF n.answer = "decided" THEN TakesDecision(n) ELSE NothingDecided

Moves(r, n) ==
  /\ req' = [req EXCEPT ![r] = n]
  /\ req[r].at # "answered"
  /\ ReqOK(n) /\ n.at # "idle"
  /\ Pays(n) /\ Counts(n) /\ DecidesAs(n)
  /\ UNCHANGED <<refilled, listener>>

-----------------------------------------------------------------------------
(* How a handler ends. *)

(* The record n that answering q leaves. *)
EndsAs(q, n) ==
  /\ n \in Rec /\ n.at = "answered"
  /\ n.noted = q.noted /\ n.client = q.client /\ n.from = q.from /\ n.kind = q.kind /\ n.target = q.target
  /\ n.answer = "decided" => n.own = q.own

LEMMA AnsweredEnds ==
  ASSUME NEW r \in Request, NEW q \in Rec,
         NEW a \in {"limited", "failed", "refused", "shown", "decided"}, Answered(r, q, a)
  PROVE  \E n : req' = [req EXCEPT ![r] = n] /\ EndsAs(q, n) /\ n.answer = a /\ n.sent = q.sent
<1> DEFINE n == [q EXCEPT !.at = "answered", !.answer = a, !.method = None, !.bearer = None, !.okThen = FALSE,
                          !.own = IF a = "decided" THEN q.own ELSE None]
<1>1. req' = [req EXCEPT ![r] = n]
  BY DEF Answered
<1>2. n \in Rec
  <2>1. (IF a = "decided" THEN q.own ELSE None) \in Id \cup Delegate \cup {None}
    BY DEF Rec
  <2> DEFINE own == IF a = "decided" THEN q.own ELSE None
  <2> HIDE DEF own
  <2>2. n = [q EXCEPT !.at = "answered", !.answer = a, !.method = None, !.bearer = None, !.okThen = FALSE, !.own = own]
    BY DEF own
  <2>3. own \in Id \cup Delegate \cup {None}
    BY <2>1 DEF own
  <2> HIDE DEF n
  <2> QED  BY <2>2, <2>3 DEF Rec
<1>3. /\ n.at = "answered" /\ n.answer = a /\ n.sent = q.sent
      /\ n.noted = q.noted /\ n.client = q.client /\ n.from = q.from
      /\ n.kind = q.kind /\ n.target = q.target
      /\ n.own = IF a = "decided" THEN q.own ELSE None
  BY DEF Rec
<1> HIDE DEF n
<1>4. EndsAs(q, n)
  BY <1>2, <1>3 DEF EndsAs
<1> QED  BY <1>1, <1>3, <1>4

LEMMA LimitedEnds ==
  ASSUME NEW r \in Request, NEW q \in Rec, Limited(r, q)
  PROVE  \E n : req' = [req EXCEPT ![r] = n] /\ EndsAs(q, n) /\ n.answer = "limited" /\ Pays(n)
<1>1. PICK n : req' = [req EXCEPT ![r] = n] /\ EndsAs(q, n) /\ n.answer = "limited"
  BY AnsweredEnds DEF Limited
<1> QED  BY <1>1 DEF Limited, Pays

LEMMA FailsEnds ==
  ASSUME NEW r \in Request, NEW q \in Rec, Fails(r, q)
  PROVE  \E n : req' = [req EXCEPT ![r] = n] /\ EndsAs(q, n) /\ n.answer \in {"failed", "limited"} /\ Pays(n)
<1>1. CASE q.okThen /\ budget[q.from] > 0
  <2>1. PICK n : req' = [req EXCEPT ![r] = n] /\ EndsAs(q, n) /\ n.answer = "failed"
    BY <1>1, AnsweredEnds DEF Fails
  <2>2. Charge(n.from) /\ budget[n.from] > 0
    BY <1>1, <2>1 DEF Fails, EndsAs
  <2> QED  BY <2>1, <2>2 DEF Pays
<1>2. CASE ~(q.okThen /\ budget[q.from] > 0)
  BY <1>2, LimitedEnds DEF Fails
<1> QED  BY <1>1, <1>2

(* An end that is no decision, of a handler whose request is attributed. *)
LEMMA EndMoves ==
  ASSUME NEW r \in Request, NEW q, Attributed(q), NEW n, EndsAs(q, n), NoneAssumption,
         req' = [req EXCEPT ![r] = n], req[r].at # "answered",
         n.answer # "decided", Pays(n),
         IF q.noted THEN Note ELSE UNCHANGED burst,
         NothingDecided, UNCHANGED <<refilled, listener>>
  PROVE  \E m : Moves(r, m)
<1>1. Attributed(n)
  BY DEF EndsAs, Attributed
<1>2. ReqOK(n)
  BY <1>1 DEF EndsAs, ReqOK
<1> QED  BY <1>2 DEF EndsAs, Moves, Counts, DecidesAs

-----------------------------------------------------------------------------
(* The steps of a handler, one by one. *)

(* What a handler has in hand in any of its steps. *)
Held(q) == q \in Rec /\ Attributed(q) /\ q.answer = None /\ ~q.noted

LEMMA NotedHeld ==
  ASSUME NEW q, Held(q)
  PROVE  Noted(q) \in Rec /\ Attributed(Noted(q)) /\ Noted(q).noted
BY DEF Held, Noted, Rec, Attributed

LEMMA FailsMoves ==
  ASSUME NEW r \in Request, NEW q, Held(q), req[r].at # "answered", Fails(r, q), NotNoted,
         NothingDecided, UNCHANGED <<refilled, listener>>
  PROVE  \E m : Moves(r, m)
<1>1. PICK n : req' = [req EXCEPT ![r] = n] /\ EndsAs(q, n) /\ n.answer \in {"failed", "limited"} /\ Pays(n)
  BY FailsEnds DEF Held
<1> QED  BY <1>1, EndMoves, NoneAssumption DEF Held, NotNoted

LEMMA FailsNoted ==
  ASSUME NEW r \in Request, NEW q, Held(q), req[r].at # "answered", Fails(r, Noted(q)), Note,
         NothingDecided, UNCHANGED <<refilled, listener>>
  PROVE  \E m : Moves(r, m)
<1>1. PICK n : req' = [req EXCEPT ![r] = n] /\ EndsAs(Noted(q), n) /\ n.answer \in {"failed", "limited"} /\ Pays(n)
  BY FailsEnds, NotedHeld
<1> QED  BY <1>1, EndMoves, NotedHeld, NoneAssumption

LEMMA LimitedMoves ==
  ASSUME NEW r \in Request, NEW q, Held(q), req[r].at # "answered", Limited(r, q), NotNoted,
         NothingDecided, UNCHANGED <<refilled, listener>>
  PROVE  \E m : Moves(r, m)
<1>1. PICK n : req' = [req EXCEPT ![r] = n] /\ EndsAs(q, n) /\ n.answer = "limited" /\ Pays(n)
  BY LimitedEnds DEF Held
<1> QED  BY <1>1, EndMoves, NoneAssumption DEF Held, NotNoted

LEMMA LimitedNoted ==
  ASSUME NEW r \in Request, NEW q, Held(q), req[r].at # "answered", Limited(r, Noted(q)), Note,
         NothingDecided, UNCHANGED <<refilled, listener>>
  PROVE  \E m : Moves(r, m)
<1>1. PICK n : req' = [req EXCEPT ![r] = n] /\ EndsAs(Noted(q), n) /\ n.answer = "limited" /\ Pays(n)
  BY LimitedEnds, NotedHeld
<1> QED  BY <1>1, EndMoves, NotedHeld, NoneAssumption

(* An answer that costs its own budget a token, or nothing. *)
LEMMA AnsweredMoves ==
  ASSUME NEW r \in Request, NEW q, Held(q), req[r].at # "answered",
         NEW a \in {"refused", "shown"}, Answered(r, q, a), NotNoted,
         UNCHANGED budget \/ \E k \in Id \cup Delegate \cup {None} : Charge(k) /\ (k \in Key => budget[k] > 0),
         NothingDecided, UNCHANGED <<refilled, listener>>
  PROVE  \E m : Moves(r, m)
<1>1. PICK n : req' = [req EXCEPT ![r] = n] /\ EndsAs(q, n) /\ n.answer = a
  BY AnsweredEnds DEF Held
<1>2. Pays(n)
  BY <1>1 DEF Pays
<1> QED  BY <1>1, <1>2, EndMoves, NoneAssumption DEF Held, NotNoted

(* An answer that tells of a decision. *)
LEMMA DecidedMoves ==
  ASSUME NEW r \in Request, NEW q, Held(q), req[r].at # "answered",
         Answered(r, q, "decided"), NotNoted,
         UNCHANGED budget \/ \E k \in Id \cup Delegate \cup {None} : Charge(k) /\ (k \in Key => budget[k] > 0),
         TakesDecision(q), UNCHANGED <<refilled, listener>>
  PROVE  \E m : Moves(r, m)
<1>1. PICK n : req' = [req EXCEPT ![r] = n] /\ EndsAs(q, n) /\ n.answer = "decided"
  BY AnsweredEnds DEF Held
<1>2. Pays(n)
  BY <1>1 DEF Pays
<1>3. n.kind = q.kind /\ n.target = q.target /\ n.own = q.own
  BY <1>1 DEF EndsAs
<1>4. TakesDecision(n)
  BY <1>3 DEF TakesDecision, ApproverOf, Via1
<1>5. Attributed(n) /\ ReqOK(n)
  BY <1>1 DEF EndsAs, ReqOK, Attributed, Held
<1>6. Counts(n)
  BY <1>1 DEF EndsAs, Held, Counts, NotNoted
<1> QED  BY <1>1, <1>2, <1>4, <1>5, <1>6 DEF EndsAs, Moves, DecidesAs

(* A wait for the verifier or for the body. *)
LEMMA WaitMoves ==
  ASSUME NEW r \in Request, NEW q, Held(q), q.sent = None, req[r].at # "answered",
         NEW n \in Rec, n.at \in {"verifying", "reading"},
         n.client = q.client /\ n.from = q.from /\ n.answer = None /\ ~n.noted /\ n.sent = None,
         n.at = "reading" => Reading(n), n.at = "verifying" => n.kind = "requests",
         req' = [req EXCEPT ![r] = n], NotNoted,
         UNCHANGED budget \/ \E k \in Id \cup Delegate \cup {None} : Charge(k) /\ (k \in Key => budget[k] > 0),
         NothingDecided, UNCHANGED <<refilled, listener>>
  PROVE  \E m : Moves(r, m)
<1>1. ReqOK(n)
  BY DEF ReqOK, Held, Attributed
<1>2. Pays(n) /\ Counts(n) /\ DecidesAs(n)
  BY NoneAssumption DEF Pays, Counts, DecidesAs, NotNoted
<1> QED  BY <1>1, <1>2 DEF Moves

LEMMA HandleMoves ==
  ASSUME ListenerInv, NEW r \in Request, req[r].at # "answered",
         NEW q, Held(q), q.sent = None, q.kind \in {"junk", "link", "requests"}, Handle(r, q), UNCHANGED <<refilled, listener>>
  PROVE  \E m : Moves(r, m)
<1>1. DOMAIN Swept \subseteq Id
  BY SweptOK DEF ListenerInv, TableOK
<1>2. CASE Unroutable(r, q)
  BY <1>2, FailsMoves DEF Unroutable, NothingDecided, BookStill
<1>3. CASE Unlooked(r, q)
  BY <1>3, LimitedMoves DEF Unlooked, NothingDecided, BookStill
<1>4. CASE Unissued(r, q)
  BY <1>4, LimitedNoted DEF Unissued, NothingDecided, BookStill
<1>5. CASE SpentLink(r, q)
  BY <1>5, LimitedNoted DEF SpentLink, NothingDecided
<1>6. CASE ReadDeadLink(r, q)
  BY <1>6, FailsMoves DEF ReadDeadLink, NothingDecided
<1>7. CASE ReadLink(r, q)
  <2>1. q.target \in Id
    BY <1>1, <1>7 DEF ReadLink, LinkLive
  <2>2. CASE budget[q.target] > 0
    BY <1>7, <2>1, <2>2, AnsweredMoves DEF ReadLink, NothingDecided
  <2>3. CASE ~(budget[q.target] > 0)
    BY <1>7, <2>3, LimitedMoves DEF ReadLink, NothingDecided
  <2> QED  BY <2>2, <2>3
<1>8. CASE PostLink(r, q)
  <2> DEFINE own == IF LinkLive(q.target) THEN q.target ELSE None
             n == [q EXCEPT !.at = "reading", !.own = own]
  <2>1. own \in Id \cup {None} /\ (own = None \/ (own = q.target /\ q.target \in Id))
    BY <1>1 DEF LinkLive
  <2>2. req' = [req EXCEPT ![r] = n] /\ UNCHANGED budget /\ NotNoted /\ Sweep /\ q.kind = "link"
    BY <1>8 DEF PostLink, AwaitBody, LookedUp
  <2> HIDE DEF own
  <2>3. /\ n \in Rec /\ n.at = "reading" /\ n.own = own /\ n.kind = q.kind /\ n.target = q.target
        /\ n.client = q.client /\ n.from = q.from /\ n.answer = None /\ ~n.noted /\ n.sent = None
    BY <2>1 DEF Rec, Held
  <2> HIDE DEF n
  <2>4. Reading(n)
    BY <2>1, <2>2, <2>3 DEF Reading
  <2> QED  BY <2>2, <2>3, <2>4, WaitMoves DEF NothingDecided
<1>9. CASE AwaitVerdict(r, q)
  <2> DEFINE n == [q EXCEPT !.at = "verifying"]
  <2>1. req' = [req EXCEPT ![r] = n] /\ UNCHANGED budget /\ NotNoted /\ BookStill /\ q.kind = "requests"
    BY <1>9 DEF AwaitVerdict
  <2>2. /\ n \in Rec /\ n.at = "verifying" /\ n.kind = q.kind
        /\ n.client = q.client /\ n.from = q.from /\ n.answer = None /\ ~n.noted /\ n.sent = None
    BY DEF Rec, Held
  <2> HIDE DEF n
  <2> QED  BY <2>1, <2>2, WaitMoves DEF NothingDecided, BookStill
<1> QED  BY <1>2, <1>3, <1>4, <1>5, <1>6, <1>7, <1>8, <1>9 DEF Handle

(* A route names the client, or a trusted proxy: the list a client sends is
   never read past the entry its proxy wrote. *)
LEMMA RouteAttributes ==
  ASSUME NEW c \in Client, NEW route \in Routes(c)
  PROVE  /\ ClientAddress(route.peer, route.forwarded) \in {c} \cup Proxy
         /\ {c} \cup Proxy \subseteq Address
<1>1. c \notin Proxy /\ {c} \cup Proxy \subseteq Address
  BY AddressAssumption
<1>2. CASE route \in {[peer |-> c, forwarded |-> f] : f \in Forged}
  BY <1>1, <1>2 DEF ClientAddress
<1>3. ASSUME NEW p \in Proxy, NEW f \in Forged, route = [peer |-> p, forwarded |-> Append(f, c)]
      PROVE  ClientAddress(route.peer, route.forwarded) \in {c} \cup Proxy
  <2> DEFINE list == Append(f, c)
             strangers == {i \in DOMAIN list : list[i] \notin Proxy}
  <2>1. /\ f \in Seq(ToSet(f)) /\ DOMAIN list = 1 .. Len(f) + 1
        /\ Len(f) + 1 \in DOMAIN list /\ list[Len(f) + 1] = c
    BY AddressAssumption
  <2>2. Len(f) + 1 \in strangers /\ \A j \in strangers : j <= Len(f) + 1
    BY <1>1, <2>1
  <2>3. \A i \in strangers : (\A j \in strangers : j <= i) => i = Len(f) + 1
    BY <2>1, <2>2
  <2>4. list[CHOOSE i \in strangers : \A j \in strangers : j <= i] = c
    BY <2>1, <2>2, <2>3
  <2>5. ClientAddress(p, list) \in {p, c}
    BY <2>4 DEF ClientAddress
  <2> QED  BY <1>3, <2>5
<1> QED  BY <1>1, <1>2, <1>3 DEF Routes

LEMMA ArriveMoves ==
  ASSUME ListenerInv, NEW r \in Request, Arrive(r)
  PROVE  \E m : Moves(r, m)
<1>1. PICK s \in Shape, client \in Client : \E route \in Routes(client) :
        LET from == KeyOf[ClientAddress(route.peer, route.forwarded)] IN
        Handle(r, [Fresh EXCEPT !.kind = s.kind, !.method = s.method, !.target = s.target,
                                !.bearer = s.bearer, !.client = client,
                                !.from = from, !.okThen = budget[from] > 0])
  BY DEF Arrive
<1>2. PICK route \in Routes(client) :
        LET from == KeyOf[ClientAddress(route.peer, route.forwarded)] IN
        Handle(r, [Fresh EXCEPT !.kind = s.kind, !.method = s.method, !.target = s.target,
                                !.bearer = s.bearer, !.client = client,
                                !.from = from, !.okThen = budget[from] > 0])
  BY <1>1
<1> DEFINE from == KeyOf[ClientAddress(route.peer, route.forwarded)]
           ok == budget[from] > 0
           q == [Fresh EXCEPT !.kind = s.kind, !.method = s.method, !.target = s.target,
                              !.bearer = s.bearer, !.client = client, !.from = from, !.okThen = ok]
<1>3. Handle(r, q)
  BY <1>2
<1>4. from \in {KeyOf[a] : a \in {client} \cup Proxy} /\ from \in AddressKey
  BY RouteAttributes DEF AddressKey
<1>5. /\ s.kind \in {"junk", "link", "requests"} /\ s.method \in {"GET", "POST"}
      /\ s.bearer \in Bearer /\ s.target \in Id \cup {None}
  BY DEF Shape, Named, Bearer
<1>6. ok \in BOOLEAN
  OBVIOUS
<1> HIDE DEF from, ok
<1>7. /\ q \in Rec /\ q.client = client /\ q.from = from /\ q.kind = s.kind
      /\ q.answer = None /\ ~q.noted /\ q.sent = None
  BY <1>4, <1>5, <1>6 DEF Rec, Fresh
<1> HIDE DEF q
<1>8. Held(q)
  BY <1>4, <1>7 DEF Held, Attributed
<1>9. q.kind \in {"junk", "link", "requests"} /\ req[r].at # "answered" /\ UNCHANGED <<refilled, listener>>
  BY <1>5, <1>7 DEF Arrive
<1> QED  BY <1>3, <1>7, <1>8, <1>9, HandleMoves

LEMMA VerifiedMoves ==
  ASSUME ListenerInv, NEW r \in Request, Verified(r)
  PROVE  \E m : Moves(r, m)
<1> DEFINE q == req[r]
<1>1. /\ q \in Rec /\ q.at = "verifying" /\ Held(q) /\ q.sent = None /\ q.kind = "requests"
      /\ q.at # "answered" /\ UNCHANGED <<refilled, listener>>
  BY DEF Verified, ListenerInv, StageInv, ReqOK, Held
<1> HIDE DEF q
<1>2. CASE VerdictLate(r, q)
  BY <1>1, <1>2, FailsMoves DEF VerdictLate, NothingDecided, BookStill, q
<1>3. CASE Unauthenticated(r, q)
  BY <1>1, <1>3, FailsNoted DEF Unauthenticated, NothingDecided, BookStill, q
<1>4. CASE OverOwnBudget(r, q)
  BY <1>1, <1>4, LimitedMoves DEF OverOwnBudget, NothingDecided, BookStill, q
<1>5. CASE ReadRequest(r, q)
  <2>1. q.bearer \in Delegate /\ budget[q.bearer] > 0 /\ Charge(q.bearer) /\ Sweep /\ NotNoted
    BY <1>5 DEF ReadRequest
  <2>2. PICK a \in {"refused", "shown"} : Answered(r, q, a)
    BY <1>5 DEF ReadRequest
  <2> QED  BY <1>1, <2>1, <2>2, AnsweredMoves DEF NothingDecided, q
<1>6. CASE PostRequest(r, q)
  <2> DEFINE n == [q EXCEPT !.at = "reading", !.own = q.bearer]
  <2>1. /\ q.bearer \in Delegate /\ budget[q.bearer] > 0 /\ Charge(q.bearer) /\ BookStill /\ NotNoted
        /\ req' = [req EXCEPT ![r] = n]
    BY <1>6 DEF PostRequest
  <2>2. /\ n \in Rec /\ n.at = "reading" /\ n.own = q.bearer /\ n.kind = q.kind
        /\ n.client = q.client /\ n.from = q.from /\ n.answer = None /\ ~n.noted /\ n.sent = None
    BY <1>1, <2>1 DEF Rec, Held
  <2> HIDE DEF n
  <2>3. Reading(n)
    BY <1>1, <2>1, <2>2 DEF Reading
  <2> QED  BY <1>1, <2>1, <2>2, <2>3, WaitMoves DEF NothingDecided, BookStill, q
<1> QED  BY <1>2, <1>3, <1>4, <1>5, <1>6 DEF Verified, q

(* What the handler has once the body is in. *)
Sent(r, q) ==
  /\ Held(q) /\ Reading(q)
  /\ req[r].at = "reading"
  /\ q.sent \in {"nothing", "wrong code", "code", "decision"}

LEMMA DecidedStepMoves ==
  ASSUME ListenerInv, NEW r \in Request, NEW q, Sent(r, q), Decided(r, q), UNCHANGED <<refilled, listener>>
  PROVE  \E m : Moves(r, m)
<1>1. /\ Held(q) /\ Reading(q) /\ req[r].at # "answered"
      /\ DOMAIN Swept \subseteq Id
  BY SweptOK DEF ListenerInv, TableOK, Sent
<1>2. /\ q.own \in Id \cup Delegate \cup {None}
      /\ MayTry(q) => (q.own \in Key => budget[q.own] > 0)
  <2>1. q.own \in Id \cup Delegate \cup {None}
    BY <1>1 DEF Held, Rec
  <2>2. ASSUME MayTry(q), q.own \in Key PROVE budget[q.own] > 0
    <3>1. budget[q.own] \in Nat
      BY <2>2 DEF ListenerInv, MoneyInv
    <3>2. q.own # None
      BY <2>2, NoneAssumption, PrincipalAssumption DEF MayTry, Key
    <3> QED  BY <2>2, <3>1, <3>2 DEF MayTry, OwnSpent
  <2> QED  BY <2>1, <2>2
<1>3. CASE Malformed(r, q)
  <2>1. CASE q.kind = "link"
    BY <1>1, <1>3, <2>1, FailsMoves DEF Malformed, NothingDecided, BookStill
  <2>2. CASE q.kind # "link"
    BY <1>1, <1>3, <2>2, AnsweredMoves DEF Malformed, NothingDecided, BookStill
  <2> QED  BY <2>1, <2>2
<1>4. CASE LinkOverBudget(r, q)
  BY <1>1, <1>4, LimitedMoves DEF LinkOverBudget, NothingDecided, BookStill
<1>5. CASE DecidedByLink(r, q)
  <2>1. /\ MayTry(q) /\ q.kind = "link" /\ Answered(r, q, "decided") /\ Charge(q.own) /\ NotNoted
        /\ \E d \in Decision : DecideByLink(q.target, d)
    BY <1>5 DEF DecidedByLink, MayTryCode, MayTry, DecidesByLink
  <2>2. TakesDecision(q)
    BY <2>1 DEF TakesDecision, DecideByLink, LinkDecides, LinkLive, ApproverOf, Via1
  <2> QED  BY <1>1, <1>2, <2>1, <2>2, DecidedMoves
<1>6. CASE RefusedByLink(r, q)
  <2>1. /\ MayTry(q) /\ Answered(r, q, "refused") /\ Charge(q.own) /\ NotNoted /\ LinkRefused(q.target)
    BY <1>6 DEF RefusedByLink, MayTryCode, MayTry
  <2>2. q.target \in Id
    BY <1>1, <2>1 DEF LinkRefused, LinkLive
  <2> QED  BY <1>1, <1>2, <2>1, <2>2, AnsweredMoves DEF NothingDecided
<1>7. CASE WrongCodeSent(r, q)
  <2>1. q.target \in Id
    BY <1>1, <1>7 DEF WrongCodeSent, WrongCode, LinkLive
  <2> QED  BY <1>1, <1>7, <2>1, FailsMoves DEF WrongCodeSent, NothingDecided
<1>8. CASE DeadLink(r, q)
  <2>1. CASE q.target \in DOMAIN Swept
    BY <1>1, <1>8, <2>1, FailsMoves DEF DeadLink, LinkDead, NothingDecided
  <2>2. CASE q.target \notin DOMAIN Swept
    BY <1>1, <1>8, <2>2, FailsNoted DEF DeadLink, LinkDead, NothingDecided
  <2> QED  BY <2>1, <2>2
<1>9. CASE DelegateDecides(r, q)
  <2>1. /\ q.kind = "requests" /\ q.own \in Delegate
        /\ Answered(r, q, "decided") /\ UNCHANGED budget /\ NotNoted
        /\ \E d \in Decision : DecideDelegated(q.target, q.own, d)
    BY <1>1, <1>9 DEF DelegateDecides, Reading
  <2>2. TakesDecision(q)
    BY <2>1 DEF TakesDecision, DecideDelegated, DelegatedDecides, ApproverOf, Via1
  <2> QED  BY <1>1, <2>1, <2>2, DecidedMoves
<1>10. CASE DelegateRefused(r, q)
  BY <1>1, <1>10, AnsweredMoves DEF DelegateRefused, DelegatedRefused, NothingDecided
<1> QED  BY <1>3, <1>4, <1>5, <1>6, <1>7, <1>8, <1>9, <1>10 DEF Decided

LEMMA BodySent ==
  ASSUME ListenerInv, NEW r \in Request, req[r].at = "reading", NEW body \in Bodies(req[r])
  PROVE  LET q == [req[r] EXCEPT !.sent = body] IN
         /\ Sent(r, q) /\ q.sent = body
         /\ q.kind = req[r].kind /\ q.target = req[r].target /\ q.own = req[r].own
<1> DEFINE q == [req[r] EXCEPT !.sent = body]
<1>1. req[r] \in Rec /\ ReqOK(req[r]) /\ body \in {"nothing", "wrong code", "code", "decision"}
  BY DEF ListenerInv, StageInv, ReqOK, Bodies
<1>2. /\ q \in Rec /\ q.sent = body /\ q.kind = req[r].kind /\ q.target = req[r].target /\ q.own = req[r].own
      /\ q.client = req[r].client /\ q.from = req[r].from /\ q.answer = req[r].answer /\ q.noted = req[r].noted
  BY <1>1 DEF Rec
<1> HIDE DEF q
<1>3. Sent(r, q)
  BY <1>1, <1>2 DEF Sent, Held, Reading, ReqOK, Attributed
<1> QED  BY <1>2, <1>3 DEF q

LEMMA BodyMoves ==
  ASSUME ListenerInv, NEW r \in Request, BodyRead(r)
  PROVE  \E m : Moves(r, m)
BY BodySent, DecidedStepMoves DEF BodyRead

(* All a step of a handler does. *)
LEMMA HandlerMoves ==
  ASSUME ListenerInv, NEW r \in Request, Arrive(r) \/ Verified(r) \/ BodyRead(r)
  PROVE  \E n : Moves(r, n)
BY ArriveMoves, VerifiedMoves, BodyMoves

-----------------------------------------------------------------------------
(* The book beneath. *)

(* A sweep alone is a step the book has: it is what a refusal leaves. *)
LEMMA SweepInBook ==
  ASSUME BookInv, Sweep
  PROVE  [BookNext]_bookVars
<1>1. CASE DOMAIN entries = {}
  <2>1. Swept = entries /\ SweptAudit = audit
    BY <1>1 DEF Swept, SweptAudit, LapsedIds, BookInv, TableOK
  <2> QED  BY <2>1 DEF Sweep, bookVars
<1>2. ASSUME NEW id \in DOMAIN entries
      PROVE  BookNext
  <2>1. id \in Id /\ entries[id].call \in Call
    BY DEF BookInv, TableOK, PairOK, Entry
  <2>2. CASE LinkLive(id)
    BY <2>1, <2>2 DEF LinkLive, Redeemable, RedeemRefused, BookNext
  <2>3. CASE ~LinkLive(id)
    BY <2>1, <2>3 DEF LinkDead, BookNext
  <2> QED  BY <2>2, <2>3
<1> QED  BY <1>1, <1>2

LEMMA ListenerStepsBook ==
  ASSUME ListenerInv, ListenerNext
  PROVE  [BookNext]_bookVars
<1>1. BookInv /\ DOMAIN Swept \subseteq Id
  BY SweptOK DEF ListenerInv, TableOK
<1>2. ASSUME NEW r, NEW n, Moves(r, n)
      PROVE  [BookNext]_bookVars
  <2>1. CASE n.answer = "decided"
    <3>1. TakesDecision(n)
      BY <1>2, <2>1 DEF Moves, DecidesAs
    <3>2. CASE n.kind = "link"
      <4>1. \E d \in Decision : DecideByLink(n.target, d)
        BY <3>1, <3>2 DEF TakesDecision, ApproverOf, Via1, DecideByLink, LinkDecides
      <4>2. n.target \in Id
        BY <1>1, <3>1 DEF TakesDecision
      <4> QED  BY <4>1, <4>2 DEF BookNext
    <3>3. CASE n.kind # "link"
      BY <1>1, <3>1, <3>3 DEF TakesDecision, ApproverOf, Via1, DecideDelegated, DelegatedDecides, BookNext
    <3> QED  BY <3>2, <3>3
  <2>2. CASE n.answer # "decided"
    <3>1. NothingDecided
      BY <1>2, <2>2 DEF Moves, DecidesAs
    <3> QED  BY <1>1, <3>1, SweepInBook DEF NothingDecided, BookNext
  <2> QED  BY <2>1, <2>2
<1>3. ASSUME NEW r \in Request, Arrive(r) \/ Verified(r) \/ BodyRead(r)
      PROVE  [BookNext]_bookVars
  BY <1>2, <1>3, HandlerMoves
<1>4. CASE CallSide
  BY <1>4 DEF CallSide, BookNext
<1> QED  BY <1>3, <1>4 DEF ListenerNext, WindowEnds, Close, Closed, Refill

-----------------------------------------------------------------------------
(* A handler's step and the stages. *)
NotedRequests == {r \in Request : req[r].noted}

LEMMA Finite ==
  ASSUME StageInv
  PROVE  /\ \A k : IsFiniteSet(FailedFrom(k))
         /\ IsFiniteSet(NotedRequests)
         /\ \A id : IsFiniteSet(ToldDecided(id))
<1>1. \A r \in Request : req[r].at = "idle" => req[r].answer = None /\ ~req[r].noted
  BY DEF StageInv, ReqOK
<1>2. \A k : FailedFrom(k) \subseteq Started
  BY <1>1, NoneAssumption DEF FailedFrom, Started
<1>3. NotedRequests \subseteq Started
  BY <1>1 DEF NotedRequests, Started
<1>4. \A id : ToldDecided(id) \subseteq Started
  BY <1>1, NoneAssumption DEF ToldDecided, Started
<1>5. IsFiniteSet(Started)
  BY DEF StageInv
<1> QED  BY <1>2, <1>3, <1>4, <1>5, FS_Subset

(* The record a step replaces was nobody's answer, and no other record changes. *)
LEMMA OneRecord ==
  ASSUME StageInv, NEW r \in Request, NEW n, Moves(r, n)
  PROVE  /\ req[r].answer = None /\ ~req[r].noted
         /\ req'[r] = n /\ ReqOK(n)
         /\ \A s \in Request : s # r => req'[s] = req[s]
         /\ req' = [s \in Request |-> req'[s]]
<1>1. req = [s \in Request |-> req[s]] /\ ReqOK(req[r])
  BY DEF StageInv
<1>2. req' = [req EXCEPT ![r] = n] /\ req[r].at # "answered" /\ ReqOK(n)
  BY DEF Moves
<1>3. req'[r] = n
  BY <1>1, <1>2
<1>4. \A s \in Request : s # r => req'[s] = req[s]
  BY <1>1, <1>2
<1>5. req' = [s \in Request |-> req'[s]]
  BY <1>1, <1>2
<1>6. req[r].answer = None /\ ~req[r].noted
  BY <1>1, <1>2 DEF ReqOK
<1> QED  BY <1>2, <1>3, <1>4, <1>5, <1>6

LEMMA MovesStage ==
  ASSUME StageInv, NEW r \in Request, NEW n, Moves(r, n)
  PROVE  StageInv'
<1>1. \A s \in Request : ReqOK(req'[s])
  BY OneRecord DEF StageInv
<1>2. \A s \in Request : ReqOK(req[s])'
  BY <1>1 DEF ReqOK, Rec, Attributed, Reading
<1>3. Started' \subseteq Started \cup {r}
  BY OneRecord DEF Started
<1>4. IsFiniteSet(Started')
  BY <1>3, FS_AddElement, FS_Subset DEF StageInv
<1> QED  BY <1>2, <1>4, OneRecord DEF StageInv

-----------------------------------------------------------------------------
(* A handler's step and the budgets. *)

LEMMA ChargeOne ==
  ASSUME MoneyInv, NEW k, Charge(k), k \in Key => budget[k] > 0
  PROVE  /\ budget' \in [Key -> Nat]
         /\ \A j \in Key : budget'[j] = IF j = k THEN budget[j] - 1 ELSE budget[j]
<1>1. budget \in [Key -> Nat] /\ budget' = [budget EXCEPT ![k] = budget[k] - 1]
  BY DEF MoneyInv, Charge
<1>2. CASE k \in Key
  <2>1. budget[k] - 1 \in Nat
    BY <1>1, <1>2
  <2> QED  BY <1>1, <1>2, <2>1
<1>3. CASE k \notin Key
  BY <1>1, <1>3
<1> QED  BY <1>2, <1>3

LEMMA MovesMoney ==
  ASSUME StageInv, MoneyInv, NEW r \in Request, NEW n, Moves(r, n)
  PROVE  MoneyInv'
<1>1. /\ UNCHANGED refilled /\ Pays(n) /\ Attributed(n) /\ n.from \in AddressKey
      /\ req[r].answer # "failed" /\ AddressKey \subseteq Key
  <2>1. UNCHANGED refilled /\ Pays(n) /\ Attributed(n)
    BY DEF Moves, ReqOK
  <2>2. n.from \in AddressKey
    BY <2>1, AddressAssumption DEF Attributed, AddressKey
  <2>3. req[r].answer # "failed"
    BY OneRecord, NoneAssumption
  <2> QED  BY <2>1, <2>2, <2>3 DEF Key
<1>2. CASE n.answer = "failed"
  <2>1. Charge(n.from) /\ budget[n.from] > 0
    BY <1>1, <1>2 DEF Pays
  <2>2. ASSUME NEW k \in AddressKey
        PROVE  SpentOf(k)' = Cardinality(FailedFrom(k))'
    <3>1. IsFiniteSet(FailedFrom(k)) /\ Cardinality(FailedFrom(k)) \in Nat
      BY Finite, FS_CardinalityType
    <3>2. budget[k] \in Nat /\ refilled[k] \in Nat /\ SpentOf(k) = Cardinality(FailedFrom(k)) /\ Burst \in Nat
      BY <1>1, BudgetAssumption DEF MoneyInv
    <3>3. CASE k = n.from
      <4>1. FailedFrom(k)' = FailedFrom(k) \cup {r} /\ r \notin FailedFrom(k)
        BY <1>1, <1>2, <3>3, OneRecord DEF FailedFrom
      <4>2. Cardinality(FailedFrom(k)') = Cardinality(FailedFrom(k)) + 1
        BY <3>1, <4>1, FS_AddElement
      <4>3. budget'[k] = budget[k] - 1
        BY <1>1, <2>1, <3>3, ChargeOne
      <4> QED  BY <1>1, <3>1, <3>2, <4>2, <4>3 DEF SpentOf
    <3>4. CASE k # n.from
      <4>1. FailedFrom(k)' = FailedFrom(k)
        BY <1>1, <3>4, OneRecord DEF FailedFrom
      <4>2. budget'[k] = budget[k]
        BY <1>1, <2>1, <3>4, ChargeOne
      <4> QED  BY <1>1, <3>2, <4>1, <4>2 DEF SpentOf
    <3> QED  BY <3>3, <3>4
  <2>3. budget' \in [Key -> Nat]
    BY <2>1, ChargeOne
  <2> QED  BY <1>1, <2>2, <2>3 DEF MoneyInv
<1>3. CASE n.answer # "failed"
  <2>1. budget' \in [Key -> Nat] /\ \A k \in AddressKey : budget'[k] = budget[k]
    <3>1. CASE UNCHANGED budget
      BY <3>1 DEF MoneyInv
    <3>2. ASSUME NEW j \in Id \cup Delegate \cup {None}, Charge(j), j \in Key => budget[j] > 0
          PROVE  budget' \in [Key -> Nat] /\ \A k \in AddressKey : budget'[k] = budget[k]
      <4>1. j \notin AddressKey
        BY KeyAssumption, NoneAssumption
      <4> QED  BY <1>1, <3>2, <4>1, ChargeOne
    <3> QED  BY <1>1, <1>3, <3>1, <3>2 DEF Pays
  <2>2. \A k \in AddressKey : FailedFrom(k)' = FailedFrom(k)
    BY <1>1, <1>3, OneRecord DEF FailedFrom
  <2> QED  BY <1>1, <2>1, <2>2 DEF MoneyInv, SpentOf
<1> QED  BY <1>2, <1>3

-----------------------------------------------------------------------------
(* A handler's step and the burst of refusals. *)

LEMMA MovesWindow ==
  ASSUME StageInv, WindowInv, NEW r \in Request, NEW n, Moves(r, n)
  PROVE  WindowInv'
<1>1. /\ burst.count \in Nat /\ burst.written \in Nat
      /\ burst.written + burst.count = Cardinality(NotedRequests)
      /\ burst = [count |-> burst.count, timer |-> burst.timer, written |-> burst.written]
      /\ IsFiniteSet(NotedRequests)
  BY Finite DEF WindowInv, CountAddsUp, NotedRequests
<1>2. CASE n.noted
  <2>1. burst' = [count |-> burst.count + 1, timer |-> TRUE, written |-> burst.written]
    BY <1>1, <1>2 DEF Moves, Counts, Note
  <2>2. NotedRequests' = NotedRequests \cup {r} /\ r \notin NotedRequests
    BY <1>2, OneRecord DEF NotedRequests
  <2>3. Cardinality(NotedRequests') = Cardinality(NotedRequests) + 1
    BY <1>1, <2>2, FS_AddElement
  <2> QED  BY <1>1, <2>1, <2>3 DEF WindowInv, CountAddsUp, NotedRequests
<1>3. CASE ~n.noted
  <2>1. burst' = burst /\ NotedRequests' = NotedRequests
    BY <1>3, OneRecord DEF Moves, Counts, NotedRequests
  <2> QED  BY <2>1 DEF WindowInv, CountAddsUp, NotedRequests
<1> QED  BY <1>2, <1>3

-----------------------------------------------------------------------------
(* A step and the decisions told. *)

(* What the rows say of a request's decision stays. *)
DecisionStays(id) ==
  /\ audit'[id].approved = audit[id].approved /\ audit'[id].declined = audit[id].declined
  /\ audit'[id].approver = audit[id].approver

LEMMA SweepStays ==
  ASSUME BookInv, NEW id \in Id, audit' = SweptAudit \/ UNCHANGED audit
  PROVE  DecisionStays(id)
BY SweptSame DEF DecisionStays

LEMMA RowsStay ==
  ASSUME BookInv, NEW id \in Id,
         \/ NothingDecided
         \/ \E i \in Id, c \in Call : OpenNew(c, i) \/ Redeem(i, c)
  PROVE  DecisionStays(id)
<1>1. SweptAudit = [i \in Id |-> SweptAudit[i]] /\ SweptAudit[id] \in AuditRows
  BY SweptOK DEF TableOK, RowOK
<1>2. CASE NothingDecided
  BY <1>2, SweepStays DEF NothingDecided, Sweep, bookVars, LinkRefused, WrongCode
<1>3. ASSUME NEW i \in Id, NEW c \in Call, OpenNew(c, i)
      PROVE  DecisionStays(id)
  <2>1. /\ audit'[id].approved = SweptAudit[id].approved /\ audit'[id].declined = SweptAudit[id].declined
        /\ audit'[id].approver = SweptAudit[id].approver
    BY <1>1, <1>3 DEF OpenNew, AuditRows
  <2> QED  BY <2>1, SweptSame DEF DecisionStays
<1>4. ASSUME NEW i \in Id, NEW c \in Call, Redeem(i, c)
      PROVE  DecisionStays(id)
  <2>1. /\ audit'[id].approved = SweptAudit[id].approved /\ audit'[id].declined = SweptAudit[id].declined
        /\ audit'[id].approver = SweptAudit[id].approver
    BY <1>1, <1>4 DEF Redeem, AuditRows
  <2> QED  BY <2>1, SweptSame DEF DecisionStays
<1> QED  BY <1>2, <1>3, <1>4

LEMMA ToldStays ==
  ASSUME ToldInv, NEW id \in Id, DecisionStays(id),
         ToldDecided(id)' = ToldDecided(id),
         \A s \in ToldDecided(id) : req'[s] = req[s]
  PROVE  /\ Cardinality(ToldDecided(id)') = audit'[id].approved + audit'[id].declined
         /\ \A s \in ToldDecided(id)' : audit'[id].approver = ApproverOf(req'[s])
BY DEF ToldInv, DecisionStays

(* A decision is told once: the request was still pending, so nobody had been
   told of one. *)
LEMMA DecisionTold ==
  ASSUME BookInv, StageInv, ToldInv, NEW r \in Request, NEW n, Moves(r, n), n.answer = "decided",
         NEW id \in Id, id = n.target
  PROVE  /\ Cardinality(ToldDecided(id)') = audit'[id].approved + audit'[id].declined
         /\ \A s \in ToldDecided(id)' : audit'[id].approver = ApproverOf(req'[s])
<1>1. TakesDecision(n)
  BY DEF Moves, DecidesAs
<1>2. id \in DOMAIN Swept /\ Swept[id].state = "pending"
  BY <1>1 DEF TakesDecision, MayDecide
<1>3. /\ PairOK(Swept[id], SweptAudit[id]) /\ RowOK(SweptAudit[id])
  BY <1>2, SweptOK DEF TableOK
<1>4. SweptAudit[id].approved = 0 /\ SweptAudit[id].declined = 0
  BY <1>2, <1>3 DEF PairOK
<1>5. audit[id].approved = 0 /\ audit[id].declined = 0
  BY <1>4, SweptSame
<1>6. ToldDecided(id) = {}
  <2>1. Cardinality(ToldDecided(id)) = 0
    BY <1>5 DEF ToldInv
  <2> QED  BY <2>1, Finite, FS_EmptySet
<1>7. ToldDecided(id)' = {r}
  BY <1>6, OneRecord DEF ToldDecided
<1>8. Cardinality(ToldDecided(id)') = 1
  BY <1>7, FS_Singleton
<1>9. PICK d \in Decision : Decide(n.target, ApproverOf(n), d, Via1(n))
  BY <1>1 DEF TakesDecision
<1>10. /\ audit'[id].approver = ApproverOf(n)
       /\ audit'[id].approved + audit'[id].declined = 1
  BY <1>2, <1>4, <1>9, DecideRows
<1> QED  BY <1>7, <1>8, <1>10, OneRecord

LEMMA MovesTold ==
  ASSUME BookInv, StageInv, ToldInv, NEW r \in Request, NEW n, Moves(r, n)
  PROVE  ToldInv'
<1> SUFFICES ASSUME NEW id \in Id
             PROVE  /\ Cardinality(ToldDecided(id)') = audit'[id].approved + audit'[id].declined
                    /\ \A s \in ToldDecided(id)' : audit'[id].approver = ApproverOf(req'[s])
  BY DEF ToldInv, ApproverOf
<1>1. CASE n.answer = "decided" /\ n.target = id
  BY <1>1, DecisionTold
<1>2. CASE ~(n.answer = "decided" /\ n.target = id)
  <2>1. r \notin ToldDecided(id)
    BY OneRecord, NoneAssumption DEF ToldDecided
  <2>2. ToldDecided(id)' = ToldDecided(id) /\ \A s \in ToldDecided(id) : req'[s] = req[s]
    BY <1>2, <2>1, OneRecord DEF ToldDecided
  <2>3. DecisionStays(id)
    <3>1. CASE n.answer = "decided"
      <4>1. PICK d \in Decision : Decide(n.target, ApproverOf(n), d, Via1(n)) /\ n.target \in DOMAIN Swept
        BY <3>1 DEF Moves, DecidesAs, TakesDecision
      <4>2. audit'[id] = SweptAudit[id]
        BY <1>2, <3>1, <4>1, DecideRows
      <4> QED  BY <4>2, SweptSame DEF DecisionStays
    <3>2. CASE n.answer # "decided"
      BY <3>2, RowsStay DEF Moves, DecidesAs
    <3> QED  BY <3>1, <3>2
  <2> QED  BY <2>2, <2>3, ToldStays
<1> QED  BY <1>1, <1>2

-----------------------------------------------------------------------------
LEMMA ListenerInitInv == ListenerInit => ListenerInv
<1> SUFFICES ASSUME ListenerInit PROVE ListenerInv
  OBVIOUS
<1>1. BookInv /\ audit = [id \in Id |-> NoRows]
  BY InvInit DEF ListenerInit, BookInit
<1>2. /\ req = [r \in Request |-> Fresh] /\ budget = [k \in Key |-> Burst] /\ refilled = [k \in Key |-> 0]
      /\ burst = [count |-> 0, timer |-> FALSE, written |-> 0]
  BY DEF ListenerInit
<1>3. ReqOK(Fresh) /\ Fresh.at = "idle" /\ Fresh.answer = None /\ ~Fresh.noted
  BY DEF ReqOK, Fresh, Rec
<1>4. /\ Started = {} /\ NotedRequests = {} /\ \A k : FailedFrom(k) = {}
      /\ \A id : ToldDecided(id) = {}
  BY <1>2, <1>3, NoneAssumption DEF Started, NotedRequests, FailedFrom, ToldDecided
<1>5. IsFiniteSet({}) /\ Cardinality({}) = 0
  BY FS_EmptySet
<1>6. StageInv
  BY <1>2, <1>3, <1>4, <1>5 DEF StageInv
<1>7. MoneyInv
  BY <1>2, <1>4, <1>5, BudgetAssumption DEF MoneyInv, SpentOf, Key
<1>8. ToldInv
  BY <1>1, <1>4, <1>5 DEF ToldInv, NoRows
<1>9. WindowInv
  <2>1. burst.count = 0 /\ burst.written = 0 /\ burst \in [count : Nat, timer : BOOLEAN, written : Nat]
    BY <1>2
  <2>2. Cardinality({r \in Request : req[r].noted}) = 0
    BY <1>4, <1>5 DEF NotedRequests
  <2> QED  BY <2>1, <2>2 DEF WindowInv, CountAddsUp
<1> QED  BY <1>1, <1>6, <1>7, <1>8, <1>9 DEF ListenerInv

LEMMA ListenerNextInv ==
  ASSUME ListenerInv, [ListenerNext]_allVars
  PROVE  ListenerInv'
<1> BookInv /\ StageInv /\ MoneyInv /\ ToldInv /\ WindowInv
  BY DEF ListenerInv
<1>1. BookInv'
  BY ListenerStepsBook, InvNext DEF allVars, bookVars
<1>2. ASSUME UNCHANGED req PROVE StageInv'
  BY <1>2 DEF StageInv, Started, ReqOK, Rec, Attributed, Reading
<1>3. ASSUME UNCHANGED <<req, budget, refilled>> PROVE MoneyInv'
  BY <1>3 DEF MoneyInv, SpentOf, FailedFrom
<1>4. ASSUME UNCHANGED <<req, burst>> PROVE WindowInv'
  BY <1>4 DEF WindowInv, CountAddsUp
<1>5. ASSUME UNCHANGED req, \A id \in Id : DecisionStays(id) PROVE ToldInv'
  <2> SUFFICES ASSUME NEW id \in Id
               PROVE  /\ Cardinality(ToldDecided(id)') = audit'[id].approved + audit'[id].declined
                      /\ \A s \in ToldDecided(id)' : audit'[id].approver = ApproverOf(req'[s])
    BY DEF ToldInv, ApproverOf
  <2> QED  BY <1>5, ToldStays DEF ToldDecided
<1>6. ASSUME UNCHANGED <<req, audit>> PROVE ToldInv'
  BY <1>5, <1>6 DEF DecisionStays
<1>7. ASSUME NEW r \in Request, Arrive(r) \/ Verified(r) \/ BodyRead(r)
      PROVE  StageInv' /\ MoneyInv' /\ ToldInv' /\ WindowInv'
  BY <1>7, HandlerMoves, MovesStage, MovesMoney, MovesTold, MovesWindow
<1>8. ASSUME WindowEnds \/ Closed PROVE StageInv' /\ MoneyInv' /\ ToldInv' /\ WindowInv'
  <2>1. burst' = [count |-> 0, timer |-> FALSE, written |-> burst.written + burst.count]
        /\ UNCHANGED <<req, budget, refilled, audit>>
    BY <1>8 DEF WindowEnds, Closed, Flush, bookVars
  <2>2. WindowInv'
    BY <2>1 DEF WindowInv, CountAddsUp
  <2> QED  BY <1>2, <1>3, <1>6, <2>1, <2>2
<1>9. ASSUME Close PROVE StageInv' /\ MoneyInv' /\ ToldInv' /\ WindowInv'
  BY <1>2, <1>3, <1>4, <1>6, <1>9 DEF Close, bookVars
<1>10. ASSUME NEW k \in Key, Refill(k) PROVE StageInv' /\ MoneyInv' /\ ToldInv' /\ WindowInv'
  <2>1. UNCHANGED <<req, burst, audit>>
    BY <1>10 DEF Refill, bookVars
  <2>2. /\ budget' = [budget EXCEPT ![k] = budget[k] + 1]
        /\ refilled' = [refilled EXCEPT ![k] = refilled[k] + 1]
        /\ budget \in [Key -> Nat] /\ refilled \in [Key -> Nat]
    BY <1>10 DEF Refill, MoneyInv
  <2>3. /\ budget' \in [Key -> Nat] /\ refilled' \in [Key -> Nat]
        /\ \A j \in Key : refilled'[j] - budget'[j] = refilled[j] - budget[j]
    BY <2>2
  <2>4. \A j \in AddressKey : SpentOf(j)' = SpentOf(j) /\ FailedFrom(j)' = FailedFrom(j)
    BY <2>1, <2>2, <2>3, BudgetAssumption DEF SpentOf, FailedFrom, Key
  <2>5. MoneyInv'
    BY <2>3, <2>4 DEF MoneyInv
  <2> QED  BY <1>2, <1>4, <1>6, <2>1, <2>5
<1>11. ASSUME CallSide PROVE StageInv' /\ MoneyInv' /\ ToldInv' /\ WindowInv'
  <2>1. UNCHANGED <<req, budget, refilled, burst, listener>>
    BY <1>11 DEF CallSide, listenerVars
  <2>2. ASSUME NEW id \in Id PROVE DecisionStays(id)
    <3>1. CASE \/ \E c \in Call : OpenHeld(c) \/ \E i \in Id : OpenNew(c, i)
               \/ \E i \in Id, c \in Call : Redeem(i, c) \/ RedeemRefused(i, c)
      BY <3>1, RowsStay DEF OpenHeld, RedeemRefused, NothingDecided
    <3>2. CASE Tick
      BY <3>2 DEF Tick, DecisionStays
    <3> QED  BY <1>11, <3>1, <3>2 DEF CallSide
  <2> QED  BY <1>2, <1>3, <1>4, <1>5, <2>1, <2>2
<1>12. ASSUME UNCHANGED allVars PROVE StageInv' /\ MoneyInv' /\ ToldInv' /\ WindowInv'
  BY <1>2, <1>3, <1>4, <1>6, <1>12 DEF allVars, bookVars, listenerVars
<1>13. StageInv' /\ MoneyInv' /\ ToldInv' /\ WindowInv'
  BY <1>7, <1>8, <1>9, <1>10, <1>11, <1>12 DEF ListenerNext
<1> QED  BY <1>1, <1>13 DEF ListenerInv

-----------------------------------------------------------------------------
(* The inductive invariant, for any requests, clients, proxies and budgets. *)
THEOREM ListenerInvHolds == ListenerSpec => []ListenerInv
<1> QED  BY ListenerInitInv, ListenerNextInv, PTL DEF ListenerSpec

(* Beneath the listener the table of requests is the book's: whatever approvers
   send, in whatever order their verdicts and bodies come in, every step is a
   method of the book or leaves it alone (book.ts), so its theorems hold here. *)
THEOREM ListenerRunsTheBook == ListenerSpec => BookSpec
<1>1. ListenerInit => BookInit
  BY DEF ListenerInit
<1>2. ListenerInv /\ [ListenerNext]_allVars => [BookNext]_bookVars
  BY ListenerStepsBook DEF allVars, bookVars
<1> QED  BY <1>1, <1>2, ListenerInvHolds, PTL DEF ListenerSpec, BookSpec

(* One approver hears that a request is decided, the one its row names, and
   hears it if and only if a row says so (APR-4, APR-8, APR-15). *)
THEOREM DecisionsAreRecorded == ListenerSpec => []DecidedIsRecorded
<1>1. ListenerInv => DecidedIsRecorded
  <2> SUFFICES ASSUME ListenerInv, NEW id \in Id
               PROVE  /\ Cardinality(ToldDecided(id)) = audit[id].approved + audit[id].declined
                      /\ Cardinality(ToldDecided(id)) <= 1
                      /\ \A r \in ToldDecided(id) : audit[id].approver = ApproverOf(req[r])
    BY DEF DecidedIsRecorded
  <2>1. RowOK(audit[id])
    BY DEF ListenerInv, BookInv, TableOK
  <2>2. audit[id].approved + audit[id].declined <= 1
    BY <2>1 DEF RowOK, AuditRows
  <2> QED  BY <2>2 DEF ListenerInv, ToldInv
<1> QED  BY <1>1, ListenerInvHolds, PTL

(* An address pays one token for each request that failed from it, and for
   nothing else; and it is the client's own or a proxy's (APR-22, APR-25, APR-26). *)
THEOREM FailuresArePaidFor == ListenerSpec => []FailuresArePaid
<1>1. ListenerInv => FailuresArePaid
  BY DEF ListenerInv, MoneyInv, StageInv, ReqOK, Attributed, FailuresArePaid, AddressKey
<1> QED  BY <1>1, ListenerInvHolds, PTL

(* A handler that answers leaves what it had in hand. *)
LEMMA AnsweredLeaves ==
  ASSUME ListenerInv, NEW r \in Request, NEW q \in Rec,
         NEW a \in {"limited", "failed", "refused", "shown", "decided"}, Answered(r, q, a)
  PROVE  /\ req'[r].sent = q.sent /\ req'[r].noted = q.noted
         /\ req'[r].kind = q.kind /\ req'[r].target = q.target /\ req'[r].from = q.from
<1>1. PICK n : req' = [req EXCEPT ![r] = n] /\ EndsAs(q, n) /\ n.sent = q.sent
  BY AnsweredEnds
<1>2. req'[r] = n
  BY <1>1 DEF ListenerInv, StageInv
<1> QED  BY <1>1, <1>2 DEF EndsAs

LEMMA StrangerArrives ==
  ASSUME ListenerInv, NEW r \in Request, Arrive(r), AnsweredStranger(r)
  PROVE  req'[r].noted \/ LeftOut(r)
<1>1. PICK s \in Shape, client \in Client : \E route \in Routes(client) :
        LET from == KeyOf[ClientAddress(route.peer, route.forwarded)] IN
        Handle(r, [Fresh EXCEPT !.kind = s.kind, !.method = s.method, !.target = s.target,
                                !.bearer = s.bearer, !.client = client,
                                !.from = from, !.okThen = budget[from] > 0])
  BY DEF Arrive
<1>2. PICK route \in Routes(client) :
        LET from == KeyOf[ClientAddress(route.peer, route.forwarded)] IN
        Handle(r, [Fresh EXCEPT !.kind = s.kind, !.method = s.method, !.target = s.target,
                                !.bearer = s.bearer, !.client = client,
                                !.from = from, !.okThen = budget[from] > 0])
  BY <1>1
<1> DEFINE from == KeyOf[ClientAddress(route.peer, route.forwarded)]
           ok == budget[from] > 0
           q == [Fresh EXCEPT !.kind = s.kind, !.method = s.method, !.target = s.target,
                              !.bearer = s.bearer, !.client = client, !.from = from, !.okThen = ok]
<1>3. Handle(r, q) /\ req[r].at = "idle"
  BY <1>2 DEF Arrive
<1>4. from \in AddressKey
  BY RouteAttributes DEF AddressKey
<1>5. /\ s.kind \in {"junk", "link", "requests"} /\ s.method \in {"GET", "POST"}
      /\ s.bearer \in Bearer /\ s.target \in Id \cup {None}
  BY DEF Shape, Named, Bearer
<1>6. ok \in BOOLEAN /\ (ok => budget[from] > 0)
  OBVIOUS
<1> HIDE DEF from, ok
<1>7. q \in Rec /\ q.from = from /\ q.okThen = ok /\ q.at = "idle"
  BY <1>4, <1>5, <1>6 DEF Rec, Fresh
<1> HIDE DEF q
<1>8. ASSUME NEW a \in {"limited", "failed", "refused", "shown", "decided"},
             Answered(r, q, a) \/ Answered(r, Noted(q), a)
      PROVE  /\ q.kind = "link" /\ q.target \notin DOMAIN entries'
             /\ Answered(r, Noted(q), a) => req'[r].noted
             /\ q.okThen => LeftOut(r)
  <2>1. /\ Noted(q) \in Rec /\ Noted(q).noted /\ Noted(q).kind = q.kind
        /\ Noted(q).target = q.target /\ Noted(q).from = q.from
    BY <1>7 DEF Noted, Rec
  <2>2. req'[r].kind = q.kind /\ req'[r].target = q.target /\ req'[r].from = q.from
    BY <1>7, <1>8, <2>1, AnsweredLeaves
  <2>3. Answered(r, Noted(q), a) => req'[r].noted
    BY <2>1, AnsweredLeaves
  <2> QED  BY <1>3, <1>6, <1>7, <2>2, <2>3 DEF AnsweredStranger, LeftOut
<1>9. CASE Unroutable(r, q) \/ Unlooked(r, q)
  <2>1. q.kind # "link"
    BY <1>9 DEF Unroutable, Unlooked, NoRoute
  <2> QED  BY <1>8, <1>9, <2>1 DEF Unroutable, Unlooked, Fails, Limited
<1>10. CASE Unissued(r, q) \/ SpentLink(r, q)
  BY <1>8, <1>10 DEF Unissued, SpentLink, Limited
<1>11. CASE ReadDeadLink(r, q)
  BY <1>8, <1>11 DEF ReadDeadLink, LookedUp, Fails, Limited
<1>12. CASE ReadLink(r, q)
  BY <1>8, <1>12 DEF ReadLink, LinkLive, Sweep, Limited
<1>13. CASE PostLink(r, q) \/ AwaitVerdict(r, q)
  <2>1. PICK n \in Rec : req' = [req EXCEPT ![r] = n] /\ n.at # "answered"
    <3>1. CASE PostLink(r, q)
      <4> DEFINE own == IF LinkLive(q.target) THEN q.target ELSE None
                 n == [q EXCEPT !.at = "reading", !.own = own]
      <4>1. own \in Id \cup {None}
        BY SweptOK DEF LinkLive, ListenerInv, TableOK
      <4>2. req' = [req EXCEPT ![r] = n]
        BY <3>1 DEF PostLink, AwaitBody
      <4> HIDE DEF own
      <4>3. n \in Rec
        BY <1>7, <4>1 DEF Rec
      <4>4. n.at = "reading"
        BY <1>7 DEF Rec
      <4> QED  BY <4>2, <4>3, <4>4
    <3>2. CASE AwaitVerdict(r, q)
      <4> DEFINE n == [q EXCEPT !.at = "verifying"]
      <4>1. n \in Rec /\ n.at = "verifying" /\ req' = [req EXCEPT ![r] = n]
        BY <1>7, <3>2 DEF AwaitVerdict, Rec
      <4> QED  BY <4>1
    <3> QED  BY <1>13, <3>1, <3>2
  <2>2. req'[r] = n
    BY <2>1 DEF ListenerInv, StageInv
  <2> QED  BY <2>1, <2>2 DEF AnsweredStranger
<1> QED  BY <1>3, <1>9, <1>10, <1>11, <1>12, <1>13 DEF Handle

LEMMA StrangerSends ==
  ASSUME ListenerInv, NEW r \in Request, BodyRead(r), AnsweredStranger(r)
  PROVE  req'[r].noted \/ LeftOut(r)
<1>1. PICK body \in Bodies(req[r]) : Decided(r, [req[r] EXCEPT !.sent = body])
  BY DEF BodyRead
<1> DEFINE q == [req[r] EXCEPT !.sent = body]
<1>2. /\ Sent(r, q) /\ q.sent = body
      /\ q.kind = req[r].kind /\ q.target = req[r].target /\ q.own = req[r].own
  BY <1>1, BodySent DEF BodyRead
<1>3. Decided(r, q)
  BY <1>1
<1> HIDE DEF q
<1>4. q \in Rec /\ req[r].at = "reading"
  BY <1>2 DEF Sent, Held
<1>5. ASSUME NEW a \in {"limited", "failed", "refused", "shown", "decided"},
             Answered(r, q, a) \/ Answered(r, Noted(q), a)
      PROVE  /\ q.kind = "link" /\ q.target \notin DOMAIN entries'
             /\ Answered(r, Noted(q), a) => req'[r].noted
             /\ req'[r].sent = q.sent
  <2>1. /\ Noted(q) \in Rec /\ Noted(q).noted /\ Noted(q).kind = q.kind
        /\ Noted(q).target = q.target /\ Noted(q).sent = q.sent
    BY <1>4 DEF Noted, Rec
  <2>2. req'[r].kind = q.kind /\ req'[r].target = q.target /\ req'[r].sent = q.sent
    BY <1>4, <1>5, <2>1, AnsweredLeaves
  <2>3. Answered(r, Noted(q), a) => req'[r].noted
    BY <2>1, AnsweredLeaves
  <2> QED  BY <2>2, <2>3 DEF AnsweredStranger
<1>6. CASE Malformed(r, q)
  BY <1>5, <1>6 DEF Malformed, LeftOut, Fails, Limited
<1>7. CASE LinkOverBudget(r, q)
  BY <1>2, <1>4, <1>7 DEF LinkOverBudget, LeftOut, OwnSpent
<1>9. CASE DecidedByLink(r, q)
  <2>1. PICK d \in Decision : DecideByLink(q.target, d)
    BY <1>9 DEF DecidedByLink, DecidesByLink
  <2>2. q.target \in DOMAIN entries'
    BY <2>1, SweptOK DEF DecideByLink, LinkDecides, LinkLive, Decide, TableOK
  <2> QED  BY <1>5, <1>9, <2>2 DEF DecidedByLink
<1>10. CASE RefusedByLink(r, q)
  <2>1. q.target \in DOMAIN entries'
    BY <1>10 DEF RefusedByLink, LinkRefused, LinkLive
  <2> QED  BY <1>5, <1>10, <2>1 DEF RefusedByLink
<1>11. CASE WrongCodeSent(r, q)
  <2>1. q.target \in DOMAIN entries'
    BY <1>11 DEF WrongCodeSent, WrongCode, LinkLive
  <2> QED  BY <1>5, <1>11, <2>1 DEF WrongCodeSent, Fails, Limited
<1>12. CASE DeadLink(r, q)
  <2>1. q.target \in DOMAIN Swept => q.target \in DOMAIN entries'
    BY <1>12 DEF DeadLink, LinkDead, Sweep
  <2> QED  BY <1>5, <1>12, <2>1 DEF DeadLink, Fails, Limited
<1>13. CASE DelegateDecides(r, q) \/ DelegateRefused(r, q)
  <2>1. q.kind # "link"
    BY <1>13 DEF DelegateDecides, DelegateRefused
  <2> QED  BY <1>5, <1>13, <2>1 DEF DelegateDecides, DelegateRefused
<1> QED  BY <1>3, <1>6, <1>7, <1>9, <1>10, <1>11, <1>12, <1>13 DEF Decided

LEMMA StrangerCounted ==
  ASSUME ListenerInv, [ListenerNext]_allVars, NEW r \in Request, AnsweredStranger(r)
  PROVE  req'[r].noted \/ LeftOut(r)
<1>1. ReqOK(req[r]) /\ req[r].at # "answered" /\ req'[r] # req[r]
  BY DEF ListenerInv, StageInv, AnsweredStranger
<1>2. ASSUME NEW s \in Request, s # r, Arrive(s) \/ Verified(s) \/ BodyRead(s)
      PROVE  FALSE
  BY <1>1, <1>2, HandlerMoves, OneRecord DEF ListenerInv
<1>3. Arrive(r) \/ Verified(r) \/ BodyRead(r)
  BY <1>1, <1>2 DEF ListenerNext, WindowEnds, Close, Closed, Refill, CallSide, allVars, listenerVars
<1>4. ~Verified(r)
  <2> SUFFICES ASSUME Verified(r) PROVE FALSE
    OBVIOUS
  <2> DEFINE q == req[r]
  <2>1. q \in Rec /\ q.kind = "requests"
    BY DEF Verified, ListenerInv, StageInv, ReqOK
  <2> HIDE DEF q
  <2>2. Noted(q) \in Rec /\ Noted(q).kind = q.kind
    BY <2>1 DEF Noted, Rec
  <2>3. \A a \in {"limited", "failed", "refused", "shown", "decided"} :
          ~Answered(r, q, a) /\ ~Answered(r, Noted(q), a)
    BY <2>1, <2>2, AnsweredLeaves DEF AnsweredStranger
  <2>4. PostRequest(r, q)
    BY <2>3 DEF Verified, VerdictLate, Unauthenticated, OverOwnBudget, ReadRequest, Fails, Limited, q
  <2> DEFINE n == [q EXCEPT !.at = "reading", !.own = q.bearer]
  <2>5. req' = [req EXCEPT ![r] = n] /\ n.at = "reading"
    BY <2>1, <2>4 DEF PostRequest, Rec
  <2> HIDE DEF n
  <2>6. req'[r] = n
    BY <2>5 DEF ListenerInv, StageInv
  <2> QED  BY <2>5, <2>6 DEF AnsweredStranger
<1> QED  BY <1>3, <1>4, StrangerArrives, StrangerSends

(* The rows written and the open window's count add up to the refusals counted,
   a window with a count has its timer, and a refused link that names no request
   is counted but in the three cases of LeftOut (APR-22). *)
THEOREM CountsAlwaysReachARow == ListenerSpec => CountsReachARow
<1>1. ListenerInv /\ [ListenerNext]_allVars =>
        \A r \in Request : AnsweredStranger(r) => req'[r].noted \/ LeftOut(r)
  BY StrangerCounted
<1>2. ListenerInv /\ ListenerInv' /\ [ListenerNext]_allVars =>
        [/\ CountAddsUp'
         /\ \A r \in Request : AnsweredStranger(r) => req'[r].noted \/ LeftOut(r)]_allVars
  <2>1. ListenerInv' => CountAddsUp'
    BY DEF ListenerInv, WindowInv
  <2> QED  BY <1>1, <2>1
<1> QED  BY <1>2, ListenerInvHolds, PTL DEF ListenerSpec, CountsReachARow

LEMMA RightCodeDecides ==
  ASSUME ListenerInv, [ListenerNext]_allVars, NEW r \in Request,
         req[r].at = "reading", req'[r].sent = "code",
         LinkDecides(req[r].target), budget[req[r].target] > 0
  PROVE  req'[r].answer = "decided"
<1>1. req[r].sent # "code" /\ ReqOK(req[r])
  BY NoneAssumption DEF ListenerInv, StageInv, ReqOK
<1>2. ASSUME NEW s \in Request, s # r, Arrive(s) \/ Verified(s) \/ BodyRead(s)
      PROVE  FALSE
  BY <1>1, <1>2, HandlerMoves, OneRecord DEF ListenerInv
<1>3. ~(Arrive(r) \/ Verified(r))
  BY DEF Arrive, Verified
<1>4. BodyRead(r)
  BY <1>1, <1>2, <1>3 DEF ListenerNext, WindowEnds, Close, Closed, Refill, CallSide, allVars, listenerVars
<1>5. PICK body \in Bodies(req[r]) : Decided(r, [req[r] EXCEPT !.sent = body])
  BY <1>4 DEF BodyRead
<1> DEFINE q == [req[r] EXCEPT !.sent = body]
<1>6. /\ Sent(r, q) /\ q.sent = body
      /\ q.kind = req[r].kind /\ q.target = req[r].target /\ q.own = req[r].own
  BY BodySent
<1>7. Decided(r, q)
  BY <1>5
<1> HIDE DEF q
<1>8. /\ Held(q) /\ Reading(q) /\ q \in Rec /\ req = [s \in Request |-> req[s]]
  BY <1>6 DEF ListenerInv, StageInv, Sent, Held
<1>9. ASSUME NEW a \in {"limited", "failed", "refused", "shown", "decided"}, Answered(r, q, a)
      PROVE  req'[r].sent = body /\ req'[r].answer = a
  BY <1>6, <1>8, <1>9, AnsweredEnds
<1>10. q.sent = "code"
  <2>1. \E a \in {"limited", "failed", "refused", "shown", "decided"} : Answered(r, q, a) \/ Answered(r, Noted(q), a)
    BY <1>7 DEF Decided, Malformed, LinkOverBudget, DecidedByLink, RefusedByLink, WrongCodeSent, DeadLink,
                DelegateDecides, DelegateRefused, Fails, Limited
  <2>2. PICK a \in {"limited", "failed", "refused", "shown", "decided"} : Answered(r, q, a) \/ Answered(r, Noted(q), a)
    BY <2>1
  <2>3. CASE Answered(r, q, a)
    BY <1>6, <1>9, <2>3
  <2>4. CASE Answered(r, Noted(q), a)
    <3>1. Noted(q) \in Rec /\ Noted(q).sent = q.sent
      BY <1>8 DEF Noted, Rec
    <3>2. req'[r].sent = q.sent
      BY <1>8, <2>4, <3>1, AnsweredEnds
    <3> QED  BY <3>2
  <2> QED  BY <2>2, <2>3, <2>4
<1>11. body = "code" /\ q.kind = "link"
  BY <1>6, <1>8, <1>10 DEF Bodies, Reading
<1>12. LinkLive(q.target) /\ MayDecide(Swept[q.target], HumanApprover, "human") /\ budget[q.target] > 0
  BY <1>6 DEF LinkDecides
<1>13. ~OwnSpent(q)
  <2>1. q.own = None \/ q.own = q.target
    BY <1>8, <1>11 DEF Reading
  <2> QED  BY <1>12, <2>1 DEF OwnSpent
<1>14. Answered(r, q, "decided")
  BY <1>7, <1>10, <1>11, <1>12, <1>13
     DEF Decided, Malformed, LinkOverBudget, DecidedByLink, RefusedByLink, LinkRefused, WrongCodeSent,
         DeadLink, LinkDead, DelegateDecides, DelegateRefused
<1> QED  BY <1>9, <1>14

(* An approver whose right code reaches a link still open, within its own
   budget, decides, whatever others spent of the address they share (APR-26). *)
THEOREM NobodyIsShutOut == ListenerSpec => NeverShutOut
<1>1. ListenerInv /\ [ListenerNext]_allVars =>
        [\A r \in Request :
           /\ req[r].at = "reading" /\ req'[r].sent = "code"
           /\ LinkDecides(req[r].target) /\ budget[req[r].target] > 0
           => req'[r].answer = "decided"]_allVars
  BY RightCodeDecides
<1> QED  BY <1>1, ListenerInvHolds, PTL DEF ListenerSpec, NeverShutOut

=============================================================================
