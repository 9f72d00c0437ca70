----------------------------- MODULE ApprovalBook -----------------------------
(***************************************************************************)
(* The approval book: packages/core/src/approval/book.ts.                  *)
(*                                                                         *)
(* A table of approval requests on a monotonic clock.  A caller opens a    *)
(* request for one call; an approver, on another channel, approves or      *)
(* declines it, through the one-time link and its code (a human) or with a *)
(* bearer of its own (a delegate); the caller redeems the grant once.  The *)
(* book is synchronous: each public method is one atomic step, which       *)
(* sweeps the table first (#sweep) and writes audit rows as it goes.       *)
(*                                                                         *)
(* A link token names exactly one request and #byLink is written and       *)
(* cleared on the same lines as #entries, so the token is the request id   *)
(* here.  The waiters (#waiters, #wake) are in ApprovalService, which has  *)
(* the calls that wait.                                                    *)
(***************************************************************************)
EXTENDS Integers, FiniteSets

CONSTANTS
  Id,                      \* request ids: random and never reused
  Principal,               \* names of requesters and approvers, as bytes
  IdentityOf,              \* the person behind each name (APR-21)
  Call,                    \* the calls callers make
  HumanOnlyTool,           \* tools whose approval only a human may decide
  HumanApprover,           \* APPROVAL_HUMAN_APPROVER
  Delegate,                \* principals holding a bearer for the approval audience
  RequestTtl, GrantTtl,    \* lifetimes of a pending request and of a grant
  MaxPending, MaxPendingPerPrincipal,
  MaxWrongCodes,           \* MAX_WRONG_CODES
  ReadSkew,                \* how far the clock moves between two reads in one method
  MaxTime,                 \* bound on the clock, for TLC
  None

ASSUME TtlAssumption == RequestTtl \in Nat \ {0} /\ GrantTtl \in Nat \ {0}
ASSUME CapAssumption ==
  /\ MaxPending \in Nat \ {0}
  /\ MaxPendingPerPrincipal \in Nat \ {0}
  /\ MaxWrongCodes \in Nat \ {0}
  /\ ReadSkew \in Nat
  /\ MaxTime \in Nat
ASSUME PrincipalAssumption ==
  /\ HumanApprover \in Principal
  /\ Delegate \subseteq Principal
  /\ None \notin Principal
ASSUME CallAssumption ==
  /\ None \notin Call
  /\ \A c \in Call : c.principal \in Principal

VARIABLES
  now,      \* the clock's last reading
  entries,  \* #entries: the requests held, by id
  audit     \* per request: its audit rows counted by event, and what they say

bookVars == <<now, entries, audit>>

RequestState == {"pending", "approved", "declined", "redeemed", "expired"}
Decision == {"approve", "decline"}
Via == {"human", "delegated"}

Entry ==
  [call : Call, createdAt : Nat, state : RequestState, deadline : Nat,
   wrongCodes : Nat, linkUsed : BOOLEAN]

AuditRows ==
  [call : Call \cup {None}, approver : Principal \cup {None}, via : Via \cup {None},
   requested : Nat, approved : Nat, declined : Nat, redeemed : Nat, expired : Nat]

NoRows ==
  [call |-> None, approver |-> None, via |-> None,
   requested |-> 0, approved |-> 0, declined |-> 0, redeemed |-> 0, expired |-> 0]

BookTypeOK ==
  /\ now \in Nat
  /\ DOMAIN entries \subseteq Id
  /\ entries \in [DOMAIN entries -> Entry]
  /\ audit \in [Id -> AuditRows]

BookInit ==
  /\ now = 0
  /\ entries = [id \in {} |-> None]
  /\ audit = [id \in Id |-> NoRows]

-----------------------------------------------------------------------------
(* #sweep: what a method finds in the table once it has swept it. *)

Lapsed(e) == e.state \in {"pending", "approved"} /\ now >= e.deadline
(* Slip: the grant's lifetime is forgotten. *)
SpentWithRequest(e) == now >= e.createdAt + RequestTtl
Spent(e) == now >= e.createdAt + RequestTtl + GrantTtl

LapsedIds == {id \in DOMAIN entries : Lapsed(entries[id])}

Swept ==
  [id \in {i \in DOMAIN entries : ~Spent(entries[i])} |->
     IF Lapsed(entries[id]) THEN [entries[id] EXCEPT !.state = "expired"]
                            ELSE entries[id]]

(* Slip: requests expire without their row. *)
SweptAuditSilent == [id \in Id |-> audit[id]]

SweptAudit ==
  [id \in Id |-> IF id \in LapsedIds THEN [audit[id] EXCEPT !.expired = @ + 1]
                                     ELSE audit[id]]

Sweep == entries' = Swept /\ audit' = SweptAudit /\ UNCHANGED now

-----------------------------------------------------------------------------
(* open: the pending request for this call if there is one, else a new one. *)

PendingOf(p) == {id \in DOMAIN Swept : Swept[id].state = "pending" /\ Swept[id].call.principal = p}
PendingFor(c) == {id \in PendingOf(c.principal) : Swept[id].call = c}

TooMany(c) ==
  \/ Cardinality(PendingOf(c.principal)) >= MaxPendingPerPrincipal
  \/ Cardinality(DOMAIN Swept) >= MaxPending

NewEntry(c) ==
  [call |-> c, createdAt |-> now, state |-> "pending",
   deadline |-> now + RequestTtl, wrongCodes |-> 0, linkUsed |-> FALSE]

OpensNew(c) == PendingFor(c) = {} /\ ~TooMany(c)

OpenNew(c, id) ==
  /\ OpensNew(c)
  /\ audit[id].requested = 0
  /\ entries' = [i \in DOMAIN Swept \cup {id} |-> IF i = id THEN NewEntry(c) ELSE Swept[i]]
  /\ audit' = [SweptAudit EXCEPT ![id].call = c, ![id].requested = @ + 1]
  /\ UNCHANGED now

OpenHeld(c) == ~OpensNew(c) /\ Sweep

-----------------------------------------------------------------------------
(* redeem: the grant, for the same principal, tool and arguments, once. *)

(* Slip: a grant that was used still redeems. *)
RedeemableTwice(id, c) ==
  id \in DOMAIN Swept /\ Swept[id].call = c /\ Swept[id].state \in {"approved", "redeemed"}

Redeemable(id, c) ==
  /\ id \in DOMAIN Swept
  /\ Swept[id].call = c
  /\ Swept[id].state = "approved"

Redeem(id, c) ==
  /\ Redeemable(id, c)
  /\ entries' = [Swept EXCEPT ![id].state = "redeemed"]
  /\ audit' = [SweptAudit EXCEPT ![id].redeemed = @ + 1]
  /\ UNCHANGED now

RedeemRefused(id, c) == ~Redeemable(id, c) /\ Sweep

-----------------------------------------------------------------------------
(* #decide, and the two ways to it. *)

SamePerson(p, q) == IdentityOf[p] = IdentityOf[q]

(* Slip: a decision is refused only once the request has expired. *)
MayDecideAgain(e, approver, via) ==
  /\ ~SamePerson(approver, e.call.principal)
  /\ ~(via = "delegated" /\ e.call.tool \in HumanOnlyTool)
  /\ e.state # "expired"

MayDecide(e, approver, via) ==
  /\ ~SamePerson(approver, e.call.principal)
  /\ ~(via = "delegated" /\ e.call.tool \in HumanOnlyTool)
  /\ e.state = "pending"

(* The decision itself.  The grant's lifetime starts at a second reading of
   the clock, which may be up to ReadSkew after the one #sweep took. *)
Decide(id, approver, decision, via) ==
  \E later \in now .. now + ReadSkew :
    /\ now' = later
    /\ IF decision = "approve"
         THEN /\ entries' = [Swept EXCEPT ![id].state = "approved",
                                          ![id].deadline = later + GrantTtl,
                                          ![id].linkUsed = @ \/ via = "human"]
              /\ audit' = [SweptAudit EXCEPT ![id].approved = @ + 1,
                                             ![id].approver = approver, ![id].via = via]
         ELSE /\ entries' = [Swept EXCEPT ![id].state = "declined",
                                          ![id].linkUsed = @ \/ via = "human"]
              /\ audit' = [SweptAudit EXCEPT ![id].declined = @ + 1,
                                             ![id].approver = approver, ![id].via = via]

DelegatedDecides(id, approver) ==
  id \in DOMAIN Swept /\ MayDecide(Swept[id], approver, "delegated")

DecideDelegated(id, approver, decision) ==
  DelegatedDecides(id, approver) /\ Decide(id, approver, decision, "delegated")

DelegatedRefused(id, approver) == ~DelegatedDecides(id, approver) /\ Sweep

(* Slip: wrong codes do not burn the link. *)
LinkUnburned(id) == id \in DOMAIN Swept /\ ~Swept[id].linkUsed /\ Swept[id].state = "pending"

(* #linkEntry: the link still opens its request. *)
LinkLive(id) ==
  /\ id \in DOMAIN Swept
  /\ Swept[id].wrongCodes < MaxWrongCodes
  /\ ~Swept[id].linkUsed
  /\ Swept[id].state = "pending"

LinkDecides(id) == LinkLive(id) /\ MayDecide(Swept[id], HumanApprover, "human")

DecideByLink(id, decision) == LinkDecides(id) /\ Decide(id, HumanApprover, decision, "human")

(* The right code, and a decision refused: the link is spent all the same. *)
LinkRefused(id) ==
  /\ LinkLive(id)
  /\ ~MayDecide(Swept[id], HumanApprover, "human")
  /\ entries' = [Swept EXCEPT ![id].linkUsed = TRUE]
  /\ audit' = SweptAudit
  /\ UNCHANGED now

WrongCode(id) ==
  /\ LinkLive(id)
  /\ entries' = [Swept EXCEPT ![id].wrongCodes = @ + 1]
  /\ audit' = SweptAudit
  /\ UNCHANGED now

LinkDead(id) == ~LinkLive(id) /\ Sweep

-----------------------------------------------------------------------------
Tick == now < MaxTime /\ now' = now + 1 /\ UNCHANGED <<entries, audit>>

BookNext ==
  \/ \E c \in Call : OpenHeld(c) \/ \E id \in Id : OpenNew(c, id)
  \/ \E id \in Id, c \in Call : Redeem(id, c) \/ RedeemRefused(id, c)
  \/ \E id \in Id, a \in Delegate :
       \/ \E d \in Decision : DecideDelegated(id, a, d)
       \/ DelegatedRefused(id, a)
  \/ \E id \in Id :
       \/ \E d \in Decision : DecideByLink(id, d)
       \/ LinkRefused(id)
       \/ WrongCode(id)
       \/ LinkDead(id)
  \/ Tick

BookSpec == BookInit /\ [][BookNext]_bookVars

-----------------------------------------------------------------------------
(* Properties *)

RowsSay(r) ==
  /\ r.requested = 1 /\ r.approved <= 1
  /\ (r.approved = 1 \/ r.declined = 1) <=> r.approver # None

(* The audit rows of a request in the table say exactly the state it is in,
   however many sweeps, refusals and retries came between: nothing reaches a
   state without its row, and no row is written twice (APR-15; book.ts #event
   beside each assignment to e.state). *)
RowsAgree ==
  \A id \in DOMAIN entries :
    LET e == entries[id]  r == audit[id] IN
      /\ RowsSay(r) /\ r.call = e.call
      /\ r.declined = (IF e.state = "declined" THEN 1 ELSE 0)
      /\ r.redeemed = (IF e.state = "redeemed" THEN 1 ELSE 0)
      /\ r.expired = (IF e.state = "expired" THEN 1 ELSE 0)
      /\ e.state = "pending" => r.approved = 0
      /\ e.state \in {"approved", "redeemed"} => r.approved = 1

(* Over its whole life, its record dropped or not, a request is asked once,
   decided at most once, and ends at most one way; and a grant is redeemed
   only where there was an approval (APR-3, APR-4). *)
OneOutcome ==
  \A id \in Id : LET r == audit[id] IN
    /\ r.requested <= 1
    /\ r.approved + r.declined <= r.requested
    /\ r.redeemed <= r.approved
    /\ r.declined + r.redeemed + r.expired <= 1

(* Whatever was decided was decided by another person than the requester,
   under any of that person's names, and by a human where the tool needs
   one (APR-5, APR-6, APR-21). *)
DecidedByAnother ==
  \A id \in Id : LET r == audit[id] IN
    r.approved + r.declined > 0 =>
      /\ IdentityOf[r.approver] # IdentityOf[r.call.principal]
      /\ r.call.tool \in HumanOnlyTool => r.via = "human"

Pending(p) == {id \in DOMAIN entries : entries[id].state = "pending" /\ entries[id].call.principal = p}

(* The table never exceeds its cap, no principal has more questions in front
   of the approver than its own cap, and no call is asked twice at once
   (APR-11, APR-12). *)
Bounded ==
  /\ Cardinality(DOMAIN entries) <= MaxPending
  /\ \A p \in Principal : Cardinality(Pending(p)) <= MaxPendingPerPrincipal
  /\ \A p \in Principal : \A i, j \in Pending(p) : entries[i].call = entries[j].call => i = j

LinkEnded(e) == e.linkUsed \/ e.wrongCodes >= MaxWrongCodes
Decisions(r) == r.approved + r.declined

(* A link that was burned by wrong codes, or spent by a decision or a refused
   one, stays dead while its record is held and writes no decision row again:
   not after a sweep, nor beside a delegate's decision (APR-8, APR-27). *)
DeadLinkDecidesNothing ==
  [][\A id \in DOMAIN entries :
       LinkEnded(entries[id]) =>
         /\ id \in DOMAIN entries' => LinkEnded(entries'[id])
         /\ audit'[id].via = "human" => Decisions(audit'[id]) = Decisions(audit[id])]_bookVars

(* A record goes only once neither its request nor its grant can matter
   (book.ts:141, APR-12).  Of a request still to be decided that is exact: its
   lifetime has ended.  A grant's is counted from #decide's own reading of the
   clock (book.ts:257) and its record's from the sweep's, so a grant can be
   dropped while it lives, but less than the two readings' distance before its
   end. *)
NothingLiveIsDropped ==
  [][\A id \in DOMAIN entries \ DOMAIN entries' : LET e == entries[id] IN
       /\ e.state = "pending" => now >= e.deadline
       /\ e.state = "approved" => now + ReadSkew > e.deadline]_bookVars

StatusOf(r) ==
  IF r.redeemed > 0 THEN "used"
  ELSE IF r.expired > 0 THEN "expired"
  ELSE IF r.declined > 0 THEN "declined"
  ELSE IF r.approved > 0 THEN "approved"
  ELSE IF r.requested > 0 THEN "pending" ELSE "new"

Life == INSTANCE ApprovalLifecycle WITH
  status <- [id \in Id |-> StatusOf(audit[id])],
  call <- [id \in Id |-> audit[id].call],
  approver <- [id \in Id |-> audit[id].approver],
  via <- [id \in Id |-> audit[id].via]

(* Each request's rows tell a life ApprovalLifecycle allows: the book, with its
   clock, its sweeps, its links and its caps, implements it (APR-2 to APR-6). *)
LifecycleKept == Life!LifeSpec

=============================================================================
