--------------------------- MODULE ApprovalListener ---------------------------
(***************************************************************************)
(* The approval listener: packages/core/src/approval/listener.ts, the      *)
(* addresses it attributes requests to (approval/address.ts), and the      *)
(* burst of unauthenticated refusals it counts (approval/service.ts).      *)
(*                                                                         *)
(* Approvers reach the book over HTTP.  A handler runs from its request to *)
(* its answer with up to two waits in it, for the bearer's verification    *)
(* and for the body, and between them the book moves on: what was looked   *)
(* up before a wait is not what is decided after it.  A request that fails *)
(* is charged to the address it came from; one with a live link or a       *)
(* verified bearer is charged to a budget of its own.                      *)
(*                                                                         *)
(* A budget is a number of tokens that time gives back one by one: the     *)
(* arithmetic is RateLimiter's.  An answer is its kind, not its text.      *)
(***************************************************************************)
EXTENDS ApprovalBook, SequencesExt

CONSTANTS
  Request,      \* the HTTP requests that come
  Client,       \* the addresses clients really have
  Proxy,        \* the trusted proxies
  Forged,       \* the X-Forwarded-For lists a client may send
  KeyOf,        \* the budget an address falls under: its /64, or itself
  Burst,        \* tokens in a full budget
  MaxRefills    \* bound on tokens given back, for TLC

Address == DOMAIN KeyOf
AddressKey == {KeyOf[a] : a \in Address}

ASSUME BudgetAssumption == Burst \in Nat \ {0} /\ MaxRefills \in Nat
ASSUME AddressAssumption ==
  /\ Client \cup Proxy \subseteq Address /\ Client \cap Proxy = {}
  /\ \A f \in Forged : f \in Seq(ToSet(f))
(* Two limiters: the budgets of addresses are no approver's (listener.ts:131-134). *)
ASSUME KeyAssumption == AddressKey \cap (Id \cup Delegate) = {}
ASSUME NoneAssumption == None \notin AddressKey \cup Id \cup {"decided", "failed", "code"}

VARIABLES
  req,        \* each request: where its handler is, and what it holds
  budget,     \* tokens left: of an address, of a link's request, of a delegate
  refilled,   \* tokens time has given back to each budget
  burst,      \* #unauthenticated, its timer, and what the rows written carry
  listener    \* open, closing (its connections closed), or closed

listenerVars == <<req, budget, refilled, burst, listener>>
allVars == <<bookVars, listenerVars>>

Key == AddressKey \cup Id \cup Delegate
Bearer == {"none", "bad"} \cup Delegate
Fresh ==
  [at |-> "idle", kind |-> None, method |-> None, target |-> None, bearer |-> None,
   client |-> None, from |-> None, okThen |-> FALSE, own |-> None,
   sent |-> None, noted |-> FALSE, answer |-> None]

ListenerInit ==
  /\ BookInit
  /\ req = [r \in Request |-> Fresh]
  /\ budget = [k \in Key |-> Burst]
  /\ refilled = [k \in Key |-> 0]
  /\ burst = [count |-> 0, timer |-> FALSE, written |-> 0]
  /\ listener = "open"

-----------------------------------------------------------------------------
(* clientAddress: whom a request is attributed to. *)

(* The peer, unless it is a trusted proxy whose list can be read: then the
   rightmost entry that is no proxy of ours. *)
ClientAddress(peer, forwarded) ==
  LET strangers == {i \in DOMAIN forwarded : forwarded[i] \notin Proxy} IN
  IF peer \notin Proxy \/ strangers = {} \/ ~(ToSet(forwarded) \subseteq Address) THEN peer
  ELSE forwarded[CHOOSE i \in strangers : \A j \in strangers : j <= i]

(* A client comes itself, or through a proxy that appends the client's address. *)
Routes(client) ==
  {[peer |-> client, forwarded |-> f] : f \in Forged}
    \cup {[peer |-> p, forwarded |-> Append(f, client)] : p \in Proxy, f \in Forged}

-----------------------------------------------------------------------------
(* Answers, charges and counts. *)

(* What a handler held is gone with its answer; who decided stays. *)
Answered(r, q, a) ==
  req' = [req EXCEPT ![r] =
    [q EXCEPT !.at = "answered", !.answer = a, !.method = None, !.bearer = None, !.okThen = FALSE,
              !.own = IF a = "decided" THEN q.own ELSE None]]
Charge(k) == budget' = [budget EXCEPT ![k] = @ - 1]
Limited(r, q) == Answered(r, q, "limited") /\ UNCHANGED budget

(* Slip: the charge is taken though the answer is 429 all the same. *)
FailsAnyway(r, q) ==
  IF q.okThen /\ budget[q.from] > 0 THEN Answered(r, q, "failed") /\ Charge(q.from)
  ELSE Answered(r, q, "failed") /\ UNCHANGED budget

(* fail: charged to the address; 429 when its budget was empty at the request's
   arrival, or is empty now. *)
Fails(r, q) ==
  IF q.okThen /\ budget[q.from] > 0 THEN Answered(r, q, "failed") /\ Charge(q.from)
  ELSE Limited(r, q)

Noted(q) == [q EXCEPT !.noted = TRUE]

(* Slip: every refusal opens a window of its own. *)
NoteRestarts == burst' = [burst EXCEPT !.count = 1, !.timer = TRUE]

(* noteUnauthenticated: the first of a burst arms the timer. *)
Note == burst' = [burst EXCEPT !.count = @ + 1, !.timer = TRUE]

(* flushUnauthenticated *)
Flush == burst' = [count |-> 0, timer |-> FALSE, written |-> burst.written + burst.count]

BookStill == UNCHANGED bookVars
NotNoted == UNCHANGED burst

-----------------------------------------------------------------------------
(* The handler up to its first wait, for a request q with all it carries. *)

NoRoute == IF Delegate = {} THEN {"junk", "requests"} ELSE {"junk"}

(* A host, a path or a method that is not served, or no delegates at all. *)
Unroutable(r, q) == q.kind \in NoRoute /\ Fails(r, q) /\ BookStill /\ NotNoted

(* The budget is empty and nothing is presented: not looked at. *)
Unlooked(r, q) ==
  /\ q.kind = "requests" /\ q.bearer = "none" /\ ~q.okThen
  /\ Limited(r, q) /\ BookStill /\ NotNoted

(* hasLink: a lookup with no sweep. *)
Unissued(r, q) ==
  /\ q.kind = "link" /\ ~q.okThen /\ q.target \notin DOMAIN entries
  /\ Limited(r, Noted(q)) /\ Note /\ BookStill

(* describeLink found it used, burned, expired or gone. *)
SpentLink(r, q) ==
  /\ q.kind = "link" /\ ~q.okThen /\ q.target \in DOMAIN entries /\ ~LinkLive(q.target)
  /\ Limited(r, Noted(q)) /\ Note /\ Sweep

LookedUp(q) == q.kind = "link" /\ (q.okThen \/ LinkLive(q.target))

ReadDeadLink(r, q) ==
  /\ LookedUp(q) /\ q.method = "GET" /\ ~LinkLive(q.target)
  /\ Fails(r, q) /\ NotNoted /\ Sweep

(* Charged to the request the link names. *)
ReadLink(r, q) ==
  /\ q.kind = "link" /\ q.method = "GET" /\ LinkLive(q.target)
  /\ IF budget[q.target] > 0 THEN Answered(r, q, "shown") /\ Charge(q.target) ELSE Limited(r, q)
  /\ NotNoted /\ Sweep

AwaitBody(r, q, own) ==
  req' = [req EXCEPT ![r] = [q EXCEPT !.at = "reading", !.own = own]] /\ UNCHANGED budget

(* humanKey, while the link still opens its request. *)
PostLink(r, q) ==
  /\ LookedUp(q) /\ q.method = "POST"
  /\ AwaitBody(r, q, IF LinkLive(q.target) THEN q.target ELSE None)
  /\ NotNoted /\ Sweep

AwaitVerdict(r, q) ==
  /\ q.kind = "requests" /\ q.kind \notin NoRoute /\ (q.okThen \/ q.bearer # "none")
  /\ req' = [req EXCEPT ![r] = [q EXCEPT !.at = "verifying"]]
  /\ UNCHANGED budget /\ BookStill /\ NotNoted

(* Links, codes and ids are unguessable: a request names one that was issued,
   or one that never will be (None). *)
Named == {id \in Id : audit[id].requested = 1} \cup {None}

Handle(r, q) ==
  \/ Unroutable(r, q) \/ Unlooked(r, q) \/ Unissued(r, q) \/ SpentLink(r, q)
  \/ ReadDeadLink(r, q) \/ ReadLink(r, q) \/ PostLink(r, q) \/ AwaitVerdict(r, q)

(* What arrives: a link presents no bearer, and what is no route has no more to it. *)
Shape ==
  {[kind |-> "junk", method |-> "GET", bearer |-> "none", target |-> None]}
    \cup [kind : {"link"}, method : {"GET", "POST"}, bearer : {"none"}, target : Named]
    \cup [kind : {"requests"}, method : {"GET", "POST"}, bearer : Bearer, target : Named]

Arrive(r) ==
  /\ listener = "open" /\ req[r].at = "idle"
  /\ \E s \in Shape, client \in Client : \E route \in Routes(client) :
       LET from == KeyOf[ClientAddress(route.peer, route.forwarded)] IN
       Handle(r, [Fresh EXCEPT !.kind = s.kind, !.method = s.method, !.target = s.target,
                               !.bearer = s.bearer, !.client = client,
                               !.from = from, !.okThen = budget[from] > 0])
  /\ UNCHANGED <<refilled, listener>>

-----------------------------------------------------------------------------
(* The handler after verifier.verify, or its five seconds. *)
VerdictLate(r, q) == Fails(r, q) /\ BookStill /\ NotNoted

Unauthenticated(r, q) ==
  /\ q.bearer \notin Delegate
  /\ Fails(r, Noted(q)) /\ Note /\ BookStill

OverOwnBudget(r, q) ==
  /\ q.bearer \in Delegate /\ budget[q.bearer] = 0
  /\ Limited(r, q) /\ BookStill /\ NotNoted

ReadRequest(r, q) ==
  /\ q.bearer \in Delegate /\ budget[q.bearer] > 0 /\ q.method = "GET"
  /\ Answered(r, q, IF q.target \in DOMAIN Swept THEN "shown" ELSE "refused")
  /\ Charge(q.bearer) /\ Sweep /\ NotNoted

PostRequest(r, q) ==
  /\ q.bearer \in Delegate /\ budget[q.bearer] > 0 /\ q.method = "POST"
  /\ req' = [req EXCEPT ![r] = [q EXCEPT !.at = "reading", !.own = q.bearer]]
  /\ Charge(q.bearer) /\ BookStill /\ NotNoted

Verified(r) ==
  LET q == req[r] IN
  /\ q.at = "verifying"
  /\ \/ VerdictLate(r, q) \/ Unauthenticated(r, q) \/ OverOwnBudget(r, q)
     \/ ReadRequest(r, q) \/ PostRequest(r, q)
  /\ UNCHANGED <<refilled, listener>>

-----------------------------------------------------------------------------
(* The handler after readBody. *)

(* No decision in it, or the connection gone: charged only on a link. *)
Malformed(r, q) ==
  /\ q.sent = "nothing"
  /\ IF q.kind = "link" THEN Fails(r, q) ELSE Answered(r, q, "refused") /\ UNCHANGED budget
  /\ BookStill /\ NotNoted

(* Slip: an empty address budget refuses every decision. *)
OwnSpentOrPoor(q) == q.own # None /\ (budget[q.own] = 0 \/ budget[q.from] = 0)

OwnSpent(q) == q.own # None /\ budget[q.own] = 0

LinkOverBudget(r, q) ==
  /\ q.kind = "link" /\ q.sent # "nothing" /\ OwnSpent(q)
  /\ Limited(r, q) /\ BookStill /\ NotNoted

MayTry(q) == q.kind = "link" /\ q.sent # "nothing" /\ ~OwnSpent(q)
MayTryCode(q) == MayTry(q) /\ q.sent = "code"

(* Slip: the link is believed to be as it was before the body was read. *)
DecidesAsDescribed(q, d) ==
  q.own = q.target /\ q.target \in DOMAIN Swept /\ Decide(q.target, HumanApprover, d, "human")

DecidesByLink(q, d) == DecideByLink(q.target, d)

(* The right code, and the decision taken: charged to the request's own budget. *)
DecidedByLink(r, q) ==
  /\ MayTryCode(q) /\ \E d \in Decision : DecidesByLink(q, d)
  /\ Answered(r, q, "decided") /\ Charge(q.own) /\ NotNoted

(* The right code, and self-approval refused: the approver's own doing. *)
RefusedByLink(r, q) ==
  /\ MayTryCode(q) /\ LinkRefused(q.target)
  /\ Answered(r, q, "refused") /\ Charge(q.own) /\ NotNoted

WrongCodeSent(r, q) ==
  /\ MayTry(q) /\ q.sent = "wrong code" /\ WrongCode(q.target)
  /\ Fails(r, q) /\ NotNoted

(* A dead link that still names a request has its row; one that names none is
   counted. *)
DeadLink(r, q) ==
  /\ MayTry(q) /\ LinkDead(q.target)
  /\ IF q.target \in DOMAIN Swept THEN Fails(r, q) /\ NotNoted ELSE Fails(r, Noted(q)) /\ Note

DelegateDecides(r, q) ==
  /\ q.kind = "requests" /\ q.sent # "nothing" /\ \E d \in Decision : DecideDelegated(q.target, q.own, d)
  /\ Answered(r, q, "decided") /\ UNCHANGED budget /\ NotNoted

DelegateRefused(r, q) ==
  /\ q.kind = "requests" /\ q.sent # "nothing" /\ DelegatedRefused(q.target, q.own)
  /\ Answered(r, q, "refused") /\ UNCHANGED budget /\ NotNoted

(* What the body holds; nothing comes in whole once its connection is closed. *)
Bodies(q) ==
  IF listener # "open" THEN {"nothing"}
  ELSE IF q.kind = "link" THEN {"nothing", "wrong code", "code"} ELSE {"nothing", "decision"}

Decided(r, q) ==
  \/ Malformed(r, q) \/ LinkOverBudget(r, q) \/ DecidedByLink(r, q) \/ RefusedByLink(r, q)
  \/ WrongCodeSent(r, q) \/ DeadLink(r, q) \/ DelegateDecides(r, q) \/ DelegateRefused(r, q)

BodyRead(r) ==
  /\ req[r].at = "reading"
  /\ \E body \in Bodies(req[r]) : Decided(r, [req[r] EXCEPT !.sent = body])
  /\ UNCHANGED <<refilled, listener>>

-----------------------------------------------------------------------------
(* The window's timer. *)
WindowEnds == burst.timer /\ Flush /\ UNCHANGED <<bookVars, req, budget, refilled, listener>>

Close ==
  /\ listener = "open" /\ listener' = "closing"
  /\ UNCHANGED <<bookVars, req, budget, refilled, burst>>

(* The server's close callback.  A verification still in flight may count one
   more refusal after it. *)
Closed ==
  /\ listener = "closing" /\ listener' = "closed" /\ Flush
  /\ UNCHANGED <<bookVars, req, budget, refilled>>

(* Time gives a token back. *)
Refill(k) ==
  /\ budget[k] < Burst /\ refilled[k] < MaxRefills
  /\ budget' = [budget EXCEPT ![k] = @ + 1]
  /\ refilled' = [refilled EXCEPT ![k] = @ + 1]
  /\ UNCHANGED <<bookVars, req, burst, listener>>

(* The call side: callers open and redeem, and time passes. *)
CallSide ==
  /\ \/ \E c \in Call : OpenHeld(c) \/ \E id \in Id : OpenNew(c, id)
     \/ \E id \in Id, c \in Call : Redeem(id, c) \/ RedeemRefused(id, c)
     \/ Tick
  /\ UNCHANGED listenerVars

ListenerNext ==
  \/ \E r \in Request : Arrive(r) \/ Verified(r) \/ BodyRead(r)
  \/ WindowEnds \/ Close \/ Closed
  \/ \E k \in Key : Refill(k)
  \/ CallSide

ListenerSpec == ListenerInit /\ [][ListenerNext]_allVars

-----------------------------------------------------------------------------
(* Properties *)

ToldDecided(id) == {r \in Request : req[r].answer = "decided" /\ req[r].target = id}
ApproverOf(q) == IF q.kind = "link" THEN HumanApprover ELSE q.own

(* One approver hears "decided" of a request, and hears it if and only if the
   rows say the request was decided, by that approver: whatever was decided,
   expired, used or burned while its body was being read (APR-4, APR-8, APR-15;
   listener.ts:206-227 and 271-277). *)
DecidedIsRecorded ==
  \A id \in Id :
    /\ Cardinality(ToldDecided(id)) = audit[id].approved + audit[id].declined
    /\ Cardinality(ToldDecided(id)) <= 1
    /\ \A r \in ToldDecided(id) : audit[id].approver = ApproverOf(req[r])

SpentOf(k) == Burst + refilled[k] - budget[k]
FailedFrom(k) == {r \in Request : req[r].answer = "failed" /\ req[r].from = k}

(* An address pays for exactly the requests that failed from it, one token
   each, and for nothing else: not what an approver with a credential did, nor
   what was answered 429.  And the address is the client's own, or its proxy's:
   never one the client chose to put in a header (APR-22, APR-25, APR-26). *)
FailuresArePaid ==
  /\ \A a \in Address : SpentOf(KeyOf[a]) = Cardinality(FailedFrom(KeyOf[a]))
  /\ \A r \in Request : req[r].at # "idle" =>
       req[r].from \in {KeyOf[a] : a \in {req[r].client} \cup Proxy}

(* An approver whose right code reaches a link still open, within that request's
   own budget, decides: however many failures of others drained the address they
   share while the body was being read, or before it (APR-26). *)
NeverShutOut ==
  [][\A r \in Request :
       /\ req[r].at = "reading" /\ req'[r].sent = "code"
       /\ LinkDecides(req[r].target) /\ budget[req[r].target] > 0
       => req'[r].answer = "decided"]_allVars

CountAddsUp ==
  /\ burst.written + burst.count = Cardinality({r \in Request : req[r].noted})
  /\ burst.count > 0 => burst.timer

(* Refusals that noteUnauthenticated is not called for, although their link names
   no request when they are answered: a GET whose address has a budget
   (listener.ts:195-198); a POST with no decision in it (207-209); and a POST
   whose request was there, with its budget spent, when it came (212-216). *)
LeftOut(r) ==
  \/ req[r].at = "idle" /\ budget[req'[r].from] > 0
  \/ req'[r].sent = "nothing"
  \/ req[r].at = "reading" /\ OwnSpent(req[r])

AnsweredStranger(r) ==
  /\ req[r].at # "answered" /\ req'[r].at = "answered"
  /\ req'[r].kind = "link" /\ req'[r].target \notin DOMAIN entries'

(* The refusals that are counted reach a row: the rows written and the open
   window's count add up to them, and a window with a count has its timer, at
   every order of refusals, timer and close (service.ts:104-124).  And a link that
   names no request is refused uncounted in the three cases of LeftOut only, though
   its request went while the body was being read; APR-22 names none of them. *)
CountsReachARow ==
  [][/\ CountAddsUp'
     /\ \A r \in Request : AnsweredStranger(r) => req'[r].noted \/ LeftOut(r)]_allVars

=============================================================================
