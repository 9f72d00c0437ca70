---------------------------- MODULE ApprovalService ----------------------------
(***************************************************************************)
(* The call side of the approval backend:                                  *)
(* packages/core/src/approval/service.ts (gate, #enterWait, #leaveWait)    *)
(* over the book, with the book's waiters (book.ts waitFor, #wake).        *)
(*                                                                         *)
(* A call that needs approval either carries a request id, and redeems it, *)
(* or opens a request and may wait a bounded time for the decision.  A     *)
(* waiting call holds a place under two caps and sleeps until the book     *)
(* wakes it, its timer fires, or its client disconnects.  Node runs a      *)
(* woken call's continuation before the next event, but the calls one      *)
(* event wakes run one after another: that is Woken below.                 *)
(***************************************************************************)
EXTENDS ApprovalBook

CONSTANTS
  Caller,                  \* concurrent calls of gate
  WaitSeconds,             \* APPROVAL_WAIT_SECONDS; 0 is no waiting
  MaxWaiting, MaxWaitingPerPrincipal

ASSUME WaitAssumption ==
  /\ WaitSeconds \in Nat
  /\ MaxWaiting \in Nat
  /\ MaxWaitingPerPrincipal \in Nat

VARIABLES
  pc,            \* where each call of gate is
  ask,           \* the call it makes and the request it waits on
  aborted,       \* its client has disconnected
  wokenBy,       \* what ended its wait
  answer,        \* the GateOutcome's kind, or the reason of a refusal
  waiters,       \* #waiters, in the book: the calls asleep on each request
  waiting,       \* #waiting: places held, by principal
  waitingTotal,  \* #waitingTotal
  granted        \* per request, how many calls were told to run on its grant

callVars == <<pc, ask, aborted, wokenBy, answer>>
waitVars == <<waiters, waiting, waitingTotal>>
serviceVars == <<bookVars, callVars, waitVars, granted>>

NoAsk == [call |-> None, id |-> None]
Answers == {"granted", "pending", "declined", "expired", "refused"}

ASSUME AnswerAssumption == None \notin Answers

ServiceTypeOK ==
  /\ BookTypeOK
  /\ pc \in [Caller -> {"idle", "waiting", "woken", "answered"}]
  /\ ask \in [Caller -> [call : Call \cup {None}, id : Id \cup {None}]]
  /\ aborted \in [Caller -> BOOLEAN]
  /\ wokenBy \in [Caller -> {None, "book", "timer", "abort"}]
  /\ answer \in [Caller -> Answers \cup {None}]
  /\ waiters \in [Id -> SUBSET Caller]
  /\ waiting \in [Principal -> Nat]
  /\ waitingTotal \in Nat
  /\ granted \in [Id -> Nat]

ServiceInit ==
  /\ BookInit
  /\ pc = [c \in Caller |-> "idle"]
  /\ ask = [c \in Caller |-> NoAsk]
  /\ aborted = [c \in Caller |-> FALSE]
  /\ wokenBy = [c \in Caller |-> None]
  /\ answer = [c \in Caller |-> None]
  /\ waiters = [id \in Id |-> {}]
  /\ waiting = [p \in Principal |-> 0]
  /\ waitingTotal = 0
  /\ granted = [id \in Id |-> 0]

-----------------------------------------------------------------------------
(* #wake: the calls asleep on the requests X resume.  Every method of the book
   sweeps first, so every one of them wakes LapsedIds. *)
Sleeping(X) == UNION {waiters[id] : id \in X}

Wake(X) ==
  /\ waiters' = [id \in Id |-> IF id \in X THEN {} ELSE waiters[id]]
  /\ pc' = [k \in Caller |-> IF k \in Sleeping(X) THEN "woken" ELSE pc[k]]
  /\ wokenBy' = [k \in Caller |-> IF k \in Sleeping(X) THEN "book" ELSE wokenBy[k]]

(* The same while call c answers a. *)
WakeAndAnswer(X, c, a) ==
  /\ waiters' = [id \in Id |-> IF id \in X THEN {} ELSE waiters[id]]
  /\ pc' = [k \in Caller |-> IF k = c THEN "answered"
                             ELSE IF k \in Sleeping(X) THEN "woken" ELSE pc[k]]
  /\ wokenBy' = [k \in Caller |-> IF k \in Sleeping(X) THEN "book" ELSE wokenBy[k]]
  /\ answer' = [answer EXCEPT ![c] = a]

(* No continuation of a woken call is queued: the next event may run. *)
Quiet == \A c \in Caller : pc[c] # "woken"

-----------------------------------------------------------------------------
(* gate with a request id. *)
GateRedeem(c, call, id) ==
  /\ Quiet /\ pc[c] = "idle"
  /\ \/ Redeem(id, call) /\ WakeAndAnswer(LapsedIds, c, "granted")
                         /\ granted' = [granted EXCEPT ![id] = @ + 1]
     \/ RedeemRefused(id, call) /\ WakeAndAnswer(LapsedIds, c, "refused")
                                /\ UNCHANGED granted
  /\ ask' = [ask EXCEPT ![c] = [call |-> call, id |-> id]]
  /\ UNCHANGED <<aborted, waiting, waitingTotal>>

(* #enterWait's guard. *)
MayWait(p) ==
  /\ WaitSeconds > 0
  /\ waiting[p] < MaxWaitingPerPrincipal
  /\ waitingTotal < MaxWaiting

(* waitFor: asleep on the request, unless the client has already gone. *)
EnterWait(c, p, id) ==
  /\ waiting' = [waiting EXCEPT ![p] = @ + 1]
  /\ waitingTotal' = waitingTotal + 1
  /\ waiters' = [i \in Id |-> (IF i \in LapsedIds THEN {} ELSE waiters[i])
                                \cup (IF i = id /\ ~aborted[c] THEN {c} ELSE {})]
  /\ pc' = [k \in Caller |->
              CASE k = c -> IF aborted[c] THEN "woken" ELSE "waiting"
                [] k # c /\ k \in Sleeping(LapsedIds) -> "woken"
                [] OTHER -> pc[k]]
  /\ wokenBy' = [k \in Caller |->
              CASE k = c -> IF aborted[c] THEN "abort" ELSE None
                [] k # c /\ k \in Sleeping(LapsedIds) -> "book"
                [] OTHER -> wokenBy[k]]
  /\ UNCHANGED answer

WaitOn(c, call, id) ==
  /\ ask' = [ask EXCEPT ![c] = [call |-> call, id |-> id]]
  /\ \/ MayWait(call.principal) /\ EnterWait(c, call.principal, id)
     \/ /\ ~MayWait(call.principal)
        /\ WakeAndAnswer(LapsedIds, c, "pending")
        /\ UNCHANGED <<waiting, waitingTotal>>

(* gate without a request id, up to its await. *)
GateOpen(c, call) ==
  /\ Quiet /\ pc[c] = "idle"
  /\ \/ \E id \in Id : OpenNew(call, id) /\ WaitOn(c, call, id)
     \/ OpenHeld(call) /\ \E id \in PendingFor(call) : WaitOn(c, call, id)
     \/ /\ PendingFor(call) = {} /\ OpenHeld(call)
        /\ ask' = [ask EXCEPT ![c] = [call |-> call, id |-> None]]
        /\ WakeAndAnswer(LapsedIds, c, "refused")
        /\ UNCHANGED <<waiting, waitingTotal>>
  /\ UNCHANGED <<aborted, granted>>

-----------------------------------------------------------------------------
(* Slip: the waiter stays in the book's set. *)
StopsWaitingLeaky(c, why) ==
  UNCHANGED waiters /\ pc' = [pc EXCEPT ![c] = "woken"] /\ wokenBy' = [wokenBy EXCEPT ![c] = why]

(* Slip: the waiter leaves the set and its promise is never resolved. *)
StopsWaitingAsleep(c, why) ==
  waiters' = [waiters EXCEPT ![ask[c].id] = @ \ {c}] /\ UNCHANGED <<pc, wokenBy>>

(* waitFor's other two ends: its timer, and the call's abort signal. *)
StopsWaiting(c, why) ==
  /\ waiters' = [waiters EXCEPT ![ask[c].id] = @ \ {c}]
  /\ pc' = [pc EXCEPT ![c] = "woken"]
  /\ wokenBy' = [wokenBy EXCEPT ![c] = why]

TimerFires(c) ==
  /\ Quiet /\ pc[c] = "waiting"
  /\ StopsWaiting(c, "timer")
  /\ UNCHANGED <<bookVars, ask, aborted, answer, waiting, waitingTotal, granted>>

Disconnect(c) ==
  /\ Quiet /\ pc[c] \in {"idle", "waiting"} /\ ~aborted[c]
  /\ aborted' = [aborted EXCEPT ![c] = TRUE]
  /\ IF pc[c] = "waiting" THEN StopsWaiting(c, "abort")
                          ELSE UNCHANGED <<waiters, pc, wokenBy>>
  /\ UNCHANGED <<bookVars, ask, answer, waiting, waitingTotal, granted>>

(* #leaveWait *)
LeaveWait(p) ==
  /\ waiting' = [waiting EXCEPT ![p] = @ - 1]
  /\ waitingTotal' = waitingTotal - 1

StateAfterWait(id) == IF id \in DOMAIN Swept THEN Swept[id].state ELSE "expired"

(* The grant is spent only for a client that is still there. *)
RunsNow(c, state) == state = "approved" /\ ~aborted[c]

(* gate after its await. *)
Resume(c) ==
  LET call == ask[c].call  id == ask[c].id  state == StateAfterWait(id) IN
  /\ pc[c] = "woken"
  /\ LeaveWait(call.principal)
  /\ \/ /\ RunsNow(c, state)
        /\ Redeem(id, call)
        /\ WakeAndAnswer(LapsedIds, c, "granted")
        /\ granted' = [granted EXCEPT ![id] = @ + 1]
     \/ /\ ~RunsNow(c, state)
        /\ Sweep
        /\ WakeAndAnswer(LapsedIds, c, IF state \in {"declined", "expired"} THEN state ELSE "pending")
        /\ UNCHANGED granted
  /\ UNCHANGED <<ask, aborted>>

(* The client has its answer; its next call is a new one. *)
Return(c) ==
  /\ pc[c] = "answered"
  /\ pc' = [pc EXCEPT ![c] = "idle"]
  /\ ask' = [ask EXCEPT ![c] = NoAsk]
  /\ aborted' = [aborted EXCEPT ![c] = FALSE]
  /\ wokenBy' = [wokenBy EXCEPT ![c] = None]
  /\ answer' = [answer EXCEPT ![c] = None]
  /\ UNCHANGED <<bookVars, waitVars, granted>>

-----------------------------------------------------------------------------
(* The decision side: the book's methods, called by the approval listener. *)
Decides(id) ==
  /\ \E d \in Decision :
       (\E a \in Delegate : DecideDelegated(id, a, d)) \/ DecideByLink(id, d)
  /\ Wake(LapsedIds \cup {id})

DecidesNothing(id) ==
  /\ \/ \E a \in Delegate : DelegatedRefused(id, a)
     \/ LinkRefused(id) \/ WrongCode(id) \/ LinkDead(id)
  /\ Wake(LapsedIds)

DecisionSide ==
  /\ Quiet
  /\ \E id \in Id : Decides(id) \/ DecidesNothing(id)
  /\ UNCHANGED <<ask, aborted, answer, waiting, waitingTotal, granted>>

Passes == Quiet /\ Tick /\ UNCHANGED <<callVars, waitVars, granted>>

ServiceNext ==
  \/ \E c \in Caller :
       \/ \E call \in Call : GateOpen(c, call) \/ \E id \in Id : GateRedeem(c, call, id)
       \/ TimerFires(c)
       \/ Disconnect(c)
       \/ Resume(c)
       \/ Return(c)
  \/ DecisionSide
  \/ Passes

ServiceSafety == ServiceInit /\ [][ServiceNext]_serviceVars

(* A resolved promise's continuation runs, and a due timer (setTimeout) is run
   by a later turn of the event loop, which other calls' continuations may
   precede but not for ever: hence strong fairness for it.  Nothing else is
   promised: no decision, and no client, need come. *)
Fairness == \A c \in Caller : SF_serviceVars(TimerFires(c)) /\ WF_serviceVars(Resume(c))

ServiceSpec == ServiceSafety /\ Fairness

-----------------------------------------------------------------------------
(* Properties *)

(* No wake is lost and no place leaks: a call is asleep on a request only while
   that request is held and undecided, the book's waiter sets hold exactly the
   calls asleep, and the places counted are those of the calls that wait, under
   both caps (book.ts waitFor and #wake, service.ts #leaveWait, APR-20: a
   decision or an expiry between open and waitFor, a timer racing a decision or a
   disconnect would strand a call or leak its entry or its place). *)
Waits(c) == pc[c] \in {"waiting", "woken"}
NoLostWakeup ==
  /\ ServiceTypeOK
  /\ \A c \in Caller, id \in Id :
       /\ c \in waiters[id] <=> pc[c] = "waiting" /\ ask[c].id = id
       /\ c \in waiters[id] => id \in DOMAIN entries /\ entries[id].state = "pending"
  /\ \A p \in Principal :
       /\ waiting[p] = Cardinality({c \in Caller : Waits(c) /\ ask[c].call.principal = p})
       /\ waiting[p] <= MaxWaitingPerPrincipal
  /\ waitingTotal = Cardinality({c \in Caller : Waits(c)}) /\ waitingTotal <= MaxWaiting

(* One approval runs one call, the call that was approved: the calls told to
   run are exactly the grants redeemed, whichever of several waiting calls
   and retries with the request id gets there first (APR-2, APR-3). *)
OneCallPerGrant ==
  /\ \A id \in Id : granted[id] = audit[id].redeemed /\ granted[id] <= audit[id].approved
  /\ \A c \in Caller : answer[c] = "granted" => audit[ask[c].id].call = ask[c].call

(* Every wait ends: no caller hangs on an approver who never answers (APR-13). *)
EveryWaitEnds == \A c \in Caller : pc[c] = "waiting" ~> pc[c] = "answered"

=============================================================================
