------------------------------- MODULE Transport -------------------------------
(***************************************************************************)
(* One HTTP request through the transport, many at once:                   *)
(* packages/core/src/transport/server.ts (handle, the in-flight slot) and  *)
(* dispatch.ts (callTool, runHandlerOnce).                                 *)
(*                                                                         *)
(* handle is asynchronous: it stops at the verifier, the body, the         *)
(* argument validation, the approval gate and the handler, and at each of  *)
(* them the client may disconnect.  A request takes an in-flight slot      *)
(* after authentication and gives it up when its response has closed and   *)
(* the handler it started has settled; an answer that is sent early (a     *)
(* timeout, a disconnect) leaves the handler running.                      *)
(*                                                                         *)
(* What the verifier, the rate limiter, the parser and the validator say   *)
(* is left open here: each is any of its answers.                          *)
(***************************************************************************)
EXTENDS Integers, FiniteSets

CONSTANTS
  Request,         \* the requests made
  MaxInFlight,     \* limits.maxInFlight
  MaxWaiting,      \* approval calls that may wait for a decision at once
  None

ASSUME SlotAssumption == MaxInFlight \in Nat \ {0}
(* APR-20, checked at start (server.ts:280). *)
ASSUME WaitingAssumption == MaxWaiting \in Nat /\ MaxWaiting * 2 <= MaxInFlight

VARIABLES
  pc,          \* where handle is: the await it is at
  responseClosed, \* its response has closed
  aborted,     \* the call's abort signal: the client left before its answer
  inFlight,    \* requests and handlers counted
  slotHeld,    \* this request is one of them
  handler,     \* the handler it started: handlerSettled is handler # "running"
  breached,    \* the handler reached outside its containment domain
  answer       \* what the response says

reqVars == <<pc, answer>>
slotVars == <<inFlight, slotHeld>>
transportVars == <<pc, responseClosed, aborted, inFlight, slotHeld, handler, breached, answer>>

Stage == {"new", "auth", "body", "validate", "gate", "running", "sent"}
Answer == {"refused", "result", "gated", "contained", "timeout", "gone", "error"}

TransportTypeOK ==
  /\ pc \in [Request -> Stage]
  /\ responseClosed \in [Request -> BOOLEAN]
  /\ aborted \in [Request -> BOOLEAN]
  /\ inFlight \in Nat
  /\ slotHeld \in [Request -> BOOLEAN]
  /\ handler \in [Request -> {"none", "running", "settled"}]
  /\ breached \in [Request -> BOOLEAN]
  /\ answer \in [Request -> Answer \cup {None}]

TransportInit ==
  /\ pc = [r \in Request |-> "new"]
  /\ responseClosed = [r \in Request |-> FALSE]
  /\ aborted = [r \in Request |-> FALSE]
  /\ inFlight = 0
  /\ slotHeld = [r \in Request |-> FALSE]
  /\ handler = [r \in Request |-> "none"]
  /\ breached = [r \in Request |-> FALSE]
  /\ answer = [r \in Request |-> None]

-----------------------------------------------------------------------------
Send(r, a) == pc' = [pc EXCEPT ![r] = "sent"] /\ answer' = [answer EXCEPT ![r] = a]

Goto(r, stage) == pc' = [pc EXCEPT ![r] = stage] /\ UNCHANGED answer

(* Slip: an abandoned handler is not waited for. *)
ReleaseAtClose(r) ==
  IF slotHeld[r] /\ responseClosed'[r]
    THEN slotHeld' = [slotHeld EXCEPT ![r] = FALSE] /\ inFlight' = inFlight - 1
    ELSE UNCHANGED slotVars
(* release(), with responseClosed and handlerSettled as the step leaves them. *)
Release(r) ==
  IF slotHeld[r] /\ responseClosed'[r] /\ handler'[r] # "running"
    THEN slotHeld' = [slotHeld EXCEPT ![r] = FALSE] /\ inFlight' = inFlight - 1
    ELSE UNCHANGED slotVars

(* Route, method, Host, Origin and the Authorization header, before any await. *)
Arrive(r) ==
  /\ pc[r] = "new"
  /\ Goto(r, "auth") \/ Send(r, "refused")
  /\ UNCHANGED <<responseClosed, aborted, slotVars, handler, breached>>

(* The verifier refuses, or does not answer in time, or the rate limit does. *)
AuthRefused(r) ==
  /\ pc[r] = "auth"
  /\ Send(r, "refused")
  /\ UNCHANGED <<responseClosed, aborted, slotVars, handler, breached>>

AtCapacity(r) ==
  /\ pc[r] = "auth" /\ inFlight >= MaxInFlight
  /\ Send(r, "refused")
  /\ UNCHANGED <<responseClosed, aborted, slotVars, handler, breached>>

(* Slip: the slot is kept for a client that has gone. *)
TakeSlotBlindly(r) ==
  /\ pc[r] = "auth" /\ inFlight < MaxInFlight
  /\ inFlight' = inFlight + 1 /\ slotHeld' = [slotHeld EXCEPT ![r] = TRUE]
  /\ Goto(r, "body") \/ Send(r, "refused")
  /\ UNCHANGED <<responseClosed, aborted, handler, breached>>

(* The slot is taken; if the client has already gone it goes back at once.
   Then Accept, Content-Type and the codings, and on to the body. *)
TakeSlot(r) ==
  /\ pc[r] = "auth" /\ inFlight < MaxInFlight
  /\ IF responseClosed[r] THEN UNCHANGED slotVars
                  ELSE /\ inFlight' = inFlight + 1
                       /\ slotHeld' = [slotHeld EXCEPT ![r] = TRUE]
  /\ Goto(r, "body") \/ Send(r, "refused")
  /\ UNCHANGED <<responseClosed, aborted, handler, breached>>

(* The whole body arrived: refused by the parser or the framing, answered by a
   method that runs no tool, or a call whose arguments go to the validator. *)
BodyRead(r) ==
  /\ pc[r] = "body" /\ ~responseClosed[r]
  /\ \/ Goto(r, "validate")
     \/ \E a \in {"refused", "result"} : Send(r, a)
  /\ UNCHANGED <<responseClosed, aborted, slotVars, handler, breached>>

(* The connection went while the body was read: readBody rejects. *)
BodyLost(r) ==
  /\ pc[r] = "body" /\ responseClosed[r]
  /\ Send(r, "error")
  /\ UNCHANGED <<responseClosed, aborted, slotVars, handler, breached>>

-----------------------------------------------------------------------------
(* callTool, after its arguments are validated. *)

(* runHandlerOnce up to its await: the handler runs, and is tracked. *)
StartHandler(r) ==
  /\ handler' = [handler EXCEPT ![r] = "running"]
  /\ Goto(r, "running")
  /\ UNCHANGED <<responseClosed, aborted, slotVars, breached>>

ValidateRefused(r) ==
  /\ pc[r] = "validate"
  /\ Send(r, "refused")
  /\ UNCHANGED <<responseClosed, aborted, slotVars, handler, breached>>

(* A tool that needs no approval, or whose grant is redeemed by its request id. *)
Validated(r) == pc[r] = "validate" /\ StartHandler(r)

(* The gate answers at once, or the call waits for a decision. *)
Gated(r) ==
  /\ pc[r] = "validate"
  /\ \/ Send(r, "gated")
     \/ /\ Cardinality({q \in Request : pc[q] = "gate"}) < MaxWaiting
        /\ Goto(r, "gate")
  /\ UNCHANGED <<responseClosed, aborted, slotVars, handler, breached>>

GateAnswers(r) ==
  /\ pc[r] = "gate"
  /\ Send(r, "gated")
  /\ UNCHANGED <<responseClosed, aborted, slotVars, handler, breached>>

GateGrants(r) == pc[r] = "gate" /\ ~aborted[r] /\ StartHandler(r)

-----------------------------------------------------------------------------
(* Slip: the handler's own ending is reported. *)
OwnAnswer(r, a) == a

(* The race of the handler with its deadline: whichever way it ends, a refused
   reach comes first. *)
RaceAnswer(r, a) == IF breached[r] THEN "contained" ELSE a

(* The handler settles, in time or long after the answer was sent. *)
HandlerSettles(r) ==
  /\ handler[r] = "running"
  /\ handler' = [handler EXCEPT ![r] = "settled"]
  /\ UNCHANGED <<responseClosed, aborted, breached>>
  /\ Release(r)
  /\ IF pc[r] = "running" THEN \E a \in {"result", "error"} : Send(r, RaceAnswer(r, a))
                          ELSE UNCHANGED reqVars

(* The cage refuses a reach, at any moment the handler's code runs. *)
Reach(r) ==
  /\ handler[r] # "none" /\ ~breached[r]
  /\ breached' = [breached EXCEPT ![r] = TRUE]
  /\ UNCHANGED <<reqVars, responseClosed, aborted, slotVars, handler>>

(* The deadline: the client's disconnect, if there was one, is what is reported. *)
HandlerTimeout(r) ==
  /\ pc[r] = "running"
  /\ Send(r, RaceAnswer(r, IF aborted[r] THEN "gone" ELSE "timeout"))
  /\ UNCHANGED <<responseClosed, aborted, slotVars, handler, breached>>

(* Slip: the response's close releases nothing. *)
ResponseClosesOnly(r) ==
  /\ pc[r] = "sent" /\ ~responseClosed[r]
  /\ responseClosed' = [responseClosed EXCEPT ![r] = TRUE]
  /\ UNCHANGED <<handler, reqVars, aborted, breached, slotVars>>

(* The response was taken by its client, or its connection is gone. *)
ResponseCloses(r) ==
  /\ pc[r] = "sent" /\ ~responseClosed[r]
  /\ responseClosed' = [responseClosed EXCEPT ![r] = TRUE]
  /\ UNCHANGED <<handler, reqVars, aborted, breached>>
  /\ Release(r)

(* The client goes away before its answer.  A handler's race is lost at once. *)
Disconnect(r) ==
  /\ pc[r] \notin {"new", "sent"} /\ ~responseClosed[r]
  /\ responseClosed' = [responseClosed EXCEPT ![r] = TRUE]
  /\ aborted' = [aborted EXCEPT ![r] = TRUE]
  /\ UNCHANGED <<handler, breached>>
  /\ Release(r)
  /\ IF pc[r] = "running" THEN Send(r, RaceAnswer(r, "gone")) ELSE UNCHANGED reqVars

-----------------------------------------------------------------------------
AuthEnds(r) == AuthRefused(r) \/ AtCapacity(r) \/ TakeSlot(r)
BodyEnds(r) == BodyRead(r) \/ BodyLost(r) \/ (pc[r] = "body" /\ Disconnect(r))
ValidationEnds(r) == ValidateRefused(r) \/ Validated(r) \/ Gated(r)
GateEnds(r) == GateAnswers(r) \/ GateGrants(r)

TransportNext ==
  \E r \in Request :
    \/ Arrive(r) \/ AuthEnds(r) \/ BodyEnds(r) \/ ValidationEnds(r) \/ GateEnds(r)
    \/ HandlerSettles(r) \/ Reach(r) \/ HandlerTimeout(r)
    \/ ResponseCloses(r) \/ Disconnect(r)

TransportSafety == TransportInit /\ [][TransportNext]_transportVars

(* Every await but the handler's own has a deadline: verifierTimeoutMs, the
   server's requestTimeout, the validation pool's timer, the approval wait,
   handlerTimeoutMs.  Handlers are not required to settle, nor responses to
   close: the server sets no timeout for writing one (server.ts:560 sets
   requestTimeout alone, which bounds receiving a request). *)
Fairness ==
  \A r \in Request :
    /\ WF_transportVars(AuthEnds(r))
    /\ WF_transportVars(BodyEnds(r))
    /\ WF_transportVars(ValidationEnds(r))
    /\ WF_transportVars(GateEnds(r))
    /\ WF_transportVars(HandlerTimeout(r))

TransportSpec == TransportSafety /\ Fairness

-----------------------------------------------------------------------------
(* Properties *)

(* The count is the slots held and never passes its cap, and a slot is held
   only for a response still open or a handler still running, whatever the
   order in which the client leaves, the answer is sent and the handler
   settles: no slot leaks and none is given back twice (server.ts release). *)
SlotsExact ==
  /\ TransportTypeOK
  /\ inFlight = Cardinality({r \in Request : slotHeld[r]})
  /\ inFlight <= MaxInFlight
  /\ \A r \in Request : slotHeld[r] => ~responseClosed[r] \/ handler[r] = "running"

(* A handler whose client was there when it started is counted until it
   settles, its answer long sent or not (server.ts:424, F3). *)
SlotOutlivesAnswer ==
  [][\A r \in Request :
       /\ slotHeld[r] /\ ~slotHeld'[r] => responseClosed'[r] /\ handler'[r] # "running"
       /\ handler[r] = "none" /\ handler'[r] = "running" /\ ~responseClosed[r] => slotHeld'[r]]_transportVars

(* A reach outside the tool's domain fails the call however the call ends:
   result, error, deadline or disconnect (dispatch.ts containment, N4). *)
ReachFailsCall ==
  [][\A r \in Request :
       pc[r] = "running" /\ pc'[r] = "sent" /\ breached[r] => answer'[r] = "contained"]_transportVars

(* A slot is lost in two ways only: the tool's own handler never settles, or
   the client keeps its connection and never takes the answer, for which the
   server has no deadline.  No order of disconnect, refusal, wait, answer, close
   and settling keeps one for ever otherwise (server.ts release). *)
SlotsComeBack ==
  \A r \in Request :
    \/ <>[]~slotHeld[r]
    \/ <>[](handler[r] = "running")
    \/ <>[](pc[r] = "sent" /\ ~responseClosed[r])

=============================================================================
