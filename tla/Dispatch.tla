-------------------------------- MODULE Dispatch --------------------------------
(***************************************************************************)
(* Requests from their first check to their answer, over several rounds:   *)
(* packages/core/src/transport/server.ts (handle), dispatch.ts (dispatch,  *)
(* callTool, gateApproval, shapeResult) and request-state.ts.              *)
(*                                                                         *)
(* A tool may answer with a question and a sealed state, which the client  *)
(* sends back with its next call; a call of an elevated tool runs only on  *)
(* a grant for exactly that call.  The awaits before the validation are    *)
(* Transport's.  After it the code runs without one to the handler's start *)
(* (Begin), but for a call that waits at the gate for its approval:        *)
(* GateWaits, and GateGrants or GateEnds up to 25 s later.                 *)
(*                                                                         *)
(* `ran` is history, which the code does not keep.                         *)
(***************************************************************************)
EXTENDS RequestForm

CONSTANTS
  Request,      \* the requests clients make
  Carrying,     \* those that may carry a request state and an approval id
  Forged,       \* a request state nobody sealed
  Capability,   \* what a client may declare
  Id,           \* approval requests
  Ttl,          \* requestStateTtlMs
  Slot,         \* calls in progress at once
  MaxReaches,   \* refused reaches a call makes before its answer, at most
  MaxTime, MaxSealed, MaxRuns   \* bounds, for TLC

ASSUME DispatchAssumption ==
  /\ {Ttl, MaxReaches} \subseteq Nat \ {0} /\ {MaxTime, MaxSealed, MaxRuns} \subseteq Nat
  /\ Elevated \subseteq Tool /\ None \notin Id
ASSUME EraAssumption ==
  /\ Modern # Legacy
  /\ None \notin {Modern, Legacy, "tool-call", "approval-refused"} \cup Code \cup OwnRefusalRow \cup Fault

VARIABLES
  now,       \* the clock the states expire by
  keyed,     \* CLEARSEAL_REQUEST_STATE_KEY is set
  sealed,    \* the states sealed
  asks,      \* per id, the call it was asked for and where it stands
  calls,     \* per slot, the call that waits for approval or whose handler runs
  waits,     \* per slot, the approval request its call waits on
  answer,    \* the answer being sent, and its request's rows in no order
  ran        \* the runs of elevated tools, and the grant each had

dispatchVars == <<now, keyed, sealed, asks, calls, waits, answer, ran>>

NoAnswer == [who |-> None, era |-> None, code |-> None, status |-> None, rows |-> <<>>, ran |-> FALSE]
Unasked == [state |-> "free", call |-> None]

DispatchInit ==
  /\ now = 0
  /\ keyed \in BOOLEAN
  /\ sealed = {}
  /\ asks = [id \in Id |-> Unasked]
  /\ calls = [s \in Slot |-> None]
  /\ waits = [s \in Slot |-> None]
  /\ answer = NoAnswer
  /\ ran = <<>>

-----------------------------------------------------------------------------
(* sealState binds a state to the call that got it. *)
Seal(c) == [who |-> c.who, tool |-> c.tool, args |-> c.args, exp |-> now + Ttl]

(* Slip: the arguments are not bound. *)
OpensAnyArgs(r) ==
  /\ keyed /\ r.token \in sealed
  /\ r.token.who = r.who /\ r.token.tool = r.tool /\ now < r.token.exp

(* openState: sealed here, for this principal, tool and arguments, and not
   expired; any other string fails its MAC. *)
Opens(r) ==
  /\ keyed /\ r.token \in sealed
  /\ r.token.who = r.who /\ r.token.tool = r.tool /\ r.token.args = r.args
  /\ now < r.token.exp

(* What the handler is given. *)
Inputs(r) ==
  [who |-> r.who, tool |-> r.tool, args |-> r.args,
   responses |-> IF Era(r) = Modern THEN r.responses ELSE None,
   token |-> IF Era(r) = Modern THEN r.token ELSE None]

(* Slip: the grant is for the arguments. *)
ExactCallArgs(inputs) == [inputs EXCEPT !.responses = None, !.token = None]

(* What the gate asks approval for, and what a grant must have been for. *)
ExactCall(inputs) == inputs

-----------------------------------------------------------------------------
(* Answers and rows. *)
Closing(refusal) == IF refusal.audited THEN <<>> ELSE <<"rpc-refused">>
OwnRows(refusal) == IF refusal.row = None THEN <<>> ELSE <<refusal.row>>

Refused(who, era, refusal, rows, didRun) ==
  answer' = [who |-> who, era |-> era, code |-> refusal.code, status |-> refusal.status,
             rows |-> OwnRows(refusal) \o rows \o Closing(refusal), ran |-> didRun]
Result(who, era, rows, didRun) ==
  answer' = [NoAnswer EXCEPT !.who = who, !.era = era, !.status = 200, !.rows = rows, !.ran = didRun]

State == <<now, keyed, sealed, asks, calls, waits, ran>>

(* Refused before dispatch, at an HTTP error status: one row, which names the
   caller once it is known. *)
HttpRefused(r) ==
  /\ ~Passed(HttpChecks(r))
  /\ LET fault == HttpFault(r) IN
     answer' = [NoAnswer EXCEPT !.who = IF Known(fault) THEN r.who ELSE None, !.code = fault, !.status = 400,
                                !.rows = <<IF fault \in OwnRow THEN fault ELSE "http-refused">>]
  /\ UNCHANGED State

(* /health and the resource's metadata. *)
Public(r) ==
  /\ Passed(HttpChecks(r)) /\ r.path # "endpoint"
  /\ Result(None, None, <<>>, FALSE)
  /\ UNCHANGED State

Dispatched(r) == Passed(HttpChecks(r)) /\ r.path = "endpoint"

Notification(r) ==
  /\ Dispatched(r) /\ r.kind = "notification"
  /\ IF Passed(NotificationChecks(r)) THEN Result(r.who, Legacy, <<>>, FALSE)
     ELSE Refused(r.who, None, FirstOf(NotificationChecks(r)).refusal, <<>>, FALSE)
  /\ UNCHANGED State

FormRefused(r) ==
  /\ Dispatched(r) /\ r.kind = "request" /\ ~Passed(FormChecks(r, Opens(r)))
  /\ Refused(r.who, IF Passed(EraChecks(r)) THEN Era(r) ELSE None, FormRefusal(r, Opens(r)), <<>>, FALSE)
  /\ UNCHANGED State

WellFormed(r) == Dispatched(r) /\ r.kind = "request" /\ Passed(FormChecks(r, Opens(r)))

(* dispatch, for any result: one over the cap is not sent. *)
OverCap(era) == StatusForEra(era, Audited("result-over-cap", "internal", 500))

Sends(who, era, rows, didRun) ==
  Result(who, era, rows, didRun) \/ Refused(who, era, OverCap(era), rows, didRun)

(* Every method but tools/call. *)
Answered(r) ==
  /\ WellFormed(r) /\ r.method # "tools/call"
  /\ Sends(r.who, Era(r), <<>>, FALSE)
  /\ UNCHANGED State

-----------------------------------------------------------------------------
(* gateApproval *)

ElevatedCall(r) == WellFormed(r) /\ r.method = "tools/call" /\ r.tool \in Elevated

Redeems(r) ==
  /\ ElevatedCall(r)
  /\ r.grant \in Id /\ asks[r.grant] = [state |-> "approved", call |-> ExactCall(Inputs(r))]

(* No grant: the call's request is opened, or the one it has is found again. *)
Asks(r, id) ==
  LET pending == [state |-> "pending", call |-> ExactCall(Inputs(r))] IN
  /\ ElevatedCall(r) /\ r.grant = None /\ ~r.large
  /\ \/ asks[id] = pending /\ UNCHANGED asks
     \/ /\ asks[id].state = "free" /\ \A other \in Id : asks[other] # pending
        /\ asks' = [asks EXCEPT ![id] = pending]

(* Answered at once: pending, or refused.  A call too large to be shown whole,
   one that carries an id that is not its grant, and one over the book's caps
   ask for nothing. *)
Gated(r) ==
  /\ ElevatedCall(r) /\ ~Redeems(r)
  /\ Sends(r.who, Era(r), IF r.large THEN <<"approval-refused">> ELSE <<>>, FALSE)
  /\ UNCHANGED asks \/ \E id \in Id : Asks(r, id)
  /\ UNCHANGED <<now, keyed, sealed, calls, waits, ran>>

(* An approver approves what it is shown, or declines it; or it expires. *)
ApprovalSide ==
  /\ \E id \in Id : \E next \in {"approved", "gone"} :
       /\ asks[id].state \in {"pending", "approved"} /\ next # asks[id].state
       /\ asks' = [asks EXCEPT ![id].state = next]
  /\ UNCHANGED <<now, keyed, sealed, calls, waits, answer, ran>>

-----------------------------------------------------------------------------
(* Every header sent is sent once and says what the body says; a modern client
   sends them all. *)
Routed(r) ==
  /\ r.mcpMethod \in {"agrees"} \cup IF Era(r) = Modern THEN {} ELSE {"absent"}
  /\ r.mcpName \in {"agrees", "encoded"} \cup IF Era(r) = Modern THEN {} ELSE {"absent"}
  /\ \A p \in Param :
       IF p \in r.valued THEN r.params[p] \in {"agrees", "encoded"} \cup IF Era(r) = Modern THEN {} ELSE {"absent"}
                         ELSE r.params[p] = "absent"

(* A call past every check of its form, and the clock its state was opened by. *)
TheCall(r) ==
  [inputs |-> Inputs(r), era |-> Era(r), caps |-> IF Era(r) = Modern THEN r.caps ELSE {},
   openedAt |-> now, routed |-> Routed(r)]

Redeem(id, inputs) ==
  /\ asks[id] = [state |-> "approved", call |-> ExactCall(inputs)] /\ Len(ran) < MaxRuns
  /\ asks' = [asks EXCEPT ![id].state = "redeemed"]
  /\ ran' = Append(ran, [inputs |-> inputs, grant |-> id])

(* The handler starts, an elevated tool's on the grant its call names. *)
Begin(s, r) ==
  /\ calls[s] = None /\ WellFormed(r) /\ r.method = "tools/call"
  /\ calls' = [calls EXCEPT ![s] = TheCall(r)]
  /\ \/ r.tool \notin Elevated /\ UNCHANGED <<asks, ran>>
     \/ Redeems(r) /\ Redeem(r.grant, Inputs(r))
  /\ UNCHANGED <<now, keyed, sealed, waits, answer>>

(* Or the call waits for its request to be decided. *)
GateWaits(s, r) ==
  /\ calls[s] = None
  /\ calls' = [calls EXCEPT ![s] = TheCall(r)]
  /\ \E id \in Id : Asks(r, id) /\ waits' = [waits EXCEPT ![s] = id]
  /\ UNCHANGED <<now, keyed, sealed, answer, ran>>

(* Approved during the wait: the same call redeems the grant and its handler
   starts, on the state it opened before the wait. *)
GateGrants(s) ==
  /\ waits[s] # None /\ Redeem(waits[s], calls[s].inputs)
  /\ waits' = [waits EXCEPT ![s] = None]
  /\ UNCHANGED <<now, keyed, sealed, calls, answer>>

(* Declined, expired, redeemed by another, not decided in time, or the client
   has gone. *)
GateEnds(s) ==
  /\ waits[s] # None
  /\ Sends(calls[s].inputs.who, calls[s].era, <<>>, FALSE)
  /\ calls' = [calls EXCEPT ![s] = None] /\ waits' = [waits EXCEPT ![s] = None]
  /\ UNCHANGED <<now, keyed, sealed, asks, ran>>

-----------------------------------------------------------------------------
(* The handler's end: its rows, and the answer shaped from what it returned. *)
Internal == Refusal("internal", 500)

(* What runHandlerOnce throws when the handler reached nothing it may not, and
   its own row; each is audited. *)
Thrown == {"handler-error", "handler-timeout", "client-disconnect"}

(* The refusals of shapeResult for a question: asked is the capabilities its
   input requests need, None when there are none. *)
QuestionChecks(c, asked, withState) ==
  <<Check(c.era # Modern, Audited("legacy-input-required", "method-not-found", 400)),
    Check(asked # None /\ ~(asked \subseteq Capability), Internal),
    Check(asked # None /\ ~(asked \subseteq c.caps), Refusal("missing-capability", 400)),
    Check(withState /\ ~keyed, Audited("request-state-unsealable", "internal", 500)),
    Check(asked = None /\ ~withState, Internal)>>

Ends(s) ==
  /\ calls[s] # None /\ waits[s] = None
  /\ calls' = [calls EXCEPT ![s] = None]
  /\ UNCHANGED <<now, keyed, asks, waits, ran>>

FailedRun(s, refusal, rows) ==
  LET c == calls[s] IN Refused(c.inputs.who, c.era, StatusForEra(c.era, refusal), rows, TRUE)

RefusedRun(s, refusal) == FailedRun(s, refusal, <<"tool-call">>)

(* The cage's rows of the refused reaches after the first: a handler may catch
   a refusal and reach again.  A reach after the answer writes its row then, and
   is no row of the answer's. *)
FurtherReaches(n) == [i \in 1 .. n |-> "containment-refused"]

HandlerFails(s) ==
  /\ Ends(s)
  /\ \/ \E row \in Thrown : RefusedRun(s, Audited(row, "internal", 500))
     \/ \E n \in 0 .. MaxReaches - 1 :
          FailedRun(s, Audited("containment-refused", "internal", 500), FurtherReaches(n) \o <<"tool-call">>)
  /\ UNCHANGED sealed

(* Content, or a result that is not one. *)
Completes(s) ==
  /\ Ends(s)
  /\ \/ Sends(calls[s].inputs.who, calls[s].era, <<"tool-call">>, TRUE)
     \/ RefusedRun(s, Internal)
  /\ UNCHANGED sealed

(* A question, with a state or without. *)
Questions(s) ==
  /\ Ends(s)
  /\ \E asked \in {None} \cup SUBSET (Capability \cup {"unknown"}), withState \in BOOLEAN :
       LET c == calls[s]  checks == QuestionChecks(c, asked, withState) IN
       IF ~Passed(checks) THEN RefusedRun(s, FirstOf(checks).refusal) /\ UNCHANGED sealed
       ELSE /\ withState => Cardinality(sealed) < MaxSealed
            /\ sealed' = IF withState THEN sealed \cup {Seal(c.inputs)} ELSE sealed
            /\ Sends(c.inputs.who, c.era, <<"tool-call">>, TRUE)

Tick == now < MaxTime /\ now' = now + 1 /\ UNCHANGED <<keyed, sealed, asks, calls, waits, answer, ran>>

-----------------------------------------------------------------------------
(* Any state sealed to anybody, or a string that is none; any approval id. *)
Sent ==
  Request \cup {[r EXCEPT !.token = t, !.grant = g] :
                 r \in Carrying, t \in sealed \cup {None, Forged}, g \in Id \cup {None}}

Handle(r) ==
  HttpRefused(r) \/ Public(r) \/ Notification(r) \/ FormRefused(r) \/ Answered(r) \/ Gated(r)
    \/ \E s \in Slot : Begin(s, r) \/ GateWaits(s, r)

Deliver == answer # NoAnswer /\ answer' = NoAnswer /\ UNCHANGED State

DispatchNext ==
  \/ Deliver
  \/ /\ answer = NoAnswer
     /\ \/ \E r \in Sent : Handle(r)
        \/ \E s \in Slot :
             GateGrants(s) \/ GateEnds(s) \/ HandlerFails(s) \/ Completes(s) \/ Questions(s)
        \/ ApprovalSide
        \/ Tick

DispatchSpec == DispatchInit /\ [][DispatchNext]_dispatchVars

-----------------------------------------------------------------------------
(* Properties *)

(* A handler, or a call that waits for the approval to run it, has a request
   state only of the call it was sealed for: by the principal, the tool and the
   arguments, on a node with the key, never on the legacy era, and not lapsed
   when the call opened it, whoever sends it (request-state.ts MR-4, MR-5).  The
   wait comes after the opening, and the state may lapse in it (dispatch.ts:304,
   313). *)
StateOpensForItsCall ==
  \A s \in Slot : calls[s] # None /\ calls[s].inputs.token # None =>
    LET c == calls[s].inputs IN
    /\ keyed /\ calls[s].era = Modern /\ c.token \in sealed
    /\ <<c.token.who, c.token.tool, c.token.args>> = <<c.who, c.tool, c.args>>
    /\ calls[s].openedAt < c.token.exp

(* Every run of an elevated tool has a grant of its own, for all the handler is
   given, whether its call named the grant or waited for it; and every grant
   redeemed bought a run: no refusal of a call's form spends one (dispatch.ts:308-318, 412-419; approval/RULES.md APR-1 to APR-3). *)
GrantsBuyRuns ==
  /\ \A i, k \in DOMAIN ran : i # k => ran[i].grant # ran[k].grant
  /\ \A i \in DOMAIN ran : asks[ran[i].grant] = [state |-> "redeemed", call |-> ran[i].inputs]
  /\ \A id \in Id : asks[id].state = "redeemed" => \E i \in DOMAIN ran : ran[i].grant = id

(* An answer that refuses leaves one row, or one for each reach outside the
   tool's domain and no other; one that does not leaves none; and there is a
   tool-call row when and only when a handler ran, which a question of the tool
   or the era's mapping of statuses does not double.  A legacy client gets every
   error of a request at 200 but a header mismatch, and no modern one does
   (server.ts:119-123, dispatch.ts:116-134, 291-294). *)
AnsweredOnce ==
  LET RowsOf(names) == {i \in DOMAIN answer.rows : answer.rows[i] \in names}
      refusals == DOMAIN answer.rows \ RowsOf({"tool-call", "approval-refused"})
      reaches == RowsOf({"containment-refused"}) IN
  /\ IF answer.code = None THEN refusals = {}
     ELSE IF reaches = {} THEN Cardinality(refusals) = 1 ELSE refusals = reaches
  /\ Cardinality(RowsOf({"tool-call"})) = IF answer.ran THEN 1 ELSE 0
  /\ answer.code # None => (answer.status = 200 <=> answer.era = Legacy /\ answer.code # "header-mismatch")

(* What runs is what every intermediary routed on: no header of a call that
   reached its handler, or waits at the gate, is doubled or says another thing
   than its body, in either era, and a modern call lacks none (headers.ts, SH-24 to SH-38; dispatch.ts:266-272). *)
RunsAsRouted == \A s \in Slot : calls[s] # None => calls[s].routed

=============================================================================
