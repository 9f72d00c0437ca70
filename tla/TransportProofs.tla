----------------------------- MODULE TransportProofs -----------------------------
(***************************************************************************)
(* The in-flight count of the transport, for any number of requests and    *)
(* any cap, and what a refused reach does to a call; and the validation    *)
(* pool, for any number of jobs, schemas and workers: it does what         *)
(* IdealPool promises.                                                     *)
(*                                                                         *)
(* SlotsExact is not inductive: nothing in it says that a request which    *)
(* takes a slot holds none, nor that one whose handler starts does.        *)
(* TransportInv adds both, and that finitely many slots are held.          *)
(*                                                                         *)
(* The pool's refinement needs PoolInv: a worker is told of a job's schema *)
(* before the job, so that it never answers with "unknown schema key"; in  *)
(* an open pool each job asked for is queued or in one slot in place, so   *)
(* that a close finds them all; and slots are spent one for a timeout or a *)
(* failed worker, so that MaxSlots of them are always enough.              *)
(***************************************************************************)
EXTENDS Transport, ValidationPool, FiniteSetTheorems, SequenceTheorems, TLAPS

Held == {r \in Request : slotHeld[r]}

(* The slots counted are the slots held, each for something left to do. *)
CountInv ==
  /\ IsFiniteSet(Held)
  /\ inFlight = Cardinality(Held)
  /\ inFlight <= MaxInFlight
  /\ \A r \in Request : slotHeld[r] => ~responseClosed[r] \/ handler[r] = "running"

(* A slot is taken once, and held from there to the start of the handler by
   every request whose client is there. *)
StageInv ==
  \A r \in Request :
    /\ pc[r] \in {"new", "auth"} => ~slotHeld[r]
    /\ pc[r] \in {"body", "validate", "gate"} /\ ~responseClosed[r] => slotHeld[r]

TransportInv == TransportTypeOK /\ CountInv /\ StageInv

-----------------------------------------------------------------------------
LEMMA InitInv == TransportInit => TransportInv
<1> SUFFICES ASSUME TransportInit PROVE TransportInv
  OBVIOUS
<1>1. TransportTypeOK
  BY DEF TransportInit, TransportTypeOK, Stage
<1>2. Held = {}
  BY DEF TransportInit, Held
<1>3. CountInv
  BY <1>2, FS_EmptySet, SlotAssumption DEF TransportInit, CountInv
<1>4. StageInv
  BY DEF TransportInit, StageInv
<1> QED BY <1>1, <1>3, <1>4 DEF TransportInv

(* The slots held by nobody else change by one. *)
LEMMA OneMore ==
  ASSUME TransportInv, NEW r \in Request, ~slotHeld[r],
         slotHeld' = [slotHeld EXCEPT ![r] = TRUE]
  PROVE  IsFiniteSet(Held') /\ Cardinality(Held') = Cardinality(Held) + 1
<1>1. Held' = Held \cup {r}
  BY DEF TransportInv, TransportTypeOK, Held
<1>2. r \notin Held
  BY DEF Held
<1> QED BY <1>1, <1>2, FS_AddElement DEF TransportInv, CountInv

LEMMA OneLess ==
  ASSUME TransportInv, NEW r \in Request, slotHeld[r],
         slotHeld' = [slotHeld EXCEPT ![r] = FALSE]
  PROVE  /\ IsFiniteSet(Held') /\ Cardinality(Held') = Cardinality(Held) - 1
         /\ inFlight - 1 \in Nat
<1>1. Held' = Held \ {r}
  BY DEF TransportInv, TransportTypeOK, Held
<1>2. r \in Held
  BY DEF Held
<1>3. IsFiniteSet(Held')  /\ Cardinality(Held') = Cardinality(Held) - 1
  BY <1>1, <1>2, FS_RemoveElement DEF TransportInv, CountInv
<1>4. Cardinality(Held') \in Nat
  BY <1>3, FS_CardinalityType
<1> QED BY <1>3, <1>4 DEF TransportInv, CountInv

-----------------------------------------------------------------------------
(* What becomes of the slots in the steps that touch none: nothing closes and no
   handler settles but by a step that releases. *)
LEMMA SlotsStill ==
  ASSUME TransportInv, TransportTypeOK', UNCHANGED <<slotVars, responseClosed>>,
         NEW r \in Request,
         handler' = handler \/ handler' = [handler EXCEPT ![r] = "running"]
  PROVE  CountInv'
<1>1. Held' = Held
  BY DEF slotVars, Held
<1>2. \A q \in Request : handler[q] = "running" => handler'[q] = "running"
  BY DEF TransportInv, TransportTypeOK
<1> QED BY <1>1, <1>2 DEF TransportInv, CountInv, slotVars

(* release() gives back one slot and only for a request with nothing left to do. *)
LEMMA ReleaseCounts ==
  ASSUME TransportInv, NEW r \in Request, Release(r),
         responseClosed' \in [Request -> BOOLEAN],
         handler' \in [Request -> {"none", "running", "settled"}],
         \A q \in Request \ {r} : responseClosed'[q] = responseClosed[q] /\ handler'[q] = handler[q]
  PROVE  /\ CountInv'
         /\ inFlight' \in Nat /\ slotHeld' \in [Request -> BOOLEAN]
         /\ \A q \in Request : slotHeld'[q] => slotHeld[q]
         /\ \A q \in Request :
              slotHeld[q] /\ ~slotHeld'[q] => responseClosed'[q] /\ handler'[q] # "running"
<1>1. CASE slotHeld[r] /\ responseClosed'[r] /\ handler'[r] # "running"
  <2>1. slotHeld' = [slotHeld EXCEPT ![r] = FALSE] /\ inFlight' = inFlight - 1
    BY <1>1 DEF Release
  <2>2. /\ IsFiniteSet(Held') /\ Cardinality(Held') = Cardinality(Held) - 1
        /\ inFlight - 1 \in Nat
    BY <1>1, <2>1, OneLess
  <2>3. inFlight' = Cardinality(Held') /\ inFlight' <= MaxInFlight
    BY <2>1, <2>2, SlotAssumption DEF TransportInv, TransportTypeOK, CountInv
  <2>4. \A q \in Request : slotHeld'[q] = (slotHeld[q] /\ q # r)
    BY <2>1 DEF TransportInv, TransportTypeOK
  <2>5. \A q \in Request : slotHeld'[q] => ~responseClosed'[q] \/ handler'[q] = "running"
    BY <2>4 DEF TransportInv, CountInv
  <2> QED BY <1>1, <2>1, <2>2, <2>3, <2>4, <2>5 DEF TransportInv, TransportTypeOK, CountInv
<1>2. CASE ~(slotHeld[r] /\ responseClosed'[r] /\ handler'[r] # "running")
  <2>1. slotHeld' = slotHeld /\ inFlight' = inFlight
    BY <1>2 DEF Release, slotVars
  <2>2. Held' = Held
    BY <2>1 DEF Held
  <2>3. \A q \in Request : slotHeld'[q] => ~responseClosed'[q] \/ handler'[q] = "running"
    BY <1>2, <2>1 DEF TransportInv, CountInv
  <2> QED BY <2>1, <2>2, <2>3 DEF TransportInv, TransportTypeOK, CountInv
<1> QED BY <1>1, <1>2

-----------------------------------------------------------------------------
(* The steps that leave slots, connections and handlers alone. *)
Quiescent(r) ==
  \/ Arrive(r) \/ AuthRefused(r) \/ AtCapacity(r) \/ BodyRead(r) \/ BodyLost(r)
  \/ ValidateRefused(r) \/ Gated(r) \/ GateAnswers(r) \/ HandlerTimeout(r) \/ Reach(r)

LEMMA QuiescentStep ==
  ASSUME TransportInv, NEW r \in Request, Quiescent(r)
  PROVE  TransportInv'
<1>1. TransportTypeOK /\ StageInv
  BY DEF TransportInv
<1>2. UNCHANGED <<slotVars, responseClosed, handler>>
  BY DEF Quiescent, Arrive, AuthRefused, AtCapacity, BodyRead, BodyLost, ValidateRefused, Gated,
         GateAnswers, HandlerTimeout, Reach
<1>3. \E s \in Stage, a \in Answer \cup {None} :
        /\ pc' = [pc EXCEPT ![r] = s] /\ answer' = [answer EXCEPT ![r] = a]
        /\ s \in {"body", "validate", "gate"} => pc[r] \in {"body", "validate", "gate"}
        /\ s \in {"new", "auth"} => pc[r] \in {"new", "auth"}
  <2>1. ASSUME NEW s \in Stage, Goto(r, s)
        PROVE  pc' = [pc EXCEPT ![r] = s] /\ answer' = [answer EXCEPT ![r] = answer[r]]
    BY <1>1, <2>1 DEF Goto, TransportTypeOK
  <2>2. answer[r] \in Answer \cup {None} /\ pc[r] \in Stage
    BY <1>1 DEF TransportTypeOK
  <2>3. CASE Arrive(r)
    BY <2>1, <2>2, <2>3 DEF Arrive, Send, Stage, Answer
  <2>4. CASE BodyRead(r)
    BY <2>1, <2>2, <2>4 DEF BodyRead, Send, Stage, Answer
  <2>5. CASE Gated(r)
    BY <2>1, <2>2, <2>5 DEF Gated, Send, Stage, Answer
  <2>6. CASE AuthRefused(r) \/ AtCapacity(r) \/ BodyLost(r) \/ ValidateRefused(r) \/ GateAnswers(r)
    BY <2>6 DEF AuthRefused, AtCapacity, BodyLost, ValidateRefused, GateAnswers, Send, Stage, Answer
  <2>7. CASE HandlerTimeout(r)
    BY <2>7 DEF HandlerTimeout, RaceAnswer, Send, Stage, Answer
  <2>8. CASE Reach(r)
    <3>1. pc' = [pc EXCEPT ![r] = pc[r]] /\ answer' = [answer EXCEPT ![r] = answer[r]]
      BY <1>1, <2>8 DEF Reach, reqVars, TransportTypeOK
    <3> QED BY <2>2, <3>1
  <2> QED BY <2>3, <2>4, <2>5, <2>6, <2>7, <2>8 DEF Quiescent
<1>4. aborted' = aborted /\ breached' \in [Request -> BOOLEAN]
  BY <1>1 DEF Quiescent, Arrive, AuthRefused, AtCapacity, BodyRead, BodyLost, ValidateRefused, Gated,
         GateAnswers, HandlerTimeout, Reach, TransportTypeOK
<1>5. TransportTypeOK'
  BY <1>1, <1>2, <1>3, <1>4 DEF TransportTypeOK, slotVars
<1>6. CountInv'
  BY <1>2, <1>5, SlotsStill
<1>7. StageInv'
  BY <1>1, <1>2, <1>3 DEF StageInv, TransportTypeOK, slotVars
<1> QED BY <1>5, <1>6, <1>7 DEF TransportInv

LEMMA StartStep ==
  ASSUME TransportInv, NEW r \in Request, Validated(r) \/ GateGrants(r)
  PROVE  TransportInv'
<1>1. /\ handler' = [handler EXCEPT ![r] = "running"] /\ pc' = [pc EXCEPT ![r] = "running"]
      /\ UNCHANGED <<answer, responseClosed, aborted, slotVars, breached>>
  BY DEF Validated, GateGrants, StartHandler, Goto
<1>2. TransportTypeOK'
  BY <1>1 DEF TransportInv, TransportTypeOK, Stage, slotVars
<1>3. CountInv'
  BY <1>1, <1>2, SlotsStill
<1>4. StageInv'
  BY <1>1 DEF TransportInv, TransportTypeOK, StageInv, slotVars
<1> QED BY <1>2, <1>3, <1>4 DEF TransportInv

LEMMA TakeStep ==
  ASSUME TransportInv, NEW r \in Request, TakeSlot(r)
  PROVE  TransportInv'
<1>1. PICK s \in {"body", "sent"} : pc' = [pc EXCEPT ![r] = s]
  BY DEF TakeSlot, Goto, Send
<1>2. /\ answer' \in [Request -> Answer \cup {None}]
      /\ UNCHANGED <<responseClosed, aborted, handler, breached>>
  BY DEF TakeSlot, Goto, Send, TransportInv, TransportTypeOK, Answer
<1>3. ~slotHeld[r]
  BY DEF TakeSlot, TransportInv, StageInv
<1>4. CASE responseClosed[r]
  <2>1. UNCHANGED slotVars
    BY <1>4 DEF TakeSlot
  <2>2. TransportTypeOK'
    BY <1>1, <1>2, <2>1 DEF TransportInv, TransportTypeOK, Stage, slotVars
  <2>3. CountInv'
    BY <1>2, <2>1, <2>2, SlotsStill
  <2>4. StageInv'
    BY <1>1, <1>2, <1>4, <2>1 DEF TransportInv, TransportTypeOK, StageInv, slotVars
  <2> QED BY <2>2, <2>3, <2>4 DEF TransportInv
<1>5. CASE ~responseClosed[r]
  <2>1. inFlight' = inFlight + 1 /\ slotHeld' = [slotHeld EXCEPT ![r] = TRUE] /\ inFlight < MaxInFlight
    BY <1>5 DEF TakeSlot
  <2>2. TransportTypeOK'
    BY <1>1, <1>2, <2>1 DEF TransportInv, TransportTypeOK, Stage
  <2>3. IsFiniteSet(Held') /\ Cardinality(Held') = Cardinality(Held) + 1
    BY <1>3, <2>1, OneMore
  <2>4. inFlight' = Cardinality(Held') /\ inFlight' <= MaxInFlight
    BY <2>1, <2>3, SlotAssumption DEF TransportInv, TransportTypeOK, CountInv
  <2>5. \A q \in Request : slotHeld'[q] => ~responseClosed'[q] \/ handler'[q] = "running"
    BY <1>2, <1>5, <2>1 DEF TransportInv, TransportTypeOK, CountInv
  <2>6. CountInv'
    BY <2>3, <2>4, <2>5 DEF CountInv
  <2>7. StageInv'
    BY <1>1, <1>2, <2>1 DEF TransportInv, TransportTypeOK, StageInv
  <2> QED BY <2>2, <2>6, <2>7 DEF TransportInv
<1> QED BY <1>4, <1>5

(* A handler settles, a response closes, a client leaves. *)
Releasing(r) == HandlerSettles(r) \/ ResponseCloses(r) \/ Disconnect(r)

LEMMA ReleasingShape ==
  ASSUME TransportInv, NEW r \in Request, Releasing(r)
  PROVE  /\ Release(r)
         /\ responseClosed' \in [Request -> BOOLEAN] /\ aborted' \in [Request -> BOOLEAN]
         /\ handler' \in [Request -> {"none", "running", "settled"}]
         /\ breached' = breached
         /\ \A q \in Request \ {r} : responseClosed'[q] = responseClosed[q] /\ handler'[q] = handler[q]
         /\ \A q \in Request : responseClosed[q] => responseClosed'[q]
         /\ \A q \in Request : handler'[q] = "running" => handler[q] = "running"
         /\ \A q \in Request : pc'[q] = pc[q] \/ pc'[q] = "sent"
         /\ pc' \in [Request -> Stage] /\ answer' \in [Request -> Answer \cup {None}]
<1>1. TransportTypeOK
  BY DEF TransportInv
<1>2. CASE HandlerSettles(r)
  BY <1>1, <1>2 DEF HandlerSettles, RaceAnswer, Send, reqVars, TransportTypeOK, Stage, Answer
<1>3. CASE ResponseCloses(r)
  BY <1>1, <1>3 DEF ResponseCloses, reqVars, TransportTypeOK
<1>4. CASE Disconnect(r)
  BY <1>1, <1>4 DEF Disconnect, RaceAnswer, Send, reqVars, TransportTypeOK, Stage, Answer
<1> QED BY <1>2, <1>3, <1>4 DEF Releasing

LEMMA ReleasingStep ==
  ASSUME TransportInv, NEW r \in Request, Releasing(r)
  PROVE  TransportInv'
<1>1. /\ CountInv'
      /\ inFlight' \in Nat /\ slotHeld' \in [Request -> BOOLEAN]
      /\ \A q \in Request : slotHeld'[q] => slotHeld[q]
      /\ \A q \in Request : slotHeld[q] /\ ~slotHeld'[q] => responseClosed'[q]
  BY ReleasingShape, ReleaseCounts
<1>2. TransportTypeOK'
  BY <1>1, ReleasingShape DEF TransportInv, TransportTypeOK
<1>3. StageInv'
  BY <1>1, ReleasingShape DEF TransportInv, StageInv
<1> QED BY <1>1, <1>2, <1>3 DEF TransportInv

-----------------------------------------------------------------------------
LEMMA NextCases ==
  ASSUME NEW r \in Request,
         \/ Arrive(r) \/ AuthEnds(r) \/ BodyEnds(r) \/ ValidationEnds(r) \/ GateEnds(r)
         \/ HandlerSettles(r) \/ Reach(r) \/ HandlerTimeout(r)
         \/ ResponseCloses(r) \/ Disconnect(r)
  PROVE  Quiescent(r) \/ Validated(r) \/ GateGrants(r) \/ TakeSlot(r) \/ Releasing(r)
BY DEF AuthEnds, BodyEnds, ValidationEnds, GateEnds, Quiescent, Releasing

LEMMA StepInv == TransportInv /\ [TransportNext]_transportVars => TransportInv'
<1> SUFFICES ASSUME TransportInv, [TransportNext]_transportVars PROVE TransportInv'
  OBVIOUS
<1>1. CASE TransportNext
  BY <1>1, NextCases, QuiescentStep, StartStep, TakeStep, ReleasingStep DEF TransportNext
<1>2. CASE UNCHANGED transportVars
  BY <1>2 DEF transportVars, TransportInv, TransportTypeOK, CountInv, StageInv, Held, slotVars
<1> QED BY <1>1, <1>2

LEMMA InvAlways == TransportSafety => []TransportInv
BY InitInv, StepInv, PTL DEF TransportSafety

(* However requests end, the count is exact and capped, and a slot is held only
   for an open response or a running handler: for any number of requests. *)
THEOREM SlotsAlwaysExact == TransportSpec => []SlotsExact
<1>1. TransportInv => SlotsExact
  BY DEF TransportInv, CountInv, SlotsExact, Held
<1> QED BY <1>1, InvAlways, PTL DEF TransportSpec

(* A slot goes back only once its response has closed and its handler settled,
   and whoever's client is there when its handler starts holds one (F3). *)
THEOREM SlotsOutliveAnswers == TransportSpec => SlotOutlivesAnswer
<1> DEFINE Outlives ==
      \A r \in Request :
        /\ slotHeld[r] /\ ~slotHeld'[r] => responseClosed'[r] /\ handler'[r] # "running"
        /\ handler[r] = "none" /\ handler'[r] = "running" /\ ~responseClosed[r] => slotHeld'[r]
<1>1. ASSUME TransportInv, TransportNext PROVE Outlives
  <2>1. PICK r \in Request :
          Quiescent(r) \/ Validated(r) \/ GateGrants(r) \/ TakeSlot(r) \/ Releasing(r)
    BY <1>1, NextCases DEF TransportNext
  <2>2. CASE Quiescent(r)
    BY <2>2 DEF Quiescent, Arrive, AuthRefused, AtCapacity, BodyRead, BodyLost, ValidateRefused,
                Gated, GateAnswers, HandlerTimeout, Reach, slotVars
  <2>3. CASE Validated(r) \/ GateGrants(r)
    <3>1. /\ handler' = [handler EXCEPT ![r] = "running"] /\ slotHeld' = slotHeld
          /\ pc[r] \in {"validate", "gate"}
      BY <2>3 DEF Validated, GateGrants, StartHandler, slotVars
    <3> QED BY <1>1, <3>1 DEF TransportInv, TransportTypeOK, StageInv
  <2>4. CASE TakeSlot(r)
    BY <1>1, <2>4 DEF TakeSlot, TransportInv, TransportTypeOK, slotVars
  <2>5. CASE Releasing(r)
    <3>1. \A q \in Request : slotHeld[q] /\ ~slotHeld'[q] => responseClosed'[q] /\ handler'[q] # "running"
      BY <1>1, <2>5, ReleasingShape, ReleaseCounts
    <3>2. \A q \in Request : handler'[q] = "running" => handler[q] = "running"
      BY <1>1, <2>5, ReleasingShape
    <3> QED BY <3>1, <3>2
  <2> QED BY <2>1, <2>2, <2>3, <2>4, <2>5
<1>2. TransportInv /\ [TransportNext]_transportVars => [Outlives]_transportVars
  BY <1>1
<1> QED BY <1>2, InvAlways, PTL DEF TransportSpec, TransportSafety, SlotOutlivesAnswer

(* A refused reach is what its call answers, whichever way the race ends. *)
THEOREM ReachesFailCalls == TransportSpec => ReachFailsCall
<1> DEFINE Fails ==
      \A r \in Request :
        pc[r] = "running" /\ pc'[r] = "sent" /\ breached[r] => answer'[r] = "contained"
<1>1. ASSUME TransportInv, TransportNext PROVE Fails
  <2>1. PICK r \in Request :
          Quiescent(r) \/ Validated(r) \/ GateGrants(r) \/ TakeSlot(r) \/ Releasing(r)
    BY <1>1, NextCases DEF TransportNext
  <2>2. TransportTypeOK
    BY <1>1 DEF TransportInv
  <2>3. CASE HandlerTimeout(r)
    BY <2>2, <2>3 DEF HandlerTimeout, RaceAnswer, Send, TransportTypeOK
  <2>4. CASE HandlerSettles(r)
    BY <2>2, <2>4 DEF HandlerSettles, RaceAnswer, Send, reqVars, TransportTypeOK
  <2>5. CASE Disconnect(r)
    BY <2>2, <2>5 DEF Disconnect, RaceAnswer, Send, reqVars, TransportTypeOK
  <2>6. CASE Reach(r) \/ ResponseCloses(r)
    BY <2>6 DEF Reach, ResponseCloses, reqVars
  <2>7. CASE ~(HandlerTimeout(r) \/ Reach(r) \/ Releasing(r))
    <3>1. pc[r] # "running" /\ \A q \in Request \ {r} : pc'[q] = pc[q]
      BY <2>1, <2>2, <2>7
         DEF Quiescent, Arrive, AuthRefused, AtCapacity, BodyRead, BodyLost, ValidateRefused, Gated,
             GateAnswers, Validated, GateGrants, StartHandler, TakeSlot, Goto, Send, TransportTypeOK
    <3> QED BY <3>1
  <2> QED BY <2>3, <2>4, <2>5, <2>6, <2>7 DEF Releasing
<1>2. TransportInv /\ [TransportNext]_transportVars => [Fails]_transportVars
  BY <1>1
<1> QED BY <1>2, InvAlways, PTL DEF TransportSpec, TransportSafety, ReachFailsCall

-----------------------------------------------------------------------------
(* The validation pool *)

Message == {Compile(k) : k \in Key} \cup {Validate(j) : j \in Job}
Reported == [of : Job \cup {NoJob}, answer : {"valid", "invalid"}]
Outcome == {"new", "asked", "valid", "invalid", "timeout", "failed", "closed"}

PoolTypeOK ==
  /\ outcome \in [Job -> Outcome]
  /\ queue \in Seq(Job)
  /\ spawned \in Nat /\ spawned <= MaxSlots
  /\ slots \in [1 .. Workers -> 1 .. spawned]
  /\ job \in [Slot -> Job \cup {NoJob}]
  /\ timers \subseteq Slot \X Job
  /\ schemas \in Seq(Key)
  /\ closed \in BOOLEAN
  /\ worker \in [Slot -> {"unborn", "up", "terminated", "gone", "failed"}]
  /\ inbox \in [Slot -> Seq(Message)]
  /\ known \in [Slot -> SUBSET Key]
  /\ replies \in [Slot -> Seq(Reported)]
  /\ deaths \in 0 .. MaxFailures

(* No slot is in two places. *)
OnePlace(inPlace) == \A i, h \in 1 .. Workers : inPlace[i] = inPlace[h] => i = h

Live(s) == worker[s] \in {"up", "terminated"}
Registered(k) == \E i \in DOMAIN schemas : schemas[i] = k

(* A worker that knows these schemas has this one, or is told of it among the
   next n messages of its box. *)
Told(box, knows, k, n) == k \in knows \/ \E h \in 1 .. n : box[h] = Compile(k)

(* It is told of every schema there is; and of a job's before the job. *)
Primed(box, knows) == \A k \in Key : Registered(k) => Told(box, knows, k, Len(box))
InOrder(box, knows) ==
  \A m \in DOMAIN box : box[m].op = "validate" => Told(box, knows, KeyOf[box[m].of], m - 1)

WorkerInv ==
  /\ \A i \in DOMAIN queue : Registered(KeyOf[queue[i]])
  /\ \A i \in 1 .. Workers : Live(slots[i]) => Primed(inbox[slots[i]], known[slots[i]])
  /\ \A s \in Slot : Live(s) => InOrder(inbox[s], known[s])
  /\ \A s \in Slot : \A m \in DOMAIN replies[s] :
       replies[s][m].of # NoJob => replies[s][m].answer = Verdict[replies[s][m].of]

(* The jobs of an open pool: each one asked for is queued or in one slot in
   place, and nothing else is, or has a timer. *)
JobsKept(q, holds, inPlace, armed, said) ==
  /\ \A i \in DOMAIN q : said[q[i]] = "asked"
  /\ \A i, h \in DOMAIN q : q[i] = q[h] => i = h
  /\ \A s \in Slot : holds[s] # NoJob => said[holds[s]] = "asked"
  /\ \A s, t \in Slot : holds[s] # NoJob /\ holds[s] = holds[t] => s = t
  /\ \A s \in Slot, i \in DOMAIN q : holds[s] # q[i]
  /\ \A j \in Job : said[j] = "asked" =>
       (\E i \in DOMAIN q : q[i] = j) \/ \E i \in 1 .. Workers : holds[inPlace[i]] = j
  /\ \A s \in Slot, j \in Job : <<s, j>> \in armed => holds[s] = j

TimedOut == {j \in Job : outcome[j] = "timeout"}
Failed == {s \in Slot : worker[s] = "failed"}

(* A slot is spent on a timeout or on a worker that failed, and on nothing else. *)
OpenInv ==
  ~closed => /\ JobsKept(queue, job, slots, timers, outcome)
             /\ spawned <= Workers + Cardinality(TimedOut) + deaths - Cardinality(Failed)

PoolInv == PoolTypeOK /\ OnePlace(slots) /\ WorkerInv /\ OpenInv

-----------------------------------------------------------------------------
LEMMA SlotFacts == MaxSlots \in Nat /\ Workers <= MaxSlots
BY PoolAssumption DEF MaxSlots

LEMMA PlacesAreSlots ==
  ASSUME PoolTypeOK
  PROVE  slots \in [1 .. Workers -> Slot] /\ \A s \in 1 .. spawned : s \in Slot
BY SlotFacts DEF PoolTypeOK, Slot

(* What #pump does: the first n jobs go to slots in place that had none. *)
Gives(n, at, q, inPlace, holds, boxes, armed) ==
  /\ \A a \in 1 .. n : holds[inPlace[at[a]]] = NoJob
  /\ \A a, b \in 1 .. n : at[a] = at[b] => a = b
  /\ queue' = SubSeq(q, n + 1, Len(q))
  /\ \A a \in 1 .. n : /\ job'[inPlace[at[a]]] = q[a]
                       /\ inbox'[inPlace[at[a]]] = Append(boxes[inPlace[at[a]]], Validate(q[a]))
  /\ \A s \in Slot : (\A a \in 1 .. n : inPlace[at[a]] # s) => job'[s] = holds[s] /\ inbox'[s] = boxes[s]
  /\ \A t \in timers' : t \in armed \/ \E a \in 1 .. n : t = <<inPlace[at[a]], q[a]>>
  /\ DOMAIN job' = Slot /\ DOMAIN inbox' = Slot
  /\ job' = [s \in Slot |-> job'[s]] /\ inbox' = [s \in Slot |-> inbox'[s]]

LEMMA PumpGives ==
  ASSUME NEW q \in Seq(Job), NEW inPlace \in [1 .. Workers -> Slot], OnePlace(inPlace),
         NEW holds, NEW boxes, NEW armed, Pump(q, inPlace, holds, boxes, armed)
  PROVE  \E n \in 0 .. Len(q) : \E at \in [1 .. n -> 1 .. Workers] :
           Gives(n, at, q, inPlace, holds, boxes, armed)
<1> DEFINE idle == {i \in DOMAIN inPlace : holds[inPlace[i]] = NoJob}
           taken(n, at) == {inPlace[at[a]] : a \in 1 .. n}
           given(n, at, s) == q[CHOOSE a \in 1 .. n : inPlace[at[a]] = s]
<1> DEFINE Turn(n, at) ==
             /\ InTurn(at, n, idle)
             /\ queue' = SubSeq(q, n + 1, Len(q))
             /\ job' = [s \in Slot |-> IF s \in taken(n, at) THEN given(n, at, s) ELSE holds[s]]
             /\ inbox' = [s \in Slot |-> IF s \in taken(n, at) THEN Append(boxes[s], Validate(given(n, at, s)))
                                         ELSE boxes[s]]
             /\ timers' = armed \cup {<<s, given(n, at, s)>> : s \in taken(n, at)}
<1>0. PICK n \in 0 .. Len(q) : \E at \in [1 .. n -> idle] : Turn(n, at)
  BY DEF Pump
<1>1. PICK at \in [1 .. n -> idle] : Turn(n, at)
  BY <1>0
<1>2. at \in [1 .. n -> 1 .. Workers] /\ \A a \in 1 .. n : holds[inPlace[at[a]]] = NoJob
  BY <1>1
<1>3. \A a, b \in 1 .. n : a < b => at[a] < at[b]
  <2> TAKE a, b \in 1 .. n
  <2> HAVE a < b
  <2>1. at[a] \in idle /\ a \in 1 .. b - 1
    OBVIOUS
  <2> QED BY <1>1, <2>1 DEF InTurn
<1>4. \A a, b \in 1 .. n : at[a] = at[b] => a = b
  BY <1>2, <1>3
<1>5. \A a, b \in 1 .. n : inPlace[at[a]] = inPlace[at[b]] => a = b
  BY <1>2, <1>4 DEF OnePlace
<1>6. \A a \in 1 .. n : inPlace[at[a]] \in taken(n, at) /\ given(n, at, inPlace[at[a]]) = q[a]
  <2> TAKE a \in 1 .. n
  <2>1. (CHOOSE b \in 1 .. n : inPlace[at[b]] = inPlace[at[a]]) = a
    BY <1>5
  <2> QED BY <2>1
<1>7. \A s \in taken(n, at) : \E a \in 1 .. n : s = inPlace[at[a]]
  OBVIOUS
<1>8. \A a \in 1 .. n : inPlace[at[a]] \in Slot
  BY <1>2
<1> HIDE DEF taken, given, idle
<1>9. \A a \in 1 .. n : /\ job'[inPlace[at[a]]] = q[a]
                        /\ inbox'[inPlace[at[a]]] = Append(boxes[inPlace[at[a]]], Validate(q[a]))
  BY <1>1, <1>6, <1>8
<1>10. \A s \in Slot : (\A a \in 1 .. n : inPlace[at[a]] # s) => job'[s] = holds[s] /\ inbox'[s] = boxes[s]
  BY <1>1, <1>7
<1>11. \A t \in timers' : t \in armed \/ \E a \in 1 .. n : t = <<inPlace[at[a]], q[a]>>
  <2> TAKE t \in timers'
  <2>1. ASSUME t \notin armed PROVE \E a \in 1 .. n : t = <<inPlace[at[a]], q[a]>>
    <3>1. PICK s \in taken(n, at) : t = <<s, given(n, at, s)>>
      BY <1>1, <2>1
    <3>2. PICK a \in 1 .. n : s = inPlace[at[a]]
      BY <1>7
    <3> QED BY <1>6, <3>1, <3>2
  <2> QED BY <2>1
<1>12. /\ DOMAIN job' = Slot /\ DOMAIN inbox' = Slot
       /\ job' = [s \in Slot |-> job'[s]] /\ inbox' = [s \in Slot |-> inbox'[s]]
  BY <1>1
<1>13. Gives(n, at, q, inPlace, holds, boxes, armed)
  BY <1>1, <1>2, <1>4, <1>9, <1>10, <1>11, <1>12 DEF Gives
<1> QED BY <1>2, <1>13

LEMMA Shift ==
  ASSUME NEW l \in Nat, NEW m \in Nat, NEW n \in Nat, m = l - n
  PROVE  /\ \A i \in 1 .. m : n + i \in 1 .. l /\ n + i > n
         /\ \A h \in 1 .. l : h > n => h - n \in 1 .. m /\ n + (h - n) = h
OBVIOUS

(* Lengths and entries of what is left of a queue. *)
LEMMA QueueLeft ==
  ASSUME NEW q \in Seq(Job), NEW n \in 0 .. Len(q), NEW rest, rest = SubSeq(q, n + 1, Len(q))
  PROVE  /\ rest \in Seq(Job) /\ Len(rest) = Len(q) - n
         /\ \A i \in DOMAIN rest : n + i \in DOMAIN q /\ n + i > n /\ rest[i] = q[n + i]
         /\ \A h \in DOMAIN q : h > n => h - n \in DOMAIN rest /\ rest[h - n] = q[h]
<1>1. Len(rest) = Len(q) - n /\ rest \in Seq(Job)
  <2>1. CASE n = Len(q)
    BY <2>1, SubSeqProperties
  <2>2. CASE n < Len(q)
    BY <2>2, SubSeqProperties
  <2> QED BY <2>1, <2>2
<1>2. \A i \in 1 .. Len(rest) : rest[i] = q[n + i]
  <2>1. CASE n = Len(q)
    BY <1>1, <2>1
  <2>2. CASE n < Len(q)
    BY <1>1, <2>2, SubSeqProperties
  <2> QED BY <2>1, <2>2
<1>3. /\ DOMAIN rest = 1 .. Len(rest) /\ DOMAIN q = 1 .. Len(q)
      /\ Len(q) \in Nat /\ Len(rest) \in Nat /\ n \in Nat /\ n <= Len(q)
  BY <1>1
<1>6. /\ \A i \in 1 .. Len(rest) : n + i \in 1 .. Len(q) /\ n + i > n
      /\ \A h \in 1 .. Len(q) : h > n => h - n \in 1 .. Len(rest) /\ n + (h - n) = h
  <2>1. PICK l \in Nat, m \in Nat, k \in Nat : l = Len(q) /\ m = Len(rest) /\ k = n
    BY <1>3
  <2>2. m = l - k
    BY <1>1, <2>1
  <2>3. /\ \A i \in 1 .. m : k + i \in 1 .. l /\ k + i > k
        /\ \A h \in 1 .. l : h > k => h - k \in 1 .. m /\ k + (h - k) = h
    BY <2>2, Shift
  <2> QED BY <2>1, <2>3
<1>4. \A i \in DOMAIN rest : n + i \in DOMAIN q /\ n + i > n /\ rest[i] = q[n + i]
  BY <1>2, <1>3, <1>6
<1>5. ASSUME NEW h \in DOMAIN q, h > n PROVE h - n \in DOMAIN rest /\ rest[h - n] = q[h]
  <2>1. h - n \in 1 .. Len(rest) /\ n + (h - n) = h
    BY <1>3, <1>5, <1>6
  <2> QED BY <1>2, <1>3, <2>1
<1> QED BY <1>1, <1>4, <1>5

LEMMA MessageFacts ==
  /\ \A k \in Key : Compile(k) \in Message /\ Compile(k).op = "compile" /\ Compile(k).of = k
  /\ \A j \in Job : Validate(j) \in Message /\ Validate(j).op = "validate" /\ Validate(j).of = j
  /\ \A m \in Message :
       \/ m.op = "compile" /\ m.of \in Key /\ m = Compile(m.of)
       \/ m.op = "validate" /\ m.of \in Job /\ m = Validate(m.of)
<1>1. \A k \in Key : Compile(k) \in Message /\ Compile(k).op = "compile" /\ Compile(k).of = k
  BY DEF Message, Compile
<1>2. \A j \in Job : Validate(j) \in Message /\ Validate(j).op = "validate" /\ Validate(j).of = j
  BY DEF Message, Validate
<1>3. \A m \in Message : (\E k \in Key : m = Compile(k)) \/ \E j \in Job : m = Validate(j)
  BY DEF Message
<1>4. \A m \in Message :
             \/ m.op = "compile" /\ m.of \in Key /\ m = Compile(m.of)
             \/ m.op = "validate" /\ m.of \in Job /\ m = Validate(m.of)
  <2> TAKE m \in Message
  <2>1. CASE \E k \in Key : m = Compile(k)
    BY <1>1, <2>1
  <2>2. CASE \E j \in Job : m = Validate(j)
    BY <1>2, <2>2
  <2> QED BY <1>3, <2>1, <2>2
<1> QED BY <1>1, <1>2, <1>4

(* A message put after the others changes nothing for them. *)
LEMMA Posted ==
  ASSUME NEW box \in Seq(Message), NEW knows, NEW m \in Message, InOrder(box, knows),
         m.op = "validate" => Told(box, knows, KeyOf[m.of], Len(box))
  PROVE  /\ Append(box, m) \in Seq(Message) /\ InOrder(Append(box, m), knows)
         /\ \A k : Told(box, knows, k, Len(box)) => Told(Append(box, m), knows, k, Len(Append(box, m)))
<1> DEFINE longer == Append(box, m)
<1>1. /\ longer \in Seq(Message) /\ Len(longer) = Len(box) + 1 /\ Len(box) \in Nat
      /\ longer[Len(box) + 1] = m /\ \A h \in 1 .. Len(box) : longer[h] = box[h]
      /\ DOMAIN longer = 1 .. Len(box) + 1 /\ DOMAIN box = 1 .. Len(box)
  BY AppendProperties
<1> HIDE DEF longer
<1>2. \A k : \A n \in 0 .. Len(box) : Told(box, knows, k, n) => Told(longer, knows, k, n)
  BY <1>1 DEF Told
<1>3. \A k : Told(box, knows, k, Len(box)) => Told(longer, knows, k, Len(longer))
  BY <1>1 DEF Told
<1>4. InOrder(longer, knows)
  <2> SUFFICES ASSUME NEW i \in DOMAIN longer, longer[i].op = "validate"
               PROVE  Told(longer, knows, KeyOf[longer[i].of], i - 1)
    BY DEF InOrder
  <2>1. CASE i = Len(box) + 1
    <3>1. Told(box, knows, KeyOf[m.of], Len(box)) /\ longer[i] = m
      BY <1>1, <2>1
    <3>2. i - 1 = Len(box) /\ Len(box) \in 0 .. Len(box)
      BY <1>1, <2>1
    <3> QED BY <1>2, <3>1, <3>2
  <2>2. CASE i \in DOMAIN box
    <3>1. longer[i] = box[i] /\ i - 1 \in 0 .. Len(box)
      BY <1>1, <2>2
    <3>2. Told(box, knows, KeyOf[box[i].of], i - 1)
      BY <2>2, <3>1 DEF InOrder
    <3> QED BY <1>2, <3>1, <3>2
  <2> QED BY <1>1, <2>1, <2>2
<1> QED BY <1>1, <1>3, <1>4 DEF longer

-----------------------------------------------------------------------------
(* What #pump leaves of the types, the boxes and the jobs. *)
LEMMA PumpTypes ==
  ASSUME NEW q \in Seq(Job), NEW inPlace \in [1 .. Workers -> Slot], OnePlace(inPlace),
         NEW holds \in [Slot -> Job \cup {NoJob}], NEW boxes \in [Slot -> Seq(Message)],
         NEW armed \in SUBSET (Slot \X Job), Pump(q, inPlace, holds, boxes, armed)
  PROVE  /\ queue' \in Seq(Job) /\ job' \in [Slot -> Job \cup {NoJob}]
         /\ inbox' \in [Slot -> Seq(Message)] /\ timers' \in SUBSET (Slot \X Job)
         /\ \A i \in DOMAIN queue' : \E h \in DOMAIN q : queue'[i] = q[h]
<1>1. PICK n \in 0 .. Len(q) : \E at \in [1 .. n -> 1 .. Workers] :
        Gives(n, at, q, inPlace, holds, boxes, armed)
  BY PumpGives
<1>2. PICK at \in [1 .. n -> 1 .. Workers] : Gives(n, at, q, inPlace, holds, boxes, armed)
  BY <1>1
<1>3. \A a \in 1 .. n : q[a] \in Job /\ inPlace[at[a]] \in Slot
  BY <1>2
<1>4. queue' \in Seq(Job) /\ \A i \in DOMAIN queue' : \E h \in DOMAIN q : queue'[i] = q[h]
  <2>1. queue' \in Seq(Job) /\ \A i \in DOMAIN queue' : n + i \in DOMAIN q /\ queue'[i] = q[n + i]
    BY <1>2, QueueLeft DEF Gives
  <2> QED BY <2>1
<1>5. \A s \in Slot : job'[s] \in Job \cup {NoJob} /\ inbox'[s] \in Seq(Message)
  <2> TAKE s \in Slot
  <2>1. CASE \A a \in 1 .. n : inPlace[at[a]] # s
    BY <1>2, <2>1 DEF Gives
  <2>2. CASE \E a \in 1 .. n : inPlace[at[a]] = s
    <3>1. PICK a \in 1 .. n : inPlace[at[a]] = s
      BY <2>2
    <3>2. job'[s] = q[a] /\ inbox'[s] = Append(boxes[s], Validate(q[a]))
      BY <1>2, <3>1 DEF Gives
    <3>3. Validate(q[a]) \in Message /\ boxes[s] \in Seq(Message) /\ q[a] \in Job
      BY <1>3, MessageFacts
    <3> QED BY <3>2, <3>3, AppendProperties
  <2> QED BY <2>1, <2>2
<1>6. timers' \in SUBSET (Slot \X Job)
  <2>1. \A t \in timers' : t \in armed \/ \E a \in 1 .. n : t = <<inPlace[at[a]], q[a]>>
    BY <1>2 DEF Gives
  <2>2. \A a \in 1 .. n : <<inPlace[at[a]], q[a]>> \in Slot \X Job
    BY <1>3
  <2> QED BY <2>1, <2>2
<1>7. job' \in [Slot -> Job \cup {NoJob}] /\ inbox' \in [Slot -> Seq(Message)]
  BY <1>2, <1>5 DEF Gives
<1> QED BY <1>4, <1>6, <1>7

(* The jobs are given to slots that know their schemas, or will in time. *)
LEMMA PumpBoxes ==
  ASSUME NEW q \in Seq(Job), NEW inPlace \in [1 .. Workers -> Slot], OnePlace(inPlace),
         NEW holds \in [Slot -> Job \cup {NoJob}], NEW boxes \in [Slot -> Seq(Message)],
         NEW armed \in SUBSET (Slot \X Job), Pump(q, inPlace, holds, boxes, armed),
         NEW knows \in [Slot -> SUBSET Key], NEW alive \in SUBSET Slot,
         \A i \in DOMAIN q : Registered(KeyOf[q[i]]),
         \A s \in alive : InOrder(boxes[s], knows[s]),
         \A i \in 1 .. Workers : inPlace[i] \in alive => Primed(boxes[inPlace[i]], knows[inPlace[i]])
  PROVE  /\ \A i \in DOMAIN queue' : Registered(KeyOf[queue'[i]])
         /\ \A s \in alive : InOrder(inbox'[s], knows[s])
         /\ \A i \in 1 .. Workers : inPlace[i] \in alive => Primed(inbox'[inPlace[i]], knows[inPlace[i]])
<1>1. PICK n \in 0 .. Len(q) : \E at \in [1 .. n -> 1 .. Workers] :
        Gives(n, at, q, inPlace, holds, boxes, armed)
  BY PumpGives
<1>2. PICK at \in [1 .. n -> 1 .. Workers] : Gives(n, at, q, inPlace, holds, boxes, armed)
  BY <1>1
<1>3. \A i \in DOMAIN queue' : Registered(KeyOf[queue'[i]])
  BY PumpTypes
<1>4. \A s \in alive :
        \/ inbox'[s] = boxes[s]
        \/ \E j \in Job : Registered(KeyOf[j]) /\ inbox'[s] = Append(boxes[s], Validate(j))
                          /\ \E i \in 1 .. Workers : inPlace[i] = s
  <2> TAKE s \in alive
  <2>1. CASE \A a \in 1 .. n : inPlace[at[a]] # s
    BY <1>2, <2>1 DEF Gives
  <2>2. CASE \E a \in 1 .. n : inPlace[at[a]] = s
    <3>1. PICK a \in 1 .. n : inPlace[at[a]] = s
      BY <2>2
    <3>2. q[a] \in Job /\ Registered(KeyOf[q[a]]) /\ at[a] \in 1 .. Workers
      OBVIOUS
    <3> QED BY <1>2, <3>1, <3>2 DEF Gives
  <2> QED BY <2>1, <2>2
<1>5. \A j \in Job : KeyOf[j] \in Key
  BY PoolAssumption
<1>6. \A s \in alive : /\ InOrder(inbox'[s], knows[s])
                       /\ \A k : Told(boxes[s], knows[s], k, Len(boxes[s]))
                                  => Told(inbox'[s], knows[s], k, Len(inbox'[s]))
  <2> TAKE s \in alive
  <2>1. CASE inbox'[s] = boxes[s]
    BY <2>1
  <2>2. CASE inbox'[s] # boxes[s]
    <3>1. PICK j \in Job : /\ Registered(KeyOf[j]) /\ inbox'[s] = Append(boxes[s], Validate(j))
                           /\ \E i \in 1 .. Workers : inPlace[i] = s
      BY <1>4, <2>2
    <3>2. Told(boxes[s], knows[s], KeyOf[j], Len(boxes[s]))
      BY <1>5, <3>1 DEF Primed
    <3>3. boxes[s] \in Seq(Message) /\ InOrder(boxes[s], knows[s])
      OBVIOUS
    <3>4. Validate(j) \in Message /\ Validate(j).of = j
      BY MessageFacts
    <3> QED BY <3>1, <3>2, <3>3, <3>4, Posted
  <2> QED BY <2>1, <2>2
<1>7. \A i \in 1 .. Workers : inPlace[i] \in alive => Primed(inbox'[inPlace[i]], knows[inPlace[i]])
  BY <1>6 DEF Primed
<1> QED BY <1>3, <1>6, <1>7

LEMMA PumpJobs ==
  ASSUME NEW q \in Seq(Job), NEW inPlace \in [1 .. Workers -> Slot], OnePlace(inPlace),
         NEW holds \in [Slot -> Job \cup {NoJob}], NEW boxes, NEW said,
         NEW armed \in SUBSET (Slot \X Job), Pump(q, inPlace, holds, boxes, armed),
         JobsKept(q, holds, inPlace, armed, said)
  PROVE  JobsKept(queue', job', inPlace, timers', said)
<1>1. PICK n \in 0 .. Len(q) : \E at \in [1 .. n -> 1 .. Workers] :
        Gives(n, at, q, inPlace, holds, boxes, armed)
  BY PumpGives
<1>2. PICK at \in [1 .. n -> 1 .. Workers] : Gives(n, at, q, inPlace, holds, boxes, armed)
  BY <1>1
<1>3. /\ queue' \in Seq(Job)
      /\ \A i \in DOMAIN queue' : n + i \in DOMAIN q /\ n + i > n /\ queue'[i] = q[n + i]
      /\ \A h \in DOMAIN q : h > n => h - n \in DOMAIN queue' /\ queue'[h - n] = q[h]
  BY <1>2, QueueLeft DEF Gives
<1>4. \A a \in 1 .. n : /\ a \in DOMAIN q /\ q[a] \in Job /\ inPlace[at[a]] \in Slot
                        /\ at[a] \in 1 .. Workers /\ a <= n
  BY <1>2
(* A slot holds what it held, or one of the first n jobs. *)
<1>5. \A s \in Slot : \/ job'[s] = holds[s]
                      \/ \E a \in 1 .. n : s = inPlace[at[a]] /\ job'[s] = q[a] /\ holds[s] = NoJob
  <2> TAKE s \in Slot
  <2>1. CASE \A a \in 1 .. n : inPlace[at[a]] # s
    BY <1>2, <2>1 DEF Gives
  <2>2. CASE \E a \in 1 .. n : inPlace[at[a]] = s
    <3>1. PICK a \in 1 .. n : inPlace[at[a]] = s
      BY <2>2
    <3> QED BY <1>2, <3>1 DEF Gives
  <2> QED BY <2>1, <2>2
<1>6. \A i \in DOMAIN queue' : i \in Nat
  BY <1>3
<1>7. \A i \in DOMAIN queue' : said[queue'[i]] = "asked"
  BY <1>3 DEF JobsKept
<1>8. \A i, h \in DOMAIN queue' : queue'[i] = queue'[h] => i = h
  BY <1>3, <1>6 DEF JobsKept
<1>9. \A s \in Slot : job'[s] # NoJob => said[job'[s]] = "asked"
  BY <1>4, <1>5 DEF JobsKept
<1>10. \A s, t \in Slot : job'[s] # NoJob /\ job'[s] = job'[t] => s = t
  BY <1>4, <1>5 DEF JobsKept
<1>11. \A s \in Slot, i \in DOMAIN queue' : job'[s] # queue'[i]
  <2> TAKE s \in Slot, i \in DOMAIN queue'
  <2>1. CASE job'[s] = holds[s]
    BY <1>3, <2>1 DEF JobsKept
  <2>2. CASE \E a \in 1 .. n : job'[s] = q[a]
    BY <1>3, <1>4, <1>6, <2>2 DEF JobsKept
  <2> QED BY <1>5, <2>1, <2>2
<1>12. ASSUME NEW j \in Job, said[j] = "asked"
       PROVE  (\E i \in DOMAIN queue' : queue'[i] = j) \/ \E i \in 1 .. Workers : job'[inPlace[i]] = j
  <2>1. CASE \E h \in DOMAIN q : q[h] = j
    <3>1. PICK h \in DOMAIN q : q[h] = j
      BY <2>1
    <3>2. CASE h > n
      BY <1>3, <3>1, <3>2
    <3>3. CASE h \in 1 .. n
      BY <1>2, <1>4, <3>1, <3>3 DEF Gives
    <3> QED BY <3>2, <3>3
  <2>2. CASE \E i \in 1 .. Workers : holds[inPlace[i]] = j
    <3>1. PICK i \in 1 .. Workers : holds[inPlace[i]] = j
      BY <2>2
    <3>2. j # NoJob
      BY PoolAssumption
    <3>3. job'[inPlace[i]] = j
      BY <1>5, <3>1, <3>2
    <3> QED BY <3>3
  <2> QED BY <1>12, <2>1, <2>2 DEF JobsKept
<1>13. \A s \in Slot, j \in Job : <<s, j>> \in timers' => job'[s] = j
  <2> TAKE s \in Slot, j \in Job
  <2> HAVE <<s, j>> \in timers'
  <2>1. CASE <<s, j>> \in armed
    <3>1. holds[s] = j /\ j # NoJob
      BY <2>1, PoolAssumption DEF JobsKept
    <3> QED BY <1>5, <3>1
  <2>2. CASE \E a \in 1 .. n : <<s, j>> = <<inPlace[at[a]], q[a]>>
    BY <1>2, <1>4, <2>2 DEF Gives
  <2> QED BY <1>2, <2>1, <2>2 DEF Gives
<1> QED BY <1>7, <1>8, <1>9, <1>10, <1>11, <1>12, <1>13 DEF JobsKept

-----------------------------------------------------------------------------
LEMMA CountFacts ==
  /\ IsFiniteSet(TimedOut) /\ Cardinality(TimedOut) \in Nat /\ Cardinality(TimedOut) <= Jobs
  /\ IsFiniteSet(Failed) /\ Cardinality(Failed) \in Nat
<1>1. IsFiniteSet(Job) /\ Cardinality(Job) = Jobs
  BY PoolAssumption, FS_Interval DEF Job
<1>2. IsFiniteSet(Slot)
  BY SlotFacts, FS_Interval DEF Slot
<1>3. TimedOut \subseteq Job /\ Failed \subseteq Slot
  BY DEF TimedOut, Failed
<1> QED BY <1>1, <1>2, <1>3, FS_Subset, FS_CardinalityType

(* Contains, on the places. *)
LEMMA InPlace ==
  ASSUME PoolTypeOK, NEW s
  PROVE  Contains(slots, s) <=> \E i \in 1 .. Workers : slots[i] = s
<1>1. slots \in [1 .. Workers -> 1 .. spawned] /\ Workers \in Nat
  BY PoolAssumption DEF PoolTypeOK
<1>2. slots \in Seq(1 .. spawned)
  BY <1>1, SeqDef
<1>3. Len(slots) \in Nat /\ 1 .. Len(slots) = 1 .. Workers
  BY <1>1, <1>2, LenProperties
<1> QED BY <1>3 DEF Contains

LEMMA InRegister ==
  ASSUME PoolTypeOK, NEW k
  PROVE  Contains(schemas, k) <=> Registered(k)
BY DEF Contains, Registered, PoolTypeOK

(* A reply settles the promise of a job still open, and of no other. *)
LEMMA SettledFacts ==
  ASSUME PoolTypeOK, NEW j \in Job \cup {NoJob}, NEW a \in Outcome \ {"new", "asked"},
         outcome' = Settled(j, a)
  PROVE  /\ outcome' \in [Job -> Outcome]
         /\ \A i \in Job : i # j => outcome'[i] = outcome[i]
         /\ j \in Job /\ outcome[j] = "asked" => outcome' = [outcome EXCEPT ![j] = a] /\ outcome'[j] = a
         /\ ~(j \in Job /\ outcome[j] = "asked") => outcome' = outcome
         /\ \A i \in Job : outcome'[i] = "asked" => outcome[i] = "asked" /\ i # j
         /\ \A i \in Job : outcome[i] = "timeout" => outcome'[i] = "timeout"
<1>1. CASE j # NoJob /\ outcome[j] = "asked"
  BY <1>1 DEF Settled, PoolTypeOK, Outcome
<1>2. CASE ~(j # NoJob /\ outcome[j] = "asked")
  BY <1>2, PoolAssumption DEF Settled, PoolTypeOK, Outcome
<1> QED BY <1>1, <1>2

LEMMA InitPool == PoolInit => PoolInv
<1> SUFFICES ASSUME PoolInit PROVE PoolInv
  OBVIOUS
<1>1. PoolTypeOK
  <2>1. /\ queue \in Seq(Job) /\ schemas \in Seq(Key)
        /\ closed \in BOOLEAN /\ timers \subseteq Slot \X Job
    BY EmptySeq DEF PoolInit
  <2>5. outcome \in [Job -> Outcome]
    BY DEF PoolInit, Outcome
  <2>2. spawned \in Nat /\ spawned <= MaxSlots /\ slots \in [1 .. Workers -> 1 .. spawned]
    BY PoolAssumption, SlotFacts DEF PoolInit
  <2>3. /\ job \in [Slot -> Job \cup {NoJob}] /\ inbox \in [Slot -> Seq(Message)]
        /\ known \in [Slot -> SUBSET Key] /\ replies \in [Slot -> Seq(Reported)]
    BY DEF PoolInit
  <2>4. worker \in [Slot -> {"unborn", "up", "terminated", "gone", "failed"}] /\ deaths \in 0 .. MaxFailures
    BY PoolAssumption DEF PoolInit
  <2> QED BY <2>1, <2>2, <2>3, <2>4, <2>5 DEF PoolTypeOK
<1>2. OnePlace(slots)
  BY DEF PoolInit, OnePlace
<1>3. WorkerInv
  <2>1. \A s \in Slot : DOMAIN inbox[s] = {} /\ DOMAIN replies[s] = {}
    BY DEF PoolInit
  <2>2. \A k : ~Registered(k)
    BY DEF PoolInit, Registered
  <2>3. DOMAIN queue = {}
    BY DEF PoolInit
  <2> QED BY <2>1, <2>2, <2>3 DEF WorkerInv, Primed, InOrder
<1>4. JobsKept(queue, job, slots, timers, outcome)
  BY PoolAssumption DEF PoolInit, JobsKept
<1>5. spawned <= Workers + Cardinality(TimedOut) + deaths - Cardinality(Failed)
  <2>1. TimedOut = {} /\ Failed = {}
    BY DEF PoolInit, TimedOut, Failed
  <2> QED BY <2>1, FS_EmptySet, PoolAssumption DEF PoolInit
<1> QED BY <1>1, <1>2, <1>3, <1>4, <1>5 DEF PoolInv, OpenInv

-----------------------------------------------------------------------------
(* The job a slot loses is settled by the same step, so that none is lost. *)
LEMMA JobDropped ==
  ASSUME PoolTypeOK, NEW s \in Slot, NEW a \in Outcome \ {"new", "asked"},
         outcome' = Settled(job[s], a),
         JobsKept(queue, job, slots, timers, outcome),
         NEW inPlace \in [1 .. Workers -> Slot],
         \A i \in 1 .. Workers : inPlace[i] = slots[i] \/ slots[i] = s
  PROVE  JobsKept(queue, [job EXCEPT ![s] = NoJob], inPlace, Clear(s), outcome')
<1> DEFINE holds == [job EXCEPT ![s] = NoJob]
<1>1. job \in [Slot -> Job \cup {NoJob}] /\ job[s] \in Job \cup {NoJob} /\ queue \in Seq(Job)
  BY DEF PoolTypeOK
<1>2. \A t \in Slot : t # s => holds[t] = job[t]
  BY <1>1
<1>3. holds[s] = NoJob
  BY <1>1
<1>4. /\ \A i \in Job : i # job[s] => outcome'[i] = outcome[i]
      /\ \A i \in Job : outcome'[i] = "asked" => outcome[i] = "asked" /\ i # job[s]
  BY <1>1, SettledFacts
<1>5. \A i \in DOMAIN queue : queue[i] \in Job
  BY <1>1
<1>6. NoJob \notin Job
  BY PoolAssumption
<1> HIDE DEF holds
<1>7. \A i \in DOMAIN queue : outcome'[queue[i]] = "asked"
  BY <1>4, <1>5 DEF JobsKept
<1>8. \A t \in Slot : holds[t] # NoJob => outcome'[holds[t]] = "asked"
  <2> TAKE t \in Slot
  <2> HAVE holds[t] # NoJob
  <2>1. t # s /\ holds[t] = job[t]
    BY <1>2, <1>3
  <2>2. job[t] \in Job /\ job[t] # job[s] /\ outcome[job[t]] = "asked"
    BY <1>1, <2>1 DEF JobsKept
  <2> QED BY <1>4, <2>1, <2>2
<1>9. \A t, u \in Slot : holds[t] # NoJob /\ holds[t] = holds[u] => t = u
  BY <1>2, <1>3 DEF JobsKept
<1>10. \A t \in Slot, i \in DOMAIN queue : holds[t] # queue[i]
  BY <1>2, <1>3, <1>5, <1>6 DEF JobsKept
<1>11. ASSUME NEW j \in Job, outcome'[j] = "asked"
       PROVE  (\E i \in DOMAIN queue : queue[i] = j) \/ \E i \in 1 .. Workers : holds[inPlace[i]] = j
  <2>1. outcome[j] = "asked" /\ j # job[s]
    BY <1>4, <1>11
  <2>2. CASE \E i \in 1 .. Workers : job[slots[i]] = j
    <3>1. PICK i \in 1 .. Workers : job[slots[i]] = j
      BY <2>2
    <3>2. inPlace[i] = slots[i] /\ inPlace[i] \in Slot /\ inPlace[i] # s
      BY <2>1, <3>1
    <3> QED BY <1>2, <3>1, <3>2
  <2> QED BY <2>1, <2>2 DEF JobsKept
<1>12. \A t \in Slot, j \in Job : <<t, j>> \in Clear(s) => holds[t] = j
  <2> TAKE t \in Slot, j \in Job
  <2> HAVE <<t, j>> \in Clear(s)
  <2>1. <<t, j>> \in timers /\ t # s
    BY DEF Clear
  <2> QED BY <1>2, <2>1 DEF JobsKept
<1> QED BY <1>7, <1>8, <1>9, <1>10, <1>11, <1>12 DEF JobsKept, holds

-----------------------------------------------------------------------------
(* What a worker knows after a message. *)
Learnt(knows, m) == IF m.op = "compile" THEN knows \cup {m.of} ELSE knows

(* A worker's step on the first message of its box. *)
LEMMA MessageRead ==
  ASSUME NEW box \in Seq(Message), NEW knows \in SUBSET Key, box # <<>>, InOrder(box, knows)
  PROVE  /\ Head(box) \in Message /\ Tail(box) \in Seq(Message) /\ Learnt(knows, Head(box)) \in SUBSET Key
         /\ InOrder(Tail(box), Learnt(knows, Head(box)))
         /\ \A k : Told(box, knows, k, Len(box)) =>
                     Told(Tail(box), Learnt(knows, Head(box)), k, Len(Tail(box)))
         /\ Head(box).op = "validate" => KeyOf[Head(box).of] \in knows
<1> DEFINE rest == Tail(box)
           knows2 == Learnt(knows, Head(box))
<1>1. /\ Head(box) \in Message /\ rest \in Seq(Message) /\ Len(rest) = Len(box) - 1
      /\ \A i \in 1 .. Len(rest) : rest[i] = box[i + 1]
  BY HeadTailProperties
<1>2. Head(box) = box[1] /\ Len(box) \in Nat \ {0} /\ DOMAIN box = 1 .. Len(box)
  BY EmptySeq
<1>3. DOMAIN rest = 1 .. Len(rest) /\ Len(rest) \in Nat
  BY <1>1
<1>4. /\ knows2 \in SUBSET Key /\ knows \subseteq knows2
      /\ Head(box).op = "compile" => Head(box).of \in knows2
  BY <1>1, MessageFacts DEF Learnt
<1> HIDE DEF rest, knows2
<1>5. ASSUME NEW k, NEW n \in 1 .. Len(box), Told(box, knows, k, n) PROVE Told(rest, knows2, k, n - 1)
  <2>1. CASE k \in knows
    BY <1>4, <2>1 DEF Told
  <2>2. CASE \E h \in 1 .. n : box[h] = Compile(k)
    <3>1. PICK h \in 1 .. n : box[h] = Compile(k)
      BY <2>2
    <3>2. CASE h = 1
      <4>1. Head(box).op = "compile" /\ Head(box).of = k
        BY <1>2, <3>1, <3>2 DEF Compile
      <4> QED BY <1>4, <4>1 DEF Told
    <3>3. CASE h # 1
      <4>1. h - 1 \in 1 .. n - 1 /\ h - 1 \in 1 .. Len(rest) /\ (h - 1) + 1 = h
        BY <1>1, <1>2, <3>3
      <4>2. rest[h - 1] = Compile(k)
        BY <1>1, <3>1, <4>1
      <4> QED BY <4>1, <4>2 DEF Told
    <3> QED BY <3>2, <3>3
  <2> QED BY <1>5, <2>1, <2>2 DEF Told
<1>6. \A k : Told(box, knows, k, Len(box)) => Told(rest, knows2, k, Len(rest))
  <2>1. Len(box) \in 1 .. Len(box) /\ Len(box) - 1 = Len(rest)
    BY <1>1, <1>2
  <2> QED BY <1>5, <2>1
<1>7. InOrder(rest, knows2)
  <2> SUFFICES ASSUME NEW i \in DOMAIN rest, rest[i].op = "validate"
               PROVE  Told(rest, knows2, KeyOf[rest[i].of], i - 1)
    BY DEF InOrder
  <2>1. i \in Nat /\ i + 1 \in DOMAIN box /\ i \in 1 .. Len(box) /\ (i + 1) - 1 = i /\ rest[i] = box[i + 1]
    BY <1>1, <1>2, <1>3
  <2>2. Told(box, knows, KeyOf[rest[i].of], i)
    BY <2>1 DEF InOrder
  <2> QED BY <1>5, <2>1, <2>2
<1>8. Head(box).op = "validate" => KeyOf[Head(box).of] \in knows
  <2> HAVE Head(box).op = "validate"
  <2>1. Told(box, knows, KeyOf[Head(box).of], 0)
    BY <1>2 DEF InOrder
  <2> QED BY <2>1 DEF Told
<1> QED BY <1>1, <1>4, <1>6, <1>7, <1>8 DEF rest, knows2

-----------------------------------------------------------------------------
(* What a step must leave when it posts nothing and gives no job. *)
LEMMA RepliesStill ==
  ASSUME WorkerInv, \A s \in Slot : \A m \in DOMAIN replies'[s] :
                      \E h \in DOMAIN replies[s] : replies'[s][m] = replies[s][h]
  PROVE  \A s \in Slot : \A m \in DOMAIN replies'[s] :
           replies'[s][m].of # NoJob => replies'[s][m].answer = Verdict[replies'[s][m].of]
BY DEF WorkerInv

LEMMA RegisterStep ==
  ASSUME PoolInv, NEW k \in Key, Register(k)
  PROVE  PoolInv' /\ UNCHANGED <<outcome, closed>>
<1>1. PoolTypeOK /\ WorkerInv
  BY DEF PoolInv
<1>2. /\ schemas' = Append(schemas, k)
      /\ inbox' = [s \in Slot |-> IF Contains(slots, s) THEN Append(inbox[s], Compile(k)) ELSE inbox[s]]
      /\ UNCHANGED <<outcome, queue, slots, spawned, job, timers, closed, worker, known, replies, deaths>>
  BY DEF Register
<1>3. schemas' \in Seq(Key) /\ \A k2 : Registered(k2)' <=> Registered(k2) \/ k2 = k
  <2>1. /\ schemas' \in Seq(Key) /\ Len(schemas') = Len(schemas) + 1 /\ schemas'[Len(schemas) + 1] = k
        /\ \A i \in 1 .. Len(schemas) : schemas'[i] = schemas[i]
        /\ DOMAIN schemas = 1 .. Len(schemas) /\ DOMAIN schemas' = 1 .. Len(schemas) + 1
        /\ Len(schemas) \in Nat
    BY <1>1, <1>2, AppendProperties DEF PoolTypeOK
  <2> QED BY <2>1 DEF Registered
<1>4. \A s \in Slot : /\ inbox'[s] \in Seq(Message)
                      /\ InOrder(inbox[s], known[s]) => InOrder(inbox'[s], known[s])
                      /\ \A k2 : Told(inbox[s], known[s], k2, Len(inbox[s])) =>
                                   Told(inbox'[s], known[s], k2, Len(inbox'[s]))
                      /\ Contains(slots, s) => Told(inbox'[s], known[s], k, Len(inbox'[s]))
  <2> TAKE s \in Slot
  <2>1. inbox[s] \in Seq(Message) /\ Compile(k) \in Message /\ Compile(k).op = "compile"
    BY <1>1, MessageFacts DEF PoolTypeOK
  <2>2. CASE Contains(slots, s)
    <3>1. inbox'[s] = Append(inbox[s], Compile(k))
      BY <1>2, <2>2
    <3>2. /\ inbox'[s] \in Seq(Message) /\ Len(inbox'[s]) = Len(inbox[s]) + 1 /\ Len(inbox[s]) \in Nat
          /\ inbox'[s][Len(inbox[s]) + 1] = Compile(k)
          /\ \A h \in 1 .. Len(inbox[s]) : inbox'[s][h] = inbox[s][h]
      BY <2>1, <3>1, AppendProperties
    <3>3. \A k2 : Told(inbox[s], known[s], k2, Len(inbox[s])) =>
                     Told(inbox'[s], known[s], k2, Len(inbox'[s]))
      BY <3>2 DEF Told
    <3>4. InOrder(inbox[s], known[s]) => InOrder(inbox'[s], known[s])
      BY <2>1, <3>1, Posted
    <3>5. Told(inbox'[s], known[s], k, Len(inbox'[s]))
      BY <3>2 DEF Told
    <3> QED BY <3>2, <3>3, <3>4, <3>5
  <2>3. CASE ~Contains(slots, s)
    BY <1>2, <2>1, <2>3
  <2> QED BY <2>2, <2>3
<1>5. PoolTypeOK'
  <2>1. inbox' \in [Slot -> Seq(Message)]
    BY <1>2, <1>4
  <2> QED BY <1>1, <1>2, <1>3, <2>1 DEF PoolTypeOK
<1>6. WorkerInv'
  <2>1. (\A i \in DOMAIN queue : Registered(KeyOf[queue[i]]))'
    BY <1>1, <1>2, <1>3 DEF WorkerInv
  <2>2. ASSUME NEW i \in 1 .. Workers, Live(slots[i]) PROVE Primed(inbox[slots[i]], known[slots[i]])'
    <3>1. slots[i] \in Slot /\ Contains(slots, slots[i])
      BY <1>1, InPlace, PlacesAreSlots
    <3>2. Primed(inbox[slots[i]], known[slots[i]])
      BY <1>1, <2>2 DEF WorkerInv
    <3>3. \A k2 \in Key : Registered(k2)' => Told(inbox'[slots[i]], known[slots[i]], k2, Len(inbox'[slots[i]]))
      BY <1>3, <1>4, <3>1, <3>2 DEF Primed
    <3> QED BY <1>2, <3>3 DEF Primed, Told
  <2>3. ASSUME NEW s \in Slot, Live(s) PROVE InOrder(inbox[s], known[s])'
    BY <1>1, <1>2, <1>4, <2>3 DEF WorkerInv, InOrder, Told
  <2> QED BY <1>1, <1>2, <2>1, <2>2, <2>3 DEF WorkerInv, Live
<1>7. OnePlace(slots)' /\ OpenInv'
  BY <1>2 DEF PoolInv, OnePlace, OpenInv, JobsKept, TimedOut, Failed
<1> QED BY <1>2, <1>5, <1>6, <1>7 DEF PoolInv

LEMMA RunClosedStep ==
  ASSUME PoolInv, NEW j \in Job, RunClosed(j)
  PROVE  PoolInv' /\ Promise!Ask(j)
<1>1. PoolTypeOK /\ WorkerInv
  BY DEF PoolInv
<1>2. /\ outcome[j] = "new" /\ closed /\ outcome' = [outcome EXCEPT ![j] = "closed"]
      /\ UNCHANGED <<queue, slots, spawned, job, timers, schemas, closed, worker, inbox, known, replies, deaths>>
  BY DEF RunClosed, NextId, workerVars
<1>3. PoolTypeOK'
  BY <1>1, <1>2 DEF PoolTypeOK, Outcome
<1>4. WorkerInv'
  BY <1>1, <1>2 DEF WorkerInv, Live, Registered, Primed, InOrder, Told
<1>5. OnePlace(slots)' /\ OpenInv'
  BY <1>2 DEF PoolInv, OnePlace, OpenInv
<1> QED BY <1>2, <1>3, <1>4, <1>5 DEF PoolInv, Promise!Ask

LEMMA RunStep ==
  ASSUME PoolInv, NEW j \in Job, Run(j)
  PROVE  PoolInv' /\ Promise!Ask(j)
<1> DEFINE q == Append(queue, j)
<1>1. PoolTypeOK /\ WorkerInv /\ OnePlace(slots) /\ OpenInv
  BY DEF PoolInv
<1>2. /\ outcome[j] = "new" /\ ~closed /\ Registered(KeyOf[j]) /\ outcome' = [outcome EXCEPT ![j] = "asked"]
      /\ Pump(q, slots, job, inbox, timers)
      /\ UNCHANGED <<slots, spawned, schemas, closed, worker, known, replies, deaths>>
  BY <1>1, InRegister DEF Run, NextId
<1>3. /\ q \in Seq(Job) /\ Len(q) = Len(queue) + 1 /\ q[Len(queue) + 1] = j
      /\ \A i \in 1 .. Len(queue) : q[i] = queue[i]
      /\ DOMAIN q = 1 .. Len(queue) + 1 /\ DOMAIN queue = 1 .. Len(queue) /\ Len(queue) \in Nat
  BY <1>1, AppendProperties DEF PoolTypeOK
<1>4. /\ slots \in [1 .. Workers -> Slot] /\ job \in [Slot -> Job \cup {NoJob}]
      /\ inbox \in [Slot -> Seq(Message)] /\ timers \in SUBSET (Slot \X Job)
      /\ known \in [Slot -> SUBSET Key] /\ outcome \in [Job -> Outcome]
  BY <1>1, PlacesAreSlots DEF PoolTypeOK
<1> HIDE DEF q
<1>5. /\ queue' \in Seq(Job) /\ job' \in [Slot -> Job \cup {NoJob}]
      /\ inbox' \in [Slot -> Seq(Message)] /\ timers' \in SUBSET (Slot \X Job)
  BY <1>1, <1>2, <1>3, <1>4, PumpTypes
<1>6. PoolTypeOK'
  <2>1. outcome' \in [Job -> Outcome]
    BY <1>2, <1>4 DEF Outcome
  <2> QED BY <1>1, <1>2, <1>5, <2>1 DEF PoolTypeOK
<1>7. WorkerInv'
  <2> DEFINE alive == {s \in Slot : Live(s)}
  <2>1. \A i \in DOMAIN q : Registered(KeyOf[q[i]])
    BY <1>1, <1>2, <1>3 DEF WorkerInv
  <2>2. /\ \A s \in alive : InOrder(inbox[s], known[s])
        /\ \A i \in 1 .. Workers : slots[i] \in alive => Primed(inbox[slots[i]], known[slots[i]])
    BY <1>1 DEF WorkerInv
  <2>3. /\ \A i \in DOMAIN queue' : Registered(KeyOf[queue'[i]])
        /\ \A s \in alive : InOrder(inbox'[s], known[s])
        /\ \A i \in 1 .. Workers : slots[i] \in alive => Primed(inbox'[slots[i]], known[slots[i]])
    <3>1. alive \in SUBSET Slot
      OBVIOUS
    <3> HIDE DEF alive
    <3> QED BY <1>1, <1>2, <1>3, <1>4, <2>1, <2>2, <3>1, PumpBoxes
  <2>4. \A s \in Slot : Live(s)' <=> s \in alive
    BY <1>2 DEF Live
  <2> QED BY <1>1, <1>2, <1>4, <2>3, <2>4 DEF WorkerInv, Registered, Primed, InOrder, Told
<1>8. JobsKept(queue', job', slots, timers', outcome')
  <2>1. JobsKept(queue, job, slots, timers, outcome)
    BY <1>1, <1>2 DEF OpenInv
  <2>2. \A i \in Job : i # j => outcome'[i] = outcome[i]
    BY <1>2, <1>4
  <2>3. outcome'[j] = "asked"
    BY <1>2, <1>4
  <2>4. /\ \A i \in DOMAIN queue : queue[i] \in Job /\ queue[i] # j
        /\ \A s \in Slot : job[s] # j
    BY <1>1, <1>2, <2>1, PoolAssumption DEF JobsKept, PoolTypeOK
  <2>5. ASSUME NEW i \in DOMAIN q
        PROVE  \/ i \in DOMAIN queue /\ q[i] = queue[i]
               \/ i = Len(queue) + 1 /\ q[i] = j
    <3>1. i \in 1 .. Len(queue) \/ i = Len(queue) + 1
      BY <1>3
    <3> QED BY <1>3, <3>1
  <2>6. \A i \in DOMAIN queue : i \in DOMAIN q /\ q[i] = queue[i]
    BY <1>3
  <2>7. JobsKept(q, job, slots, timers, outcome')
    <3>1. \A i \in DOMAIN q : outcome'[q[i]] = "asked"
      BY <2>1, <2>2, <2>3, <2>4, <2>5 DEF JobsKept
    <3>2. \A i, h \in DOMAIN q : q[i] = q[h] => i = h
      BY <2>1, <2>4, <2>5 DEF JobsKept
    <3>3. \A s \in Slot : job[s] # NoJob => outcome'[job[s]] = "asked"
      BY <1>4, <2>1, <2>2, <2>4 DEF JobsKept
    <3>4. \A s \in Slot, i \in DOMAIN q : job[s] # q[i]
      BY <2>1, <2>4, <2>5 DEF JobsKept
    <3>5. ASSUME NEW h \in Job, outcome'[h] = "asked"
          PROVE  (\E i \in DOMAIN q : q[i] = h) \/ \E i \in 1 .. Workers : job[slots[i]] = h
      <4>1. CASE h = j
        <5>1. Len(queue) + 1 \in DOMAIN q
          BY <1>3
        <5> QED BY <1>3, <4>1, <5>1
      <4>2. CASE h # j
        BY <2>1, <2>2, <2>6, <3>5, <4>2 DEF JobsKept
      <4> QED BY <4>1, <4>2
    <3> QED BY <2>1, <3>1, <3>2, <3>3, <3>4, <3>5 DEF JobsKept
  <2> QED BY <1>1, <1>2, <1>3, <1>4, <2>7, PumpJobs
<1>9. OpenInv'
  <2>1. TimedOut' = TimedOut /\ Failed' = Failed
    BY <1>2, <1>4 DEF TimedOut, Failed
  <2> QED BY <1>1, <1>2, <1>8, <2>1 DEF OpenInv
<1>10. OnePlace(slots)'
  BY <1>1, <1>2 DEF OnePlace
<1> QED BY <1>2, <1>6, <1>7, <1>9, <1>10 DEF PoolInv, Promise!Ask

-----------------------------------------------------------------------------
(* A slot gives its job up: what #settle and #replace have in common. *)
LEMMA SettlesOne ==
  ASSUME PoolTypeOK, NEW j \in Job \cup {NoJob}, NEW a,
         j \in Job => a \in {Verdict[j], "timeout", "failed"},
         outcome' = Settled(j, a), UNCHANGED closed
  PROVE  (\E i \in Job : Promise!Settle(i)) \/ UNCHANGED <<outcome, closed>>
<1>1. CASE j # NoJob /\ outcome[j] = "asked"
  BY <1>1 DEF Settled, Promise!Settle
<1>2. CASE ~(j # NoJob /\ outcome[j] = "asked")
  BY <1>2 DEF Settled
<1> QED BY <1>1, <1>2

LEMMA ReplyStep ==
  ASSUME PoolInv, NEW s \in Slot, Reply(s)
  PROVE  PoolInv' /\ ((\E i \in Job : Promise!Settle(i)) \/ UNCHANGED <<outcome, closed>>)
<1>1. PoolTypeOK /\ WorkerInv /\ OnePlace(slots) /\ OpenInv
  BY DEF PoolInv
<1> DEFINE r == Head(replies[s])
<1>2. /\ replies[s] # <<>> /\ replies' = [replies EXCEPT ![s] = Tail(replies[s])]
      /\ UNCHANGED <<slots, spawned, schemas, closed, worker, known, deaths>>
  BY DEF Reply
<1>3. /\ slots \in [1 .. Workers -> Slot] /\ job \in [Slot -> Job \cup {NoJob}]
      /\ inbox \in [Slot -> Seq(Message)] /\ timers \in SUBSET (Slot \X Job) /\ queue \in Seq(Job)
      /\ known \in [Slot -> SUBSET Key] /\ outcome \in [Job -> Outcome]
      /\ replies \in [Slot -> Seq(Reported)] /\ NoJob \notin Job
  BY <1>1, PlacesAreSlots, PoolAssumption DEF PoolTypeOK
<1>4. /\ r \in Reported /\ 1 \in DOMAIN replies[s] /\ r = replies[s][1]
      /\ Tail(replies[s]) \in Seq(Reported)
      /\ \A m \in DOMAIN Tail(replies[s]) : \E h \in DOMAIN replies[s] : Tail(replies[s])[m] = replies[s][h]
  <2>1. /\ replies[s] \in Seq(Reported) /\ Len(replies[s]) \in Nat \ {0}
        /\ DOMAIN replies[s] = 1 .. Len(replies[s])
    BY <1>2, <1>3, EmptySeq
  <2>2. /\ r \in Reported /\ Tail(replies[s]) \in Seq(Reported) /\ Len(Tail(replies[s])) = Len(replies[s]) - 1
        /\ \A i \in 1 .. Len(Tail(replies[s])) : Tail(replies[s])[i] = replies[s][i + 1]
    BY <1>2, <2>1, HeadTailProperties
  <2>3. DOMAIN Tail(replies[s]) = 1 .. Len(Tail(replies[s]))
    BY <2>2
  <2>4. \A i \in 1 .. Len(Tail(replies[s])) : i + 1 \in DOMAIN replies[s]
    BY <2>1, <2>2
  <2> QED BY <2>1, <2>2, <2>3, <2>4
<1>5. /\ replies' \in [Slot -> Seq(Reported)]
      /\ \A t \in Slot : \A m \in DOMAIN replies'[t] : \E h \in DOMAIN replies[t] : replies'[t][m] = replies[t][h]
  BY <1>2, <1>3, <1>4
<1>6. \A t \in Slot : \A m \in DOMAIN replies'[t] :
        replies'[t][m].of # NoJob => replies'[t][m].answer = Verdict[replies'[t][m].of]
  BY <1>1, <1>5, RepliesStill
<1>7. CASE ~OwnReply(s, r)
  <2>1. UNCHANGED <<outcome, queue, job, inbox, timers>>
    BY <1>7 DEF Reply
  <2>2. PoolTypeOK'
    BY <1>1, <1>2, <1>5, <2>1 DEF PoolTypeOK
  <2>3. WorkerInv'
    BY <1>1, <1>2, <1>6, <2>1 DEF WorkerInv, Live, Registered, Primed, InOrder, Told
  <2>4. OnePlace(slots)' /\ OpenInv'
    BY <1>1, <1>2, <2>1 DEF OnePlace, OpenInv, JobsKept, TimedOut, Failed
  <2> QED BY <1>2, <2>1, <2>2, <2>3, <2>4 DEF PoolInv
<1>8. CASE OwnReply(s, r)
  <2> DEFINE holds == [job EXCEPT ![s] = NoJob]
             armed == Clear(s)
             alive == {t \in Slot : Live(t)}
  <2>1. /\ job[s] \in Job /\ r.of = job[s] /\ r.answer = Verdict[job[s]]
    BY <1>1, <1>3, <1>4, <1>8 DEF OwnReply, WorkerInv
  <2>2. outcome' = Settled(job[s], Verdict[job[s]]) /\ Pump(queue, slots, holds, inbox, armed)
    BY <1>8, <2>1 DEF Reply
  <2>3. Verdict[job[s]] \in Outcome \ {"new", "asked"}
    BY <2>1, PoolAssumption DEF Outcome
  <2>4. holds \in [Slot -> Job \cup {NoJob}] /\ armed \in SUBSET (Slot \X Job)
    BY <1>3 DEF Clear
  <2>5. alive \in SUBSET Slot
    OBVIOUS
  <2>6. ~closed => JobsKept(queue, holds, slots, armed, outcome')
    BY <1>1, <1>3, <2>2, <2>3, JobDropped DEF OpenInv
  <2>7. \A t \in Slot : Live(t)' <=> t \in alive
    BY <1>2 DEF Live
  <2>8. /\ \A i \in DOMAIN queue : Registered(KeyOf[queue[i]])
        /\ \A t \in alive : InOrder(inbox[t], known[t])
        /\ \A i \in 1 .. Workers : slots[i] \in alive => Primed(inbox[slots[i]], known[slots[i]])
    BY <1>1 DEF WorkerInv
  <2> HIDE DEF holds, armed, alive
  <2>9. /\ queue' \in Seq(Job) /\ job' \in [Slot -> Job \cup {NoJob}]
        /\ inbox' \in [Slot -> Seq(Message)] /\ timers' \in SUBSET (Slot \X Job)
    BY <1>1, <1>3, <2>2, <2>4, PumpTypes
  <2>10. /\ \A i \in DOMAIN queue' : Registered(KeyOf[queue'[i]])
         /\ \A t \in alive : InOrder(inbox'[t], known[t])
         /\ \A i \in 1 .. Workers : slots[i] \in alive => Primed(inbox'[slots[i]], known[slots[i]])
    BY <1>1, <1>3, <2>2, <2>4, <2>5, <2>8, PumpBoxes
  <2>11. ~closed => JobsKept(queue', job', slots, timers', outcome')
    BY <1>1, <1>3, <2>2, <2>4, <2>6, PumpJobs
  <2>12. /\ outcome' \in [Job -> Outcome]
         /\ \A i \in Job : outcome[i] = "timeout" => outcome'[i] = "timeout"
    BY <1>1, <2>1, <2>2, <2>3, SettledFacts
  <2>13. PoolTypeOK'
    BY <1>1, <1>2, <1>5, <2>9, <2>12 DEF PoolTypeOK
  <2>14. WorkerInv'
    <3>1. (\A i \in DOMAIN queue : Registered(KeyOf[queue[i]]))'
      BY <1>2, <2>10 DEF Registered
    <3>2. (\A i \in 1 .. Workers : Live(slots[i]) => Primed(inbox[slots[i]], known[slots[i]]))'
      <4>1. \A i \in 1 .. Workers : Live(slots[i])' => slots[i] \in alive
        BY <1>2, <1>3, <2>7 DEF Live
      <4>2. \A i \in 1 .. Workers : Live(slots[i])' => Primed(inbox'[slots[i]], known[slots[i]])
        BY <2>10, <4>1
      <4> QED BY <1>2, <4>2 DEF Registered, Primed, Told
    <3>3. (\A t \in Slot : Live(t) => InOrder(inbox[t], known[t]))'
      BY <1>2, <2>7, <2>10 DEF InOrder, Told
    <3> QED BY <1>6, <3>1, <3>2, <3>3 DEF WorkerInv
  <2>15. OpenInv'
    <3>1. TimedOut \subseteq TimedOut' /\ Failed' = Failed
      BY <1>2, <2>12 DEF TimedOut, Failed
    <3>2. /\ IsFiniteSet(TimedOut') /\ Cardinality(TimedOut') \in Nat /\ Cardinality(Failed) \in Nat
          /\ Cardinality(TimedOut) \in Nat
      <4>1. IsFiniteSet(Job)
        BY PoolAssumption, FS_Interval DEF Job
      <4>2. TimedOut' \subseteq Job
        BY DEF TimedOut
      <4> QED BY <4>1, <4>2, CountFacts, FS_Subset, FS_CardinalityType
    <3>3. Cardinality(TimedOut) <= Cardinality(TimedOut')
      BY <3>1, <3>2, FS_Subset
    <3>4. deaths \in Nat /\ spawned \in Nat /\ Workers \in Nat
      BY <1>1, PoolAssumption DEF PoolTypeOK
    <3> HIDE DEF TimedOut, Failed
    <3> QED BY <1>1, <1>2, <2>11, <3>1, <3>2, <3>3, <3>4 DEF OpenInv
  <2>16. OnePlace(slots)'
    BY <1>1, <1>2 DEF OnePlace
  <2>17. (\E i \in Job : Promise!Settle(i)) \/ UNCHANGED <<outcome, closed>>
    BY <1>1, <1>2, <2>1, <2>2, SettlesOne
  <2> QED BY <2>13, <2>14, <2>15, <2>16, <2>17 DEF PoolInv
<1> QED BY <1>7, <1>8

-----------------------------------------------------------------------------
LEMMA PrimingPrimes ==
  ASSUME PoolTypeOK, NEW knows
  PROVE  Priming \in Seq(Message) /\ InOrder(Priming, knows) /\ Primed(Priming, knows)
<1>1. schemas \in Seq(Key) /\ Len(schemas) \in Nat /\ DOMAIN schemas = 1 .. Len(schemas)
  BY DEF PoolTypeOK
<1>2. \A i \in 1 .. Len(schemas) : /\ Priming[i] = Compile(schemas[i]) /\ Priming[i] \in Message
                                   /\ Priming[i].op = "compile"
  BY <1>1, MessageFacts DEF Priming
<1>3. DOMAIN Priming = 1 .. Len(schemas) /\ Priming \in [1 .. Len(schemas) -> Message]
  BY <1>2 DEF Priming
<1>4. Priming \in Seq(Message)
  BY <1>1, <1>3, SeqDef
<1>5. Len(Priming) \in Nat /\ 1 .. Len(Priming) = 1 .. Len(schemas)
  BY <1>3, <1>4, LenProperties
<1> HIDE DEF Priming
<1>6. InOrder(Priming, knows)
  BY <1>2, <1>3 DEF InOrder
<1>7. Primed(Priming, knows)
  <2> SUFFICES ASSUME NEW k \in Key, Registered(k) PROVE Told(Priming, knows, k, Len(Priming))
    BY DEF Primed
  <2> QED BY <1>1, <1>2, <1>5 DEF Registered, Told
<1> QED BY <1>4, <1>6, <1>7

(* What a thread that lives yet compiled is kept. *)
LEMMA KnownKept ==
  ASSUME PoolTypeOK, known' = KnownLeft
  PROVE  /\ known' \in [Slot -> SUBSET Key]
         /\ \A s \in Slot : Live(s)' => known'[s] = known[s]
BY DEF KnownLeft, Live, PoolTypeOK

(* #replace spends a slot only on a job that times out by it or on a worker
   that failed, so that there is always one to put in its place. *)
LEMMA SlotSpent ==
  ASSUME PoolTypeOK, ~closed, NEW s \in Slot,
         spawned <= Workers + Cardinality(TimedOut) + deaths - Cardinality(Failed),
         UNCHANGED deaths,
         TimedOut \subseteq TimedOut', Failed' \subseteq Failed,
         TimedOut' # TimedOut \/ Failed' # Failed,
         IsFiniteSet(TimedOut'), Cardinality(TimedOut') <= Jobs
  PROVE  /\ spawned + 1 <= Workers + Cardinality(TimedOut') + deaths' - Cardinality(Failed')
         /\ spawned + 1 <= MaxSlots
<1>1. /\ IsFiniteSet(TimedOut) /\ Cardinality(TimedOut) \in Nat
      /\ IsFiniteSet(Failed) /\ Cardinality(Failed) \in Nat
  BY CountFacts
<1>2. Cardinality(TimedOut') \in Nat
  BY FS_CardinalityType
<1> HIDE DEF TimedOut, Failed
<1>3. IsFiniteSet(Failed') /\ Cardinality(Failed') \in Nat
  BY <1>1, FS_Subset, FS_CardinalityType
<1>4. Cardinality(TimedOut) <= Cardinality(TimedOut') /\ Cardinality(Failed') <= Cardinality(Failed)
  BY <1>1, FS_Subset
<1>5. Cardinality(TimedOut) # Cardinality(TimedOut') \/ Cardinality(Failed') # Cardinality(Failed)
  BY <1>1, FS_Subset
<1>6. /\ deaths \in Nat /\ deaths <= MaxFailures /\ spawned \in Nat
      /\ Workers \in Nat /\ Jobs \in Nat /\ MaxFailures \in Nat
  BY PoolAssumption DEF PoolTypeOK
<1> QED BY <1>1, <1>2, <1>3, <1>4, <1>5, <1>6 DEF MaxSlots

LEMMA CountKept ==
  ASSUME PoolTypeOK, spawned <= Workers + Cardinality(TimedOut) + deaths - Cardinality(Failed),
         UNCHANGED <<spawned, deaths>>,
         TimedOut \subseteq TimedOut', Failed' \subseteq Failed, IsFiniteSet(TimedOut')
  PROVE  spawned' <= Workers + Cardinality(TimedOut') + deaths' - Cardinality(Failed')
<1>1. /\ IsFiniteSet(TimedOut) /\ Cardinality(TimedOut) \in Nat
      /\ IsFiniteSet(Failed) /\ Cardinality(Failed) \in Nat
  BY CountFacts
<1> HIDE DEF TimedOut, Failed
<1>2. Cardinality(TimedOut') \in Nat /\ Cardinality(Failed') \in Nat
  BY <1>1, FS_Subset, FS_CardinalityType
<1>3. Cardinality(TimedOut) <= Cardinality(TimedOut') /\ Cardinality(Failed') <= Cardinality(Failed)
  BY <1>1, FS_Subset
<1>4. deaths \in Nat /\ spawned \in Nat /\ Workers \in Nat
  BY PoolAssumption DEF PoolTypeOK
<1> QED BY <1>1, <1>2, <1>3, <1>4

LEMMA TimedOutFinite == IsFiniteSet(TimedOut') /\ Cardinality(TimedOut') <= Jobs
<1>1. IsFiniteSet(Job) /\ Cardinality(Job) = Jobs
  BY PoolAssumption, FS_Interval DEF Job
<1>2. TimedOut' \subseteq Job
  BY DEF TimedOut
<1> QED BY <1>1, <1>2, FS_Subset

(* What #replace makes of the workers. *)
LEMMA ReplaceWorkers ==
  ASSUME PoolTypeOK, NEW s \in Slot, NEW why, Replace(s, why)
  PROVE  /\ worker' \in [Slot -> {"unborn", "up", "terminated", "gone", "failed"}]
         /\ \A w \in Slot : Live(w)' => Live(w) \/ (Replaces(s) /\ w = spawned + 1)
         /\ \A w \in Slot : worker'[w] = "failed" => worker[w] = "failed" /\ w # s
<1>1. worker' = [w \in Slot |-> IF Replaces(s) /\ w = spawned + 1 THEN "up"
                               ELSE IF w # s THEN worker[w]
                               ELSE IF worker[w] = "failed" THEN "gone" ELSE Terminated(w)]
  BY DEF Replace
<1>2. worker \in [Slot -> {"unborn", "up", "terminated", "gone", "failed"}]
  BY DEF PoolTypeOK
<1>3. worker[s] # "failed" =>
        /\ Terminated(s) \in {"unborn", "terminated", "gone"}
        /\ Terminated(s) = "terminated" => Live(s)
  BY <1>2 DEF Terminated, Live
<1>4. \A w \in Slot : \/ worker'[w] = "up" /\ Replaces(s) /\ w = spawned + 1
                      \/ worker'[w] = worker[w] /\ w # s
                      \/ worker'[w] = "gone" /\ w = s
                      \/ worker'[w] = Terminated(s) /\ w = s /\ worker[s] # "failed"
  BY <1>1
<1>5. ASSUME NEW w \in Slot
      PROVE  /\ worker'[w] \in {"unborn", "up", "terminated", "gone", "failed"}
             /\ Live(w)' => Live(w) \/ (Replaces(s) /\ w = spawned + 1)
             /\ worker'[w] = "failed" => worker[w] = "failed" /\ w # s
  <2>1. CASE worker'[w] = "up" /\ Replaces(s) /\ w = spawned + 1
    BY <2>1
  <2>2. CASE worker'[w] = worker[w] /\ w # s
    BY <1>2, <2>2 DEF Live
  <2>3. CASE worker'[w] = "gone"
    BY <2>3 DEF Live
  <2>4. CASE worker'[w] = Terminated(s) /\ w = s /\ worker[s] # "failed"
    BY <1>3, <2>4 DEF Live
  <2> QED BY <1>4, <2>1, <2>2, <2>3, <2>4
<1> QED BY <1>1, <1>5

LEMMA ReplaceStep ==
  ASSUME PoolInv, NEW s \in Slot, NEW why \in {"timeout", "failed"}, Replace(s, why),
         ~closed => (why = "timeout" /\ job[s] \in Job) \/ worker[s] = "failed"
  PROVE  PoolInv' /\ ((\E i \in Job : Promise!Settle(i)) \/ UNCHANGED <<outcome, closed>>)
<1>1. PoolTypeOK /\ WorkerInv /\ OnePlace(slots) /\ OpenInv
  BY DEF PoolInv
<1> DEFINE fresh == spawned + 1
           inPlace == [i \in DOMAIN slots |-> IF Replaces(s) /\ slots[i] = s THEN fresh ELSE slots[i]]
           holds == [job EXCEPT ![s] = NoJob]
           boxes == IF Replaces(s) THEN [inbox EXCEPT ![fresh] = Priming] ELSE inbox
           armed == Clear(s)
           alive == {w \in Slot : Live(w)'}
<1>2. /\ slots' = inPlace /\ spawned' = (IF Replaces(s) THEN fresh ELSE spawned)
      /\ outcome' = Settled(job[s], why) /\ Pump(queue, inPlace, holds, boxes, armed)
      /\ known' = KnownLeft /\ UNCHANGED <<schemas, closed, deaths>>
      /\ \E late \in Late(s) : replies' = [replies EXCEPT ![s] = late]
  BY DEF Replace
<1>3. /\ slots \in [1 .. Workers -> 1 .. spawned] /\ slots \in [1 .. Workers -> Slot]
      /\ spawned \in Nat /\ spawned <= MaxSlots
      /\ job \in [Slot -> Job \cup {NoJob}] /\ job[s] \in Job \cup {NoJob}
      /\ inbox \in [Slot -> Seq(Message)] /\ timers \in SUBSET (Slot \X Job) /\ queue \in Seq(Job)
      /\ known \in [Slot -> SUBSET Key] /\ outcome \in [Job -> Outcome]
      /\ replies \in [Slot -> Seq(Reported)] /\ NoJob \notin Job
  BY <1>1, PlacesAreSlots, PoolAssumption DEF PoolTypeOK
<1>4. why \in Outcome \ {"new", "asked"}
  BY DEF Outcome
<1>5. /\ outcome' \in [Job -> Outcome]
      /\ job[s] \in Job /\ outcome[job[s]] = "asked" => outcome'[job[s]] = why
      /\ \A i \in Job : outcome[i] = "timeout" => outcome'[i] = "timeout"
  BY <1>1, <1>2, <1>3, <1>4, SettledFacts
<1>6. /\ worker' \in [Slot -> {"unborn", "up", "terminated", "gone", "failed"}]
      /\ \A w \in Slot : Live(w)' => Live(w) \/ (Replaces(s) /\ w = fresh)
      /\ \A w \in Slot : worker'[w] = "failed" => worker[w] = "failed" /\ w # s
  BY <1>1, ReplaceWorkers
<1>7. TimedOut \subseteq TimedOut' /\ Failed' \subseteq Failed
  BY <1>5, <1>6 DEF TimedOut, Failed
<1>8. ASSUME ~closed
      PROVE  /\ spawned' <= Workers + Cardinality(TimedOut') + deaths' - Cardinality(Failed')
             /\ spawned' <= MaxSlots
  <2>1. TimedOut' # TimedOut \/ Failed' # Failed
    <3>1. CASE why = "timeout" /\ job[s] \in Job
      <4>1. outcome[job[s]] = "asked"
        BY <1>1, <1>3, <1>8, <3>1 DEF OpenInv, JobsKept
      <4>2. job[s] \in TimedOut' /\ job[s] \notin TimedOut
        BY <1>5, <3>1, <4>1 DEF TimedOut
      <4> QED BY <4>2
    <3>2. CASE worker[s] = "failed"
      BY <1>6, <3>2 DEF Failed
    <3> QED BY <1>8, <3>1, <3>2
  <2>2. spawned <= Workers + Cardinality(TimedOut) + deaths - Cardinality(Failed)
    BY <1>1, <1>8 DEF OpenInv
  <2>3. CASE Replaces(s)
    BY <1>1, <1>2, <1>7, <1>8, <2>1, <2>2, <2>3, SlotSpent, TimedOutFinite
  <2>4. CASE ~Replaces(s)
    BY <1>1, <1>2, <1>3, <1>7, <2>2, <2>4, CountKept, TimedOutFinite
  <2> QED BY <2>3, <2>4
<1>9. /\ spawned' \in Nat /\ spawned' <= MaxSlots /\ spawned <= spawned'
      /\ Replaces(s) => fresh \in Slot /\ fresh \in 1 .. spawned'
  BY <1>2, <1>3, <1>8 DEF Replaces, Slot
<1>10. /\ inPlace \in [1 .. Workers -> 1 .. spawned'] /\ inPlace \in [1 .. Workers -> Slot]
       /\ OnePlace(inPlace) /\ \A i \in 1 .. Workers : inPlace[i] = slots[i] \/ slots[i] = s
  <2>1. DOMAIN slots = 1 .. Workers /\ \A i \in 1 .. Workers : slots[i] \in 1 .. spawned
    BY <1>3
  <2>2. \A i \in 1 .. Workers : slots[i] # fresh /\ slots[i] \in 1 .. spawned' /\ slots[i] \in Slot
    <3> TAKE i \in 1 .. Workers
    <3>1. slots[i] \in Slot
      BY <1>3
    <3>2. PICK p \in 1 .. spawned : p = slots[i]
      BY <2>1
    <3>3. spawned \in Nat /\ spawned' \in Nat /\ spawned <= spawned'
      BY <1>3, <1>9
    <3>4. p # fresh /\ p \in 1 .. spawned'
      BY <3>3
    <3> QED BY <3>1, <3>2, <3>4
  <2>3. \A i \in 1 .. Workers : inPlace[i] = IF Replaces(s) /\ slots[i] = s THEN fresh ELSE slots[i]
    BY <2>1
  <2>4. OnePlace(inPlace)
    BY <1>1, <2>2, <2>3 DEF OnePlace
  <2> QED BY <1>9, <2>1, <2>2, <2>3, <2>4
<1>11. /\ holds \in [Slot -> Job \cup {NoJob}] /\ armed \in SUBSET (Slot \X Job)
  BY <1>3 DEF Clear
<1>12. /\ boxes \in [Slot -> Seq(Message)]
       /\ Replaces(s) => boxes[fresh] = Priming
       /\ \A w \in Slot : ~(Replaces(s) /\ w = fresh) => boxes[w] = inbox[w]
  BY <1>1, <1>3, <1>9, PrimingPrimes
<1>13. /\ known' \in [Slot -> SUBSET Key]
       /\ \A w \in Slot : Live(w)' => known'[w] = known[w]
  BY <1>1, <1>2, KnownKept
<1>14. alive \in SUBSET Slot
  OBVIOUS
<1>15. \A w \in alive : InOrder(boxes[w], known'[w])
  <2> TAKE w \in alive
  <2>1. CASE Replaces(s) /\ w = fresh
    BY <1>1, <1>12, <2>1, PrimingPrimes
  <2>2. CASE ~(Replaces(s) /\ w = fresh)
    BY <1>1, <1>6, <1>12, <1>13, <2>2 DEF WorkerInv
  <2> QED BY <2>1, <2>2
<1>16. \A i \in 1 .. Workers : inPlace[i] \in alive => Primed(boxes[inPlace[i]], known'[inPlace[i]])
  <2> TAKE i \in 1 .. Workers
  <2> HAVE inPlace[i] \in alive
  <2>1. CASE Replaces(s) /\ inPlace[i] = fresh
    BY <1>1, <1>12, <2>1, PrimingPrimes
  <2>2. CASE ~(Replaces(s) /\ inPlace[i] = fresh)
    <3>1. inPlace[i] = slots[i]
      BY <1>3, <2>2
    <3> QED BY <1>1, <1>3, <1>6, <1>12, <1>13, <2>2, <3>1 DEF WorkerInv
  <2> QED BY <2>1, <2>2
<1>17. ~closed => JobsKept(queue, holds, inPlace, armed, outcome')
  BY <1>1, <1>2, <1>4, <1>10, JobDropped DEF OpenInv
<1>18. \A i \in DOMAIN queue : Registered(KeyOf[queue[i]])
  BY <1>1 DEF WorkerInv
<1>19. \A w \in Slot : Live(w)' <=> w \in alive
  OBVIOUS
<1>20. /\ replies' \in [Slot -> Seq(Reported)]
       /\ \A t \in Slot : \A m \in DOMAIN replies'[t] : \E h \in DOMAIN replies[t] : replies'[t][m] = replies[t][h]
  <2>1. PICK late \in Late(s) : replies' = [replies EXCEPT ![s] = late]
    BY <1>2
  <2>2. late = <<>> \/ \E i \in DOMAIN replies[s] : late = <<replies[s][i]>>
    BY <2>1 DEF Late
  <2>3. late \in Seq(Reported) /\ \A m \in DOMAIN late : \E h \in DOMAIN replies[s] : late[m] = replies[s][h]
    <3>1. CASE late = <<>>
      BY <3>1
    <3>2. CASE \E i \in DOMAIN replies[s] : late = <<replies[s][i]>>
      <4>1. PICK i \in DOMAIN replies[s] : late = <<replies[s][i]>>
        BY <3>2
      <4>2. replies[s] \in Seq(Reported) /\ replies[s][i] \in Reported
        BY <1>3
      <4>3. late \in Seq(Reported) /\ DOMAIN late = {1} /\ late[1] = replies[s][i]
        BY <4>1, <4>2
      <4> QED BY <4>3
    <3> QED BY <2>2, <3>1, <3>2
  <2> QED BY <1>3, <2>1, <2>3
<1>21. \A t \in Slot : \A m \in DOMAIN replies'[t] :
         replies'[t][m].of # NoJob => replies'[t][m].answer = Verdict[replies'[t][m].of]
  BY <1>1, <1>20, RepliesStill
<1> HIDE DEF fresh, inPlace, holds, boxes, armed, alive
<1>22. /\ queue' \in Seq(Job) /\ job' \in [Slot -> Job \cup {NoJob}]
       /\ inbox' \in [Slot -> Seq(Message)] /\ timers' \in SUBSET (Slot \X Job)
  BY <1>2, <1>3, <1>10, <1>11, <1>12, PumpTypes
<1>23. /\ \A i \in DOMAIN queue' : Registered(KeyOf[queue'[i]])
       /\ \A t \in alive : InOrder(inbox'[t], known'[t])
       /\ \A i \in 1 .. Workers : inPlace[i] \in alive => Primed(inbox'[inPlace[i]], known'[inPlace[i]])
  <2>1. /\ queue \in Seq(Job) /\ inPlace \in [1 .. Workers -> Slot] /\ OnePlace(inPlace)
        /\ holds \in [Slot -> Job \cup {NoJob}] /\ boxes \in [Slot -> Seq(Message)]
        /\ armed \in SUBSET (Slot \X Job) /\ Pump(queue, inPlace, holds, boxes, armed)
        /\ known' \in [Slot -> SUBSET Key]
    BY <1>2, <1>3, <1>10, <1>11, <1>12, <1>13
  <2> QED BY <1>14, <1>15, <1>16, <1>18, <2>1, PumpBoxes
<1>24. ~closed => JobsKept(queue', job', inPlace, timers', outcome')
  BY <1>2, <1>3, <1>10, <1>11, <1>12, <1>17, PumpJobs
<1>25. PoolTypeOK'
  BY <1>1, <1>2, <1>5, <1>6, <1>9, <1>10, <1>13, <1>20, <1>22 DEF PoolTypeOK
<1>26. WorkerInv'
  <2>1. (\A i \in DOMAIN queue : Registered(KeyOf[queue[i]]))'
    BY <1>2, <1>23 DEF Registered
  <2>2. (\A i \in 1 .. Workers : Live(slots[i]) => Primed(inbox[slots[i]], known[slots[i]]))'
    <3>1. \A i \in 1 .. Workers : Live(slots[i])' => inPlace[i] \in alive
      BY <1>2, <1>10, <1>19 DEF Live
    <3>2. \A i \in 1 .. Workers : Live(slots[i])' => Primed(inbox'[inPlace[i]], known'[inPlace[i]])
      BY <1>23, <3>1
    <3> QED BY <1>2, <3>2 DEF Registered, Primed, Told
  <2>3. (\A t \in Slot : Live(t) => InOrder(inbox[t], known[t]))'
    BY <1>19, <1>23 DEF InOrder, Told
  <2> QED BY <1>21, <2>1, <2>2, <2>3 DEF WorkerInv
<1>27. OpenInv'
  BY <1>2, <1>8, <1>24 DEF OpenInv
<1>28. OnePlace(slots)'
  BY <1>2, <1>10 DEF OnePlace
<1>29. (\E i \in Job : Promise!Settle(i)) \/ UNCHANGED <<outcome, closed>>
  BY <1>1, <1>2, <1>3, SettlesOne
<1> QED BY <1>25, <1>26, <1>27, <1>28, <1>29 DEF PoolInv

LEMMA TimerFiresStep ==
  ASSUME PoolInv, NEW s \in Slot, TimerFires(s)
  PROVE  PoolInv' /\ ((\E i \in Job : Promise!Settle(i)) \/ UNCHANGED <<outcome, closed>>)
<1>1. PICK j \in Job : <<s, j>> \in timers
  BY DEF TimerFires
<1>2. ~closed => job[s] \in Job
  BY <1>1 DEF PoolInv, OpenInv, JobsKept
<1> QED BY <1>2, ReplaceStep DEF TimerFires

LEMMA ErrorEventStep ==
  ASSUME PoolInv, NEW s \in Slot, ErrorEvent(s)
  PROVE  PoolInv' /\ ((\E i \in Job : Promise!Settle(i)) \/ UNCHANGED <<outcome, closed>>)
BY ReplaceStep DEF ErrorEvent

LEMMA CloseStep ==
  ASSUME PoolInv, Close
  PROVE  PoolInv' /\ Promise!CloseAll
<1>1. PoolTypeOK /\ WorkerInv /\ OnePlace(slots) /\ OpenInv
  BY DEF PoolInv
<1>2. /\ ~closed /\ closed' = TRUE /\ queue' = <<>>
      /\ outcome' = [j \in Job |-> IF j \in Rejected THEN Settled(j, "closed")[j] ELSE outcome[j]]
      /\ timers' \subseteq timers
      /\ worker' = [s \in Slot |-> IF Contains(slots, s) THEN Terminated(s) ELSE worker[s]]
      /\ known' = KnownLeft
      /\ UNCHANGED <<slots, spawned, job, schemas, inbox, replies, deaths>>
  BY DEF Close
<1>3. /\ outcome \in [Job -> Outcome] /\ slots \in [1 .. Workers -> Slot] /\ queue \in Seq(Job)
      /\ worker \in [Slot -> {"unborn", "up", "terminated", "gone", "failed"}] /\ NoJob \notin Job
  BY <1>1, PlacesAreSlots, PoolAssumption DEF PoolTypeOK
<1>4. \A j \in Job : outcome'[j] = IF outcome[j] = "asked" THEN "closed" ELSE outcome[j]
  <2> TAKE j \in Job
  <2>1. outcome[j] = "asked" => j \in Rejected
    <3>1. JobsKept(queue, job, slots, timers, outcome)
      BY <1>1, <1>2 DEF OpenInv
    <3>2. outcome[j] = "asked" =>
            (\E i \in DOMAIN queue : queue[i] = j) \/ \E i \in 1 .. Workers : job[slots[i]] = j
      BY <3>1 DEF JobsKept
    <3>3. DOMAIN slots = 1 .. Workers
      BY <1>3
    <3> QED BY <3>2, <3>3 DEF Rejected
  <2>2. Settled(j, "closed")[j] = IF outcome[j] = "asked" THEN "closed" ELSE outcome[j]
    BY <1>3 DEF Settled
  <2> QED BY <1>2, <2>1, <2>2
<1>5. outcome' = [j \in Job |-> IF outcome[j] = "asked" THEN "closed" ELSE outcome[j]]
  BY <1>2, <1>4
<1>6. \A s \in Slot : /\ worker'[s] \in {"unborn", "up", "terminated", "gone", "failed"}
                      /\ Live(s)' => Live(s)
  BY <1>2, <1>3 DEF Terminated, Live
<1>7. /\ known' \in [Slot -> SUBSET Key]
      /\ \A s \in Slot : Live(s)' => known'[s] = known[s]
  BY <1>1, <1>2, KnownKept
<1>8. PoolTypeOK'
  <2>1. queue' \in Seq(Job)
    BY <1>2, EmptySeq
  <2>2. outcome' \in [Job -> Outcome]
    BY <1>3, <1>5 DEF Outcome
  <2>3. worker' \in [Slot -> {"unborn", "up", "terminated", "gone", "failed"}]
    BY <1>2, <1>6
  <2> QED BY <1>1, <1>2, <1>7, <2>1, <2>2, <2>3 DEF PoolTypeOK
<1>9. WorkerInv'
  <2>1. (\A i \in DOMAIN queue : Registered(KeyOf[queue[i]]))'
    BY <1>2
  <2>2. (\A i \in 1 .. Workers : Live(slots[i]) => Primed(inbox[slots[i]], known[slots[i]]))'
    <3>1. \A i \in 1 .. Workers : Live(slots[i])' =>
            Primed(inbox[slots[i]], known[slots[i]]) /\ known'[slots[i]] = known[slots[i]]
      BY <1>1, <1>2, <1>3, <1>6, <1>7 DEF WorkerInv, Live
    <3> QED BY <1>2, <3>1 DEF Registered, Primed, Told
  <2>3. (\A t \in Slot : Live(t) => InOrder(inbox[t], known[t]))'
    <3>1. \A t \in Slot : Live(t)' => InOrder(inbox[t], known[t]) /\ known'[t] = known[t]
      BY <1>1, <1>6, <1>7 DEF WorkerInv
    <3> QED BY <1>2, <3>1 DEF InOrder, Told
  <2> QED BY <1>1, <1>2, <2>1, <2>2, <2>3 DEF WorkerInv
<1>10. OnePlace(slots)' /\ OpenInv'
  BY <1>1, <1>2 DEF OnePlace, OpenInv
<1> QED BY <1>2, <1>5, <1>8, <1>9, <1>10 DEF PoolInv, Promise!CloseAll

LEMMA WorkerDiesStep ==
  ASSUME PoolInv, NEW s \in Slot, WorkerDies(s)
  PROVE  PoolInv' /\ UNCHANGED <<outcome, closed>>
<1>1. PoolTypeOK /\ WorkerInv /\ OnePlace(slots) /\ OpenInv
  BY DEF PoolInv
<1>2. /\ Live(s) /\ deaths < MaxFailures /\ deaths' = deaths + 1
      /\ worker' = [worker EXCEPT ![s] = "failed"] /\ inbox' = [inbox EXCEPT ![s] = <<>>]
      /\ known' = KnownLeft
      /\ UNCHANGED <<outcome, queue, slots, spawned, job, timers, schemas, closed, replies>>
  BY DEF WorkerDies, Live, poolVars
<1>3. /\ worker \in [Slot -> {"unborn", "up", "terminated", "gone", "failed"}]
      /\ inbox \in [Slot -> Seq(Message)] /\ slots \in [1 .. Workers -> Slot]
      /\ deaths \in Nat /\ MaxFailures \in Nat
  BY <1>1, PlacesAreSlots, PoolAssumption DEF PoolTypeOK
<1>4. /\ known' \in [Slot -> SUBSET Key]
      /\ \A t \in Slot : Live(t)' => known'[t] = known[t]
  BY <1>1, <1>2, KnownKept
<1>5. \A t \in Slot : Live(t)' => Live(t) /\ inbox'[t] = inbox[t]
  BY <1>2, <1>3 DEF Live
<1>6. PoolTypeOK'
  <2>1. /\ inbox' \in [Slot -> Seq(Message)]
        /\ worker' \in [Slot -> {"unborn", "up", "terminated", "gone", "failed"}]
    BY <1>2, <1>3, EmptySeq
  <2>2. deaths' \in 0 .. MaxFailures
    BY <1>2, <1>3
  <2> QED BY <1>1, <1>2, <1>4, <2>1, <2>2 DEF PoolTypeOK
<1>7. WorkerInv'
  <2>1. (\A i \in DOMAIN queue : Registered(KeyOf[queue[i]]))'
    BY <1>1, <1>2 DEF WorkerInv, Registered
  <2>2. (\A i \in 1 .. Workers : Live(slots[i]) => Primed(inbox[slots[i]], known[slots[i]]))'
    <3>1. \A i \in 1 .. Workers : Live(slots[i])' =>
            /\ Primed(inbox[slots[i]], known[slots[i]]) /\ known'[slots[i]] = known[slots[i]]
            /\ inbox'[slots[i]] = inbox[slots[i]]
      BY <1>1, <1>2, <1>3, <1>4, <1>5 DEF WorkerInv, Live
    <3> QED BY <1>2, <3>1 DEF Registered, Primed, Told
  <2>3. (\A t \in Slot : Live(t) => InOrder(inbox[t], known[t]))'
    <3>1. \A t \in Slot : Live(t)' => /\ InOrder(inbox[t], known[t]) /\ known'[t] = known[t]
                                      /\ inbox'[t] = inbox[t]
      BY <1>1, <1>4, <1>5 DEF WorkerInv
    <3> QED BY <1>2, <3>1 DEF InOrder, Told
  <2> QED BY <1>1, <1>2, <2>1, <2>2, <2>3 DEF WorkerInv
<1>8. OpenInv'
  <2>1. TimedOut' = TimedOut
    BY <1>2 DEF TimedOut
  <2>2. Failed' = Failed \cup {s} /\ s \notin Failed
    BY <1>2, <1>3 DEF Failed, Live
  <2>3. /\ Cardinality(Failed') = Cardinality(Failed) + 1 /\ Cardinality(Failed) \in Nat
        /\ Cardinality(TimedOut) \in Nat
    BY <2>2, CountFacts, FS_AddElement
  <2>4. spawned \in Nat /\ Workers \in Nat
    BY <1>1, PoolAssumption DEF PoolTypeOK
  <2> HIDE DEF TimedOut, Failed
  <2> QED BY <1>1, <1>2, <1>3, <2>1, <2>3, <2>4 DEF OpenInv, JobsKept
<1>9. OnePlace(slots)'
  BY <1>1, <1>2 DEF OnePlace
<1> QED BY <1>2, <1>6, <1>7, <1>8, <1>9 DEF PoolInv

LEMMA WorkerStepStep ==
  ASSUME PoolInv, NEW s \in Slot, WorkerStep(s)
  PROVE  PoolInv' /\ UNCHANGED <<outcome, closed>>
<1>1. PoolTypeOK /\ WorkerInv /\ OnePlace(slots) /\ OpenInv
  BY DEF PoolInv
<1> DEFINE m == Head(inbox[s])
           knows == Learnt(known[s], m)
<1>2. /\ Live(s) /\ inbox[s] # <<>> /\ inbox' = [inbox EXCEPT ![s] = Tail(inbox[s])]
      /\ UNCHANGED <<outcome, queue, slots, spawned, job, timers, schemas, closed, worker, deaths>>
  BY DEF WorkerStep, Live, poolVars
<1>3. /\ inbox \in [Slot -> Seq(Message)] /\ known \in [Slot -> SUBSET Key]
      /\ slots \in [1 .. Workers -> Slot] /\ replies \in [Slot -> Seq(Reported)]
      /\ Verdict \in [Job -> {"valid", "invalid"}] /\ NoJob \notin Job
  BY <1>1, PlacesAreSlots, PoolAssumption DEF PoolTypeOK
<1>4. InOrder(inbox[s], known[s])
  BY <1>1, <1>2 DEF WorkerInv
<1>5. /\ m \in Message /\ Tail(inbox[s]) \in Seq(Message) /\ knows \in SUBSET Key
      /\ InOrder(Tail(inbox[s]), knows)
      /\ \A k : Told(inbox[s], known[s], k, Len(inbox[s])) => Told(Tail(inbox[s]), knows, k, Len(Tail(inbox[s])))
      /\ m.op = "validate" => KeyOf[m.of] \in known[s]
  <2>1. inbox[s] \in Seq(Message) /\ known[s] \in SUBSET Key
    BY <1>3
  <2> QED BY <1>2, <1>4, <2>1, MessageRead
<1>6. \/ m.op = "compile" /\ m.of \in Key
      \/ m.op = "validate" /\ m.of \in Job
  BY <1>5, MessageFacts
<1>7. known' = [known EXCEPT ![s] = knows]
  <2>1. CASE m.op = "compile"
    BY <2>1 DEF WorkerStep, Learnt
  <2>2. CASE m.op = "validate"
    BY <1>3, <2>2 DEF WorkerStep, Learnt
  <2> QED BY <1>6, <2>1, <2>2
<1>8. \E r \in Reported : /\ r.of # NoJob => r.answer = Verdict[r.of]
                          /\ replies' = replies \/ replies' = [replies EXCEPT ![s] = Append(replies[s], r)]
  <2>1. CASE m.op = "compile"
    <3>1. Ack \in Reported /\ Ack.of = NoJob
      BY DEF Ack, Reported
    <3>2. replies' = replies \/ replies' = [replies EXCEPT ![s] = Append(replies[s], Ack)]
      BY <2>1 DEF WorkerStep
    <3> QED BY <3>1, <3>2
  <2>2. CASE m.op = "validate"
    <3> DEFINE r == [of |-> m.of, answer |-> Verdict[m.of]]
    <3>1. m.of \in Job /\ WorkerAnswer(s, m.of) = Verdict[m.of] /\ Verdict[m.of] \in {"valid", "invalid"}
      BY <1>3, <1>5, <1>6, <2>2 DEF WorkerAnswer
    <3>2. replies' = [replies EXCEPT ![s] = Append(replies[s], r)]
      BY <2>2, <3>1 DEF WorkerStep
    <3>3. r \in Reported /\ r.answer = Verdict[r.of]
      BY <3>1 DEF Reported
    <3> QED BY <3>2, <3>3
  <2> QED BY <1>6, <2>1, <2>2
<1>9. /\ replies' \in [Slot -> Seq(Reported)]
      /\ \A t \in Slot : \A h \in DOMAIN replies'[t] :
           replies'[t][h].of # NoJob => replies'[t][h].answer = Verdict[replies'[t][h].of]
  <2>1. PICK r \in Reported : /\ r.of # NoJob => r.answer = Verdict[r.of]
                              /\ replies' = replies \/ replies' = [replies EXCEPT ![s] = Append(replies[s], r)]
    BY <1>8
  <2>2. CASE replies' = replies
    BY <1>1, <1>3, <2>2 DEF WorkerInv
  <2>3. CASE replies' = [replies EXCEPT ![s] = Append(replies[s], r)]
    <3>1. /\ Append(replies[s], r) \in Seq(Reported)
          /\ \A h \in DOMAIN Append(replies[s], r) :
               \/ Append(replies[s], r)[h] = r
               \/ \E g \in DOMAIN replies[s] : Append(replies[s], r)[h] = replies[s][g]
      BY <1>3, AppendProperties
    <3>2. replies' \in [Slot -> Seq(Reported)]
      BY <1>3, <2>3, <3>1
    <3>3. ASSUME NEW t \in Slot, NEW h \in DOMAIN replies'[t]
          PROVE  replies'[t][h].of # NoJob => replies'[t][h].answer = Verdict[replies'[t][h].of]
      <4>1. CASE t = s
        <5>1. replies'[t][h] = r \/ \E g \in DOMAIN replies[t] : replies'[t][h] = replies[t][g]
          BY <1>3, <2>3, <3>1, <3>3, <4>1
        <5> QED BY <1>1, <2>1, <5>1 DEF WorkerInv
      <4>2. CASE t # s
        BY <1>1, <1>3, <2>3, <3>3, <4>2 DEF WorkerInv
      <4> QED BY <4>1, <4>2
    <3> QED BY <3>2, <3>3
  <2> QED BY <2>1, <2>2, <2>3
<1> HIDE DEF m, knows
<1>10. PoolTypeOK'
  <2>1. inbox' \in [Slot -> Seq(Message)] /\ known' \in [Slot -> SUBSET Key]
    BY <1>2, <1>3, <1>5, <1>7
  <2> QED BY <1>1, <1>2, <1>9, <2>1 DEF PoolTypeOK
<1>11. \A t \in Slot : Live(t) =>
         /\ InOrder(inbox'[t], known'[t])
         /\ \A k : Told(inbox[t], known[t], k, Len(inbox[t])) => Told(inbox'[t], known'[t], k, Len(inbox'[t]))
  <2> TAKE t \in Slot
  <2>1. CASE t = s
    BY <1>2, <1>3, <1>5, <1>7, <2>1
  <2>2. CASE t # s
    BY <1>1, <1>2, <1>3, <1>7, <2>2 DEF WorkerInv
  <2> QED BY <2>1, <2>2
<1>12. WorkerInv'
  <2>1. (\A i \in DOMAIN queue : Registered(KeyOf[queue[i]]))'
    BY <1>1, <1>2 DEF WorkerInv, Registered
  <2>2. (\A i \in 1 .. Workers : Live(slots[i]) => Primed(inbox[slots[i]], known[slots[i]]))'
    <3>1. \A i \in 1 .. Workers : Live(slots[i])' => Primed(inbox'[slots[i]], known'[slots[i]])
      BY <1>1, <1>2, <1>3, <1>11 DEF WorkerInv, Live, Primed
    <3> QED BY <1>2, <3>1 DEF Registered, Primed, Told
  <2>3. (\A t \in Slot : Live(t) => InOrder(inbox[t], known[t]))'
    <3>1. \A t \in Slot : Live(t)' => InOrder(inbox'[t], known'[t])
      BY <1>2, <1>11 DEF Live
    <3> QED BY <1>2, <3>1 DEF InOrder, Told
  <2> QED BY <1>9, <2>1, <2>2, <2>3 DEF WorkerInv
<1>13. OpenInv' /\ OnePlace(slots)'
  BY <1>1, <1>2 DEF OpenInv, OnePlace, JobsKept, TimedOut, Failed
<1> QED BY <1>2, <1>10, <1>12, <1>13 DEF PoolInv

-----------------------------------------------------------------------------
LEMMA PoolStep ==
  PoolInv /\ [PoolNext]_vars => PoolInv' /\ [Promise!IdealNext]_<<outcome, closed>>
<1> SUFFICES ASSUME PoolInv, [PoolNext]_vars PROVE PoolInv' /\ [Promise!IdealNext]_<<outcome, closed>>
  OBVIOUS
<1>1. ASSUME NEW k \in Key, Register(k) PROVE PoolInv' /\ UNCHANGED <<outcome, closed>>
  BY <1>1, RegisterStep
<1>2. ASSUME NEW j \in Job, Run(j) \/ RunClosed(j) PROVE PoolInv' /\ Promise!IdealNext
  BY <1>2, RunStep, RunClosedStep DEF Promise!IdealNext
<1>3. ASSUME NEW s \in Slot, Reply(s) \/ TimerFires(s) \/ ErrorEvent(s)
      PROVE  PoolInv' /\ (Promise!IdealNext \/ UNCHANGED <<outcome, closed>>)
  BY <1>3, ReplyStep, TimerFiresStep, ErrorEventStep DEF Promise!IdealNext
<1>4. ASSUME NEW s \in Slot, WorkerStep(s) \/ WorkerDies(s) PROVE PoolInv' /\ UNCHANGED <<outcome, closed>>
  BY <1>4, WorkerStepStep, WorkerDiesStep
<1>5. CASE Close
  BY <1>5, CloseStep DEF Promise!IdealNext
<1>6. CASE UNCHANGED vars
  <2> USE <1>6 DEF vars, poolVars, workerVars
  <2>2. PoolTypeOK' /\ OnePlace(slots)'
    BY DEF PoolInv, PoolTypeOK, OnePlace
  <2>3. WorkerInv'
    BY DEF PoolInv, WorkerInv, Live, Registered, Primed, InOrder, Told
  <2>4. OpenInv'
    BY DEF PoolInv, OpenInv, JobsKept, TimedOut, Failed
  <2>1. PoolInv'
    BY <2>2, <2>3, <2>4 DEF PoolInv
  <2> QED BY <1>6, <2>1 DEF vars, poolVars
<1> QED BY <1>1, <1>2, <1>3, <1>4, <1>5, <1>6 DEF PoolNext

(* A validation is never answered by another's verdict, none asked for is lost
   before the close, and there is always a slot to replace one by. *)
THEOREM PoolInvHolds == PoolSpec => []PoolInv
<1>1. PoolInv /\ [PoolNext]_vars => PoolInv'
  BY PoolStep
<1> QED BY <1>1, InitPool, PTL DEF PoolSpec

(* Whatever order replies, deaths, deadlines, registrations and the close come
   in, each validation settles once, to its own verdict, a timeout, a failure or
   the close, and the close leaves none open: for any number of jobs, schemas
   and workers (schema-pool.ts). *)
THEOREM ValidationsSettleAsPromised == PoolSpec => SettlesAsPromised
<1>1. PoolInit => Promise!IdealInit
  BY DEF PoolInit, Promise!IdealInit
<1>2. [Promise!IdealNext]_<<outcome, closed>> => [Promise!IdealNext]_Promise!idealVars
  BY DEF Promise!idealVars
<1>3. PoolInv /\ [PoolNext]_vars => [Promise!IdealNext]_Promise!idealVars
  BY <1>2, PoolStep
<1> QED BY <1>1, <1>3, PoolInvHolds, PTL DEF PoolSpec, SettlesAsPromised, Promise!IdealSpec

=============================================================================
