----------------------------- MODULE ValidationPool -----------------------------
(***************************************************************************)
(* The validation pool: packages/core/src/transport/schema-pool.ts and its *)
(* worker, schema-worker.ts.                                               *)
(*                                                                         *)
(* A tool's arguments are validated in worker threads, each behind a slot  *)
(* that holds at most one job and one timer.  A job that overruns its      *)
(* timer, or whose worker dies, is rejected and the slot is replaced by    *)
(* one with a fresh worker, told every schema again.  The old worker's     *)
(* replies may still arrive: #settle knows them by the job's id.           *)
(*                                                                         *)
(* A slot is an object with an identity: slots[i] names the one in place   *)
(* i, and a replaced slot stays in the table, since its worker, its timer  *)
(* and its listeners may still act.  Every callback is one step, as on the *)
(* event loop; a worker's step on one message is one step beside it.       *)
(***************************************************************************)
EXTENDS Naturals, FiniteSets, Sequences, SequencesExt

CONSTANTS
  Jobs,          \* the validations asked for, whose ids are 1, 2, ...
  Key,           \* schema keys
  KeyOf,         \* [Job -> Key]
  Verdict,       \* [Job -> {"valid", "invalid"}]: the schema's own verdict
  Workers,       \* options.workers
  MaxFailures,   \* bound on workers that die, for TLC
  NoJob

Job == 1 .. Jobs

ASSUME PoolAssumption ==
  /\ Jobs \in Nat
  /\ KeyOf \in [Job -> Key] /\ Verdict \in [Job -> {"valid", "invalid"}]
  /\ Workers \in Nat \ {0} /\ MaxFailures \in Nat
  /\ NoJob \notin Job /\ NoJob \notin Key

(* A slot is replaced for a job that is rejected by it, or a worker that died. *)
MaxSlots == Workers + Jobs + MaxFailures
Slot == 1 .. MaxSlots

VARIABLES
  outcome,   \* per job: not asked, asked, or what its promise settled to
  queue,    \* #queue
  slots,    \* #slots: the slot in each place
  spawned,  \* slots made so far
  job,      \* per slot, its job
  timers,   \* the timers armed: <<slot, job>>
  schemas,  \* #schemas, in the order of registration
  closed,   \* #closed
  worker,   \* per slot, its thread: unborn, up, terminated (but running yet), gone, failed
  inbox,    \* per worker, the messages posted to it
  known,    \* per worker, the schemas it compiled
  replies,  \* per slot, the replies on their way from its worker
  deaths    \* threads that died of their own

poolVars == <<outcome, queue, slots, spawned, job, timers, schemas, closed>>
workerVars == <<worker, inbox, known, replies, deaths>>
vars == <<poolVars, workerVars>>

Compile(k) == [op |-> "compile", of |-> k]
Validate(j) == [op |-> "validate", of |-> j]

PoolInit ==
  /\ outcome = [j \in Job |-> "new"]
  /\ queue = <<>> /\ schemas = <<>> /\ timers = {} /\ closed = FALSE
  /\ slots = [i \in 1 .. Workers |-> i] /\ spawned = Workers
  /\ job = [s \in Slot |-> NoJob]
  /\ worker = [s \in Slot |-> IF s <= Workers THEN "up" ELSE "unborn"]
  /\ inbox = [s \in Slot |-> <<>>] /\ known = [s \in Slot |-> {}] /\ replies = [s \in Slot |-> <<>>]
  /\ deaths = 0

-----------------------------------------------------------------------------
(* Slip: #replace drops the job of an overrun without rejecting it. *)
SettledSilently(j, a) ==
  IF j # NoJob /\ outcome[j] = "asked" /\ a # "timeout" THEN [outcome EXCEPT ![j] = a] ELSE outcome
(* A promise settles once: a later resolve or reject of it is lost. *)
Settled(j, a) == IF j # NoJob /\ outcome[j] = "asked" THEN [outcome EXCEPT ![j] = a] ELSE outcome

(* at lists n of the idle places, as #pump comes to them: the first ones, in order. *)
InTurn(at, n, idle) == \A a \in 1 .. n, i \in idle : (i < at[a]) <=> \E b \in 1 .. a - 1 : at[b] = i

(* #pump: each slot without a job, in order, takes the oldest job of the queue. *)
Pump(q, inPlace, holds, boxes, armed) ==
  LET idle == {i \in DOMAIN inPlace : holds[inPlace[i]] = NoJob}
  IN \E n \in 0 .. Len(q) : \E at \in [1 .. n -> idle] :
       /\ InTurn(at, n, idle)
       /\ n = Len(q) \/ \A i \in idle : \E a \in 1 .. n : at[a] = i
       /\ LET taken == {inPlace[at[a]] : a \in 1 .. n}
              given(s) == q[CHOOSE a \in 1 .. n : inPlace[at[a]] = s]
          IN /\ queue' = SubSeq(q, n + 1, Len(q))
             /\ job' = [s \in Slot |-> IF s \in taken THEN given(s) ELSE holds[s]]
             /\ inbox' = [s \in Slot |-> IF s \in taken THEN Append(boxes[s], Validate(given(s))) ELSE boxes[s]]
             /\ timers' = armed \cup {<<s, given(s)>> : s \in taken}

(* compile, at a tool's registration: every worker now in place is told. *)
Register(k) ==
  /\ ~Contains(schemas, k)
  /\ schemas' = Append(schemas, k)
  /\ inbox' = [s \in Slot |-> IF Contains(slots, s) THEN Append(inbox[s], Compile(k)) ELSE inbox[s]]
  /\ UNCHANGED <<outcome, queue, slots, spawned, job, timers, closed, worker, known, replies, deaths>>

(* #nextId *)
NextId(j) == outcome[j] = "new" /\ \A i \in Job : i < j => outcome[i] # "new"

(* #run *)
Run(j) ==
  /\ NextId(j) /\ Contains(schemas, KeyOf[j]) /\ ~closed
  /\ outcome' = [outcome EXCEPT ![j] = "asked"]
  /\ Pump(Append(queue, j), slots, job, inbox, timers)
  /\ UNCHANGED <<slots, spawned, schemas, closed, worker, known, replies, deaths>>

RunClosed(j) ==
  /\ NextId(j) /\ Contains(schemas, KeyOf[j]) /\ closed
  /\ outcome' = [outcome EXCEPT ![j] = "closed"]
  /\ UNCHANGED <<queue, slots, spawned, job, timers, schemas, closed, workerVars>>

(* Slip: any reply settles the slot's job. *)
OwnReplyAny(s, r) == job[s] # NoJob
(* #settle takes the reply to the slot's own job only; a compile's is to none. *)
OwnReply(s, r) == r.of # NoJob /\ job[s] = r.of

(* clearTimeout(slot.timer) *)
Clear(s) == {t \in timers : t[1] # s}

(* A worker's reply reaches its slot's listener, replaced or not. *)
Reply(s) ==
  /\ replies[s] # <<>>
  /\ replies' = [replies EXCEPT ![s] = Tail(@)]
  /\ IF OwnReply(s, Head(replies[s]))
     THEN /\ outcome' = Settled(job[s], Head(replies[s]).answer)
          /\ Pump(queue, slots, [job EXCEPT ![s] = NoJob], inbox, Clear(s))
     ELSE UNCHANGED <<outcome, queue, job, inbox, timers>>
  /\ UNCHANGED <<slots, spawned, schemas, closed, worker, known, deaths>>

(* #spawn: the messages a fresh worker is sent. *)
Priming == [i \in 1 .. Len(schemas) |-> Compile(schemas[i])]

Replaces(s) == ~closed /\ Contains(slots, s)

(* worker.terminate(): a thread with nothing to do stops at once, another may
   yet finish what it is at. *)
Terminated(w) ==
  IF worker[w] # "up" THEN worker[w] ELSE IF inbox[w] = <<>> THEN "gone" ELSE "terminated"

(* What a thread compiled goes with it. *)
KnownLeft == [w \in Slot |-> IF worker'[w] \in {"gone", "failed"} THEN {} ELSE known[w]]

(* The reply to a compile. *)
Ack == [of |-> NoJob, answer |-> "valid"]

(* What arrives yet of the replies on their way to a slot whose worker is
   terminated: its job's verdict, or nothing.  It holds no job ever again, and
   the acknowledgements are left out. *)
Late(s) == {<<>>} \cup {<<replies[s][i]>> : i \in {i \in DOMAIN replies[s] : replies[s][i] # Ack}}

(* #replace: the slot's job is rejected, its worker terminated, and a fresh
   slot put in its place, if the pool is open and the slot still has one. *)
Replace(s, why) ==
  LET fresh == spawned + 1
      inPlace == [i \in DOMAIN slots |-> IF Replaces(s) /\ slots[i] = s THEN fresh ELSE slots[i]]
  IN /\ slots' = inPlace
     /\ spawned' = IF Replaces(s) THEN fresh ELSE spawned
     /\ worker' = [w \in Slot |-> IF Replaces(s) /\ w = fresh THEN "up"
                                  ELSE IF w # s THEN worker[w]
                                  ELSE IF worker[w] = "failed" THEN "gone" ELSE Terminated(w)]
     /\ outcome' = Settled(job[s], why)
     /\ Pump(queue, inPlace, [job EXCEPT ![s] = NoJob],
             IF Replaces(s) THEN [inbox EXCEPT ![fresh] = Priming] ELSE inbox, Clear(s))
     /\ known' = KnownLeft
     /\ \E late \in Late(s) : replies' = [replies EXCEPT ![s] = late]
     /\ UNCHANGED <<schemas, closed, deaths>>

TimerFires(s) == (\E j \in Job : <<s, j>> \in timers) /\ Replace(s, "timeout")

(* The worker's error event, of a thread that threw past its handler. *)
ErrorEvent(s) == worker[s] = "failed" /\ Replace(s, "failed")

Rejected == {job[slots[i]] : i \in DOMAIN slots} \cup {queue[i] : i \in DOMAIN queue}

Close ==
  /\ ~closed
  /\ closed' = TRUE
  /\ outcome' = [j \in Job |-> IF j \in Rejected THEN Settled(j, "closed")[j] ELSE outcome[j]]
  /\ queue' = <<>>
  /\ timers' = {t \in timers : ~Contains(slots, t[1])}
  /\ worker' = [s \in Slot |-> IF Contains(slots, s) THEN Terminated(s) ELSE worker[s]]
  /\ known' = KnownLeft
  /\ UNCHANGED <<slots, spawned, job, schemas, inbox, replies, deaths>>

-----------------------------------------------------------------------------
(* The worker's thread: one message at a time, in order; a terminated one may
   take a step yet, or none. *)
WorkerAnswer(s, j) == IF KeyOf[j] \in known[s] THEN Verdict[j] ELSE "unknown-key"

WorkerStep(s) ==
  /\ worker[s] \in {"up", "terminated"} /\ inbox[s] # <<>>
  /\ inbox' = [inbox EXCEPT ![s] = Tail(@)]
  /\ LET m == Head(inbox[s])
     IN IF m.op = "compile"
        THEN /\ known' = [known EXCEPT ![s] = @ \cup {m.of}]
             /\ replies' = IF worker[s] = "up" THEN [replies EXCEPT ![s] = Append(@, Ack)] ELSE replies
        ELSE /\ replies' = [replies EXCEPT ![s] = Append(@, [of |-> m.of, answer |-> WorkerAnswer(s, m.of)])]
             /\ UNCHANGED known
  /\ UNCHANGED <<poolVars, worker, deaths>>

(* A thread dies at its work (memory, stack), terminated or not. *)
WorkerDies(s) ==
  /\ worker[s] \in {"up", "terminated"} /\ inbox[s] # <<>>
  /\ deaths < MaxFailures /\ deaths' = deaths + 1
  /\ worker' = [worker EXCEPT ![s] = "failed"]
  /\ inbox' = [inbox EXCEPT ![s] = <<>>]
  /\ known' = KnownLeft
  /\ UNCHANGED <<poolVars, replies>>

-----------------------------------------------------------------------------
PoolNext ==
  \/ \E k \in Key : Register(k)
  \/ \E j \in Job : Run(j) \/ RunClosed(j)
  \/ \E s \in Slot :
       \/ Reply(s) \/ TimerFires(s) \/ ErrorEvent(s)
       \/ WorkerStep(s) \/ WorkerDies(s)
  \/ Close

(* A timer armed and never cleared fires; nothing else is sure to happen. *)
PoolSpec == PoolInit /\ [][PoolNext]_vars /\ \A s \in Slot : WF_vars(TimerFires(s))

-----------------------------------------------------------------------------
(* Properties *)

Promise == INSTANCE IdealPool

(* Whatever order replies, deaths, deadlines and the close come in, each
   validation settles at most once and to its own verdict, a timeout, a
   failure or the close: never to another job's verdict, nor to the worker's
   "unknown schema key" (schema-pool.ts:112-132). *)
SettlesAsPromised == Promise!IdealSpec

(* Every validation asked for is answered, queued ones too, though a worker
   may hang for ever and only the timers are sure to fire (WO 1.6). *)
EveryJobSettles == \A j \in Job : (outcome[j] = "asked") ~> (outcome[j] # "asked")

=============================================================================
