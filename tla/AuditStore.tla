------------------------------- MODULE AuditStore -------------------------------
(***************************************************************************)
(* The audit store and the node that writes to it, over crashes, failed    *)
(* writes and restarts: packages/core/src/audit/store.ts (JsonLinesStore,  *)
(* FileAnchor) and the audit seam of node/start.ts.                        *)
(*                                                                         *)
(* The store's methods are synchronous, but the machine can stop between   *)
(* any two of their system calls, so each write and each fsync is a step.  *)
(* A power failure keeps the lines an fsync covered and any prefix of the  *)
(* rest, with perhaps a torn line after it; the death of the process alone *)
(* keeps all of them.  A write can also take part of its line and say so   *)
(* in a count nobody reads, and an fsync can throw after its write; which  *)
(* of the two has ever happened is kept in faults, as each breaks a        *)
(* promise of the store's for good.                                        *)
(***************************************************************************)
EXTENDS AuditVerify

CONSTANTS
  RowsEvery,     \* AUDIT_CHECKPOINT_ROWS
  Strangers,     \* keys no entry of the allowlist holds
  MaxRows,       \* bound on the rows a run appends to, for TLC
  MaxStarts,     \* bound on the node's starts, for TLC
  LastDay        \* bound on the clock, for TLC

ASSUME AuditAssumption ==
  /\ RowsEvery \in Nat \ {0}
  /\ MaxRows \in Nat /\ MaxStarts \in Nat /\ LastDay \in Nat
  /\ Allowlist \in Seq(Range(Allowlist)) /\ ParsesAllowlist(Allowlist)
  /\ \A e \in Range(Allowlist) : e.key \notin Strangers

(* resumed is undefined: the log was empty. *)
NothingResumed == [fromSeq |-> 0, unanchored |-> 0]

VARIABLES
  log, anchor,      \* the two files
  today,            \* the clock, as the windows of the allowlist tell days
  signer,           \* the entry whose kid and key this run signs with
  starts,           \* how many times the node was started
  node,             \* what the node is doing
  step,             \* the system call the store is at
  caller,           \* who called it: append, the timer or close
  todo,             \* events the append under way has still to write
  seq, prev, checkpointSeq, checkpointedCount, resumed,  \* the store's own fields
  faults            \* history: the faults the disk has had under the store

files == <<log, anchor>>
fields == <<seq, prev, checkpointSeq, checkpointedCount, resumed>>
auditVars == <<files, today, signer, starts, node, step, caller, todo, fields, faults>>

Running == {"starting", "up", "stopping"}

AuditTypeOK ==
  /\ starts \in Nat /\ today \in 0 .. LastDay /\ signer \in Range(Allowlist)
  /\ node \in Running \cup {"down", "opened", "refusedTorn", "refused"}
  /\ step \in {"idle", "row", "sync", "anchor", "anchorSync"}
  /\ caller \in {"none", "append", "timer", "close"}
  /\ \A i \in 1 .. Len(todo) : todo[i].event \in {"audit-resumed", "call"}
  /\ seq \in Nat /\ checkpointSeq \in Nat /\ checkpointedCount \in 0 .. seq
  /\ log.safe \in 0 .. Len(log.lines) /\ anchor.safe \in 0 .. Len(anchor.lines)
  /\ faults \subseteq {"short-write", "anchor-sync"}

AuditInit ==
  /\ log = Fresh /\ anchor = Fresh
  /\ today = 0 /\ signer = Head(Allowlist)
  /\ starts = 0 /\ node = "down" /\ step = "idle" /\ caller = "none" /\ todo = <<>>
  /\ seq = 0 /\ prev = Genesis /\ checkpointSeq = 0 /\ checkpointedCount = 0
  /\ resumed = NothingResumed /\ faults = {}

-----------------------------------------------------------------------------
(* The constructor: resume from what is there, or refuse. *)
(* The last line is not the row its position requires. *)
NotALog ==
  LET last == Last(log.lines) IN
    log.lines # <<>> /\ (last # Garbled => last.seq # Len(log.lines) - 1)

(* The anchor's last checkpoint is under the store's own kid and not its key;
   another kid's is left to verify. *)
NotOurs(own) ==
  LET last == Last(anchor.lines) IN last.kid = own.kid /\ ~verifyWith(own.key, last)

(* The log is behind the anchor's last checkpoint, or is not what it covered. *)
BehindAnchor(own) ==
  /\ anchor.lines # <<>>
  /\ LET last == Last(anchor.lines) IN
       last # Garbled =>
         \/ NotOurs(own)
         \/ (last.count <= Len(log.lines) => lineHash(log.lines[last.count]) # last.head)

(* The operator signs with an entry's key inside its window, and rotates to
   another entry by a restart. *)
Start ==
  /\ node = "down" /\ starts < MaxStarts
  /\ \E own \in Range(Allowlist) : InWindow(own, today) /\ signer' = own
  /\ starts' = starts + 1
  /\ UNCHANGED <<files, today, step, caller, todo, faults>>
  /\ \/ /\ Torn(log) \/ Torn(anchor)
        /\ node' = "refusedTorn" /\ UNCHANGED fields
     \/ /\ ~Torn(log) /\ ~Torn(anchor) /\ (NotALog \/ BehindAnchor(signer'))
        /\ node' = "refused" /\ UNCHANGED fields
     \/ /\ ~Torn(log) /\ ~Torn(anchor) /\ ~NotALog /\ ~BehindAnchor(signer')
        /\ node' = "opened"
        /\ seq' = Len(log.lines)
        /\ prev' = (IF log.lines = <<>> THEN Genesis ELSE lineHash(Last(log.lines)))
        /\ checkpointSeq' = (IF anchor.lines = <<>> THEN 0 ELSE Last(anchor.lines).seq + 1)
        /\ checkpointedCount' = (IF anchor.lines = <<>> THEN 0 ELSE Last(anchor.lines).count)
        /\ resumed' = IF log.lines = <<>> THEN NothingResumed
                      ELSE [fromSeq |-> seq', unanchored |-> seq' - checkpointedCount']

-----------------------------------------------------------------------------
(* append: the run's first one, which follows the opening of the store at once
   (PreparedNode.prepare), writes audit-resumed before its own row. *)
CallRow == [event |-> "call"]
ResumedRow == [event |-> "audit-resumed", fromSeq |-> resumed.fromSeq, unanchored |-> resumed.unanchored]

(* Slip: the first row is the event's own. *)
OwnRowFirst == IF resumed = NothingResumed THEN <<CallRow>> ELSE <<CallRow, ResumedRow>>
RowsToWrite == IF resumed = NothingResumed THEN <<CallRow>> ELSE <<ResumedRow, CallRow>>

Begin(who, at) == caller' = who /\ step' = at

AppendBegins ==
  /\ node \in Running \cup {"opened"} /\ step = "idle" /\ seq < MaxRows
  /\ node' = (IF node = "opened" THEN "starting" ELSE node)
  /\ todo' = RowsToWrite
  /\ resumed' = NothingResumed
  /\ Begin("append", "row")
  /\ UNCHANGED <<files, today, signer, starts, seq, prev, checkpointSeq, checkpointedCount, faults>>

Row == [seq |-> seq, prev |-> prev, run |-> starts, body |-> Head(todo)]

Due(rows) == rows - checkpointedCount >= RowsEvery

(* What the call does next: the row after audit-resumed, or return; close ends. *)
Returns ==
  /\ step' = (IF todo' = <<>> THEN "idle" ELSE "row")
  /\ caller' = (IF todo' = <<>> THEN "none" ELSE caller)
  /\ node' = (IF caller = "close" THEN "down" ELSE node)

AfterRow ==
  /\ seq' = seq + 1
  /\ prev' = lineHash(Row)
  /\ todo' = Tail(todo)
  /\ IF Due(seq + 1) THEN step' = "sync" /\ UNCHANGED <<caller, node>> ELSE Returns
  /\ UNCHANGED <<anchor, today, signer, starts, checkpointSeq, checkpointedCount, resumed>>

WriteRow == step = "row" /\ log' = Written(log, Row) /\ AfterRow /\ UNCHANGED faults

(* The disk takes part of the line; the count writeSync returns is not read. *)
ShortWrite ==
  /\ step = "row"
  /\ log' \in ShortWritten(log, Row)
  /\ AfterRow
  /\ faults' = faults \cup {"short-write"}

-----------------------------------------------------------------------------
(* #checkpoint: fsync the log, append the signed head to the anchor, fsync it. *)
Checkpoint ==
  Signed(signer.key, [kid |-> signer.kid, seq |-> checkpointSeq, head |-> prev,
                      count |-> seq, time |-> today])

SyncLog ==
  /\ step = "sync"
  /\ log' = Synced(log)
  /\ step' = "anchor"
  /\ UNCHANGED <<anchor, today, signer, starts, node, caller, todo, fields, faults>>

AppendAnchor ==
  /\ step = "anchor"
  /\ anchor' = Written(anchor, Checkpoint)
  /\ step' = "anchorSync"
  /\ UNCHANGED <<log, today, signer, starts, node, caller, todo, fields, faults>>

(* FileAnchor.append does not read the count either. *)
ShortAnchor ==
  /\ step = "anchor"
  /\ anchor' \in ShortWritten(anchor, Checkpoint)
  /\ step' = "anchorSync"
  /\ faults' = faults \cup {"short-write"}
  /\ UNCHANGED <<log, today, signer, starts, node, caller, todo, fields>>

SyncAnchor ==
  /\ step = "anchorSync"
  /\ anchor' = Synced(anchor)
  /\ checkpointSeq' = checkpointSeq + 1
  /\ checkpointedCount' = seq
  /\ UNCHANGED <<log, today, signer, starts, todo, seq, prev, resumed, faults>>
  /\ Returns

Pending == seq > checkpointedCount


(* setInterval, and the transport's close. *)
TimerFires ==
  /\ node \in Running /\ step = "idle" /\ Pending
  /\ Begin("timer", "sync")
  /\ UNCHANGED <<files, today, signer, starts, node, todo, fields, faults>>

Close ==
  /\ node \in Running /\ step = "idle"
  /\ IF Pending THEN Begin("close", "sync") /\ UNCHANGED node
                ELSE node' = "down" /\ UNCHANGED <<step, caller>>
  /\ UNCHANGED <<files, today, signer, starts, todo, fields, faults>>

(* A start that has written its first row serves. *)
Serve ==
  /\ node = "starting" /\ step = "idle"
  /\ node' = "up"
  /\ UNCHANGED <<files, today, signer, starts, step, caller, todo, fields, faults>>

(* A system call throws.  Out of append, a node that is up stops (its calls in
   flight go on appending until it has closed) and one that is starting closes
   at once; out of the timer, the process dies; out of close, the store closes. *)
Throws ==
  /\ todo' = <<>>
  /\ \/ caller = "append" /\ node = "starting" /\
          IF Pending THEN Begin("close", "sync") /\ UNCHANGED node
                     ELSE node' = "down" /\ Begin("none", "idle")
     \/ caller = "append" /\ node # "starting" /\ node' = "stopping" /\ Begin("none", "idle")
     \/ caller # "append" /\ node' = "down" /\ Begin("none", "idle")
  /\ UNCHANGED <<files, today, signer, starts, fields>>

WriteThrows == step \in {"row", "anchor"} /\ Throws /\ UNCHANGED faults
SyncThrows == step = "sync" /\ Throws /\ UNCHANGED faults

(* The checkpoint is in the anchor, but its fsync throws: the next one repeats its seq. *)
AnchorSyncThrows == step = "anchorSync" /\ Throws /\ faults' = faults \cup {"anchor-sync"}

-----------------------------------------------------------------------------
(* A day passes.  The operator restarts a node before its key's window ends. *)
DayPasses ==
  /\ today < LastDay
  /\ node \in Running \cup {"opened"} => InWindow(signer, today + 1)
  /\ today' = today + 1
  /\ UNCHANGED <<files, signer, starts, node, step, caller, todo, fields, faults>>

-----------------------------------------------------------------------------
(* The machine stops.  What is left of a file, the line being written included. *)
Left(f) ==
  {[lines |-> SubSeq(f.lines, 1, n), safe |-> n,
    tail |-> IF t = "none" THEN NoTail
             ELSE IF n = Len(f.lines) THEN f.tail
             ELSE IF t = "whole" THEN f.lines[n + 1] ELSE Part] :
     n \in f.safe .. Len(f.lines), t \in {"none", "part", "whole"}}

PowerFails ==
  /\ node \in Running \cup {"opened", "down"}
  /\ log' \in Left(IF step = "row" THEN Written(log, Row) ELSE log)
  /\ anchor' \in Left(IF step = "anchor" THEN Written(anchor, Checkpoint) ELSE anchor)
  /\ node' = "down" /\ step' = "idle" /\ caller' = "none" /\ todo' = <<>>
  /\ UNCHANGED <<today, signer, starts, fields, faults>>

ProcessDies ==
  /\ node \in Running \cup {"opened"}
  /\ node' = "down" /\ step' = "idle" /\ caller' = "none" /\ todo' = <<>>
  /\ UNCHANGED <<files, today, signer, starts, fields, faults>>

AuditNext ==
  \/ Start \/ AppendBegins \/ WriteRow \/ ShortWrite
  \/ SyncLog \/ AppendAnchor \/ ShortAnchor \/ SyncAnchor
  \/ TimerFires \/ Close \/ Serve
  \/ WriteThrows \/ SyncThrows \/ AnchorSyncThrows
  \/ PowerFails \/ ProcessDies \/ DayPasses

AuditSafety == AuditInit /\ [][AuditNext]_auditVars

(* System calls return, and the interval timer comes due between two calls. *)
Fairness ==
  /\ WF_auditVars(WriteRow \/ ShortWrite \/ SyncLog \/ AppendAnchor \/ ShortAnchor \/ SyncAnchor
                  \/ WriteThrows \/ SyncThrows \/ AnchorSyncThrows)
  /\ SF_auditVars(TimerFires)

AuditSpec == AuditSafety /\ Fairness

-----------------------------------------------------------------------------
(* Properties *)

(* Whatever is on disk was written by this store, so neither `audit verify` nor
   the next start should call it tampering: at any moment, and after any crash and
   any failed call but two, verify finds at most a torn final line, and a start
   refuses the files for nothing but that (verify.ts:10-12, AU-20, AU-24).  The two
   the code lets through:
   - an anchor's fsync that throws after its write (store.ts:69-71, 224) leaves
     checkpointSeq as it was, so the checkpoint after it repeats its seq, where AU-10
     says "from 0 with no gaps": verify then reports checkpoint-replayed for ever, and
     nothing else;
   - a short write (store.ts:70, 204), whose count nobody reads, breaks AU-3's "one
     write per row": the next line runs into it, and anything may be found after it. *)
HonestFilesVerify ==
  /\ AuditTypeOK
  /\ "short-write" \notin faults =>
       /\ Findings(log, anchor) \ {"torn-final-line"} \subseteq
            (IF "anchor-sync" \in faults THEN {"checkpoint-replayed"} ELSE {})
       /\ node # "refused"

(* Files somebody else changed, without a key of the allowlist.  Of a log: a row
   edited, garbled, removed or copied elsewhere, two swapped, the end cut off,
   each also with every seq and prev made anew; and its last newline gone. *)
OtherRow == [event |-> "other"]
AlteredRows(rows) ==
  LET n == Len(rows) IN
    {[rows EXCEPT ![i].body = OtherRow] : i \in 1 .. n}
      \cup {RemoveAt(rows, i) : i \in 1 .. n}
      \cup {InsertAt(rows, i, rows[j]) : i, j \in 1 .. n}
      \cup {[rows EXCEPT ![i] = rows[i + 1], ![i + 1] = rows[i]] : i \in 1 .. n - 1}
      \cup {SubSeq(rows, 1, i) : i \in 0 .. n}
Rechained(rows) ==
  LET upTo[i \in 0 .. Len(rows)] ==
        IF i = 0 THEN <<>>
        ELSE Append(upTo[i - 1],
                    [rows[i] EXCEPT !.seq = i - 1,
                                    !.prev = IF i = 1 THEN Genesis ELSE lineHash(upTo[i - 1][i - 1])])
  IN upTo[Len(rows)]
AlteredLogs ==
  LET rows == AlteredRows(log.lines)  again == {Rechained(r) : r \in rows} IN
    {[log EXCEPT !.lines = r] : r \in rows \cup again}
      \cup {[log EXCEPT !.lines[i] = Garbled] : i \in DOMAIN log.lines}
      \cup {[lines |-> Front(r), tail |-> Last(r), safe |-> log.safe] : r \in again \ {<<>>}}

(* Of the anchor: a checkpoint removed, copied or moved, the end cut off, one whose
   text is not what was signed, and one that another key signs for other rows. *)
AlteredCheckpoints(rows) ==
  LET cps == anchor.lines  n == Len(cps)
      resigned(c, key) == Signed(key, [c EXCEPT !.head = lineHash(rows[c.count])])
  IN {RemoveAt(cps, i) : i \in 1 .. n}
       \cup {InsertAt(cps, i, cps[j]) : i, j \in 1 .. n}
       \cup {[cps EXCEPT ![i] = cps[i + 1], ![i + 1] = cps[i]] : i \in 1 .. n - 1}
       \cup {SubSeq(cps, 1, i) : i \in 0 .. n}
       \cup {[cps EXCEPT ![i].count = k] : i \in 1 .. n, k \in 0 .. Len(rows)}
       \cup {[cps EXCEPT ![i] = resigned(cps[i], key)] :
               i \in {j \in 1 .. n : cps[j].count <= Len(rows)}, key \in Strangers}
AlteredAnchors(rows) == {[anchor EXCEPT !.lines = s] : s \in AlteredCheckpoints(rows)}

(* What verify lets through is what this store wrote, as far as the anchor goes:
   an anchor with at most its end missing, and every row its checkpoints cover,
   whatever was done to both files without a key of the allowlist.  The rows
   beyond are fewer than RowsEvery, between two calls of a node that is up
   (AU-9, AU-12 to AU-20).  Nothing is said once a write was short; and where an
   fsync of the anchor threw, of two checkpoints with one seq either may be
   removed unseen, but the rows the rest cover stand. *)
AnchoredRowsStand ==
  node = "up" /\ step = "idle" /\ "short-write" \notin faults =>
    /\ seq - checkpointedCount < RowsEvery
    /\ anchor.lines # <<>> => checkpointedCount = Last(anchor.lines).count
    /\ \A altered \in {f \in AlteredLogs \cup {log} : LogFindings(Complete(f)) = {}} :
         \A left \in AlteredAnchors(Complete(altered)) \cup {anchor} :
           \/ Tampered(altered, left)
           \/ /\ "anchor-sync" \in faults \/ IsPrefix(left.lines, anchor.lines)
              /\ left.lines # <<>> =>
                   LET n == Last(left.lines).count IN
                     SubSeq(Complete(altered), 1, n) = SubSeq(log.lines, 1, n)

(* Each run that found rows says so in its first row, with the number of them
   that no checkpoint covered, whatever failed before but a short write (AU-25). *)
AdoptionRecorded ==
  [][LET n == Len(log.lines) IN
       /\ "short-write" \notin faults'
       /\ Len(log'.lines) = n + 1
       /\ n > 0 => log.lines[n].run < starts
       => LET row == log'.lines[n + 1].body IN
            IF n = 0 THEN row.event = "call"
            ELSE /\ row.event = "audit-resumed" /\ row.fromSeq = n
                 /\ row.unanchored = n - (IF anchor.lines = <<>> THEN 0
                                          ELSE Last(anchor.lines).count)]_auditVars


=============================================================================
