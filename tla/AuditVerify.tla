------------------------------ MODULE AuditVerify ------------------------------
(***************************************************************************)
(* The audit log's formats and what `audit verify` finds in a log and its  *)
(* anchor: packages/core/src/audit/chain.ts and verify.ts.                 *)
(*                                                                         *)
(* lineHash is SHA-256 of the line's bytes, taken as injective: the hash   *)
(* of a line is the line.  A row therefore holds its predecessors, as its  *)
(* prev does in the code.  A line that is no row at all is Garbled.  An    *)
(* Ed25519 signature is the key and the bytes it covers: nobody has it who *)
(* has not the key.                                                        *)
(***************************************************************************)
EXTENDS Integers, SequencesExt

CONSTANTS Allowlist,   \* the --keys file: a sequence of entries
          Genesis      \* GENESIS, the first row's prev

(* A line that does not parse. *)
Garbled == [garbled |-> TRUE]

(* What follows the last newline, where that is no whole line: nothing, or part of one. *)
NoTail == [tail |-> "none"]
Part == [tail |-> "part"]

-----------------------------------------------------------------------------
(* A file of lines: the complete ones, what follows the last newline (nothing,
   a whole line without its newline, or part of one), and how many of its
   lines an fsync has put on disk. *)
Fresh == [lines |-> <<>>, tail |-> NoTail, safe |-> 0]
Torn(f) == f.tail # NoTail

(* One write of a line and its newline; after a torn tail the two are one line. *)
Written(f, line) ==
  [lines |-> Append(f.lines, IF Torn(f) THEN Garbled ELSE line), tail |-> NoTail, safe |-> f.safe]
(* The write took part of the line, or all of it but the newline. *)
ShortWritten(f, line) ==
  {[lines |-> f.lines, tail |-> t, safe |-> f.safe] : t \in IF Torn(f) THEN {Part} ELSE {Part, line}}
(* Slip: no fsync. *)
Unsynced(f) == f
Synced(f) == [f EXCEPT !.safe = Len(f.lines)]

(* lines(): a tail that is a whole line is checked like the rest. *)
Complete(f) == IF f.tail \in {NoTail, Part} THEN f.lines ELSE Append(f.lines, f.tail)

-----------------------------------------------------------------------------
lineHash(line) == line

(* parseAllowlist: one entry per kid, and no window that ends before it begins. *)
ParsesAllowlist(list) ==
  /\ list # <<>>
  /\ \A i, j \in DOMAIN list : list[i].kid = list[j].kid => i = j
  /\ \A i \in DOMAIN list : list[i].notBefore <= list[i].notAfter
InWindow(entry, time) == time \in entry.notBefore .. entry.notAfter

(* A signature covers all of a checkpoint but itself. *)
checkpointPayload(c) ==
  [kid |-> c.kid, seq |-> c.seq, head |-> c.head, count |-> c.count, time |-> c.time]
Signature(key, c) == [key |-> key, of |-> checkpointPayload(c)]
Signed(key, c) ==
  [kid |-> c.kid, seq |-> c.seq, head |-> c.head, count |-> c.count, time |-> c.time,
   sig |-> Signature(key, c)]
verifyWith(key, c) == c.sig = Signature(key, c)

(* Seq: 0, 1, 2, ... with no gap, no repeat and no reversal (AU-14, AU-15). *)
SeqFindings(rows) ==
  LET known == {i \in 1 .. Len(rows) : rows[i] # Garbled}
      seqOf(i) == IF i = 0 THEN -1 ELSE rows[i].seq
      repeated(i) == \E j \in known \ {i} : rows[j].seq = rows[i].seq
      isPermutation == known = 1 .. Len(rows) /\ {rows[i].seq : i \in known} = 0 .. Len(rows) - 1
      outOfOrder == {i \in known : i - 1 \in known \cup {0} /\ rows[i].seq # seqOf(i - 1) + 1}
      kind(i) == IF isPermutation THEN "reordered-rows"
                 ELSE IF repeated(i) THEN "inserted-rows"
                 ELSE IF rows[i].seq <= seqOf(i - 1) THEN "reordered-rows" ELSE "removed-rows"
  IN {kind(i) : i \in {j \in outOfOrder : ~(isPermutation /\ rows[j].seq = j - 1)}}

(* Slip: only the first row's prev is looked at. *)
EditedFirst(rows, i) ==
  i = 1 /\ rows[i] # Garbled /\ rows[i].seq = 0 /\ rows[i].prev # Genesis

(* Prev links, where seq is in order (AU-13). *)
EditedAfter(rows, i) ==
  /\ rows[i] # Garbled
  /\ IF i = 1 THEN rows[i].seq = 0 /\ rows[i].prev # Genesis
              ELSE /\ rows[i - 1] # Garbled
                   /\ rows[i].seq = rows[i - 1].seq + 1
                   /\ rows[i].prev # lineHash(rows[i - 1])

LogFindings(rows) ==
  SeqFindings(rows)
    \cup (IF \E i \in 1 .. Len(rows) : rows[i] = Garbled THEN {"malformed-row"} ELSE {})
    \cup (IF \E i \in 1 .. Len(rows) : EditedAfter(rows, i) THEN {"edited-row"} ELSE {})

(* A checkpoint's key: known, inside its window, and the signature's own (AU-19). *)
KeyFindings(c) ==
  LET entries == {e \in Range(Allowlist) : e.kid = c.kid} IN
    IF entries = {} THEN {"unknown-kid"}
    ELSE UNION {(IF InWindow(e, c.time) THEN {} ELSE {"key-out-of-window"})
                \cup (IF verifyWith(e.key, c) THEN {} ELSE {"bad-signature"}) : e \in entries}

(* The anchor's checkpoints against each other and against the log (AU-17 to AU-19). *)
CheckpointFindings(rows, cps, k) ==
  LET c == cps[k]
      earlier == {j \in 1 .. k - 1 : cps[j] # Garbled}
      expectedSeq == Max({0} \cup {cps[j].seq + 1 : j \in earlier})
      lastCount == Max({0} \cup {cps[j].count : j \in earlier})
  IN IF c = Garbled THEN {"malformed-checkpoint"}
     ELSE IF c.count < 1 THEN {"malformed-checkpoint"}
     ELSE KeyFindings(c)
          \cup (IF c.seq # expectedSeq \/ c.count < lastCount THEN {"checkpoint-replayed"} ELSE {})
          \cup (IF c.count > Len(rows) THEN {"truncated-behind-checkpoint"}
                ELSE IF lineHash(rows[c.count]) # c.head THEN {"head-mismatch"} ELSE {})

AnchorFindings(rows, cps) == UNION {CheckpointFindings(rows, cps, k) : k \in 1 .. Len(cps)}

Findings(log, anchor) ==
  LogFindings(Complete(log)) \cup AnchorFindings(Complete(log), Complete(anchor))
      \cup (IF Torn(log) \/ Torn(anchor) THEN {"torn-final-line"} ELSE {})

(* verifyAudit's exit code, and runAudit's for an allowlist that does not parse. *)
Tampered(log, anchor) == Findings(log, anchor) \ {"torn-final-line"} # {}
ExitCode(log, anchor) ==
  IF ~ParsesAllowlist(Allowlist) THEN 2
  ELSE IF Tampered(log, anchor) THEN 1 ELSE IF Findings(log, anchor) # {} THEN 3 ELSE 0

=============================================================================
