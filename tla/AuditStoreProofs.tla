---------------------------- MODULE AuditStoreProofs ----------------------------
(***************************************************************************)
(* What the audit store keeps true, for every allowlist, every bound on    *)
(* the log and any number of crashes, failed writes and restarts           *)
(* (audit/store.ts, audit/verify.ts).                                      *)
(*                                                                         *)
(* AuditInv is the invariant while no write was short: the rows on disk    *)
(* are a chain and the checkpoints beside them cover it, also with a torn  *)
(* end; the fields of a node that works are what its files hold; and a run *)
(* that has written no row yet is still to write the one its opening calls *)
(* for.  Once an fsync of the anchor has thrown, the checkpoints are no    *)
(* longer numbered by their place, and a node that stops may take fewer    *)
(* rows for covered than are.  TypeInv holds whatever the disk does.       *)
(***************************************************************************)
EXTENDS AuditStore, SequenceTheorems, NaturalsInduction, WellFoundedInduction, TLAPS

IsSequence(s) == s \in Seq(Range(s))

Working == Running \cup {"opened"}

(* rows as the store chains them. *)
RowAt(rows, i) ==
  [seq |-> i - 1, prev |-> IF i = 1 THEN Genesis ELSE rows[i - 1], run |-> rows[i].run, body |-> rows[i].body]
Chained(rows) == \A i \in 1 .. Len(rows) : rows[i] = RowAt(rows, i)
RunsTo(rows, last) == \A i \in 1 .. Len(rows) : rows[i].run \in 1 .. last

(* A checkpoint an entry signed in its window, over rows as they are. *)
SignedBy(e, c) ==
  /\ InWindow(e, c.time)
  /\ c = Signed(e.key, [kid |-> e.kid, seq |-> c.seq, head |-> c.head, count |-> c.count, time |-> c.time])
Covers(rows, c) == c.count \in 1 .. Len(rows) /\ c.head = rows[c.count]
Anchoring(rows, cps) ==
  \A k \in 1 .. Len(cps) :
    /\ \E e \in Range(Allowlist) : SignedBy(e, cps[k])
    /\ cps[k].seq \in Nat
    /\ Covers(rows, cps[k])
    /\ \A j \in 1 .. k : cps[j].count <= cps[k].count
CountsTo(cps, n) == \A k \in 1 .. Len(cps) : cps[k].count <= n
Numbered(cps) == \A k \in 1 .. Len(cps) : cps[k].seq = k - 1

(* No fsync of the anchor has thrown. *)
Once == "anchor-sync" \notin faults

LastCount(cps) == IF cps = <<>> THEN 0 ELSE Last(cps).count

ShapeInv ==
  /\ log = [lines |-> log.lines, tail |-> log.tail, safe |-> log.safe] /\ IsSequence(log.lines)
  /\ anchor = [lines |-> anchor.lines, tail |-> anchor.tail, safe |-> anchor.safe]
  /\ IsSequence(anchor.lines)
  /\ IsSequence(todo)

FilesInv ==
  /\ Chained(Complete(log)) /\ RunsTo(Complete(log), starts)
  /\ Anchoring(Complete(log), Complete(anchor)) /\ CountsTo(Complete(anchor), log.safe)
  /\ Once => Numbered(Complete(anchor))

(* checkpointedCount is the anchor's: but for a node that stops after its anchor's fsync threw. *)
Exact == Once \/ node \in {"opened", "up"} \/ (node = "starting" /\ caller # "close")

StoreInv ==
  node \in Working =>
    /\ ~Torn(log) /\ ~Torn(anchor) /\ InWindow(signer, today) /\ starts > 0
    /\ seq = Len(log.lines)
    /\ prev = (IF seq = 0 THEN Genesis ELSE log.lines[seq])
    /\ IF step = "anchorSync" THEN /\ Once => checkpointSeq + 1 = Len(anchor.lines)
                                   /\ LastCount(anchor.lines) = seq
                              ELSE /\ Once => checkpointSeq = Len(anchor.lines)
                                   /\ Exact => checkpointedCount = LastCount(anchor.lines)

StepInv ==
  /\ IF step = "idle" THEN caller = "none" ELSE node \in Running /\ caller # "none"
  /\ step = "row" => todo # <<>>
  /\ step = "idle" \/ caller # "append" => todo = <<>>
  /\ step \in {"sync", "anchor", "anchorSync"} => seq > 0
  /\ step \in {"anchor", "anchorSync"} => log.safe = seq
  /\ node \in {"starting", "up"} /\ step = "idle" => seq - checkpointedCount < RowsEvery

FirstRow ==
  LET n == Len(log.lines)
      adopted == [fromSeq |-> n, unanchored |-> n - LastCount(anchor.lines)]
  IN node \in Working /\ (n = 0 \/ log.lines[n].run < starts) =>
       \/ /\ node = "opened" /\ step = "idle"
          /\ resumed = IF n = 0 THEN NothingResumed ELSE adopted
       \/ /\ node = "starting" /\ step = "row" /\ caller = "append"
          /\ todo = IF n = 0 THEN <<CallRow>>
                    ELSE <<[event |-> "audit-resumed", fromSeq |-> n, unanchored |-> adopted.unanchored], CallRow>>
       \/ /\ node = "starting" /\ caller = "close" /\ step \in {"sync", "anchor", "anchorSync"}

(* What holds whatever the disk does. *)
Typed(c) == c = Garbled \/ (c.seq \in Nat /\ c.count \in Nat)
TypeInv ==
  /\ AuditTypeOK /\ ShapeInv
  /\ step = "row" => todo # <<>>
  /\ \A k \in 1 .. Len(anchor.lines) : Typed(anchor.lines[k])

OpenedInv == node = "opened" => step = "idle" /\ (seq = 0 \/ log.lines[seq].run < starts)

AuditInv ==
  /\ AuditTypeOK /\ ShapeInv /\ FilesInv /\ StoreInv /\ StepInv /\ FirstRow /\ OpenedInv
  /\ node # "refused"

-----------------------------------------------------------------------------
(* Sequences, and the files as sequences of lines. *)
Agrees(s, t) == Len(s) <= Len(t) /\ \A i \in 1 .. Len(s) : s[i] = t[i]

LEMMA OfASet ==
  ASSUME NEW S, NEW s \in Seq(S)
  PROVE  IsSequence(s)
  BY DEF IsSequence, Range

LEMMA Lengths ==
  ASSUME NEW s, IsSequence(s)
  PROVE  Len(s) \in Nat /\ DOMAIN s = 1 .. Len(s)
  BY DEF IsSequence

LEMMA Appended ==
  ASSUME NEW s, IsSequence(s), NEW e
  PROVE  /\ IsSequence(Append(s, e)) /\ Len(Append(s, e)) = Len(s) + 1
         /\ \A i \in 1 .. Len(s) : Append(s, e)[i] = s[i]
         /\ Append(s, e)[Len(s) + 1] = e
  <1> DEFINE S == Range(s) \cup {e}
  <1>1. s \in Seq(S)
    BY DEF IsSequence
  <1>2. e \in S
    OBVIOUS
  <1> HIDE DEF S
  <1>3. /\ Append(s, e) \in Seq(S) /\ Len(Append(s, e)) = Len(s) + 1
        /\ \A i \in 1 .. Len(s) : Append(s, e)[i] = s[i]
        /\ Append(s, e)[Len(s) + 1] = e
    BY <1>1, <1>2, AppendProperties
  <1> QED
    BY <1>3, OfASet

LEMMA Cut ==
  ASSUME NEW s, IsSequence(s), NEW n \in 0 .. Len(s)
  PROVE  /\ IsSequence(SubSeq(s, 1, n)) /\ Len(SubSeq(s, 1, n)) = n
         /\ \A i \in 1 .. n : SubSeq(s, 1, n)[i] = s[i]
  <1> DEFINE S == Range(s)
  <1>1. s \in Seq(S)
    BY DEF IsSequence
  <1> HIDE DEF S
  <1>2. /\ SubSeq(s, 1, n) \in Seq(S) /\ Len(SubSeq(s, 1, n)) = n
        /\ \A i \in 1 .. n : SubSeq(s, 1, n)[i] = s[i]
    BY <1>1
  <1> QED
    BY <1>2, OfASet

LEMMA Whole ==
  ASSUME NEW s, IsSequence(s), NEW t, IsSequence(t), Len(s) = Len(t),
         \A i \in 1 .. Len(s) : s[i] = t[i]
  PROVE  s = t
  <1>1. s \in Seq(Range(s)) /\ t \in Seq(Range(t))
    BY DEF IsSequence
  <1> QED
    BY <1>1

LEMMA Lines ==
  ASSUME NEW f, IsSequence(f.lines)
  PROVE  /\ IsSequence(Complete(f)) /\ Agrees(f.lines, Complete(f))
         /\ Len(Complete(f)) \in Len(f.lines) .. Len(f.lines) + 1
         /\ ~Torn(f) => Complete(f) = f.lines
  BY Appended, Lengths DEF Complete, Agrees, Torn

LEMMA LeftOver ==
  ASSUME NEW f, IsSequence(f.lines), f.safe \in 0 .. Len(f.lines), NEW g \in Left(f)
  PROVE  /\ g = [lines |-> g.lines, tail |-> g.tail, safe |-> g.safe] /\ IsSequence(g.lines)
         /\ g.safe = Len(g.lines) /\ f.safe <= g.safe
         /\ Agrees(g.lines, f.lines) /\ Agrees(Complete(g), Complete(f))
  <1>1. PICK n \in f.safe .. Len(f.lines), t \in {"none", "part", "whole"} :
          g = [lines |-> SubSeq(f.lines, 1, n), safe |-> n,
               tail |-> IF t = "none" THEN NoTail
                        ELSE IF n = Len(f.lines) THEN f.tail
                        ELSE IF t = "whole" THEN f.lines[n + 1] ELSE Part]
    BY DEF Left
  <1>2. n \in 0 .. Len(f.lines) /\ Len(f.lines) \in Nat
    BY Lengths
  <1>3. /\ IsSequence(g.lines) /\ Len(g.lines) = n
        /\ \A i \in 1 .. n : g.lines[i] = f.lines[i]
    BY <1>1, <1>2, Cut
  <1>4. Agrees(f.lines, Complete(f)) /\ IsSequence(Complete(f)) /\ Len(Complete(f)) \in Nat
    BY Lines, Lengths
  <1>5. Agrees(Complete(g), Complete(f))
    <2>1. CASE g.tail \in {NoTail, Part}
      BY <1>2, <1>3, <1>4, <2>1 DEF Complete, Agrees
    <2>2. CASE g.tail \notin {NoTail, Part}
      <3>1. Complete(g) = Append(g.lines, g.tail)
        BY <2>2 DEF Complete
      <3>2. /\ Len(Complete(g)) = n + 1 /\ Complete(g)[n + 1] = g.tail
            /\ \A i \in 1 .. n : Complete(g)[i] = f.lines[i]
        BY <3>1, <1>3, Appended
      <3>3. CASE n < Len(f.lines)
        <4>1. g.tail = f.lines[n + 1]
          BY <1>1, <2>2, <3>3
        <4>2. \A i \in 1 .. n + 1 : Complete(g)[i] = f.lines[i]
          BY <3>2, <4>1, <1>2
        <4> QED
          BY <3>2, <3>3, <4>2, <1>4, <1>2 DEF Agrees
      <3>4. CASE n = Len(f.lines)
        <4>1. g.tail = f.tail
          BY <1>1, <2>2, <3>4
        <4>2. Complete(f) = Append(f.lines, f.tail)
          BY <4>1, <2>2 DEF Complete
        <4>3. Len(Complete(f)) = n + 1 /\ Complete(f)[n + 1] = f.tail
          BY <4>2, <3>4, Appended
        <4>4. \A i \in 1 .. n + 1 : Complete(g)[i] = Complete(f)[i]
          BY <3>2, <4>1, <4>3, <1>4, <1>2, <3>4 DEF Agrees
        <4> QED
          BY <3>2, <4>3, <4>4 DEF Agrees
      <3> QED
        BY <1>2, <3>3, <3>4
    <2> QED
      BY <2>1, <2>2
  <1>6. Agrees(g.lines, f.lines)
    BY <1>2, <1>3 DEF Agrees
  <1> QED
    BY <1>1, <1>2, <1>3, <1>5, <1>6

-----------------------------------------------------------------------------
(* verify, on what the store chained and signed. *)
LEMMA MaxIs ==
  ASSUME NEW S, NEW m \in S, S \subseteq Int, \A x \in S : m >= x
  PROVE  Max(S) = m
  <1>1. \A x \in S : (\A y \in S : x >= y) => x = m
    OBVIOUS
  <1> QED
    BY <1>1 DEF Max

LEMMA Least ==
  ASSUME NEW S \in SUBSET Nat, S # {}
  PROVE  \E i \in S : \A k \in S : i <= k
  <1> DEFINE R == {ss \in Nat \X Nat : ss[1] < ss[2]}
  <1>1. IsWellFoundedOn(R, Nat)
    BY NatLessThanWellFounded DEF OpToRel
  <1>2. PICK i \in S : \A k \in S : <<k, i>> \notin R
    <2> HIDE DEF R
    <2> QED
      BY <1>1, WFMin
  <1>3. \A k \in S : ~(k < i)
    BY <1>2
  <1>4. S \subseteq Nat
    OBVIOUS
  <1> QED
    BY <1>3, <1>4

LEMMA NoRowIsGarbled ==
  ASSUME NEW rows, Chained(rows), NEW i \in 1 .. Len(rows)
  PROVE  /\ rows[i] # Garbled /\ rows[i].seq = i - 1
         /\ rows[i].prev = (IF i = 1 THEN Genesis ELSE rows[i - 1])
  <1>1. rows[i] = RowAt(rows, i)
    BY DEF Chained
  <1>2. RowAt(rows, i) # Garbled
    <2>1. "seq" \in DOMAIN RowAt(rows, i)
      BY DEF RowAt
    <2>2. "seq" \notin DOMAIN Garbled
      BY DEF Garbled
    <2> QED
      BY <2>1, <2>2
  <1> QED
    BY <1>1, <1>2 DEF RowAt

(* verify passes what the store chained. *)
LEMMA ChainedPasses ==
  ASSUME NEW rows, Len(rows) \in Nat, Chained(rows)
  PROVE  LogFindings(rows) = {}
  <1> DEFINE known == {i \in 1 .. Len(rows) : rows[i] # Garbled}
             seqOf(i) == IF i = 0 THEN -1 ELSE rows[i].seq
             outOfOrder == {i \in known : i - 1 \in known \cup {0} /\ rows[i].seq # seqOf(i - 1) + 1}
  <1>1. \A i \in 1 .. Len(rows) : /\ rows[i] # Garbled /\ rows[i].seq = i - 1
                                  /\ rows[i].prev = (IF i = 1 THEN Genesis ELSE rows[i - 1])
    BY NoRowIsGarbled
  <1>2. outOfOrder = {}
    <2> SUFFICES ASSUME NEW i \in outOfOrder PROVE FALSE
      OBVIOUS
    <2>1. i \in 1 .. Len(rows) /\ rows[i].seq = i - 1 /\ i \in Int
      BY <1>1
    <2>2. CASE i = 1
      BY <2>1, <2>2
    <2>3. CASE i # 1
      <3>1. i - 1 \in 1 .. Len(rows) /\ i - 1 # 0
        BY <2>1, <2>3
      <3>2. rows[i - 1].seq = i - 1 - 1
        BY <1>1, <3>1
      <3> QED
        BY <2>1, <3>1, <3>2
    <2> QED
      BY <2>2, <2>3
  <1>3. SeqFindings(rows) = {}
    BY <1>2 DEF SeqFindings
  <1>4. ~\E i \in 1 .. Len(rows) : EditedAfter(rows, i)
    <2> SUFFICES ASSUME NEW i \in 1 .. Len(rows), EditedAfter(rows, i) PROVE FALSE
      OBVIOUS
    <2>1. i # 1
      BY <1>1 DEF EditedAfter
    <2> QED
      BY <1>1, <2>1 DEF EditedAfter, lineHash
  <1>5. ~\E i \in 1 .. Len(rows) : rows[i] = Garbled
    BY <1>1
  <1> QED
    BY <1>3, <1>4, <1>5 DEF LogFindings

(* ... and nothing else: what it passes are rows in order, each linked to the one before. *)
LEMMA PassedIsChained ==
  ASSUME NEW rows, Len(rows) \in Nat, LogFindings(rows) = {}
  PROVE  \A i \in 1 .. Len(rows) :
           /\ rows[i] # Garbled /\ rows[i].seq = i - 1
           /\ rows[i].prev = (IF i = 1 THEN Genesis ELSE rows[i - 1])
  <1> DEFINE known == {i \in 1 .. Len(rows) : rows[i] # Garbled}
             seqOf(i) == IF i = 0 THEN -1 ELSE rows[i].seq
             repeated(i) == \E j \in known \ {i} : rows[j].seq = rows[i].seq
             isPermutation == known = 1 .. Len(rows) /\ {rows[i].seq : i \in known} = 0 .. Len(rows) - 1
             outOfOrder == {i \in known : i - 1 \in known \cup {0} /\ rows[i].seq # seqOf(i - 1) + 1}
             kind(i) == IF isPermutation THEN "reordered-rows"
                        ELSE IF repeated(i) THEN "inserted-rows"
                        ELSE IF rows[i].seq <= seqOf(i - 1) THEN "reordered-rows" ELSE "removed-rows"
             wrong == {j \in outOfOrder : ~(isPermutation /\ rows[j].seq = j - 1)}
  <1>1. SeqFindings(rows) = {kind(i) : i \in wrong}
    BY DEF SeqFindings
  <1>2. /\ SeqFindings(rows) = {}
        /\ \A i \in 1 .. Len(rows) : rows[i] # Garbled
        /\ \A i \in 1 .. Len(rows) : ~EditedAfter(rows, i)
    BY DEF LogFindings
  <1>3. known = 1 .. Len(rows)
    BY <1>2
  <1>4. \A i \in 1 .. Len(rows) : i \in outOfOrder => rows[i].seq = i - 1
    <2>1. wrong = {}
      BY <1>1, <1>2
    <2> QED
      BY <2>1
  <1> HIDE DEF outOfOrder
  <1>5. \A i \in 1 .. Len(rows) : rows[i].seq = i - 1
    <2> DEFINE out == {i \in 1 .. Len(rows) : rows[i].seq # i - 1}
    <2> SUFFICES ASSUME out # {} PROVE FALSE
      OBVIOUS
    <2>1. PICK i \in out : \A j \in out : i <= j
      <3>1. out \in SUBSET Nat /\ out # {}
        OBVIOUS
      <3> QED
        BY <3>1, Least
    <2>2. i \in 1 .. Len(rows) /\ rows[i].seq # i - 1 /\ i \in Int
      OBVIOUS
    <2>3. i - 1 \in known \cup {0} /\ seqOf(i - 1) = i - 2
      <3>1. CASE i = 1
        BY <3>1
      <3>2. CASE i # 1
        <4>1. i - 1 \in 1 .. Len(rows) /\ i - 1 \notin out
          BY <2>1, <2>2, <3>2
        <4>2. rows[i - 1].seq = i - 1 - 1 /\ i - 1 # 0
          BY <4>1, <2>2, <3>2
        <4> QED
          BY <4>1, <4>2, <1>3, <2>2
      <3> QED
        BY <3>1, <3>2
    <2>4. i \in outOfOrder
      BY <2>2, <2>3, <1>3 DEF outOfOrder
    <2> QED
      BY <2>2, <2>4, <1>4
  <1>6. ASSUME NEW i \in 1 .. Len(rows)
        PROVE  rows[i].prev = (IF i = 1 THEN Genesis ELSE rows[i - 1])
    <2>1. CASE i = 1
      BY <1>2, <1>5, <2>1 DEF EditedAfter
    <2>2. CASE i # 1
      <3>1. i - 1 \in 1 .. Len(rows)
        BY <2>2
      <3>2. rows[i].seq = i - 1 /\ rows[i - 1].seq = i - 1 - 1 /\ rows[i] # Garbled /\ rows[i - 1] # Garbled
        BY <1>2, <1>5, <3>1
      <3>3. rows[i].seq = rows[i - 1].seq + 1
        BY <3>2
      <3> QED
        BY <1>2, <3>2, <3>3, <2>2 DEF EditedAfter, lineHash
    <2> QED
      BY <2>1, <2>2
  <1> QED
    BY <1>2, <1>5, <1>6

LEMMA SignedShape ==
  ASSUME NEW e, NEW c, SignedBy(e, c)
  PROVE  /\ c.kid = e.kid /\ InWindow(e, c.time) /\ c # Garbled
         /\ verifyWith(e.key, c) /\ c.sig = Signature(e.key, c)
         /\ c = [kid |-> c.kid, seq |-> c.seq, head |-> c.head, count |-> c.count,
                 time |-> c.time, sig |-> c.sig]
  <1> DEFINE r == [kid |-> e.kid, seq |-> c.seq, head |-> c.head, count |-> c.count, time |-> c.time]
             s == Signature(e.key, r)
             w == [kid |-> e.kid, seq |-> c.seq, head |-> c.head, count |-> c.count,
                   time |-> c.time, sig |-> s]
  <1>1. c = w
    BY DEF SignedBy, Signed
  <1>2. c.kid = e.kid /\ c.sig = s
    BY <1>1
  <1>3. c # Garbled
    <2>1. "seq" \in DOMAIN w /\ "seq" \notin DOMAIN Garbled
      BY DEF Garbled
    <2> QED
      BY <1>1, <2>1
  <1>4. Signature(e.key, c) = s
    BY <1>2 DEF Signature, checkpointPayload
  <1> QED
    BY <1>1, <1>2, <1>3, <1>4 DEF verifyWith, SignedBy

LEMMA OneEntry ==
  ASSUME NEW e \in Range(Allowlist), NEW f \in Range(Allowlist), e.kid = f.kid
  PROVE  e = f
  BY AuditAssumption DEF ParsesAllowlist, Range

LEMMA KeysPass ==
  ASSUME NEW e \in Range(Allowlist), NEW c, SignedBy(e, c)
  PROVE  KeyFindings(c) = {} /\ c # Garbled
  <1>1. c.kid = e.kid /\ InWindow(e, c.time) /\ verifyWith(e.key, c) /\ c # Garbled
    BY SignedShape
  <1>2. {f \in Range(Allowlist) : f.kid = c.kid} = {e}
    BY <1>1, OneEntry
  <1> QED
    BY <1>1, <1>2 DEF KeyFindings

ExpectedSeq(cps, k) == Max({0} \cup {cps[j].seq + 1 : j \in {i \in 1 .. k - 1 : cps[i] # Garbled}})
LatestCount(cps, k) == Max({0} \cup {cps[j].count : j \in {i \in 1 .. k - 1 : cps[i] # Garbled}})

(* verify finds nothing in the checkpoints the store signed but, perhaps, that one repeats a seq. *)
LEMMA AnchoringPasses ==
  ASSUME NEW rows, Len(rows) \in Nat, NEW cps, Len(cps) \in Nat, Anchoring(rows, cps),
         NEW k \in 1 .. Len(cps)
  PROVE  CheckpointFindings(rows, cps, k) =
           IF cps[k].seq # ExpectedSeq(cps, k) \/ cps[k].count < LatestCount(cps, k)
           THEN {"checkpoint-replayed"} ELSE {}
  <1> DEFINE c == cps[k]
  <1>1. PICK e \in Range(Allowlist) : SignedBy(e, c)
    BY DEF Anchoring
  <1>2. KeyFindings(c) = {} /\ c # Garbled
    BY <1>1, KeysPass
  <1>3. c.count \in 1 .. Len(rows) /\ c.head = rows[c.count]
    BY DEF Anchoring, Covers
  <1>4. CheckpointFindings(rows, cps, k) =
          (IF c = Garbled THEN {"malformed-checkpoint"}
           ELSE IF c.count < 1 THEN {"malformed-checkpoint"}
           ELSE KeyFindings(c)
                \cup (IF c.seq # ExpectedSeq(cps, k) \/ c.count < LatestCount(cps, k)
                      THEN {"checkpoint-replayed"} ELSE {})
                \cup (IF c.count > Len(rows) THEN {"truncated-behind-checkpoint"}
                      ELSE IF lineHash(rows[c.count]) # c.head THEN {"head-mismatch"} ELSE {}))
    BY DEF CheckpointFindings, ExpectedSeq, LatestCount
  <1> HIDE DEF c
  <1>5. ~(c.count < 1) /\ ~(c.count > Len(rows)) /\ lineHash(rows[c.count]) = c.head
    BY <1>3 DEF lineHash
  <1> QED
    BY <1>2, <1>4, <1>5 DEF c

(* Numbered by their place, they pass. *)
LEMMA NumberedPasses ==
  ASSUME NEW rows, Len(rows) \in Nat, NEW cps, Len(cps) \in Nat, Anchoring(rows, cps), Numbered(cps),
         NEW k \in 1 .. Len(cps)
  PROVE  CheckpointFindings(rows, cps, k) = {}
  <1> DEFINE c == cps[k]
             earlier == {j \in 1 .. k - 1 : cps[j] # Garbled}
             seqs == {0} \cup {cps[j].seq + 1 : j \in earlier}
             counts == {0} \cup {cps[j].count : j \in earlier}
  <1>3. \A j \in 1 .. k - 1 : /\ j \in 1 .. Len(cps) /\ cps[j].seq = j - 1 /\ cps[j].count \in Nat
                              /\ cps[j].count <= c.count
    BY DEF Anchoring, Covers, Numbered
  <1>4. c.seq = k - 1 /\ c.count \in 1 .. Len(rows)
    BY DEF Anchoring, Covers, Numbered
  <1>5. \A j \in 1 .. k - 1 : cps[j] # Garbled
    BY <1>3, KeysPass DEF Anchoring
  <1>6. Max(seqs) = k - 1
    <2>1. seqs \subseteq Int /\ \A x \in seqs : k - 1 >= x
      BY <1>3
    <2>2. k - 1 \in seqs
      <3>1. CASE k = 1
        BY <3>1
      <3>2. CASE k # 1
        <4>1. k - 1 \in 1 .. k - 1 /\ cps[k - 1].seq + 1 = k - 1
          BY <1>3, <3>2
        <4> QED
          BY <4>1, <1>5
      <3> QED
        BY <3>1, <3>2
    <2> QED
      BY <2>1, <2>2, MaxIs
  <1>7. Max(counts) \in counts /\ counts \subseteq Int /\ \A x \in counts : c.count >= x
    <2>1. counts \subseteq Int /\ \A x \in counts : c.count >= x
      BY <1>3, <1>4
    <2>2. PICK m \in counts : \A x \in counts : m >= x
      <3>1. CASE k = 1
        BY <3>1
      <3>2. CASE k # 1
        <4>1. k - 1 \in 1 .. k - 1 /\ cps[k - 1].count \in counts
          BY <1>5, <3>2
        <4>2. \A j \in 1 .. k - 1 : cps[j].count <= cps[k - 1].count
          BY <1>3, <4>1 DEF Anchoring
        <4>3. cps[k - 1].count \in Nat
          BY <1>3, <4>1
        <4>4. \A x \in counts : cps[k - 1].count >= x
          <5>1. \A j \in earlier : cps[j].count <= cps[k - 1].count /\ cps[j].count \in Nat
            BY <4>2, <1>3
          <5> QED
            BY <4>3, <5>1
        <4> QED
          BY <4>1, <4>4
      <3> QED
        BY <3>1, <3>2
    <2>3. Max(counts) = m
      BY <2>1, <2>2, MaxIs
    <2> QED
      BY <2>1, <2>2, <2>3
  <1>8. ExpectedSeq(cps, k) = Max(seqs) /\ LatestCount(cps, k) = Max(counts)
    BY DEF ExpectedSeq, LatestCount
  <1> HIDE DEF c, seqs, counts
  <1>10. ~(c.seq # ExpectedSeq(cps, k) \/ c.count < LatestCount(cps, k))
    <2>1. c.count \in Int
      BY <1>4
    <2>2. Max(counts) \in Int /\ c.count >= Max(counts)
      BY <1>7
    <2> QED
      BY <1>4, <1>6, <1>8, <2>1, <2>2
  <1> QED
    BY <1>10, AnchoringPasses DEF c

-----------------------------------------------------------------------------
(* A row more, a checkpoint more, and what is left of both after a crash. *)
LEMMA ChainedCut ==
  ASSUME NEW s, NEW t, NEW last \in Nat, Len(s) \in Nat, Len(t) \in Nat, Agrees(s, t),
         Chained(t), RunsTo(t, last)
  PROVE  Chained(s) /\ RunsTo(s, last)
  <1>1. ASSUME NEW i \in 1 .. Len(s)
        PROVE  s[i] = RowAt(s, i)
    <2>1. i \in 1 .. Len(t) /\ s[i] = t[i] /\ t[i] = RowAt(t, i)
      BY DEF Agrees, Chained
    <2>2. i # 1 => s[i - 1] = t[i - 1]
      BY DEF Agrees
    <2> QED
      BY <2>1, <2>2 DEF RowAt
  <1>2. ASSUME NEW i \in 1 .. Len(s)
        PROVE  s[i].run \in 1 .. last
    BY DEF Agrees, RunsTo
  <1> QED
    BY <1>1, <1>2 DEF Chained, RunsTo

LEMMA ChainedOne ==
  ASSUME NEW rows, IsSequence(rows), NEW last \in Nat \ {0}, Chained(rows), RunsTo(rows, last),
         NEW body, NEW r,
         r = [seq |-> Len(rows), prev |-> IF Len(rows) = 0 THEN Genesis ELSE rows[Len(rows)],
              run |-> last, body |-> body]
  PROVE  Chained(Append(rows, r)) /\ RunsTo(Append(rows, r), last)
  <1> DEFINE more == Append(rows, r)
             n == Len(rows)
  <1>1. /\ Len(more) = n + 1 /\ n \in Nat
        /\ \A i \in 1 .. n : more[i] = rows[i]
        /\ more[n + 1] = r
    BY Appended, Lengths
  <1> HIDE DEF more
  <1>2. ASSUME NEW i \in 1 .. n
        PROVE  more[i] = RowAt(more, i) /\ more[i].run \in 1 .. last
    <2>1. more[i] = rows[i] /\ rows[i] = RowAt(rows, i) /\ rows[i].run \in 1 .. last
      BY <1>1 DEF Chained, RunsTo
    <2>2. i # 1 => more[i - 1] = rows[i - 1]
      BY <1>1
    <2> QED
      BY <2>1, <2>2 DEF RowAt
  <1>3. more[n + 1] = RowAt(more, n + 1) /\ more[n + 1].run \in 1 .. last
    <2>1. r.run = last /\ r.body = body
      OBVIOUS
    <2>2. n # 0 => more[n] = rows[n]
      BY <1>1
    <2>3. r = RowAt(more, n + 1)
      <3>1. CASE n = 0
        BY <1>1, <2>1, <3>1 DEF RowAt
      <3>2. CASE n # 0
        <4>1. n + 1 # 1 /\ (n + 1) - 1 = n
          BY <1>1, <3>2
        <4> QED
          BY <1>1, <2>1, <2>2, <3>2, <4>1 DEF RowAt
      <3> QED
        BY <3>1, <3>2
    <2> QED
      BY <1>1, <2>1, <2>3
  <1>4. \A i \in 1 .. Len(more) : i \in 1 .. n \/ i = n + 1
    BY <1>1
  <1> QED
    BY <1>2, <1>3, <1>4 DEF Chained, RunsTo, more

LEMMA AnchoringOver ==
  ASSUME NEW rows, NEW cps, NEW more, NEW left, Len(rows) \in Nat, Len(cps) \in Nat,
         Len(more) \in Nat, Len(left) \in Nat,
         NEW n \in Nat, n <= Len(more), \A i \in 1 .. n : i <= Len(rows) => more[i] = rows[i],
         Anchoring(rows, cps), CountsTo(cps, n), Agrees(left, cps)
  PROVE  Anchoring(more, left) /\ CountsTo(left, n)
  <1>1. ASSUME NEW k \in 1 .. Len(left)
        PROVE  k \in 1 .. Len(cps) /\ left[k] = cps[k] /\ left[k].count <= n
    BY DEF Agrees, CountsTo
  <1>2. ASSUME NEW k \in 1 .. Len(left)
        PROVE  Covers(more, left[k])
    <2>1. Covers(rows, cps[k]) /\ left[k] = cps[k] /\ left[k].count <= n
      BY <1>1 DEF Anchoring
    <2> QED
      BY <2>1 DEF Covers
  <1>3. ASSUME NEW k \in 1 .. Len(left), NEW j \in 1 .. k
        PROVE  left[j].count <= left[k].count
    <2>1. j \in 1 .. Len(left)
      OBVIOUS
    <2>2. left[j] = cps[j] /\ left[k] = cps[k] /\ k \in 1 .. Len(cps)
      BY <1>1, <2>1
    <2> QED
      BY <2>2 DEF Anchoring
  <1> QED
    BY <1>1, <1>2, <1>3 DEF Anchoring, CountsTo

LEMMA AnchoringOne ==
  ASSUME NEW rows, NEW cps, Len(rows) \in Nat, IsSequence(cps), Anchoring(rows, cps),
         NEW e \in Range(Allowlist), NEW c, SignedBy(e, c), c.seq \in Nat, Covers(rows, c),
         CountsTo(cps, c.count)
  PROVE  Anchoring(rows, Append(cps, c)) /\ CountsTo(Append(cps, c), c.count)
  <1> DEFINE more == Append(cps, c)
             n == Len(cps)
  <1>1. /\ Len(more) = n + 1 /\ n \in Nat
        /\ \A i \in 1 .. n : more[i] = cps[i]
        /\ more[n + 1] = c
    BY Appended, Lengths
  <1> HIDE DEF more
  <1>2. \A k \in 1 .. Len(more) : k \in 1 .. n \/ k = n + 1
    BY <1>1
  <1>3. \A k \in 1 .. Len(more) : more[k].count <= c.count
    <2>1. c.count \in Int
      BY DEF Covers
    <2> QED
      BY <1>1, <1>2, <2>1 DEF CountsTo
  <1>4. ASSUME NEW k \in 1 .. n
        PROVE  /\ \E f \in Range(Allowlist) : SignedBy(f, more[k])
               /\ more[k].seq \in Nat /\ Covers(rows, more[k])
               /\ \A j \in 1 .. k : more[j].count <= more[k].count
    <2>1. \A j \in 1 .. k : more[j] = cps[j]
      BY <1>1
    <2>2. more[k] = cps[k]
      BY <1>1
    <2> QED
      BY <2>1, <2>2 DEF Anchoring
  <1>5. /\ \E f \in Range(Allowlist) : SignedBy(f, more[n + 1])
        /\ more[n + 1].seq \in Nat /\ Covers(rows, more[n + 1])
        /\ \A j \in 1 .. n + 1 : more[j].count <= more[n + 1].count
    BY <1>1, <1>3
  <1> QED
    BY <1>2, <1>3, <1>4, <1>5 DEF Anchoring, CountsTo, more

LEMMA NumberedCut ==
  ASSUME NEW cps, NEW left, Len(cps) \in Nat, Len(left) \in Nat, Numbered(cps), Agrees(left, cps)
  PROVE  Numbered(left)
  BY DEF Numbered, Agrees

LEMMA NumberedOne ==
  ASSUME NEW cps, IsSequence(cps), Numbered(cps), NEW c, c.seq = Len(cps)
  PROVE  Numbered(Append(cps, c))
  <1> DEFINE more == Append(cps, c)
             n == Len(cps)
  <1>1. /\ Len(more) = n + 1 /\ n \in Nat
        /\ \A i \in 1 .. n : more[i] = cps[i]
        /\ more[n + 1] = c
    BY Appended, Lengths
  <1> HIDE DEF more
  <1>2. \A k \in 1 .. Len(more) : k \in 1 .. n \/ k = n + 1
    BY <1>1
  <1> QED
    BY <1>1, <1>2 DEF Numbered, more

LEMMA FileFacts ==
  ASSUME AuditInv
  PROVE  /\ Len(log.lines) \in Nat /\ Len(anchor.lines) \in Nat
         /\ IsSequence(Complete(log)) /\ IsSequence(Complete(anchor))
         /\ Len(Complete(log)) \in Nat /\ Len(Complete(anchor)) \in Nat
         /\ Agrees(log.lines, Complete(log)) /\ Agrees(anchor.lines, Complete(anchor))
         /\ Chained(log.lines) /\ RunsTo(log.lines, starts)
         /\ Anchoring(log.lines, anchor.lines) /\ CountsTo(anchor.lines, log.safe)
         /\ Once => Numbered(anchor.lines)
         /\ node \in Working => Complete(log) = log.lines /\ Complete(anchor) = anchor.lines
  <1> USE DEF AuditInv
  <1>1. IsSequence(log.lines) /\ IsSequence(anchor.lines)
    BY DEF ShapeInv
  <1>2. /\ IsSequence(Complete(log)) /\ IsSequence(Complete(anchor))
        /\ Agrees(log.lines, Complete(log)) /\ Agrees(anchor.lines, Complete(anchor))
        /\ node \in Working => Complete(log) = log.lines /\ Complete(anchor) = anchor.lines
    BY <1>1, Lines DEF StoreInv
  <1>3. /\ Len(log.lines) \in Nat /\ Len(anchor.lines) \in Nat
        /\ Len(Complete(log)) \in Nat /\ Len(Complete(anchor)) \in Nat
    BY <1>1, <1>2, Lengths
  <1>4. /\ starts \in Nat /\ log.safe \in 0 .. Len(log.lines)
    BY DEF AuditTypeOK
  <1>5. Chained(log.lines) /\ RunsTo(log.lines, starts)
    BY <1>2, <1>3, <1>4, ChainedCut DEF FilesInv
  <1>6. \A i \in 1 .. log.safe : i <= Len(Complete(log)) => log.lines[i] = Complete(log)[i]
    BY <1>2, <1>3, <1>4 DEF Agrees
  <1>7. Anchoring(log.lines, anchor.lines) /\ CountsTo(anchor.lines, log.safe)
    <2>1. Anchoring(Complete(log), Complete(anchor)) /\ CountsTo(Complete(anchor), log.safe)
      BY DEF FilesInv
    <2>2. log.safe \in Nat /\ log.safe <= Len(log.lines)
      BY <1>3, <1>4
    <2> HIDE DEF AuditInv
    <2> QED
      BY <1>2, <1>3, <1>6, <2>1, <2>2, AnchoringOver
  <1>8. Once => Numbered(anchor.lines)
    BY <1>2, <1>3, NumberedCut DEF FilesInv
  <1> QED
    BY <1>1, <1>2, <1>3, <1>5, <1>7, <1>8

LEMMA LastCountIs ==
  ASSUME AuditInv
  PROVE  /\ LastCount(anchor.lines) \in 0 .. log.safe
         /\ \A k \in 1 .. Len(anchor.lines) : anchor.lines[k].count <= LastCount(anchor.lines)
  <1>1. Len(anchor.lines) \in Nat /\ Anchoring(log.lines, anchor.lines) /\ CountsTo(anchor.lines, log.safe)
    BY FileFacts
  <1>2. IsSequence(anchor.lines) /\ log.safe \in Nat
    BY DEF AuditInv, ShapeInv, AuditTypeOK
  <1>3. CASE anchor.lines = <<>>
    BY <1>2, <1>3 DEF LastCount
  <1>4. CASE anchor.lines # <<>>
    <2>1. Len(anchor.lines) \in 1 .. Len(anchor.lines)
      BY <1>2, <1>4 DEF IsSequence
    <2>2. LastCount(anchor.lines) = anchor.lines[Len(anchor.lines)].count
      BY <1>4 DEF LastCount, Last
    <2> QED
      BY <1>1, <1>2, <2>1, <2>2 DEF Anchoring, CountsTo, Covers
  <1> QED
    BY <1>3, <1>4

-----------------------------------------------------------------------------
(* The invariant, action by action. *)
LEMMA InitHolds == AuditInit => AuditInv
  <1> SUFFICES ASSUME AuditInit PROVE AuditInv
    OBVIOUS
  <1> USE DEF AuditInit
  <1>1. /\ log.lines = <<>> /\ anchor.lines = <<>> /\ todo = <<>>
        /\ log.safe = 0 /\ anchor.safe = 0 /\ log.tail = NoTail /\ anchor.tail = NoTail
        /\ log = [lines |-> log.lines, tail |-> log.tail, safe |-> log.safe]
        /\ anchor = [lines |-> anchor.lines, tail |-> anchor.tail, safe |-> anchor.safe]
    BY DEF Fresh
  <1>2. Complete(log) = <<>> /\ Complete(anchor) = <<>>
    BY <1>1 DEF Complete
  <1>3. IsSequence(<<>>)
    BY DEF IsSequence
  <1>4. Head(Allowlist) \in Range(Allowlist)
    <2>1. Allowlist \in Seq(Range(Allowlist)) /\ Allowlist # <<>>
      BY AuditAssumption DEF ParsesAllowlist
    <2> QED
      BY <2>1
  <1>5. AuditTypeOK
    BY <1>1, <1>4, AuditAssumption DEF AuditTypeOK
  <1>6. ShapeInv
    BY <1>1, <1>3 DEF ShapeInv
  <1>7. FilesInv
    BY <1>1, <1>2 DEF FilesInv, Chained, RunsTo, Anchoring, CountsTo, Numbered
  <1>8. StoreInv /\ StepInv /\ FirstRow /\ OpenedInv
    BY DEF StoreInv, StepInv, FirstRow, OpenedInv, Working, Running
  <1> QED
    BY <1>5, <1>6, <1>7, <1>8 DEF AuditInv

(* The last checkpoint is one the store's own constructor accepts. *)
LEMMA NeverRefused ==
  ASSUME AuditInv, NEW own \in Range(Allowlist), ~Torn(log), ~Torn(anchor)
  PROVE  ~NotALog /\ ~BehindAnchor(own)
  <1>1. /\ IsSequence(log.lines) /\ IsSequence(anchor.lines)
        /\ log.safe \in 0 .. Len(log.lines)
    BY DEF AuditInv, ShapeInv, AuditTypeOK
  <1>2. /\ Len(log.lines) \in Nat /\ Len(anchor.lines) \in Nat
        /\ Chained(log.lines) /\ Anchoring(log.lines, anchor.lines)
        /\ CountsTo(anchor.lines, log.safe)
    BY FileFacts
  <1>3. ~NotALog
    <2> SUFFICES ASSUME log.lines # <<>> PROVE ~NotALog
      BY DEF NotALog
    <2>1. Len(log.lines) \in 1 .. Len(log.lines)
      BY <1>1, <1>2 DEF IsSequence
    <2>2. Last(log.lines) # Garbled /\ Last(log.lines).seq = Len(log.lines) - 1
      BY <1>2, <2>1, NoRowIsGarbled DEF Last
    <2> QED
      BY <2>2 DEF NotALog
  <1>4. ~BehindAnchor(own)
    <2> SUFFICES ASSUME anchor.lines # <<>> PROVE ~BehindAnchor(own)
      BY DEF BehindAnchor
    <2> DEFINE last == Last(anchor.lines)
    <2>1. Len(anchor.lines) \in 1 .. Len(anchor.lines)
      BY <1>1, <1>2 DEF IsSequence
    <2>2. PICK e \in Range(Allowlist) : SignedBy(e, last)
      BY <1>2, <2>1 DEF Anchoring, Last
    <2>3. last.kid = e.kid /\ verifyWith(e.key, last) /\ last # Garbled
      BY <2>2, SignedShape
    <2>4. ~NotOurs(own)
      <3>1. last.kid = own.kid => e = own
        BY <2>3, OneEntry
      <3> QED
        BY <2>3, <3>1 DEF NotOurs
    <2>5. Covers(log.lines, last) /\ last.count <= log.safe
      BY <1>2, <2>1 DEF Anchoring, CountsTo, Last
    <2>6. last.count <= Len(log.lines) /\ lineHash(log.lines[last.count]) = last.head
      BY <1>1, <1>2, <2>5 DEF Covers, lineHash
    <2> QED
      BY <2>3, <2>4, <2>6 DEF BehindAnchor
  <1> QED
    BY <1>3, <1>4

LEMMA StartKeeps ==
  ASSUME AuditInv, Start
  PROVE  AuditInv'
  <1> USE DEF Start
  <1>1. PICK own \in Range(Allowlist) : InWindow(own, today) /\ signer' = own
    OBVIOUS
  <1>2. /\ UNCHANGED <<files, today, step, caller, todo, faults>> /\ node = "down" /\ starts' = starts + 1
        /\ node' \in {"refusedTorn", "refused", "opened"}
        /\ node' = "refusedTorn" \/ (~Torn(log) /\ ~Torn(anchor))
        /\ node' # "opened" => UNCHANGED fields
        /\ node' = "refused" => NotALog \/ BehindAnchor(own)
    BY <1>1
  <1>3. node' # "refused"
    BY <1>1, <1>2, NeverRefused
  <1>4. UNCHANGED <<log, anchor>>
    BY <1>2 DEF files
  <1>5. /\ starts \in Nat /\ step = "idle" /\ caller = "none" /\ log.safe \in 0 .. Len(log.lines)
        /\ checkpointedCount \in Nat /\ seq \in Nat /\ todo = <<>>
    BY <1>2 DEF AuditInv, AuditTypeOK, StepInv, Running
  <1>6. ShapeInv'
    BY <1>2, <1>4 DEF AuditInv, ShapeInv
  <1>7. FilesInv'
    <2>1. RunsTo(Complete(log), starts + 1)
      BY <1>5, FileFacts DEF AuditInv, FilesInv, RunsTo
    <2> QED
      BY <1>2, <1>4, <2>1 DEF AuditInv, FilesInv, Once
  <1>8. CASE node' # "opened"
    <2>1. UNCHANGED fields
      BY <1>2, <1>8
    <2>2. AuditTypeOK'
      BY <1>1, <1>2, <1>3, <1>4, <1>5, <1>8, <2>1 DEF AuditInv, AuditTypeOK, fields
    <2>3. StoreInv' /\ StepInv' /\ FirstRow' /\ OpenedInv'
      BY <1>2, <1>3, <1>5, <1>8 DEF StoreInv, StepInv, FirstRow, OpenedInv, Working, Running
    <2> QED
      BY <1>3, <1>6, <1>7, <2>2, <2>3 DEF AuditInv
  <1>9. CASE node' = "opened"
    <2>1. /\ seq' = Len(log.lines)
          /\ prev' = (IF log.lines = <<>> THEN Genesis ELSE lineHash(Last(log.lines)))
          /\ checkpointSeq' = (IF anchor.lines = <<>> THEN 0 ELSE Last(anchor.lines).seq + 1)
          /\ checkpointedCount' = (IF anchor.lines = <<>> THEN 0 ELSE Last(anchor.lines).count)
          /\ resumed' = IF log.lines = <<>> THEN NothingResumed
                        ELSE [fromSeq |-> seq', unanchored |-> seq' - checkpointedCount']
      BY <1>9
    <2>2. IsSequence(log.lines) /\ IsSequence(anchor.lines)
      BY DEF AuditInv, ShapeInv
    <2>3. /\ Len(log.lines) \in Nat /\ Len(anchor.lines) \in Nat
          /\ RunsTo(log.lines, starts) /\ Anchoring(log.lines, anchor.lines)
          /\ Once => Numbered(anchor.lines)
      BY FileFacts
    <2>4. /\ log.lines = <<>> <=> Len(log.lines) = 0
          /\ anchor.lines = <<>> <=> Len(anchor.lines) = 0
      BY <2>2 DEF IsSequence
    <2>5. checkpointedCount' = LastCount(anchor.lines) /\ LastCount(anchor.lines) \in 0 .. Len(log.lines)
      BY <1>5, <2>1, LastCountIs DEF LastCount
    <2>6. checkpointSeq' \in Nat /\ (Once => checkpointSeq' = Len(anchor.lines))
      <3>1. anchor.lines # <<>> => /\ Last(anchor.lines).seq \in Nat
                                   /\ Once => Last(anchor.lines).seq = Len(anchor.lines) - 1
        BY <2>3, <2>4 DEF Anchoring, Numbered, Last
      <3> QED
        BY <2>1, <2>3, <2>4, <3>1
    <2>7. prev' = (IF seq' = 0 THEN Genesis ELSE log.lines[seq'])
      BY <2>1, <2>4 DEF Last, lineHash
    <2>8. seq' = 0 \/ log.lines[seq'].run < starts'
      <3>1. seq' # 0 => log.lines[seq'].run \in 1 .. starts
        BY <2>1, <2>3 DEF RunsTo
      <3> QED
        BY <1>2, <1>5, <3>1
    <2>9. AuditTypeOK'
      BY <1>1, <1>2, <1>4, <1>5, <1>9, <2>1, <2>3, <2>5, <2>6 DEF AuditInv, AuditTypeOK
    <2>10. StoreInv'
      BY <1>1, <1>2, <1>4, <1>5, <1>9, <2>1, <2>5, <2>6, <2>7 DEF StoreInv, Once
    <2>11. StepInv'
      BY <1>2, <1>5, <1>9 DEF StepInv, Running
    <2>12. OpenedInv'
      BY <1>2, <1>4, <1>5, <1>9, <2>8 DEF OpenedInv
    <2>13. FirstRow'
      BY <1>2, <1>4, <1>5, <1>9, <2>1, <2>4, <2>5 DEF FirstRow
    <2> QED
      BY <1>3, <1>6, <1>7, <2>9, <2>10, <2>11, <2>12, <2>13 DEF AuditInv
  <1> QED
    BY <1>8, <1>9

LEMMA FilesKept ==
  ASSUME AuditInv, UNCHANGED <<log, anchor, starts, faults>>, IsSequence(todo')
  PROVE  ShapeInv' /\ FilesInv'
  BY DEF AuditInv, ShapeInv, FilesInv, Once

LEMMA TodoTyped ==
  ASSUME AuditTypeOK, ShapeInv
  PROVE  /\ \A i \in 1 .. Len(todo) : todo[i].event \in {"audit-resumed", "call"}
         /\ todo # <<>> => /\ IsSequence(Tail(todo))
                           /\ Len(Tail(todo)) = Len(todo) - 1
                           /\ \A i \in 1 .. Len(Tail(todo)) : Tail(todo)[i] = todo[i + 1]
  <1> DEFINE S == Range(todo)
  <1>1. todo \in Seq(S)
    BY DEF ShapeInv, IsSequence
  <1> HIDE DEF S
  <1>2. ASSUME todo # <<>>
        PROVE  /\ Tail(todo) \in Seq(S) /\ Len(Tail(todo)) = Len(todo) - 1
               /\ \A i \in 1 .. Len(Tail(todo)) : Tail(todo)[i] = todo[i + 1]
    BY <1>1, <1>2
  <1>3. \A i \in 1 .. Len(todo) : todo[i].event \in {"audit-resumed", "call"}
    BY DEF AuditTypeOK
  <1> QED
    BY <1>2, <1>3, OfASet

LEMMA RowsToWriteTyped ==
  /\ IsSequence(RowsToWrite) /\ RowsToWrite # <<>>
  /\ \A i \in 1 .. Len(RowsToWrite) : RowsToWrite[i].event \in {"audit-resumed", "call"}
  <1> DEFINE S == {CallRow, ResumedRow}
  <1>1. RowsToWrite \in Seq(S) /\ RowsToWrite # <<>>
    <2>1. CallRow \in S /\ ResumedRow \in S
      OBVIOUS
    <2> HIDE DEF S
    <2>2. <<CallRow>> \in Seq(S) /\ <<CallRow>> # <<>>
      BY <2>1
    <2>3. <<ResumedRow, CallRow>> \in Seq(S) /\ <<ResumedRow, CallRow>> # <<>>
      BY <2>1
    <2> QED
      BY <2>2, <2>3, Zenon DEF RowsToWrite
  <1>2. \A r \in S : r.event \in {"audit-resumed", "call"}
    BY DEF CallRow, ResumedRow
  <1>3. IsSequence(RowsToWrite)
    BY <1>1, OfASet
  <1> HIDE DEF S
  <1>4. \A i \in 1 .. Len(RowsToWrite) : RowsToWrite[i] \in S
    BY <1>1
  <1> QED
    BY <1>1, <1>2, <1>3, <1>4

(* The run's first call queues the row its opening calls for. *)
LEMMA AppendBeginsKeeps ==
  ASSUME AuditInv, AppendBegins
  PROVE  AuditInv'
  <1>1. /\ node \in Working /\ step = "idle" /\ todo' = RowsToWrite /\ resumed' = NothingResumed
        /\ node' = (IF node = "opened" THEN "starting" ELSE node)
        /\ caller' = "append" /\ step' = "row"
        /\ UNCHANGED <<log, anchor, today, signer, starts, seq, prev, checkpointSeq, checkpointedCount, faults>>
    BY DEF AppendBegins, Begin, Working, files
  <1>2. node' \in {"starting", "up", "stopping"} /\ node' \in Working
    BY <1>1 DEF Working, Running
  <1>3. AuditTypeOK'
    BY <1>1, <1>2, RowsToWriteTyped DEF AuditInv, AuditTypeOK, Running
  <1>4. ShapeInv' /\ FilesInv'
    BY <1>1, RowsToWriteTyped, FilesKept
  <1>5. StoreInv'
    BY <1>1, <1>2 DEF AuditInv, StoreInv, StepInv, Exact, Once
  <1>6. StepInv'
    BY <1>1, <1>2, RowsToWriteTyped DEF AuditInv, StepInv, Running
  <1>7. OpenedInv'
    BY <1>2 DEF OpenedInv
  <1>8. FirstRow'
    <2> SUFFICES ASSUME Len(log.lines) = 0 \/ log.lines[Len(log.lines)].run < starts
                 PROVE  /\ node' = "starting"
                        /\ todo' = IF Len(log.lines) = 0 THEN <<CallRow>>
                                   ELSE <<[event |-> "audit-resumed", fromSeq |-> Len(log.lines),
                                           unanchored |-> Len(log.lines) - LastCount(anchor.lines)], CallRow>>
      BY <1>1 DEF FirstRow
    <2>1. /\ node = "opened"
          /\ resumed = IF Len(log.lines) = 0 THEN NothingResumed
                       ELSE [fromSeq |-> Len(log.lines), unanchored |-> Len(log.lines) - LastCount(anchor.lines)]
      BY <1>1 DEF AuditInv, FirstRow
    <2>2. Len(log.lines) # 0 => resumed # NothingResumed
      <3> SUFFICES ASSUME Len(log.lines) # 0 PROVE resumed # NothingResumed
        OBVIOUS
      <3>1. resumed.fromSeq = Len(log.lines) /\ NothingResumed.fromSeq = 0
        BY <2>1 DEF NothingResumed
      <3> QED
        BY <3>1
    <2> QED
      BY <1>1, <2>1, <2>2 DEF RowsToWrite, ResumedRow
  <1> QED
    BY <1>2, <1>3, <1>4, <1>5, <1>6, <1>7, <1>8 DEF AuditInv

LEMMA TimerFiresKeeps ==
  ASSUME AuditInv, TimerFires
  PROVE  AuditInv'
  <1>1. /\ node \in Running /\ step = "idle" /\ seq > checkpointedCount
        /\ caller' = "timer" /\ step' = "sync"
        /\ UNCHANGED <<log, anchor, today, signer, starts, node, todo, fields, faults>>
    BY DEF TimerFires, Pending, Begin, files
  <1>2. node \in Working /\ node # "opened" /\ node # "refused" /\ todo = <<>> /\ seq > 0
    BY <1>1 DEF AuditInv, AuditTypeOK, StepInv, Working, Running
  <1>3. AuditTypeOK'
    BY <1>1 DEF AuditInv, AuditTypeOK, fields
  <1>4. ShapeInv' /\ FilesInv'
    BY <1>1, FilesKept DEF AuditInv, ShapeInv
  <1>5. StoreInv'
    BY <1>1 DEF AuditInv, StoreInv, StepInv, Exact, Once, fields
  <1>6. StepInv' /\ OpenedInv'
    BY <1>1, <1>2 DEF StepInv, OpenedInv, fields
  <1>7. FirstRow'
    BY <1>1, <1>2 DEF AuditInv, FirstRow
  <1> QED
    BY <1>1, <1>2, <1>3, <1>4, <1>5, <1>6, <1>7 DEF AuditInv

LEMMA CloseKeeps ==
  ASSUME AuditInv, Close
  PROVE  AuditInv'
  <1>1. /\ node \in Running /\ step = "idle"
        /\ UNCHANGED <<log, anchor, today, signer, starts, todo, fields, faults>>
        /\ \/ seq > checkpointedCount /\ caller' = "close" /\ step' = "sync" /\ node' = node
           \/ node' = "down" /\ step' = step /\ caller' = caller
    BY DEF Close, Pending, Begin, files
  <1>2. node \in Working /\ node # "opened" /\ node # "refused" /\ todo = <<>>
    BY <1>1 DEF AuditInv, AuditTypeOK, StepInv, Working, Running
  <1>3. AuditTypeOK'
    BY <1>1 DEF AuditInv, AuditTypeOK, fields
  <1>4. ShapeInv' /\ FilesInv'
    BY <1>1, FilesKept DEF AuditInv, ShapeInv
  <1>5. StoreInv'
    BY <1>1, <1>2 DEF AuditInv, StoreInv, StepInv, Exact, Once, fields, Working, Running
  <1>6. seq > checkpointedCount => seq > 0
    BY DEF AuditInv, AuditTypeOK
  <1>7. StepInv' /\ OpenedInv'
    BY <1>1, <1>2, <1>6 DEF AuditInv, StepInv, OpenedInv, fields, Running
  <1>8. FirstRow'
    BY <1>1, <1>2 DEF AuditInv, FirstRow, Working, Running
  <1> QED
    BY <1>1, <1>2, <1>3, <1>4, <1>5, <1>7, <1>8 DEF AuditInv

LEMMA ServeKeeps ==
  ASSUME AuditInv, Serve
  PROVE  AuditInv'
  <1>1. /\ node = "starting" /\ step = "idle" /\ node' = "up"
        /\ UNCHANGED <<log, anchor, today, signer, starts, step, caller, todo, fields, faults>>
    BY DEF Serve, files
  <1>2. AuditTypeOK'
    BY <1>1 DEF AuditInv, AuditTypeOK, fields, Running
  <1>3. ShapeInv' /\ FilesInv'
    BY <1>1, FilesKept DEF AuditInv, ShapeInv
  <1>4. StoreInv'
    BY <1>1 DEF AuditInv, StoreInv, StepInv, Exact, Once, fields, Working, Running
  <1>5. StepInv' /\ OpenedInv'
    BY <1>1 DEF AuditInv, StepInv, OpenedInv, fields, Running
  <1>6. FirstRow'
    BY <1>1 DEF AuditInv, FirstRow, Working, Running
  <1> QED
    BY <1>1, <1>2, <1>3, <1>4, <1>5, <1>6 DEF AuditInv

LEMMA ThrowsKeeps ==
  ASSUME AuditInv, WriteThrows \/ SyncThrows
  PROVE  AuditInv'
  <1>1. step \in {"row", "anchor", "sync"} /\ Throws
    BY DEF WriteThrows, SyncThrows
  <1>2. /\ todo' = <<>> /\ UNCHANGED <<log, anchor, today, signer, starts, fields, faults>>
        /\ \/ /\ node = "starting" /\ node' = node /\ caller' = "close" /\ step' = "sync"
              /\ seq > checkpointedCount
           \/ node' = "down" /\ caller' = "none" /\ step' = "idle"
           \/ caller = "append" /\ node # "starting" /\ node' = "stopping" /\ caller' = "none" /\ step' = "idle"
    BY DEF WriteThrows, SyncThrows, Throws, Pending, Begin, files
  <1>3. node \in Running /\ step # "idle" /\ step # "anchorSync"
    BY <1>1 DEF AuditInv, StepInv
  <1>4. IsSequence(<<>>)
    BY DEF IsSequence
  <1>5. AuditTypeOK'
    BY <1>2, <1>3, <1>4 DEF AuditInv, AuditTypeOK, fields, Running
  <1>6. ShapeInv' /\ FilesInv'
    BY <1>2, <1>4, FilesKept
  <1>7. StoreInv'
    BY <1>2, <1>3 DEF AuditInv, StoreInv, Exact, Once, fields, Working, Running
  <1>8. seq > checkpointedCount => seq > 0
    BY DEF AuditInv, AuditTypeOK
  <1>9. StepInv' /\ OpenedInv'
    BY <1>2, <1>3, <1>8 DEF StepInv, OpenedInv, fields, Running
  <1>10. FirstRow'
    <2>1. CASE node = "starting" /\ node' = node /\ caller' = "close" /\ step' = "sync"
      BY <1>2, <1>4, <2>1 DEF FirstRow
    <2>2. CASE node' = "down"
      BY <2>2 DEF FirstRow, Working, Running
    <2>3. CASE caller = "append" /\ node # "starting" /\ node' = "stopping"
      BY <1>2, <1>3, <2>3 DEF AuditInv, FirstRow, Working, Running
    <2> QED
      BY <1>2, <2>1, <2>2, <2>3
  <1> QED
    BY <1>2, <1>3, <1>5, <1>6, <1>7, <1>9, <1>10 DEF AuditInv, Running

(* The checkpoint is written and not counted: its node stops. *)
LEMMA AnchorSyncThrowsKeeps ==
  ASSUME AuditInv, AnchorSyncThrows
  PROVE  AuditInv'
  <1>1. step = "anchorSync" /\ faults' = faults \cup {"anchor-sync"} /\ ~Once'
    BY DEF AnchorSyncThrows, Once
  <1>2. /\ todo' = <<>> /\ UNCHANGED <<log, anchor, today, signer, starts, fields>>
        /\ \/ /\ node = "starting" /\ node' = node /\ caller' = "close" /\ step' = "sync"
              /\ seq > checkpointedCount
           \/ node' = "down" /\ caller' = "none" /\ step' = "idle"
           \/ caller = "append" /\ node # "starting" /\ node' = "stopping" /\ caller' = "none" /\ step' = "idle"
    BY DEF AnchorSyncThrows, Throws, Pending, Begin, files
  <1>3. node \in Running
    BY <1>1 DEF AuditInv, StepInv
  <1>4. IsSequence(<<>>)
    BY DEF IsSequence
  <1>5. AuditTypeOK'
    BY <1>1, <1>2, <1>3, <1>4 DEF AuditInv, AuditTypeOK, fields, Running
  <1>6. ShapeInv' /\ FilesInv'
    BY <1>1, <1>2, <1>4 DEF AuditInv, ShapeInv, FilesInv
  <1>7. StoreInv'
    BY <1>1, <1>2, <1>3 DEF AuditInv, StoreInv, Exact, fields, Working, Running
  <1>8. seq > checkpointedCount => seq > 0
    BY DEF AuditInv, AuditTypeOK
  <1>9. StepInv' /\ OpenedInv'
    BY <1>2, <1>3, <1>8 DEF StepInv, OpenedInv, fields, Running
  <1>10. FirstRow'
    <2>1. CASE node = "starting" /\ node' = node /\ caller' = "close" /\ step' = "sync"
      BY <1>2, <1>4, <2>1 DEF FirstRow
    <2>2. CASE node' = "down"
      BY <2>2 DEF FirstRow, Working, Running
    <2>3. CASE caller = "append" /\ node # "starting" /\ node' = "stopping"
      BY <1>1, <1>2, <1>3, <2>3 DEF AuditInv, FirstRow, Working, Running
    <2> QED
      BY <1>2, <2>1, <2>2, <2>3
  <1> QED
    BY <1>2, <1>3, <1>5, <1>6, <1>7, <1>9, <1>10 DEF AuditInv, Running

LEMMA DiesKeeps ==
  ASSUME AuditInv, ProcessDies
  PROVE  AuditInv'
  <1>1. /\ node' = "down" /\ step' = "idle" /\ caller' = "none" /\ todo' = <<>>
        /\ UNCHANGED <<log, anchor, today, signer, starts, fields, faults>>
    BY DEF ProcessDies, files
  <1>2. IsSequence(<<>>)
    BY DEF IsSequence
  <1>3. AuditTypeOK'
    BY <1>1 DEF AuditInv, AuditTypeOK, fields
  <1>4. ShapeInv' /\ FilesInv'
    BY <1>1, <1>2, FilesKept
  <1>5. StoreInv' /\ StepInv' /\ FirstRow' /\ OpenedInv'
    BY <1>1 DEF StoreInv, StepInv, FirstRow, OpenedInv, Working, Running
  <1> QED
    BY <1>1, <1>3, <1>4, <1>5 DEF AuditInv

LEMMA DayKeeps ==
  ASSUME AuditInv, DayPasses
  PROVE  AuditInv'
  <1>1. /\ today < LastDay /\ today' = today + 1
        /\ node \in Working => InWindow(signer, today')
        /\ UNCHANGED <<log, anchor, signer, starts, node, step, caller, todo, fields, faults>>
    BY DEF DayPasses, files, Working
  <1>2. AuditTypeOK'
    BY <1>1, AuditAssumption DEF AuditInv, AuditTypeOK, fields
  <1>3. ShapeInv' /\ FilesInv'
    BY <1>1, FilesKept DEF AuditInv, ShapeInv
  <1>4. StoreInv'
    BY <1>1 DEF AuditInv, StoreInv, Exact, Once, fields
  <1>5. StepInv' /\ OpenedInv' /\ FirstRow'
    BY <1>1 DEF AuditInv, StepInv, OpenedInv, FirstRow, fields
  <1> QED
    BY <1>1, <1>2, <1>3, <1>4, <1>5 DEF AuditInv

LEMMA SyncedIs ==
  ASSUME NEW f, f = [lines |-> f.lines, tail |-> f.tail, safe |-> f.safe]
  PROVE  Synced(f) = [lines |-> f.lines, tail |-> f.tail, safe |-> Len(f.lines)]
  <1>1. \A l, t, s, x : [[lines |-> l, tail |-> t, safe |-> s] EXCEPT !.safe = x]
                          = [lines |-> l, tail |-> t, safe |-> x]
    BY SMT
  <1> DEFINE g == [lines |-> f.lines, tail |-> f.tail, safe |-> f.safe]
  <1>2. Synced(f) = [g EXCEPT !.safe = Len(f.lines)]
    BY DEF Synced
  <1> QED
    BY <1>1, <1>2

LEMMA RowIs ==
  ASSUME AuditInv, step = "row"
  PROVE  /\ IsSequence(log.lines) /\ Len(log.lines) \in Nat /\ starts \in Nat \ {0}
         /\ Row = [seq |-> Len(log.lines),
                   prev |-> IF Len(log.lines) = 0 THEN Genesis ELSE log.lines[Len(log.lines)],
                   run |-> starts, body |-> Head(todo)]
         /\ Written(log, Row) = [lines |-> Append(log.lines, Row), tail |-> NoTail, safe |-> log.safe]
         /\ Chained(Append(log.lines, Row)) /\ RunsTo(Append(log.lines, Row), starts)
  <1>1. node \in Working
    BY DEF AuditInv, StepInv, Working
  <1>2. /\ ~Torn(log) /\ starts > 0 /\ seq = Len(log.lines)
        /\ prev = (IF seq = 0 THEN Genesis ELSE log.lines[seq])
    BY <1>1 DEF AuditInv, StoreInv
  <1>3. IsSequence(log.lines) /\ starts \in Nat
    BY DEF AuditInv, ShapeInv, AuditTypeOK
  <1>4. Len(log.lines) \in Nat /\ Chained(log.lines) /\ RunsTo(log.lines, starts)
    BY FileFacts
  <1>5. Row = [seq |-> Len(log.lines),
               prev |-> IF Len(log.lines) = 0 THEN Genesis ELSE log.lines[Len(log.lines)],
               run |-> starts, body |-> Head(todo)]
    BY <1>2 DEF Row
  <1>6. Chained(Append(log.lines, Row)) /\ RunsTo(Append(log.lines, Row), starts)
    <2>1. starts \in Nat \ {0}
      BY <1>2, <1>3
    <2> HIDE DEF Row
    <2> QED
      BY <1>3, <1>4, <1>5, <2>1, ChainedOne
  <1>7. Written(log, Row) = [lines |-> Append(log.lines, Row), tail |-> NoTail, safe |-> log.safe]
    <2>1. log = [lines |-> log.lines, tail |-> log.tail, safe |-> log.safe]
      BY DEF AuditInv, ShapeInv
    <2> QED
      BY <1>2, <2>1 DEF Written
  <1> QED
    BY <1>2, <1>3, <1>4, <1>5, <1>6, <1>7

LEMMA CheckpointIs ==
  ASSUME AuditInv, step = "anchor"
  PROVE  /\ IsSequence(anchor.lines) /\ Len(anchor.lines) \in Nat
         /\ Written(anchor, Checkpoint) =
              [lines |-> Append(anchor.lines, Checkpoint), tail |-> NoTail, safe |-> anchor.safe]
         /\ Checkpoint.count = seq /\ log.safe = seq /\ seq = Len(log.lines)
         /\ Anchoring(log.lines, Append(anchor.lines, Checkpoint))
         /\ CountsTo(Append(anchor.lines, Checkpoint), seq)
         /\ Once => Numbered(Append(anchor.lines, Checkpoint))
  <1>1. node \in Working /\ seq > 0 /\ log.safe = seq
    BY DEF AuditInv, StepInv, Working
  <1>2. /\ ~Torn(anchor) /\ InWindow(signer, today) /\ seq = Len(log.lines)
        /\ prev = log.lines[seq] /\ checkpointSeq \in Nat
        /\ Once => checkpointSeq = Len(anchor.lines)
    BY <1>1 DEF AuditInv, StoreInv, AuditTypeOK
  <1>3. /\ IsSequence(anchor.lines) /\ signer \in Range(Allowlist)
        /\ anchor = [lines |-> anchor.lines, tail |-> anchor.tail, safe |-> anchor.safe]
    BY DEF AuditInv, ShapeInv, AuditTypeOK
  <1>4. /\ Len(log.lines) \in Nat /\ Len(anchor.lines) \in Nat
        /\ Anchoring(log.lines, anchor.lines) /\ CountsTo(anchor.lines, log.safe)
        /\ Once => Numbered(anchor.lines)
    BY FileFacts
  <1> DEFINE c == Checkpoint
  <1>5. /\ c.kid = signer.kid /\ c.seq = checkpointSeq /\ c.head = prev /\ c.count = seq /\ c.time = today
    BY DEF Checkpoint, Signed
  <1>6. SignedBy(signer, c)
    <2>1. c = Signed(signer.key, [kid |-> signer.kid, seq |-> c.seq, head |-> c.head,
                                  count |-> c.count, time |-> c.time])
      BY <1>5 DEF Checkpoint
    <2> QED
      BY <1>2, <1>5, <2>1 DEF SignedBy
  <1> HIDE DEF c
  <1>7. Covers(log.lines, c)
    BY <1>1, <1>2, <1>4, <1>5 DEF Covers
  <1>8. Anchoring(log.lines, Append(anchor.lines, c)) /\ CountsTo(Append(anchor.lines, c), c.count)
    <2>1. CountsTo(anchor.lines, c.count)
      BY <1>1, <1>4, <1>5
    <2> QED
      BY <1>2, <1>3, <1>4, <1>5, <1>6, <1>7, <2>1, AnchoringOne
  <1>9. Written(anchor, c) = [lines |-> Append(anchor.lines, c), tail |-> NoTail, safe |-> anchor.safe]
    BY <1>2, <1>3 DEF Written
  <1>10. Once => Numbered(Append(anchor.lines, c))
    BY <1>2, <1>3, <1>4, <1>5, NumberedOne
  <1> QED
    BY <1>1, <1>2, <1>3, <1>4, <1>5, <1>8, <1>9, <1>10 DEF c

(* The row written is the chain's next one. *)
LEMMA WriteRowKeeps ==
  ASSUME AuditInv, WriteRow
  PROVE  AuditInv'
  <1> DEFINE n == Len(log.lines)
             more == Append(log.lines, Row)
  <1>1. /\ step = "row" /\ log' = Written(log, Row)
        /\ seq' = seq + 1 /\ prev' = Row /\ todo' = Tail(todo)
        /\ UNCHANGED <<anchor, today, signer, starts, checkpointSeq, checkpointedCount, resumed, faults>>
    BY DEF WriteRow, AfterRow, lineHash
  <1>2. \/ Due(seq + 1) /\ step' = "sync" /\ UNCHANGED <<caller, node>>
        \/ ~Due(seq + 1) /\ todo' = <<>> /\ step' = "idle" /\ caller' = "none" /\ node' = node
        \/ todo' # <<>> /\ step' = "row" /\ UNCHANGED <<caller, node>>
    <2>1. caller # "close"
      BY <1>1 DEF AuditInv, StepInv
    <2> QED
      BY <2>1 DEF WriteRow, AfterRow, Returns
  <1>3. node' = node /\ node \in Running /\ node \in Working /\ todo # <<>> /\ caller = "append"
    BY <1>1, <1>2 DEF AuditInv, StepInv, Working
  <1>4. /\ IsSequence(log.lines) /\ n \in Nat /\ starts \in Nat \ {0}
        /\ log' = [lines |-> more, tail |-> NoTail, safe |-> log.safe]
        /\ Chained(more) /\ RunsTo(more, starts) /\ Row.run = starts
    BY <1>1, RowIs
  <1>5. /\ IsSequence(more) /\ Len(more) = n + 1 /\ more[n + 1] = Row
        /\ \A i \in 1 .. n : more[i] = log.lines[i]
    BY <1>4, Appended
  <1> HIDE DEF more, n
  <1>6. log'.lines = more /\ log'.tail = NoTail /\ log'.safe = log.safe
    BY <1>4
  <1>7. /\ ~Torn(anchor) /\ InWindow(signer, today) /\ seq = n
        /\ Once => checkpointSeq = Len(anchor.lines)
        /\ Exact => checkpointedCount = LastCount(anchor.lines)
    BY <1>1, <1>3 DEF AuditInv, StoreInv, n
  <1>8. /\ IsSequence(todo')
        /\ \A i \in 1 .. Len(todo') : todo'[i].event \in {"audit-resumed", "call"}
    <2>1. /\ IsSequence(Tail(todo)) /\ Len(Tail(todo)) = Len(todo) - 1
          /\ \A i \in 1 .. Len(Tail(todo)) : Tail(todo)[i] = todo[i + 1]
          /\ \A i \in 1 .. Len(todo) : todo[i].event \in {"audit-resumed", "call"}
      BY <1>3, TodoTyped DEF AuditInv
    <2>2. Len(todo) \in Nat
      BY Lengths DEF AuditInv, ShapeInv
    <2> QED
      BY <1>1, <2>1, <2>2
  <1>9. AuditTypeOK'
    <2>1. log'.safe \in 0 .. Len(log'.lines) /\ checkpointedCount \in 0 .. seq /\ seq \in Nat
      BY <1>4, <1>5, <1>6 DEF AuditInv, AuditTypeOK, n
    <2>2. /\ starts' \in Nat /\ today' \in 0 .. LastDay /\ signer' \in Range(Allowlist)
          /\ anchor'.safe \in 0 .. Len(anchor'.lines) /\ checkpointSeq' \in Nat
      BY <1>1 DEF AuditInv, AuditTypeOK
    <2>3. seq' \in Nat /\ checkpointedCount' \in 0 .. seq'
      BY <1>1, <2>1
    <2>4. step' \in {"idle", "row", "sync"} /\ caller' \in {"none", "append"}
      BY <1>2, <1>3
    <2> QED
      BY <1>1, <1>3, <1>8, <2>1, <2>2, <2>3, <2>4 DEF AuditInv, AuditTypeOK
  <1>10. ShapeInv'
    BY <1>1, <1>4, <1>5, <1>6, <1>8 DEF AuditInv, ShapeInv
  <1>11. Complete(log)' = more /\ Complete(anchor)' = anchor.lines
    BY <1>1, <1>6, <1>7 DEF Complete, Torn
  <1>12. FilesInv'
    <2>1. /\ Anchoring(log.lines, anchor.lines) /\ CountsTo(anchor.lines, log.safe)
          /\ Len(anchor.lines) \in Nat /\ log.safe \in 0 .. n
          /\ Once => Numbered(anchor.lines)
      BY FileFacts DEF AuditInv, AuditTypeOK, n
    <2>2. Agrees(anchor.lines, anchor.lines)
      BY <2>1 DEF Agrees
    <2>3. Anchoring(more, anchor.lines) /\ CountsTo(anchor.lines, log.safe)
      BY <1>4, <1>5, <2>1, <2>2, AnchoringOver DEF n
    <2> QED
      BY <1>1, <1>4, <1>6, <1>11, <2>1, <2>3 DEF FilesInv, Once
  <1>13. StoreInv'
    <2>1. seq' = Len(more) /\ seq' # 0 /\ prev' = more[seq']
      BY <1>1, <1>4, <1>5, <1>7
    <2> QED
      BY <1>1, <1>2, <1>3, <1>4, <1>6, <1>7, <2>1 DEF StoreInv, Exact, Once, Torn
  <1>14. StepInv'
    <2>1. seq \in Nat /\ checkpointedCount \in Nat
      BY DEF AuditInv, AuditTypeOK
    <2>2. ~Due(seq + 1) => seq' - checkpointedCount' < RowsEvery
      BY <1>1, <2>1, AuditAssumption DEF Due
    <2> QED
      BY <1>1, <1>2, <1>3, <2>1, <2>2 DEF StepInv
  <1>15. FirstRow' /\ OpenedInv'
    <2>1. node # "opened"
      BY <1>3 DEF AuditInv, OpenedInv, Running
    <2>2. Len(log'.lines) = n + 1 /\ log'.lines[n + 1].run = starts
      BY <1>4, <1>5, <1>6
    <2>3. ~(Len(log'.lines) = 0 \/ log'.lines[Len(log'.lines)].run < starts')
      BY <1>1, <1>4, <2>2
    <2> QED
      BY <1>3, <2>1, <2>3 DEF FirstRow, OpenedInv
  <1> QED
    BY <1>3, <1>9, <1>10, <1>12, <1>13, <1>14, <1>15 DEF AuditInv, Running

LEMMA SyncLogKeeps ==
  ASSUME AuditInv, SyncLog
  PROVE  AuditInv'
  <1>1. /\ step = "sync" /\ log' = Synced(log) /\ step' = "anchor"
        /\ UNCHANGED <<anchor, today, signer, starts, node, caller, todo, fields, faults>>
    BY DEF SyncLog
  <1>2. /\ node \in Running /\ node \in Working /\ caller # "none" /\ seq > 0
        /\ (caller # "append" => todo = <<>>)
    BY <1>1 DEF AuditInv, StepInv, Working
  <1>3. /\ IsSequence(log.lines) /\ Len(log.lines) \in Nat
        /\ log' = [lines |-> log.lines, tail |-> log.tail, safe |-> Len(log.lines)]
    BY <1>1, SyncedIs, FileFacts DEF AuditInv, ShapeInv
  <1>4. log'.lines = log.lines /\ log'.tail = log.tail /\ log'.safe = Len(log.lines)
    BY <1>3
  <1>5. seq = Len(log.lines)
    BY <1>2 DEF AuditInv, StoreInv
  <1>6. AuditTypeOK'
    BY <1>1, <1>3, <1>4 DEF AuditInv, AuditTypeOK, fields
  <1>7. ShapeInv'
    BY <1>1, <1>3, <1>4 DEF AuditInv, ShapeInv
  <1>8. FilesInv'
    <2>1. Complete(log)' = Complete(log) /\ Complete(anchor)' = Complete(anchor)
      BY <1>1, <1>4 DEF Complete
    <2>2. log.safe <= Len(log.lines) /\ log.safe \in Nat /\ Len(Complete(anchor)) \in Nat
      BY FileFacts DEF AuditInv, AuditTypeOK
    <2>3. CountsTo(Complete(anchor), Len(log.lines))
      BY <1>3, <2>2 DEF AuditInv, FilesInv, CountsTo, Anchoring, Covers
    <2> QED
      BY <1>1, <1>4, <2>1, <2>3 DEF AuditInv, FilesInv, Once
  <1>9. StoreInv'
    BY <1>1, <1>2, <1>4 DEF AuditInv, StoreInv, Exact, Once, Torn, fields
  <1>10. StepInv' /\ OpenedInv'
    BY <1>1, <1>2, <1>4, <1>5 DEF StepInv, OpenedInv, Running, fields
  <1>11. FirstRow'
    BY <1>1, <1>2, <1>4 DEF AuditInv, FirstRow, Running, fields
  <1> QED
    BY <1>1, <1>6, <1>7, <1>8, <1>9, <1>10, <1>11 DEF AuditInv

(* The checkpoint written covers rows that are on disk. *)
LEMMA AppendAnchorKeeps ==
  ASSUME AuditInv, AppendAnchor
  PROVE  AuditInv'
  <1> DEFINE more == Append(anchor.lines, Checkpoint)
  <1>1. /\ step = "anchor" /\ anchor' = Written(anchor, Checkpoint) /\ step' = "anchorSync"
        /\ UNCHANGED <<log, today, signer, starts, node, caller, todo, fields, faults>>
    BY DEF AppendAnchor
  <1>2. /\ node \in Running /\ node \in Working /\ caller # "none" /\ seq > 0
        /\ (caller # "append" => todo = <<>>)
    BY <1>1 DEF AuditInv, StepInv, Working
  <1>3. /\ IsSequence(anchor.lines) /\ Len(anchor.lines) \in Nat
        /\ anchor' = [lines |-> more, tail |-> NoTail, safe |-> anchor.safe]
        /\ Checkpoint.count = seq /\ log.safe = seq /\ seq = Len(log.lines)
        /\ Anchoring(log.lines, more) /\ CountsTo(more, seq)
        /\ Once => Numbered(more)
    BY <1>1, CheckpointIs
  <1>4. IsSequence(more) /\ Len(more) = Len(anchor.lines) + 1 /\ more[Len(more)] = Checkpoint
    BY <1>3, Appended
  <1> HIDE DEF more
  <1>5. anchor'.lines = more /\ anchor'.tail = NoTail /\ anchor'.safe = anchor.safe
    BY <1>3
  <1>6. LastCount(more) = seq
    <2>1. more # <<>>
      BY <1>3, <1>4
    <2> QED
      BY <1>3, <1>4, <2>1 DEF LastCount, Last
  <1>7. AuditTypeOK'
    <2>1. anchor.safe \in 0 .. Len(anchor.lines)
      BY DEF AuditInv, AuditTypeOK
    <2>2. anchor'.safe \in 0 .. Len(anchor'.lines)
      BY <1>3, <1>4, <1>5, <2>1
    <2> QED
      BY <1>1, <2>2 DEF AuditInv, AuditTypeOK, fields
  <1>8. ShapeInv'
    BY <1>1, <1>3, <1>4, <1>5 DEF AuditInv, ShapeInv
  <1>9. FilesInv'
    <2>1. Complete(log)' = log.lines /\ Complete(anchor)' = more
      BY <1>1, <1>2, <1>5, FileFacts DEF Complete
    <2> QED
      BY <1>1, <1>3, <2>1, FileFacts DEF FilesInv, Once
  <1>10. StoreInv'
    BY <1>1, <1>2, <1>3, <1>4, <1>5, <1>6 DEF AuditInv, StoreInv, Once, Torn, fields
  <1>11. StepInv' /\ OpenedInv'
    BY <1>1, <1>2, <1>3 DEF StepInv, OpenedInv, Running, fields
  <1>12. FirstRow'
    BY <1>1, <1>2 DEF AuditInv, FirstRow, Running, fields
  <1> QED
    BY <1>1, <1>7, <1>8, <1>9, <1>10, <1>11, <1>12 DEF AuditInv

LEMMA SyncAnchorKeeps ==
  ASSUME AuditInv, SyncAnchor
  PROVE  AuditInv'
  <1>1. /\ step = "anchorSync" /\ anchor' = Synced(anchor)
        /\ checkpointSeq' = checkpointSeq + 1 /\ checkpointedCount' = seq
        /\ UNCHANGED <<log, today, signer, starts, todo, seq, prev, resumed, faults>>
        /\ step' = (IF todo = <<>> THEN "idle" ELSE "row")
        /\ caller' = (IF todo = <<>> THEN "none" ELSE caller)
        /\ node' = (IF caller = "close" THEN "down" ELSE node)
    BY DEF SyncAnchor, Returns
  <1>2. /\ node \in Running /\ node \in Working /\ caller # "none" /\ seq > 0 /\ node # "opened"
        /\ (caller # "append" => todo = <<>>)
    BY <1>1 DEF AuditInv, StepInv, Working, Running
  <1>3. /\ IsSequence(anchor.lines) /\ Len(anchor.lines) \in Nat
        /\ anchor' = [lines |-> anchor.lines, tail |-> anchor.tail, safe |-> Len(anchor.lines)]
    BY <1>1, SyncedIs, FileFacts DEF AuditInv, ShapeInv
  <1>4. anchor'.lines = anchor.lines /\ anchor'.tail = anchor.tail /\ anchor'.safe = Len(anchor.lines)
    BY <1>3
  <1>5. (Once => checkpointSeq' = Len(anchor.lines)) /\ checkpointedCount' = LastCount(anchor.lines)
    BY <1>1, <1>2 DEF AuditInv, StoreInv
  <1>6. seq \in Nat
    BY DEF AuditInv, AuditTypeOK
  <1>7. AuditTypeOK'
    <2>1. /\ checkpointedCount' \in 0 .. seq' /\ checkpointSeq' \in Nat /\ seq' \in Nat
          /\ anchor'.safe \in 0 .. Len(anchor'.lines)
      BY <1>1, <1>3, <1>4, <1>6 DEF AuditInv, AuditTypeOK
    <2>2. /\ starts' \in Nat /\ today' \in 0 .. LastDay /\ signer' \in Range(Allowlist)
          /\ node' \in Running \cup {"down"}
          /\ caller' \in {"none", "append", "timer", "close"} /\ step' \in {"idle", "row"}
          /\ \A i \in 1 .. Len(todo') : todo'[i].event \in {"audit-resumed", "call"}
          /\ log'.safe \in 0 .. Len(log'.lines)
      BY <1>1, <1>2 DEF AuditInv, AuditTypeOK
    <2> QED
      BY <1>1, <2>1, <2>2 DEF AuditInv, AuditTypeOK
  <1>8. ShapeInv'
    BY <1>1, <1>3, <1>4 DEF AuditInv, ShapeInv
  <1>9. FilesInv'
    <2>1. Complete(log)' = Complete(log) /\ Complete(anchor)' = Complete(anchor)
      BY <1>1, <1>4 DEF Complete
    <2> QED
      BY <1>1, <2>1 DEF AuditInv, FilesInv, Once
  <1>10. StoreInv'
    BY <1>1, <1>2, <1>4, <1>5 DEF AuditInv, StoreInv, Once, Torn, Working, Running
  <1>11. StepInv'
    BY <1>1, <1>2, <1>6, AuditAssumption DEF StepInv, Running
  <1>12. OpenedInv'
    BY <1>1, <1>2 DEF OpenedInv
  <1>13. FirstRow'
    <2>1. CASE caller = "close"
      BY <1>1, <2>1 DEF FirstRow, Working, Running
    <2>2. CASE caller # "close"
      BY <1>1, <1>2, <1>4, <2>2 DEF AuditInv, FirstRow
    <2> QED
      BY <2>1, <2>2
  <1> QED
    BY <1>1, <1>2, <1>7, <1>8, <1>9, <1>10, <1>11, <1>12, <1>13 DEF AuditInv, Running

(* A power failure cuts both files, never behind what an fsync covered. *)
LEMMA PowerFailsKeeps ==
  ASSUME AuditInv, PowerFails
  PROVE  AuditInv'
  <1> DEFINE l == IF step = "row" THEN Written(log, Row) ELSE log
             a == IF step = "anchor" THEN Written(anchor, Checkpoint) ELSE anchor
             rows == Complete(l)
             cps == Complete(a)
  <1>1. /\ log' \in Left(l) /\ anchor' \in Left(a)
        /\ node' = "down" /\ step' = "idle" /\ caller' = "none" /\ todo' = <<>>
        /\ UNCHANGED <<today, signer, starts, fields, faults>>
    BY DEF PowerFails
  <1>2. /\ starts \in Nat /\ log.safe \in 0 .. Len(log.lines) /\ anchor.safe \in 0 .. Len(anchor.lines)
        /\ IsSequence(log.lines) /\ IsSequence(anchor.lines)
    BY DEF AuditInv, AuditTypeOK, ShapeInv
  <1>3. /\ IsSequence(l.lines) /\ l.safe = log.safe /\ l.safe \in 0 .. Len(l.lines)
        /\ Chained(rows) /\ RunsTo(rows, starts)
        /\ \A i \in 1 .. log.safe : rows[i] = Complete(log)[i]
    <2>1. CASE step # "row"
      BY <1>2, <2>1 DEF AuditInv, FilesInv
    <2>2. CASE step = "row"
      <3> DEFINE more == Append(log.lines, Row)
      <3>1. /\ l = [lines |-> more, tail |-> NoTail, safe |-> log.safe]
            /\ Chained(more) /\ RunsTo(more, starts) /\ Len(log.lines) \in Nat
        BY <2>2, RowIs
      <3>2. /\ IsSequence(more) /\ Len(more) = Len(log.lines) + 1
            /\ \A i \in 1 .. Len(log.lines) : more[i] = log.lines[i]
        BY <1>2, Appended
      <3> HIDE DEF more
      <3>3. l.lines = more /\ l.safe = log.safe /\ rows = more
        BY <3>1 DEF Complete
      <3>4. Complete(log) = log.lines
        BY <2>2, FileFacts DEF AuditInv, StepInv, Working
      <3> HIDE DEF l, rows
      <3> QED
        BY <1>2, <3>1, <3>2, <3>3, <3>4
    <2> QED
      BY <2>1, <2>2
  <1>4. /\ IsSequence(a.lines) /\ a.safe \in 0 .. Len(a.lines)
        /\ Anchoring(Complete(log), cps) /\ CountsTo(cps, log.safe)
        /\ Once => Numbered(cps)
    <2>1. CASE step # "anchor"
      BY <1>2, <2>1 DEF AuditInv, FilesInv
    <2>2. CASE step = "anchor"
      <3> DEFINE more == Append(anchor.lines, Checkpoint)
      <3>1. /\ a = [lines |-> more, tail |-> NoTail, safe |-> anchor.safe]
            /\ Anchoring(log.lines, more) /\ CountsTo(more, log.safe) /\ Len(anchor.lines) \in Nat
            /\ Once => Numbered(more)
        BY <2>2, CheckpointIs
      <3>2. IsSequence(more) /\ Len(more) = Len(anchor.lines) + 1
        BY <1>2, Appended
      <3> HIDE DEF more
      <3>3. a.lines = more /\ a.safe = anchor.safe /\ cps = more
        BY <3>1 DEF Complete
      <3>4. Complete(log) = log.lines
        BY <2>2, FileFacts DEF AuditInv, StepInv, Working
      <3> HIDE DEF a, cps
      <3> QED
        BY <1>2, <3>1, <3>2, <3>3, <3>4
    <2> QED
      BY <2>1, <2>2
  <1> HIDE DEF l, a
  <1>5. /\ log' = [lines |-> log'.lines, tail |-> log'.tail, safe |-> log'.safe]
        /\ IsSequence(log'.lines) /\ log'.safe = Len(log'.lines) /\ log.safe <= log'.safe
        /\ Agrees(Complete(log'), rows)
    BY <1>1, <1>3, LeftOver
  <1>6. /\ anchor' = [lines |-> anchor'.lines, tail |-> anchor'.tail, safe |-> anchor'.safe]
        /\ IsSequence(anchor'.lines) /\ anchor'.safe = Len(anchor'.lines)
        /\ Agrees(Complete(anchor'), cps)
    BY <1>1, <1>4, LeftOver
  <1>7. /\ Len(Complete(log')) \in Nat /\ Len(Complete(anchor')) \in Nat
        /\ Len(rows) \in Nat /\ Len(cps) \in Nat /\ Len(Complete(log)) \in Nat
        /\ Len(log'.lines) \in Nat /\ Len(anchor'.lines) \in Nat
        /\ Len(log'.lines) <= Len(Complete(log'))
    BY <1>3, <1>4, <1>5, <1>6, Lines, Lengths, FileFacts
  <1>8. FilesInv'
    <2>1. Chained(Complete(log')) /\ RunsTo(Complete(log'), starts)
      BY <1>2, <1>3, <1>5, <1>7, ChainedCut
    <2>2. /\ log.safe \in Nat /\ log.safe <= Len(Complete(log'))
          /\ \A i \in 1 .. log.safe : i <= Len(Complete(log)) => Complete(log')[i] = Complete(log)[i]
      BY <1>2, <1>3, <1>5, <1>7 DEF Agrees
    <2>3. Anchoring(Complete(log'), Complete(anchor')) /\ CountsTo(Complete(anchor'), log.safe)
      BY <1>4, <1>6, <1>7, <2>2, AnchoringOver
    <2>4. CountsTo(Complete(anchor'), log'.safe)
      BY <1>2, <1>5, <1>7, <2>3 DEF CountsTo, Anchoring, Covers
    <2>5. Once => Numbered(Complete(anchor'))
      BY <1>4, <1>6, <1>7, NumberedCut
    <2> QED
      BY <1>1, <2>1, <2>3, <2>4, <2>5 DEF FilesInv, Once
  <1>9. ShapeInv'
    <2>1. IsSequence(<<>>)
      BY DEF IsSequence
    <2> QED
      BY <1>1, <1>5, <1>6, <2>1 DEF ShapeInv
  <1>10. AuditTypeOK'
    BY <1>1, <1>5, <1>6, <1>7 DEF AuditInv, AuditTypeOK, fields
  <1>11. StoreInv' /\ StepInv' /\ FirstRow' /\ OpenedInv'
    BY <1>1 DEF StoreInv, StepInv, FirstRow, OpenedInv, Working, Running
  <1> QED
    BY <1>1, <1>8, <1>9, <1>10, <1>11 DEF AuditInv

LEMMA StutterKeeps ==
  ASSUME AuditInv, UNCHANGED auditVars
  PROVE  AuditInv'
  BY DEF AuditInv, AuditTypeOK, ShapeInv, FilesInv, StoreInv, StepInv, FirstRow, OpenedInv, Exact, Once, auditVars, files, fields

-----------------------------------------------------------------------------
(* Types, whatever the disk does. *)
LEMMA WrittenIs ==
  ASSUME NEW f, IsSequence(f.lines), f.safe \in 0 .. Len(f.lines), NEW line
  PROVE  LET g == Written(f, line) IN
           /\ g = [lines |-> g.lines, tail |-> g.tail, safe |-> g.safe] /\ IsSequence(g.lines)
           /\ g.safe \in 0 .. Len(g.lines) /\ Len(g.lines) = Len(f.lines) + 1
           /\ \A k \in 1 .. Len(g.lines) :
                IF k <= Len(f.lines) THEN g.lines[k] = f.lines[k] ELSE g.lines[k] \in {line, Garbled}
  <1> DEFINE e == IF Torn(f) THEN Garbled ELSE line
             more == Append(f.lines, e)
  <1>1. Written(f, line) = [lines |-> more, tail |-> NoTail, safe |-> f.safe]
    BY DEF Written
  <1>2. /\ IsSequence(more) /\ Len(more) = Len(f.lines) + 1 /\ more[Len(f.lines) + 1] = e
        /\ \A i \in 1 .. Len(f.lines) : more[i] = f.lines[i]
        /\ Len(f.lines) \in Nat
    BY Appended, Lengths
  <1>3. e \in {line, Garbled}
    OBVIOUS
  <1> HIDE DEF more, e
  <1> QED
    BY <1>1, <1>2, <1>3

LEMMA CheckpointTyped ==
  ASSUME AuditTypeOK
  PROVE  Typed(Checkpoint)
  BY DEF AuditTypeOK, Typed, Checkpoint, Signed

LEMMA TypeKept ==
  ASSUME TypeInv, UNCHANGED <<log, anchor>>, AuditTypeOK', IsSequence(todo'), step' = "row" => todo' # <<>>
  PROVE  TypeInv'
  BY DEF TypeInv, ShapeInv

(* Rows: the store's fields count on, whatever its file took. *)
LEMMA AfterRowTyped ==
  ASSUME TypeInv, step = "row", AfterRow, log' = [lines |-> log'.lines, tail |-> log'.tail, safe |-> log'.safe],
         IsSequence(log'.lines), log'.safe \in 0 .. Len(log'.lines),
         faults' \subseteq {"short-write", "anchor-sync"}
  PROVE  TypeInv'
  <1>1. /\ seq' = seq + 1 /\ todo' = Tail(todo)
        /\ UNCHANGED <<anchor, today, signer, starts, checkpointSeq, checkpointedCount>>
        /\ node' \in {node, "down"} /\ caller' \in {caller, "none"}
        /\ step' \in {"sync", "idle", "row"} /\ (step' = "row" => todo' # <<>>)
    BY DEF AfterRow, Returns
  <1>2. todo # <<>> /\ AuditTypeOK /\ ShapeInv
    BY DEF TypeInv
  <1>3. /\ IsSequence(todo')
        /\ \A i \in 1 .. Len(todo') : todo'[i].event \in {"audit-resumed", "call"}
    <2>1. /\ IsSequence(Tail(todo)) /\ Len(Tail(todo)) = Len(todo) - 1
          /\ \A i \in 1 .. Len(Tail(todo)) : Tail(todo)[i] = todo[i + 1]
          /\ \A i \in 1 .. Len(todo) : todo[i].event \in {"audit-resumed", "call"}
      BY <1>2, TodoTyped
    <2>2. Len(todo) \in Nat
      BY <1>2, Lengths DEF ShapeInv
    <2> QED
      BY <1>1, <2>1, <2>2
  <1>4. AuditTypeOK'
    <2>1. seq \in Nat /\ checkpointedCount \in 0 .. seq
      BY <1>2 DEF AuditTypeOK
    <2>2. seq' \in Nat /\ checkpointedCount' \in 0 .. seq'
      BY <1>1, <2>1
    <2> QED
      BY <1>1, <1>2, <1>3, <2>2 DEF AuditTypeOK
  <1>5. ShapeInv'
    BY <1>1, <1>2, <1>3 DEF ShapeInv
  <1> QED
    BY <1>1, <1>4, <1>5 DEF TypeInv

LEMMA AnchoredTyped ==
  ASSUME TypeInv, step' = "anchorSync", UNCHANGED <<log, today, signer, starts, node, caller, todo, fields>>,
         anchor' = [lines |-> anchor'.lines, tail |-> anchor'.tail, safe |-> anchor'.safe],
         IsSequence(anchor'.lines), anchor'.safe \in 0 .. Len(anchor'.lines),
         \A k \in 1 .. Len(anchor'.lines) : Typed(anchor'.lines[k]),
         faults' \subseteq {"short-write", "anchor-sync"}
  PROVE  TypeInv'
  <1>1. AuditTypeOK'
    BY DEF TypeInv, AuditTypeOK, fields
  <1> QED
    BY <1>1 DEF TypeInv, ShapeInv

LEMMA StartTyped ==
  ASSUME TypeInv, Start
  PROVE  TypeInv'
  <1> USE DEF Start
  <1>1. PICK own \in Range(Allowlist) : signer' = own
    OBVIOUS
  <1>2. /\ UNCHANGED <<log, anchor, today, step, caller, todo, faults>> /\ starts' = starts + 1
        /\ node' \in {"refusedTorn", "refused", "opened"}
        /\ node' # "opened" => UNCHANGED fields
    BY <1>1 DEF files
  <1>3. AuditTypeOK /\ ShapeInv /\ Len(log.lines) \in Nat /\ Len(anchor.lines) \in Nat /\ starts \in Nat
    BY Lengths DEF TypeInv, ShapeInv, AuditTypeOK
  <1>4. CASE node' # "opened"
    <2>1. AuditTypeOK'
      BY <1>1, <1>2, <1>3, <1>4 DEF AuditTypeOK, fields
    <2> QED
      BY <1>2, <1>3, <2>1, TypeKept DEF TypeInv, ShapeInv
  <1>5. CASE node' = "opened"
    <2>1. /\ ~BehindAnchor(own) /\ seq' = Len(log.lines)
          /\ checkpointSeq' = (IF anchor.lines = <<>> THEN 0 ELSE Last(anchor.lines).seq + 1)
          /\ checkpointedCount' = (IF anchor.lines = <<>> THEN 0 ELSE Last(anchor.lines).count)
      BY <1>1, <1>5
    <2>2. checkpointSeq' \in Nat /\ checkpointedCount' \in 0 .. seq'
      <3>1. CASE anchor.lines = <<>>
        BY <1>3, <2>1, <3>1
      <3>2. CASE anchor.lines # <<>>
        <4> DEFINE last == Last(anchor.lines)
        <4>1. Typed(last)
          <5>1. Len(anchor.lines) \in 1 .. Len(anchor.lines)
            BY <1>3, <3>2 DEF ShapeInv, IsSequence
          <5> QED
            BY <5>1 DEF TypeInv, Last
        <4>2. last # Garbled /\ last.count <= Len(log.lines)
          BY <2>1, <3>2 DEF BehindAnchor
        <4>3. last.seq \in Nat /\ last.count \in Nat
          BY <4>1, <4>2 DEF Typed
        <4> HIDE DEF last
        <4>4. checkpointSeq' = last.seq + 1 /\ checkpointedCount' = last.count
          BY <2>1, <3>2 DEF last
        <4> QED
          BY <1>3, <2>1, <4>2, <4>3, <4>4
      <3> QED
        BY <3>1, <3>2
    <2>3. AuditTypeOK'
      BY <1>1, <1>2, <1>3, <1>5, <2>1, <2>2 DEF AuditTypeOK
    <2> QED
      BY <1>2, <1>3, <2>3, TypeKept DEF TypeInv, ShapeInv
  <1> QED
    BY <1>4, <1>5

LEMMA PowerFailsTyped ==
  ASSUME TypeInv, PowerFails
  PROVE  TypeInv'
  <1> DEFINE l == IF step = "row" THEN Written(log, Row) ELSE log
             a == IF step = "anchor" THEN Written(anchor, Checkpoint) ELSE anchor
  <1>1. /\ log' \in Left(l) /\ anchor' \in Left(a)
        /\ node' = "down" /\ step' = "idle" /\ caller' = "none" /\ todo' = <<>>
        /\ UNCHANGED <<today, signer, starts, fields, faults>>
    BY DEF PowerFails
  <1>2. /\ AuditTypeOK /\ IsSequence(log.lines) /\ IsSequence(anchor.lines)
        /\ log.safe \in 0 .. Len(log.lines) /\ anchor.safe \in 0 .. Len(anchor.lines)
        /\ Len(anchor.lines) \in Nat
    BY Lengths DEF TypeInv, ShapeInv, AuditTypeOK
  <1>3. IsSequence(l.lines) /\ l.safe \in 0 .. Len(l.lines)
    BY <1>2, WrittenIs
  <1>4. /\ IsSequence(a.lines) /\ a.safe \in 0 .. Len(a.lines)
        /\ \A k \in 1 .. Len(a.lines) : Typed(a.lines[k])
    <2>1. CASE step # "anchor"
      BY <1>2, <2>1 DEF TypeInv
    <2>2. CASE step = "anchor"
      <3>1. /\ IsSequence(a.lines) /\ a.safe \in 0 .. Len(a.lines)
            /\ \A k \in 1 .. Len(a.lines) :
                 IF k <= Len(anchor.lines) THEN a.lines[k] = anchor.lines[k]
                                           ELSE a.lines[k] \in {Checkpoint, Garbled}
        BY <1>2, <2>2, WrittenIs
      <3>2. Typed(Checkpoint) /\ Typed(Garbled)
        BY <1>2, CheckpointTyped DEF Typed
      <3> HIDE DEF a
      <3> QED
        BY <1>2, <3>1, <3>2 DEF TypeInv
    <2> QED
      BY <2>1, <2>2
  <1> HIDE DEF l, a
  <1>5. /\ log' = [lines |-> log'.lines, tail |-> log'.tail, safe |-> log'.safe]
        /\ IsSequence(log'.lines) /\ log'.safe = Len(log'.lines)
    BY <1>1, <1>3, LeftOver
  <1>6. /\ anchor' = [lines |-> anchor'.lines, tail |-> anchor'.tail, safe |-> anchor'.safe]
        /\ IsSequence(anchor'.lines) /\ anchor'.safe = Len(anchor'.lines)
        /\ Agrees(anchor'.lines, a.lines)
    BY <1>1, <1>4, LeftOver
  <1>7. Len(log'.lines) \in Nat /\ Len(anchor'.lines) \in Nat /\ Len(a.lines) \in Nat
    BY <1>4, <1>5, <1>6, Lengths
  <1>8. \A k \in 1 .. Len(anchor'.lines) : Typed(anchor'.lines[k])
    BY <1>4, <1>6, <1>7 DEF Agrees
  <1>9. AuditTypeOK'
    BY <1>1, <1>2, <1>5, <1>6, <1>7 DEF AuditTypeOK, fields
  <1>10. IsSequence(<<>>)
    BY DEF IsSequence
  <1> QED
    BY <1>1, <1>5, <1>6, <1>8, <1>9, <1>10 DEF TypeInv, ShapeInv

LEMMA WritesTyped ==
  ASSUME TypeInv, WriteRow \/ ShortWrite \/ SyncLog \/ AppendAnchor \/ ShortAnchor \/ SyncAnchor
  PROVE  TypeInv'
  <1>1. /\ AuditTypeOK /\ ShapeInv /\ IsSequence(log.lines) /\ IsSequence(anchor.lines)
        /\ log.safe \in 0 .. Len(log.lines) /\ anchor.safe \in 0 .. Len(anchor.lines)
        /\ Len(log.lines) \in Nat /\ Len(anchor.lines) \in Nat
        /\ faults \subseteq {"short-write", "anchor-sync"}
        /\ log = [lines |-> log.lines, tail |-> log.tail, safe |-> log.safe]
        /\ anchor = [lines |-> anchor.lines, tail |-> anchor.tail, safe |-> anchor.safe]
    BY Lengths DEF TypeInv, ShapeInv, AuditTypeOK
  <1>2. CASE WriteRow
    <2>1. step = "row" /\ log' = Written(log, Row) /\ AfterRow /\ UNCHANGED faults
      BY <1>2 DEF WriteRow
    <2>2. /\ log' = [lines |-> log'.lines, tail |-> log'.tail, safe |-> log'.safe]
          /\ IsSequence(log'.lines) /\ log'.safe \in 0 .. Len(log'.lines)
      BY <1>1, <2>1, WrittenIs
    <2> QED
      BY <1>1, <2>1, <2>2, AfterRowTyped
  <1>3. CASE ShortWrite
    <2>1. step = "row" /\ log' \in ShortWritten(log, Row) /\ AfterRow /\ faults' = faults \cup {"short-write"}
      BY <1>3 DEF ShortWrite
    <2>2. PICK t : log' = [lines |-> log.lines, tail |-> t, safe |-> log.safe]
      BY <2>1 DEF ShortWritten
    <2>3. /\ log' = [lines |-> log'.lines, tail |-> log'.tail, safe |-> log'.safe]
          /\ IsSequence(log'.lines) /\ log'.safe \in 0 .. Len(log'.lines)
      BY <1>1, <2>2
    <2> QED
      BY <1>1, <2>1, <2>3, AfterRowTyped
  <1>4. CASE SyncLog
    <2>1. /\ log' = Synced(log) /\ step' = "anchor"
          /\ UNCHANGED <<anchor, today, signer, starts, node, caller, todo, fields, faults>>
      BY <1>4 DEF SyncLog
    <2>2. log' = [lines |-> log.lines, tail |-> log.tail, safe |-> Len(log.lines)]
      BY <1>1, <2>1, SyncedIs
    <2>3. AuditTypeOK'
      BY <1>1, <2>1, <2>2 DEF AuditTypeOK, fields
    <2> QED
      BY <1>1, <2>1, <2>2, <2>3 DEF TypeInv, ShapeInv
  <1>5. CASE AppendAnchor
    <2>1. /\ anchor' = Written(anchor, Checkpoint) /\ step' = "anchorSync"
          /\ UNCHANGED <<log, today, signer, starts, node, caller, todo, fields, faults>>
      BY <1>5 DEF AppendAnchor
    <2>2. /\ anchor' = [lines |-> anchor'.lines, tail |-> anchor'.tail, safe |-> anchor'.safe]
          /\ IsSequence(anchor'.lines) /\ anchor'.safe \in 0 .. Len(anchor'.lines)
          /\ \A k \in 1 .. Len(anchor'.lines) :
               IF k <= Len(anchor.lines) THEN anchor'.lines[k] = anchor.lines[k]
                                         ELSE anchor'.lines[k] \in {Checkpoint, Garbled}
      BY <1>1, <2>1, WrittenIs
    <2>3. Typed(Checkpoint) /\ Typed(Garbled)
      BY <1>1, CheckpointTyped DEF Typed
    <2>4. \A k \in 1 .. Len(anchor'.lines) : Typed(anchor'.lines[k])
      BY <1>1, <2>2, <2>3 DEF TypeInv
    <2> QED
      BY <1>1, <2>1, <2>2, <2>4, AnchoredTyped
  <1>6. CASE ShortAnchor
    <2>1. /\ anchor' \in ShortWritten(anchor, Checkpoint) /\ step' = "anchorSync"
          /\ UNCHANGED <<log, today, signer, starts, node, caller, todo, fields>>
          /\ faults' = faults \cup {"short-write"}
      BY <1>6 DEF ShortAnchor
    <2>2. PICK t : anchor' = [lines |-> anchor.lines, tail |-> t, safe |-> anchor.safe]
      BY <2>1 DEF ShortWritten
    <2>3. /\ anchor' = [lines |-> anchor'.lines, tail |-> anchor'.tail, safe |-> anchor'.safe]
          /\ IsSequence(anchor'.lines) /\ anchor'.safe \in 0 .. Len(anchor'.lines)
          /\ \A k \in 1 .. Len(anchor'.lines) : Typed(anchor'.lines[k])
      BY <1>1, <2>2 DEF TypeInv
    <2> QED
      BY <1>1, <2>1, <2>3, AnchoredTyped
  <1>7. CASE SyncAnchor
    <2>1. /\ anchor' = Synced(anchor) /\ checkpointSeq' = checkpointSeq + 1 /\ checkpointedCount' = seq
          /\ UNCHANGED <<log, today, signer, starts, todo, seq, faults>>
          /\ node' \in {node, "down"} /\ caller' \in {caller, "none"}
          /\ step' \in {"idle", "row"} /\ (step' = "row" => todo' # <<>>)
      BY <1>7 DEF SyncAnchor, Returns
    <2>2. anchor' = [lines |-> anchor.lines, tail |-> anchor.tail, safe |-> Len(anchor.lines)]
      BY <1>1, <2>1, SyncedIs
    <2>3. AuditTypeOK'
      <3>1. checkpointSeq' \in Nat /\ checkpointedCount' \in 0 .. seq' /\ seq' \in Nat
        BY <1>1, <2>1 DEF AuditTypeOK
      <3> QED
        BY <1>1, <2>1, <2>2, <3>1 DEF AuditTypeOK
    <2> QED
      BY <1>1, <2>1, <2>2, <2>3 DEF TypeInv, ShapeInv
  <1> QED
    BY <1>2, <1>3, <1>4, <1>5, <1>6, <1>7

LEMMA OthersTyped ==
  ASSUME TypeInv,
         \/ AppendBegins \/ TimerFires \/ Close \/ Serve
         \/ WriteThrows \/ SyncThrows \/ AnchorSyncThrows \/ ProcessDies \/ DayPasses \/ UNCHANGED auditVars
  PROVE  TypeInv'
  <1>1. AuditTypeOK /\ IsSequence(todo) /\ IsSequence(<<>>)
    BY DEF TypeInv, ShapeInv, IsSequence
  <1>2. CASE AppendBegins
    <2>1. /\ todo' = RowsToWrite /\ caller' = "append" /\ step' = "row"
          /\ node' \in {node, "starting"}
          /\ UNCHANGED <<log, anchor, today, signer, starts, seq, prev, checkpointSeq, checkpointedCount, faults>>
      BY <1>2 DEF AppendBegins, Begin, files
    <2>2. AuditTypeOK'
      BY <1>1, <2>1, RowsToWriteTyped DEF AuditTypeOK, Running
    <2> QED
      BY <2>1, <2>2, RowsToWriteTyped, TypeKept
  <1>3. CASE TimerFires \/ Close \/ Serve
    <2>1. /\ UNCHANGED <<log, anchor, today, signer, starts, todo, fields, faults>>
          /\ node' \in {node, "down", "up"} /\ caller' \in {caller, "timer", "close"}
          /\ step' \in {step, "sync"}
      BY <1>3 DEF TimerFires, Close, Serve, Begin, files
    <2>2. AuditTypeOK'
      BY <1>1, <2>1 DEF AuditTypeOK, fields, Running
    <2> QED
      BY <1>1, <2>1, <2>2, TypeKept DEF TypeInv
  <1>4. CASE WriteThrows \/ SyncThrows \/ AnchorSyncThrows
    <2>1. /\ UNCHANGED <<log, anchor, today, signer, starts, fields>> /\ todo' = <<>>
          /\ node' \in {node, "down", "stopping"} /\ caller' \in {"none", "close"}
          /\ step' \in {"idle", "sync"} /\ faults' \in {faults, faults \cup {"anchor-sync"}}
      BY <1>4 DEF WriteThrows, SyncThrows, AnchorSyncThrows, Throws, Begin, files
    <2>2. AuditTypeOK'
      BY <1>1, <2>1 DEF AuditTypeOK, fields, Running
    <2> QED
      BY <1>1, <2>1, <2>2, TypeKept
  <1>5. CASE ProcessDies
    <2>1. /\ UNCHANGED <<log, anchor, today, signer, starts, fields, faults>> /\ todo' = <<>>
          /\ node' = "down" /\ caller' = "none" /\ step' = "idle"
      BY <1>5 DEF ProcessDies, files
    <2>2. AuditTypeOK'
      BY <1>1, <2>1 DEF AuditTypeOK, fields
    <2> QED
      BY <1>1, <2>1, <2>2, TypeKept
  <1>6. CASE DayPasses
    <2>1. /\ today < LastDay /\ today' = today + 1
          /\ UNCHANGED <<log, anchor, signer, starts, node, step, caller, todo, fields, faults>>
      BY <1>6 DEF DayPasses, files
    <2>2. AuditTypeOK'
      BY <1>1, <2>1, AuditAssumption DEF AuditTypeOK, fields
    <2> QED
      BY <1>1, <2>1, <2>2, TypeKept DEF TypeInv
  <1>7. CASE UNCHANGED auditVars
    <2>1. UNCHANGED <<log, anchor, today, signer, starts, node, step, caller, todo, fields, faults>>
      BY <1>7 DEF auditVars, files
    <2>2. AuditTypeOK'
      BY <1>1, <2>1 DEF AuditTypeOK, fields
    <2> QED
      BY <1>1, <2>1, <2>2, TypeKept DEF TypeInv
  <1> QED
    BY <1>2, <1>3, <1>4, <1>5, <1>6, <1>7

-----------------------------------------------------------------------------
(* While no write is short.  A short write is remembered, so before a step after
   which there has been none there had been none. *)
Sound == "short-write" \notin faults => AuditInv

LEMMA SoundKept ==
  ASSUME Sound, [AuditNext]_auditVars
  PROVE  Sound'
  <1> SUFFICES ASSUME "short-write" \notin faults' PROVE AuditInv'
    BY DEF Sound
  <1>1. ~ShortWrite /\ ~ShortAnchor
    BY DEF ShortWrite, ShortAnchor
  <1>2. AuditInv
    <2>1. faults \subseteq faults'
      BY <1>1 DEF AuditNext, Start, AppendBegins, WriteRow, SyncLog, AppendAnchor, SyncAnchor, TimerFires, Close,
         Serve, WriteThrows, SyncThrows, AnchorSyncThrows, PowerFails, ProcessDies, DayPasses, auditVars
    <2> QED
      BY <2>1 DEF Sound
  <1> QED
    BY <1>1, <1>2, StartKeeps, AppendBeginsKeeps, WriteRowKeeps, SyncLogKeeps, AppendAnchorKeeps,
       SyncAnchorKeeps, TimerFiresKeeps, CloseKeeps, ServeKeeps, ThrowsKeeps, AnchorSyncThrowsKeeps,
       PowerFailsKeeps, DiesKeeps, DayKeeps, StutterKeeps DEF AuditNext

(* The invariant holds throughout: no order of calls, crashes, failed writes and
   restarts, and no fsync that throws, makes the store's fields and its files
   disagree; a short write does, and leaves the types. *)
THEOREM AuditInvHolds == AuditSafety => [](TypeInv /\ Sound)
  <1>1. AuditInit => TypeInv /\ Sound
    <2>1. AuditInit => AuditInv
      BY InitHolds
    <2>2. AuditInit => step # "row" /\ Len(anchor.lines) = 0
      BY DEF AuditInit, Fresh
    <2> QED
      BY <2>1, <2>2 DEF AuditInv, TypeInv, Sound
  <1>2. TypeInv /\ Sound /\ [AuditNext]_auditVars => TypeInv' /\ Sound'
    <2>1. TypeInv /\ [AuditNext]_auditVars => TypeInv'
      BY StartTyped, WritesTyped, OthersTyped, PowerFailsTyped DEF AuditNext
    <2> QED
      BY <2>1, SoundKept
  <1> QED
    BY <1>1, <1>2, PTL DEF AuditSafety

LEMMA HonestHere ==
  ASSUME TypeInv, Sound
  PROVE  HonestFilesVerify
  <1> SUFFICES ASSUME AuditInv
               PROVE  Findings(log, anchor) \ {"torn-final-line"} \subseteq
                        (IF Once THEN {} ELSE {"checkpoint-replayed"})
    BY DEF TypeInv, Sound, HonestFilesVerify, AuditInv, Once
  <1>1. /\ Len(Complete(log)) \in Nat /\ Len(Complete(anchor)) \in Nat
        /\ Chained(Complete(log)) /\ Anchoring(Complete(log), Complete(anchor))
        /\ Once => Numbered(Complete(anchor))
    BY FileFacts DEF AuditInv, FilesInv
  <1>2. LogFindings(Complete(log)) = {}
    BY <1>1, ChainedPasses
  <1>3. ASSUME NEW k \in 1 .. Len(Complete(anchor))
        PROVE  CheckpointFindings(Complete(log), Complete(anchor), k) \subseteq
                 (IF Once THEN {} ELSE {"checkpoint-replayed"})
    <2>1. CASE Once
      BY <1>1, <1>3, <2>1, NumberedPasses
    <2>2. CASE ~Once
      <3>1. CheckpointFindings(Complete(log), Complete(anchor), k) \in {{"checkpoint-replayed"}, {}}
        BY <1>1, <1>3, AnchoringPasses
      <3> QED
        BY <2>2, <3>1
    <2> QED
      BY <2>1, <2>2
  <1>4. AnchorFindings(Complete(log), Complete(anchor)) \subseteq
          (IF Once THEN {} ELSE {"checkpoint-replayed"})
    BY <1>3 DEF AnchorFindings
  <1> QED
    BY <1>2, <1>4 DEF Findings

(* Whatever the store left on disk, over crashes, failed calls, short writes and
   fsyncs that throw: with no short write it verifies, at worst with a torn final
   line and, where an fsync of the anchor threw, a repeated checkpoint; and no
   start refuses it for anything else (verify.ts:10-12, AU-20, AU-24). *)
THEOREM HonestFilesAlwaysVerify == AuditSpec => []HonestFilesVerify
  <1>1. TypeInv /\ Sound => HonestFilesVerify
    BY HonestHere
  <1> QED
    BY <1>1, AuditInvHolds, PTL DEF AuditSpec

(* The first row of a run that found rows says how many it adopted, and how many
   of them no checkpoint covered (store.ts:183-199, AU-25). *)
THEOREM AdoptionsAreRecorded == AuditSpec => AdoptionRecorded
  <1> DEFINE n == Len(log.lines)
             Row1 == /\ "short-write" \notin faults'
                     /\ Len(log'.lines) = n + 1
                     /\ n > 0 => log.lines[n].run < starts
             Body1 == LET row == log'.lines[n + 1].body IN
                        IF n = 0 THEN row.event = "call"
                        ELSE /\ row.event = "audit-resumed" /\ row.fromSeq = n
                             /\ row.unanchored = n - (IF anchor.lines = <<>> THEN 0
                                                      ELSE Last(anchor.lines).count)
  <1>1. ASSUME AuditInv, [AuditNext]_auditVars, Row1 PROVE Body1
    <2>0. ~ShortWrite /\ ~ShortAnchor
      BY <1>1 DEF ShortWrite, ShortAnchor
    <2>1. /\ IsSequence(log.lines) /\ n \in Nat
      BY <1>1, FileFacts DEF AuditInv, ShapeInv
    <2>2. step = "row" /\ log'.lines[n + 1] = Row /\ node \in Working
      <3>1. CASE UNCHANGED log
        BY <1>1, <2>1, <3>1
      <3>2. CASE WriteRow
        <4>1. step = "row" /\ log' = Written(log, Row)
          BY <3>2 DEF WriteRow
        <4>2. log'.lines = Append(log.lines, Row)
          BY <1>1, <4>1, RowIs
        <4> QED
          BY <1>1, <2>1, <4>1, <4>2, Appended DEF AuditInv, StepInv, Working
      <3>3. CASE SyncLog
        <4>1. log'.lines = log.lines
          BY <1>1, <3>3, SyncedIs DEF SyncLog, AuditInv, ShapeInv
        <4> QED
          BY <1>1, <2>1, <4>1
      <3>4. CASE PowerFails
        <4> DEFINE l == IF step = "row" THEN Written(log, Row) ELSE log
        <4>1. PICK m \in l.safe .. Len(l.lines) : log'.lines = SubSeq(l.lines, 1, m)
          <5>1. log' \in Left(l)
            BY <3>4 DEF PowerFails
          <5> HIDE DEF l
          <5> QED
            BY <5>1 DEF Left
        <4>2. step # "row" => FALSE
          <5> SUFFICES ASSUME step # "row" PROVE FALSE
            OBVIOUS
          <5>1. m \in 0 .. n
            BY <1>1, <2>1, <4>1 DEF AuditInv, AuditTypeOK
          <5>2. Len(SubSeq(log.lines, 1, m)) = m
            BY <2>1, <5>1, Cut
          <5> QED
            BY <1>1, <2>1, <4>1, <5>1, <5>2
        <4>3. l.lines = Append(log.lines, Row) /\ l.safe = log.safe
          BY <1>1, <4>2, RowIs
        <4> HIDE DEF l
        <4>4. /\ IsSequence(l.lines) /\ Len(l.lines) = n + 1 /\ l.lines[n + 1] = Row
              /\ l.safe \in Nat
          <5>1. log.safe \in 0 .. n
            BY <1>1 DEF AuditInv, AuditTypeOK
          <5> QED
            BY <2>1, <4>3, <5>1, Appended
        <4>5. m \in 0 .. Len(l.lines)
          BY <2>1, <4>1, <4>4
        <4>6. Len(log'.lines) = m /\ \A i \in 1 .. m : log'.lines[i] = l.lines[i]
          BY <4>1, <4>4, <4>5, Cut
        <4>7. m = n + 1
          BY <1>1, <4>6
        <4> QED
          BY <1>1, <2>1, <4>2, <4>4, <4>6, <4>7 DEF AuditInv, StepInv, Working
      <3> QED
        BY <1>1, <2>0, <3>1, <3>2, <3>3, <3>4 DEF AuditNext, Start, AppendBegins, AppendAnchor, SyncAnchor,
           TimerFires, Close, Serve, WriteThrows, SyncThrows, AnchorSyncThrows, Throws, ProcessDies, DayPasses,
           auditVars, files
    <2>3. todo = IF n = 0 THEN <<CallRow>>
                 ELSE <<[event |-> "audit-resumed", fromSeq |-> n,
                         unanchored |-> n - LastCount(anchor.lines)], CallRow>>
      BY <1>1, <2>1, <2>2 DEF AuditInv, FirstRow
    <2>4. Row.body = Head(todo)
      BY DEF Row
    <2>5. CASE n = 0
      BY <2>2, <2>3, <2>4, <2>5 DEF CallRow
    <2>6. CASE n # 0
      <3>1. Head(todo) = [event |-> "audit-resumed", fromSeq |-> n,
                          unanchored |-> n - LastCount(anchor.lines)]
        BY <2>3, <2>6
      <3> QED
        BY <2>2, <2>4, <2>6, <3>1 DEF LastCount
    <2> QED
      BY <2>5, <2>6
  <1>2. Sound /\ [AuditNext]_auditVars => [Row1 => Body1]_auditVars
    <2> SUFFICES ASSUME Sound, [AuditNext]_auditVars, Row1 PROVE Body1
      OBVIOUS
    <2>1. "short-write" \notin faults
      BY DEF AuditNext, Start, AppendBegins, WriteRow, ShortWrite, SyncLog, AppendAnchor, ShortAnchor, SyncAnchor,
         TimerFires, Close, Serve, WriteThrows, SyncThrows, AnchorSyncThrows, PowerFails, ProcessDies, DayPasses,
         auditVars
    <2> QED
      BY <1>1, <2>1 DEF Sound
  <1> QED
    BY <1>2, AuditInvHolds, PTL DEF AuditSpec, AuditSafety, AdoptionRecorded

-----------------------------------------------------------------------------
(* Files that somebody else changed. *)
LEMMA Replaced ==
  ASSUME NEW s, IsSequence(s), NEW i \in 1 .. Len(s), NEW e
  PROVE  IsSequence([s EXCEPT ![i] = e])
  <1> DEFINE S == Range(s) \cup {e}
  <1>1. s \in Seq(S) /\ e \in S
    BY DEF IsSequence
  <1> HIDE DEF S
  <1>2. [s EXCEPT ![i] = e] \in Seq(S)
    BY <1>1, ExceptSeq
  <1> QED
    BY <1>2, OfASet

LEMMA Pieces ==
  ASSUME NEW S, NEW s \in Seq(S), NEW i \in 1 .. Len(s), NEW e \in S
  PROVE  /\ RemoveAt(s, i) \in Seq(S) /\ InsertAt(s, i, e) \in Seq(S)
         /\ \A j \in 0 .. Len(s) : SubSeq(s, 1, j) \in Seq(S)
         /\ i < Len(s) => [s EXCEPT ![i] = s[i + 1], ![i + 1] = s[i]] \in Seq(S)
  <1>1. Len(s) \in Nat /\ i \in Nat /\ \A j \in 1 .. Len(s) : s[j] \in S
    OBVIOUS
  <1>2. \A m, n \in Nat : 1 <= m /\ n <= Len(s) => SubSeq(s, m, n) \in Seq(S)
    BY <1>1, SubSeqProperties
  <1>3. SubSeq(s, 1, i - 1) \in Seq(S) /\ SubSeq(s, i, Len(s)) \in Seq(S) /\ SubSeq(s, i + 1, Len(s)) \in Seq(S)
    BY <1>1, <1>2
  <1>4. <<e>> \in Seq(S)
    OBVIOUS
  <1>5. \A a, b \in Seq(S) : a \o b \in Seq(S)
    OBVIOUS
  <1>6. RemoveAt(s, i) \in Seq(S)
    BY <1>3, <1>5 DEF RemoveAt
  <1>7. InsertAt(s, i, e) \in Seq(S)
    BY <1>3, <1>4, <1>5 DEF InsertAt
  <1>8. \A j \in 0 .. Len(s) : SubSeq(s, 1, j) \in Seq(S)
    BY <1>2
  <1>9. ASSUME i < Len(s)
        PROVE  [s EXCEPT ![i] = s[i + 1], ![i + 1] = s[i]] \in Seq(S)
    <2>1. s[i] \in S /\ s[i + 1] \in S /\ s \in [1 .. Len(s) -> S]
      BY <1>1, <1>9
    <2>2. [s EXCEPT ![i] = s[i + 1], ![i + 1] = s[i]] \in [1 .. Len(s) -> S]
      BY <2>1
    <2> QED
      BY <1>1, <2>2
  <1> QED
    BY <1>6, <1>7, <1>8, <1>9

LEMMA AlteredRowsAre ==
  ASSUME NEW rows, IsSequence(rows), NEW r \in AlteredRows(rows)
  PROVE  IsSequence(r)
  <1> DEFINE n == Len(rows)
             S == Range(rows)
  <1>1. rows \in Seq(S) /\ n \in Nat /\ \A i \in 1 .. n : rows[i] \in S
    BY DEF IsSequence
  <1>2. CASE r \in {[rows EXCEPT ![i].body = OtherRow] : i \in 1 .. n}
    <2>1. PICK i \in 1 .. n : r = [rows EXCEPT ![i].body = OtherRow]
      BY <1>2
    <2>2. r = [rows EXCEPT ![i] = [rows[i] EXCEPT !.body = OtherRow]]
      BY <2>1
    <2> QED
      BY <2>2, Replaced
  <1>3. CASE r \in {RemoveAt(rows, i) : i \in 1 .. n}
    <2> HIDE DEF S
    <2>1. r \in Seq(S)
      BY <1>1, <1>3, Pieces
    <2> QED
      BY <2>1, OfASet
  <1>4. CASE r \in {InsertAt(rows, i, rows[j]) : i, j \in 1 .. n}
    <2> HIDE DEF S
    <2>1. PICK i \in 1 .. n, j \in 1 .. n : r = InsertAt(rows, i, rows[j])
      BY <1>4
    <2>2. rows[j] \in S
      BY <1>1
    <2>3. InsertAt(rows, i, rows[j]) \in Seq(S)
      BY <1>1, <2>2, Pieces
    <2> QED
      BY <2>1, <2>3, OfASet
  <1>5. CASE r \in {[rows EXCEPT ![i] = rows[i + 1], ![i + 1] = rows[i]] : i \in 1 .. n - 1}
    <2> HIDE DEF S
    <2>1. PICK i \in 1 .. n - 1 : r = [rows EXCEPT ![i] = rows[i + 1], ![i + 1] = rows[i]]
      BY <1>5
    <2>2. i \in 1 .. n /\ i < n
      BY <1>1
    <2>3. r \in Seq(S)
      BY <1>1, <2>1, <2>2, Pieces
    <2> QED
      BY <2>3, OfASet
  <1>6. CASE r \in {SubSeq(rows, 1, i) : i \in 0 .. n}
    BY <1>6, Cut
  <1> QED
    BY <1>2, <1>3, <1>4, <1>5, <1>6 DEF AlteredRows

(* Rechained is recursive: its value exists, place by place, and is a sequence. *)
LEMMA RechainedIs ==
  ASSUME NEW rows, IsSequence(rows)
  PROVE  IsSequence(Rechained(rows))
  <1> DEFINE more(i, up) == Append(up, [rows[i] EXCEPT !.seq = i - 1,
                                          !.prev = IF i = 1 THEN Genesis ELSE lineHash(up[i - 1])])
             Runs(n, h) == h = [i \in 0 .. n |-> IF i = 0 THEN <<>> ELSE more(i, h[i - 1])]
             Bad == {n \in Nat : ~\E h : Runs(n, h)}
  <1>1. Rechained(rows) = (CHOOSE h : Runs(Len(rows), h))[Len(rows)]
    BY DEF Rechained
  <1>2. \A i, up : IsSequence(up) => IsSequence(more(i, up))
    BY Appended
  <1> HIDE DEF more
  <1>3. Bad = {}
    <2> SUFFICES ASSUME Bad # {} PROVE FALSE
      OBVIOUS
    <2>1. PICK n \in Bad : \A k \in Bad : n <= k
      <3>1. Bad \in SUBSET Nat
        OBVIOUS
      <3> HIDE DEF Bad
      <3> QED
        BY <3>1, Least
    <2>2. CASE n = 0
      <3>1. Runs(0, [i \in 0 .. 0 |-> <<>>])
        BY SMT
      <3> QED
        BY <3>1, <2>1, <2>2
    <2>3. CASE n # 0
      <3>1. n - 1 \in Nat /\ ~(n - 1 \in Bad)
        <4>1. n \in Nat
          OBVIOUS
        <4> HIDE DEF Bad
        <4> QED
          BY <2>1, <2>3, <4>1
      <3>2. PICK h : Runs(n - 1, h)
        BY <3>1
      <3> DEFINE g == [i \in 0 .. n |-> IF i = n THEN more(n, h[n - 1]) ELSE h[i]]
      <3>3. \A i \in 0 .. (n - 1) : g[i] = h[i]
        BY <2>1
      <3>4. \A i \in 0 .. n : g[i] = IF i = 0 THEN <<>> ELSE more(i, g[i - 1])
        <4> TAKE i \in 0 .. n
        <4>1. CASE i = n
          BY <4>1, <3>3, <2>3, <2>1
        <4>2. CASE i # n
          BY <4>2, <3>2, <3>3, <2>1
        <4> QED
          BY <4>1, <4>2
      <3>5. Runs(n, g)
        BY <3>4
      <3> QED
        BY <3>5, <2>1
    <2> QED
      BY <2>2, <2>3
  <1>4. Len(rows) \in Nat
    BY Lengths
  <1>5. PICK h : h = (CHOOSE f : Runs(Len(rows), f)) /\ Runs(Len(rows), h)
    BY <1>3, <1>4
  <1> DEFINE bad == {i \in 0 .. Len(rows) : ~IsSequence(h[i])}
  <1>6. bad = {}
    <2> SUFFICES ASSUME bad # {} PROVE FALSE
      OBVIOUS
    <2>1. PICK i \in bad : \A k \in bad : i <= k
      <3>1. bad \in SUBSET Nat
        OBVIOUS
      <3> HIDE DEF bad
      <3> QED
        BY <3>1, Least
    <2>2. CASE i = 0
      <3>1. h[0] = <<>>
        BY <1>4, <1>5
      <3>2. IsSequence(<<>>)
        BY DEF IsSequence
      <3> QED
        BY <2>1, <2>2, <3>1, <3>2
    <2>3. CASE i # 0
      <3>1. h[i] = more(i, h[i - 1])
        BY <1>4, <1>5, <2>3
      <3>2. IsSequence(h[i - 1])
        BY <1>4, <2>1, <2>3
      <3> QED
        BY <1>2, <2>1, <3>1, <3>2
    <2> QED
      BY <2>2, <2>3
  <1> QED
    BY <1>1, <1>4, <1>5, <1>6

LEMMA AlteredLogIs ==
  ASSUME AuditInv, log.tail = NoTail, NEW altered \in AlteredLogs \cup {log}
  PROVE  IsSequence(Complete(altered))
  <1> DEFINE rows == AlteredRows(log.lines)
             again == {Rechained(r) : r \in rows}
  <1>1. /\ IsSequence(log.lines)
        /\ log = [lines |-> log.lines, tail |-> log.tail, safe |-> log.safe]
    BY DEF AuditInv, ShapeInv
  <1>2. \A r \in rows \cup again : IsSequence(r)
    BY <1>1, AlteredRowsAre, RechainedIs
  <1> HIDE DEF rows, again
  <1>3. \A l, t, s, x : [[lines |-> l, tail |-> t, safe |-> s] EXCEPT !.lines = x]
                          = [lines |-> x, tail |-> t, safe |-> s]
    BY SMT
  <1>4. \A x : [log EXCEPT !.lines = x] = [lines |-> x, tail |-> log.tail, safe |-> log.safe]
    BY <1>1, <1>3
  <1>5. CASE altered \in {[log EXCEPT !.lines = r] : r \in rows \cup again}
    <2>1. PICK r \in rows \cup again : altered = [log EXCEPT !.lines = r]
      BY <1>5
    <2>2. altered = [lines |-> r, tail |-> log.tail, safe |-> log.safe]
      BY <1>4, <2>1
    <2> QED
      BY <1>2, <2>2, Lines
  <1>6. CASE altered \in {[log EXCEPT !.lines[i] = Garbled] : i \in DOMAIN log.lines}
    <2>1. PICK i \in DOMAIN log.lines : altered = [log EXCEPT !.lines[i] = Garbled]
      BY <1>6
    <2>2. altered = [log EXCEPT !.lines = [log.lines EXCEPT ![i] = Garbled]]
      BY <2>1
    <2>3. altered = [lines |-> [log.lines EXCEPT ![i] = Garbled], tail |-> log.tail, safe |-> log.safe]
      BY <1>4, <2>2
    <2>4. i \in 1 .. Len(log.lines)
      BY <1>1, Lengths
    <2>5. IsSequence([log.lines EXCEPT ![i] = Garbled])
      BY <1>1, <2>4, Replaced
    <2> QED
      BY <2>3, <2>5, Lines
  <1>7. CASE altered \in {[lines |-> Front(r), tail |-> Last(r), safe |-> log.safe] : r \in again \ {<<>>}}
    <2>1. PICK r \in again \ {<<>>} : altered = [lines |-> Front(r), tail |-> Last(r), safe |-> log.safe]
      BY <1>7
    <2>2. IsSequence(r) /\ r # <<>>
      BY <1>2, <2>1
    <2>3. Len(r) - 1 \in 0 .. Len(r)
      BY <2>2 DEF IsSequence
    <2>4. IsSequence(Front(r))
      BY <2>2, <2>3, Cut DEF Front
    <2> QED
      BY <2>1, <2>4, Lines
  <1>8. CASE altered = log
    BY <1>1, <1>8, Lines
  <1> QED
    BY <1>5, <1>6, <1>7, <1>8 DEF AlteredLogs, rows, again

(* What a checkpoint that verify passes is. *)
Passes(rows, cps, k) ==
  /\ cps[k] # Garbled /\ KeyFindings(cps[k]) = {} /\ ~(cps[k].count > Len(rows))
  /\ rows[cps[k].count] = cps[k].head
  /\ cps[k].seq = ExpectedSeq(cps, k)

LEMMA NoFindingMeans ==
  ASSUME NEW rows, NEW cps, NEW k, CheckpointFindings(rows, cps, k) = {}
  PROVE  Passes(rows, cps, k)
  <1> DEFINE c == cps[k]
             earlier == {j \in 1 .. k - 1 : cps[j] # Garbled}
             expectedSeq == Max({0} \cup {cps[j].seq + 1 : j \in earlier})
             lastCount == Max({0} \cup {cps[j].count : j \in earlier})
  <1>2. CheckpointFindings(rows, cps, k) =
          (IF c = Garbled THEN {"malformed-checkpoint"}
           ELSE IF c.count < 1 THEN {"malformed-checkpoint"}
           ELSE KeyFindings(c)
                \cup (IF c.seq # expectedSeq \/ c.count < lastCount THEN {"checkpoint-replayed"} ELSE {})
                \cup (IF c.count > Len(rows) THEN {"truncated-behind-checkpoint"}
                      ELSE IF lineHash(rows[c.count]) # c.head THEN {"head-mismatch"} ELSE {}))
    BY DEF CheckpointFindings
  <1>3. expectedSeq = ExpectedSeq(cps, k)
    BY DEF ExpectedSeq
  <1> HIDE DEF expectedSeq, lastCount, earlier
  <1>4. c # Garbled /\ ~(c.count < 1)
    BY <1>2
  <1>5. /\ KeyFindings(c) = {} /\ c.seq = expectedSeq /\ ~(c.count > Len(rows))
        /\ lineHash(rows[c.count]) = c.head
    BY <1>2, <1>4
  <1> QED
    BY <1>3, <1>4, <1>5 DEF lineHash, Passes

LEMMA AllPass ==
  ASSUME NEW rows, NEW cps, AnchorFindings(rows, cps) = {}
  PROVE  \A k \in 1 .. Len(cps) : Passes(rows, cps, k)
  <1>1. \A k \in 1 .. Len(cps) : CheckpointFindings(rows, cps, k) = {}
    BY DEF AnchorFindings
  <1> QED
    BY <1>1, NoFindingMeans

(* A checkpoint whose key passes is signed by an entry of the allowlist. *)
LEMMA PassedKey ==
  ASSUME NEW c, KeyFindings(c) = {}
  PROVE  \E e \in Range(Allowlist) : e.kid = c.kid /\ c.sig = Signature(e.key, c)
  <1> DEFINE entries == {e \in Range(Allowlist) : e.kid = c.kid}
  <1>1. entries # {}
    BY DEF KeyFindings
  <1>2. PICK e \in entries : TRUE
    BY <1>1
  <1>3. verifyWith(e.key, c)
    <2>1. KeyFindings(c) = UNION {(IF InWindow(f, c.time) THEN {} ELSE {"key-out-of-window"})
                                  \cup (IF verifyWith(f.key, c) THEN {} ELSE {"bad-signature"}) : f \in entries}
      BY <1>1 DEF KeyFindings
    <2> SUFFICES ASSUME ~verifyWith(e.key, c) PROVE FALSE
      OBVIOUS
    <2>2. "bad-signature" \in (IF InWindow(e, c.time) THEN {} ELSE {"key-out-of-window"})
                                \cup (IF verifyWith(e.key, c) THEN {} ELSE {"bad-signature"})
      OBVIOUS
    <2> HIDE DEF entries
    <2>3. "bad-signature" \in KeyFindings(c)
      BY <1>2, <2>1, <2>2, Zenon
    <2> QED
      BY <2>3
  <1> QED
    BY <1>2, <1>3 DEF verifyWith

LEMMA ForgedCounts ==
  ASSUME NEW c, NEW e, SignedBy(e, c), NEW k, KeyFindings([c EXCEPT !.count = k]) = {}
  PROVE  [c EXCEPT !.count = k] = c
  <1> DEFINE d == [kid |-> c.kid, seq |-> c.seq, head |-> c.head, count |-> k, time |-> c.time, sig |-> c.sig]
  <1>1. /\ c = [kid |-> c.kid, seq |-> c.seq, head |-> c.head, count |-> c.count, time |-> c.time, sig |-> c.sig]
        /\ c.sig = Signature(e.key, c)
    BY SignedShape
  <1>2. \A a1, a2, a3, a4, a5, a6, x :
          [[kid |-> a1, seq |-> a2, head |-> a3, count |-> a4, time |-> a5, sig |-> a6] EXCEPT !.count = x]
            = [kid |-> a1, seq |-> a2, head |-> a3, count |-> x, time |-> a5, sig |-> a6]
    BY SMT
  <1>3. [c EXCEPT !.count = k] = d
    BY <1>1, <1>2
  <1>4. PICK f \in Range(Allowlist) : d.sig = Signature(f.key, d)
    BY <1>3, PassedKey
  <1>5. Signature(e.key, c).of.count = c.count /\ Signature(f.key, d).of.count = k /\ d.sig = c.sig
    BY DEF Signature, checkpointPayload
  <1>6. c.count = k
    BY <1>1, <1>4, <1>5
  <1> QED
    BY <1>1, <1>3, <1>6

LEMMA StrangersFail ==
  ASSUME NEW key \in Strangers, NEW c
  PROVE  KeyFindings(Signed(key, c)) # {}
  <1> SUFFICES ASSUME KeyFindings(Signed(key, c)) = {} PROVE FALSE
    OBVIOUS
  <1> DEFINE d == Signed(key, c)
  <1>1. PICK e \in Range(Allowlist) : d.sig = Signature(e.key, d)
    <2> HIDE DEF d
    <2>1. KeyFindings(d) = {}
      BY DEF d
    <2> QED
      BY <2>1, PassedKey
  <1>2. d.sig = Signature(key, c)
    BY DEF Signed
  <1>3. Signature(key, c).key = key /\ Signature(e.key, d).key = e.key
    BY DEF Signature
  <1>4. key = e.key
    BY <1>1, <1>2, <1>3
  <1> QED
    BY <1>4, AuditAssumption

(* An anchor that passes holds checkpoints of the anchor it was made from, and no others. *)
LEMMA AlteredAnchorIs ==
  ASSUME AuditInv, anchor.tail = NoTail, NEW rows, NEW left \in AlteredAnchors(rows) \cup {anchor},
         AnchorFindings(rows, Complete(left)) = {}
  PROVE  Complete(left) = left.lines /\ left.lines \in Seq(Range(anchor.lines))
  <1> DEFINE cps == anchor.lines
             n == Len(cps)
             S == Range(cps)
             resigned(c, key) == Signed(key, [c EXCEPT !.head = lineHash(rows[c.count])])
             made == {RemoveAt(cps, i) : i \in 1 .. n}
                       \cup {InsertAt(cps, i, cps[j]) : i, j \in 1 .. n}
                       \cup {[cps EXCEPT ![i] = cps[i + 1], ![i + 1] = cps[i]] : i \in 1 .. n - 1}
                       \cup {SubSeq(cps, 1, i) : i \in 0 .. n}
                       \cup {[cps EXCEPT ![i].count = k] : i \in 1 .. n, k \in 0 .. Len(rows)}
                       \cup {[cps EXCEPT ![i] = resigned(cps[i], key)] :
                               i \in {j \in 1 .. n : cps[j].count <= Len(rows)}, key \in Strangers}
  <1>1. /\ IsSequence(cps) /\ cps \in Seq(S) /\ n \in Nat /\ DOMAIN cps = 1 .. n
        /\ \A i \in 1 .. n : cps[i] \in S
        /\ anchor = [lines |-> cps, tail |-> anchor.tail, safe |-> anchor.safe]
    BY Lengths DEF AuditInv, ShapeInv, IsSequence
  <1>2. Anchoring(log.lines, cps)
    BY FileFacts
  <1>3. left = anchor \/ \E s \in made : left = [anchor EXCEPT !.lines = s]
    <2>1. made = AlteredCheckpoints(rows)
      BY DEF AlteredCheckpoints
    <2> HIDE DEF made
    <2> QED
      BY <2>1 DEF AlteredAnchors
  <1>4. CASE left = anchor
    BY <1>1, <1>4 DEF Complete
  <1>5. ASSUME NEW s \in made, left = [anchor EXCEPT !.lines = s]
        PROVE  Complete(left) = left.lines /\ left.lines \in Seq(S)
    <2>1. \A l, t, f, x : [[lines |-> l, tail |-> t, safe |-> f] EXCEPT !.lines = x]
                            = [lines |-> x, tail |-> t, safe |-> f]
      BY SMT
    <2> HIDE DEF made, S
    <2>2. left = [lines |-> s, tail |-> NoTail, safe |-> anchor.safe]
      BY <1>1, <1>5, <2>1
    <2>3. left.lines = s /\ Complete(left) = s
      BY <2>2 DEF Complete
    <2>4. CASE s \in {RemoveAt(cps, i) : i \in 1 .. n}
      BY <1>1, <2>3, <2>4, Pieces
    <2>5. CASE s \in {InsertAt(cps, i, cps[j]) : i, j \in 1 .. n}
      <3>1. PICK i \in 1 .. n, j \in 1 .. n : s = InsertAt(cps, i, cps[j])
        BY <2>5
      <3>2. cps[j] \in S
        BY <1>1
      <3>3. InsertAt(cps, i, cps[j]) \in Seq(S)
        BY <1>1, <3>2, Pieces
      <3> QED
        BY <2>3, <3>1, <3>3
    <2>6. CASE s \in {[cps EXCEPT ![i] = cps[i + 1], ![i + 1] = cps[i]] : i \in 1 .. n - 1}
      <3>1. PICK i \in 1 .. n - 1 : s = [cps EXCEPT ![i] = cps[i + 1], ![i + 1] = cps[i]]
        BY <2>6
      <3>2. i \in 1 .. n /\ i < n
        BY <1>1
      <3>3. s \in Seq(S)
        BY <1>1, <3>1, <3>2, Pieces
      <3> QED
        BY <2>3, <3>3
    <2>7. CASE s \in {SubSeq(cps, 1, i) : i \in 0 .. n}
      <3>1. PICK i \in 0 .. n : s = SubSeq(cps, 1, i)
        BY <2>7
      <3>2. SubSeq(cps, 1, i) \in Seq(S)
        <4>1. \A j \in 1 .. i : cps[j] \in S
          BY <1>1
        <4> QED
          BY <1>1, <4>1, SubSeqProperties
      <3> QED
        BY <2>3, <3>1, <3>2
    <2>8. CASE s \in {[cps EXCEPT ![i].count = k] : i \in 1 .. n, k \in 0 .. Len(rows)}
      <3>1. PICK i \in 1 .. n, k \in 0 .. Len(rows) : s = [cps EXCEPT ![i].count = k]
        BY <2>8
      <3>2. s = [cps EXCEPT ![i] = [cps[i] EXCEPT !.count = k]]
        BY <3>1
      <3>3. i \in 1 .. Len(s) /\ s[i] = [cps[i] EXCEPT !.count = k]
        BY <1>1, <3>2, ExceptSeq, Replaced, Lengths
      <3>4. KeyFindings(s[i]) = {}
        BY <2>3, <3>3, AllPass DEF Passes
      <3>5. s[i] = cps[i]
        BY <1>2, <3>3, <3>4, ForgedCounts DEF Anchoring
      <3>6. s = cps
        BY <1>1, <3>2, <3>3, <3>5
      <3> QED
        BY <1>1, <2>3, <3>6
    <2>9. CASE s \in {[cps EXCEPT ![i] = resigned(cps[i], key)] :
                        i \in {j \in 1 .. n : cps[j].count <= Len(rows)}, key \in Strangers}
      <3>1. PICK i \in 1 .. n, key \in Strangers : s = [cps EXCEPT ![i] = resigned(cps[i], key)]
        BY <2>9
      <3>2. i \in 1 .. Len(s) /\ s[i] = resigned(cps[i], key)
        BY <1>1, <3>1, Replaced, Lengths
      <3>3. KeyFindings(s[i]) = {}
        BY <2>3, <3>2, AllPass DEF Passes
      <3> QED
        BY <3>1, <3>2, <3>3, StrangersFail
    <2> QED
      BY <2>4, <2>5, <2>6, <2>7, <2>8, <2>9 DEF made
  <1> HIDE DEF made
  <1> QED
    BY <1>3, <1>4, <1>5

(* ... each in its own place, so they are the anchor without its end. *)
LEMMA PassedPrefix ==
  ASSUME NEW rows, NEW cps, NEW left, IsSequence(cps), Numbered(cps),
         left \in Seq(Range(cps)), AnchorFindings(rows, left) = {}
  PROVE  \A k \in 1 .. Len(left) : k \in 1 .. Len(cps) /\ left[k] = cps[k]
  <1>1. /\ Len(left) \in Nat /\ Len(cps) \in Nat
        /\ \A k \in 1 .. Len(left) : \E i \in 1 .. Len(cps) : left[k] = cps[i]
    <2>1. DOMAIN cps = 1 .. Len(cps) /\ Len(cps) \in Nat
      BY Lengths
    <2>2. \A c \in Range(cps) : \E i \in 1 .. Len(cps) : c = cps[i]
      BY <2>1 DEF Range
    <2>3. Len(left) \in Nat /\ \A k \in 1 .. Len(left) : left[k] \in Range(cps)
      OBVIOUS
    <2> QED
      BY <2>1, <2>2, <2>3
  <1>2. \A i \in 1 .. Len(cps) : cps[i].seq = i - 1
    BY DEF Numbered
  <1> DEFINE bad == {k \in 1 .. Len(left) : left[k].seq # k - 1}
  <1>3. bad = {}
    <2> SUFFICES ASSUME bad # {} PROVE FALSE
      OBVIOUS
    <2>1. PICK k \in bad : \A j \in bad : k <= j
      <3>1. bad \in SUBSET Nat
        BY <1>1
      <3> HIDE DEF bad
      <3> QED
        BY <3>1, Least
    <2>2. k \in 1 .. Len(left) /\ left[k].seq # k - 1
      OBVIOUS
    <2>3. \A j \in 1 .. k - 1 : left[j].seq = j - 1 /\ left[j] # Garbled
      <3> SUFFICES ASSUME NEW j \in 1 .. k - 1 PROVE left[j].seq = j - 1 /\ left[j] # Garbled
        OBVIOUS
      <3>1. j \in 1 .. Len(left) /\ j \notin bad
        BY <1>1, <2>1, <2>2
      <3> HIDE DEF bad
      <3>2. left[j] # Garbled
        BY <3>1, AllPass DEF Passes
      <3> QED
        BY <3>1, <3>2 DEF bad
    <2> HIDE DEF bad
    <2> DEFINE earlier == {i \in 1 .. k - 1 : left[i] # Garbled}
               seqs == {0} \cup {left[j].seq + 1 : j \in earlier}
    <2>4. left[k].seq = Max(seqs)
      <3>1. left[k].seq = ExpectedSeq(left, k)
        BY <2>2, AllPass DEF Passes
      <3>2. ExpectedSeq(left, k) = Max(seqs)
        BY DEF ExpectedSeq
      <3> QED
        BY <3>1, <3>2
    <2>5. Max(seqs) = k - 1
      <3>1. k \in Nat /\ k >= 1
        BY <1>1, <2>2
      <3>2. seqs \subseteq Int /\ \A x \in seqs : k - 1 >= x
        BY <2>3, <3>1
      <3>3. k - 1 \in seqs
        <4>1. CASE k = 1
          BY <4>1
        <4>2. CASE k # 1
          <5>1. k - 1 \in earlier /\ left[k - 1].seq + 1 = k - 1
            BY <2>3, <3>1, <4>2
          <5> QED
            BY <5>1
        <4> QED
          BY <4>1, <4>2
      <3> HIDE DEF seqs
      <3> QED
        BY <3>2, <3>3, MaxIs
    <2> QED
      BY <2>2, <2>4, <2>5
  <1>4. ASSUME NEW k \in 1 .. Len(left)
        PROVE  k \in 1 .. Len(cps) /\ left[k] = cps[k]
    <2>1. PICK i \in 1 .. Len(cps) : left[k] = cps[i]
      BY <1>1
    <2>2. left[k].seq = k - 1 /\ cps[i].seq = i - 1
      BY <1>2, <1>3
    <2>3. i = k
      BY <1>1, <2>1, <2>2
    <2> QED
      BY <2>1, <2>3
  <1> QED
    BY <1>4

(* Where the chains of two files agree on a row, they agree on all the rows before it. *)
LEMMA SameBelow ==
  ASSUME NEW rows, NEW base, NEW n \in Nat \ {0}, n <= Len(rows), n <= Len(base),
         Len(rows) \in Nat, Len(base) \in Nat, rows[n] = base[n], Chained(base),
         \A i \in 1 .. Len(rows) : rows[i].prev = (IF i = 1 THEN Genesis ELSE rows[i - 1])
  PROVE  \A i \in 1 .. n : rows[i] = base[i]
  <1> DEFINE bad == {d \in 0 .. n - 1 : rows[n - d] # base[n - d]}
  <1>1. bad = {}
    <2> SUFFICES ASSUME bad # {} PROVE FALSE
      OBVIOUS
    <2>1. PICK d \in bad : \A k \in bad : d <= k
      <3>1. bad \in SUBSET Nat
        OBVIOUS
      <3> HIDE DEF bad
      <3> QED
        BY <3>1, Least
    <2>2. d \in 0 .. n - 1 /\ rows[n - d] # base[n - d] /\ d # 0
      OBVIOUS
    <2>3. d - 1 \in 0 .. n - 1 /\ d - 1 \notin bad
      <3> HIDE DEF bad
      <3> QED
        BY <2>1, <2>2
    <2> DEFINE i == n - (d - 1)
    <2>4. i \in 1 .. Len(rows) /\ i \in 1 .. Len(base) /\ i # 1 /\ i - 1 = n - d
      BY <2>2, <2>3
    <2>5. rows[i] = base[i]
      BY <2>3
    <2> HIDE DEF bad, i
    <2>6. rows[i].prev = rows[i - 1] /\ base[i].prev = base[i - 1]
      BY <2>4, NoRowIsGarbled
    <2> QED
      BY <2>2, <2>4, <2>5, <2>6
  <1>2. ASSUME NEW i \in 1 .. n PROVE rows[i] = base[i]
    <2>1. n - i \in 0 .. n - 1 /\ n - (n - i) = i
      OBVIOUS
    <2>2. n - i \notin bad
      BY <1>1
    <2> QED
      BY <2>1, <2>2
  <1> QED
    BY <1>2

LEMMA CutsAgree ==
  ASSUME NEW s, IsSequence(s), NEW t, IsSequence(t), NEW n \in Nat, n <= Len(s), n <= Len(t),
         \A i \in 1 .. n : s[i] = t[i]
  PROVE  SubSeq(s, 1, n) = SubSeq(t, 1, n)
  <1>1. n \in 0 .. Len(s) /\ n \in 0 .. Len(t)
    BY Lengths
  <1>2. /\ IsSequence(SubSeq(s, 1, n)) /\ IsSequence(SubSeq(t, 1, n))
        /\ Len(SubSeq(s, 1, n)) = n /\ Len(SubSeq(t, 1, n)) = n
        /\ \A i \in 1 .. n : SubSeq(s, 1, n)[i] = SubSeq(t, 1, n)[i]
    BY <1>1, Cut
  <1> QED
    BY <1>2, Whole

LEMMA AnchoredHere ==
  ASSUME Sound
  PROVE  AnchoredRowsStand
  <1> SUFFICES ASSUME AuditInv, node = "up", step = "idle"
               PROVE  /\ seq - checkpointedCount < RowsEvery
                      /\ anchor.lines # <<>> => checkpointedCount = Last(anchor.lines).count
                      /\ \A altered \in {f \in AlteredLogs \cup {log} : LogFindings(Complete(f)) = {}} :
                           \A left \in AlteredAnchors(Complete(altered)) \cup {anchor} :
                             \/ Tampered(altered, left)
                             \/ /\ Once => IsPrefix(left.lines, anchor.lines)
                                /\ left.lines # <<>> =>
                                     LET n == Last(left.lines).count IN
                                       SubSeq(Complete(altered), 1, n) = SubSeq(log.lines, 1, n)
    BY DEF AnchoredRowsStand, Sound, Once
  <1>1. /\ seq - checkpointedCount < RowsEvery
        /\ log.tail = NoTail /\ anchor.tail = NoTail
        /\ checkpointedCount = LastCount(anchor.lines)
    BY DEF AuditInv, StepInv, StoreInv, Exact, Torn, Working, Running
  <1>2. /\ IsSequence(log.lines) /\ IsSequence(anchor.lines) /\ log.safe \in 0 .. Len(log.lines)
    BY DEF AuditInv, ShapeInv, AuditTypeOK
  <1>3. /\ Len(log.lines) \in Nat /\ Len(anchor.lines) \in Nat /\ Chained(log.lines)
        /\ Anchoring(log.lines, anchor.lines) /\ CountsTo(anchor.lines, log.safe)
        /\ Once => Numbered(anchor.lines)
    BY FileFacts
  <1>4. ASSUME NEW altered \in AlteredLogs \cup {log}, LogFindings(Complete(altered)) = {},
               NEW left \in AlteredAnchors(Complete(altered)) \cup {anchor}, ~Tampered(altered, left)
        PROVE  /\ Once => IsPrefix(left.lines, anchor.lines)
               /\ left.lines # <<>> =>
                    SubSeq(Complete(altered), 1, Last(left.lines).count)
                      = SubSeq(log.lines, 1, Last(left.lines).count)
    <2> DEFINE rows == Complete(altered)
    <2>1. IsSequence(rows) /\ Len(rows) \in Nat
      BY <1>1, <1>4, AlteredLogIs, Lengths
    <2>2. AnchorFindings(rows, Complete(left)) = {}
      <3>1. \A f \in AnchorFindings(rows, Complete(left)) : f \in Findings(altered, left)
        BY DEF Findings
      <3>2. Findings(altered, left) \subseteq {"torn-final-line"}
        BY <1>4 DEF Tampered
      <3>3. "torn-final-line" \notin AnchorFindings(rows, Complete(left))
        <4> HIDE DEF rows
        <4> SUFFICES ASSUME NEW k \in 1 .. Len(Complete(left)),
                            "torn-final-line" \in CheckpointFindings(rows, Complete(left), k)
                     PROVE  FALSE
          BY DEF AnchorFindings
        <4>1. "torn-final-line" \notin KeyFindings(Complete(left)[k])
          BY DEF KeyFindings
        <4> QED
          BY <4>1 DEF CheckpointFindings
      <3> QED
        BY <3>1, <3>2, <3>3
    <2> HIDE DEF rows
    <2>3. Complete(left) = left.lines /\ left.lines \in Seq(Range(anchor.lines))
      BY <1>1, <1>4, <2>2, AlteredAnchorIs DEF rows
    <2>4. /\ IsSequence(left.lines) /\ Len(left.lines) \in Nat
          /\ AnchorFindings(rows, left.lines) = {}
      BY <2>2, <2>3, OfASet, Lengths
    <2>5. \A k \in 1 .. Len(left.lines) : \E i \in 1 .. Len(anchor.lines) : left.lines[k] = anchor.lines[i]
      <3>1. DOMAIN anchor.lines = 1 .. Len(anchor.lines)
        BY <1>2, Lengths
      <3>2. \A c \in Range(anchor.lines) : \E i \in 1 .. Len(anchor.lines) : c = anchor.lines[i]
        BY <3>1 DEF Range
      <3>3. \A k \in 1 .. Len(left.lines) : left.lines[k] \in Range(anchor.lines)
        BY <2>3
      <3> QED
        BY <3>2, <3>3
    <2>7. ASSUME Once PROVE IsPrefix(left.lines, anchor.lines)
      <3>1. \A k \in 1 .. Len(left.lines) : k \in 1 .. Len(anchor.lines) /\ left.lines[k] = anchor.lines[k]
        BY <1>2, <1>3, <2>3, <2>4, <2>7, PassedPrefix
      <3>2. Len(left.lines) <= Len(anchor.lines)
        BY <1>3, <2>4, <3>1
      <3>3. SubSeq(left.lines, 1, Len(left.lines)) = SubSeq(anchor.lines, 1, Len(left.lines))
        BY <1>2, <2>4, <3>1, <3>2, CutsAgree
      <3> QED
        BY <3>2, <3>3 DEF IsPrefix
    <2>8. ASSUME left.lines # <<>>
          PROVE  SubSeq(rows, 1, Last(left.lines).count) = SubSeq(log.lines, 1, Last(left.lines).count)
      <3> DEFINE k == Len(left.lines)
                 c == left.lines[k]
      <3>1. k \in 1 .. Len(left.lines)
        BY <2>4, <2>8 DEF IsSequence
      <3>2. PICK at \in 1 .. Len(anchor.lines) : c = anchor.lines[at]
        BY <2>5, <3>1
      <3>3. c.count \in 1 .. Len(log.lines) /\ c.head = log.lines[c.count]
        BY <1>3, <3>2 DEF Anchoring, Covers
      <3>4. ~(c.count > Len(rows)) /\ rows[c.count] = c.head
        BY <2>4, <3>1, AllPass DEF Passes
      <3> HIDE DEF k, c
      <3> DEFINE n == c.count
      <3>5. n \in Nat \ {0} /\ n <= Len(rows) /\ n <= Len(log.lines) /\ rows[n] = log.lines[n]
        BY <1>3, <2>1, <3>3, <3>4
      <3> HIDE DEF n
      <3>6. \A i \in 1 .. Len(rows) : rows[i].prev = (IF i = 1 THEN Genesis ELSE rows[i - 1])
        BY <1>4, <2>1, PassedIsChained DEF rows
      <3>7. \A i \in 1 .. n : rows[i] = log.lines[i]
        <4> DEFINE base == log.lines
        <4>1. Len(rows) \in Nat /\ Len(base) \in Nat /\ Chained(base)
          BY <1>3, <2>1
        <4>2. n \in Nat \ {0} /\ n <= Len(rows) /\ n <= Len(base) /\ rows[n] = base[n]
          BY <3>5
        <4> HIDE DEF base
        <4>3. \A i \in 1 .. n : rows[i] = base[i]
          BY <3>6, <4>1, <4>2, SameBelow
        <4> QED
          BY <4>3 DEF base
      <3>8. SubSeq(rows, 1, n) = SubSeq(log.lines, 1, n)
        BY <1>2, <2>1, <3>5, <3>7, CutsAgree
      <3> QED
        BY <3>8 DEF n, c, k, Last
    <2> QED
      BY <2>7, <2>8 DEF rows
  <1> QED
    BY <1>1, <1>4 DEF LastCount

(* Files changed without a key of the allowlist pass verify only where every row
   a remaining checkpoint covers is as the store wrote it (AU-9, AU-12 to AU-20),
   also after an fsync of the anchor threw, as long as no write was short. *)
THEOREM AnchoredRowsAlwaysStand == AuditSpec => []AnchoredRowsStand
  <1>1. Sound => AnchoredRowsStand
    BY AnchoredHere
  <1> QED
    BY <1>1, AuditInvHolds, PTL DEF AuditSpec

=============================================================================
