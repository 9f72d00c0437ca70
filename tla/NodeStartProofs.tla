----------------------------- MODULE NodeStartProofs -----------------------------
(***************************************************************************)
(* A node's start, its serving and its close, for any environments, files, *)
(* editions and calls.                                                     *)
(*                                                                         *)
(* What is open at each stage (HoldsInv) gives FailedStartLeavesNothing    *)
(* and RowsOutliveTheEndpoint.  What each stage has settled of the         *)
(* snapshot, the files, the registry and the places (ServesInv), with what *)
(* each check of the start means for all that passes it, gives             *)
(* ServedIsApproved: of NODE_OPTIONS whatever its length (NoFlagIsMissed), *)
(* of the ladder (LadderIsTheStandard), of schemas of any size             *)
(* (SafeSchema), of domains and of addresses.  That the canonical form of  *)
(* a form is itself, whatever its length (SnapshotStays), gives            *)
(* OperatorSeesWhatTheNodeDoes.  A recursive function is reasoned about by *)
(* its least counterexample (LeastOf).                                     *)
(***************************************************************************)
EXTENDS NodeStart, NaturalsInduction, WellFoundedInduction, SequenceTheorems, FiniteSetTheorems, TLAPS

LEMMA LeastOf ==
  ASSUME NEW S \in SUBSET Nat, S # {}
  PROVE  \E i \in S : \A k \in S : ~(k < i)
<1> DEFINE R == {ss \in Nat \X Nat : ss[1] < ss[2]}
<1>1. IsWellFoundedOn(R, Nat)
  BY NatLessThanWellFounded DEF OpToRel
<1>2. PICK i \in S : \A k \in S : <<k, i>> \notin R
  <2> HIDE DEF R
  <2> QED  BY <1>1, WFMin
<1> QED  BY <1>2

-----------------------------------------------------------------------------
(* NODE_OPTIONS, as the entry reads it and as Node does.                    *)

ScanState == [tokens : Seq(Seq(Unit)), token : Seq(Unit), started : BOOLEAN, quoted : BOOLEAN, escaped : BOOLEAN]
NodeState == [args : Seq(Seq(Unit)), fresh : BOOLEAN, quoted : BOOLEAN, escaped : BOOLEAN]

Found(a) == \E k \in 1..Len(a.tokens) : IsFlag(a.tokens[k])

(* Where Node is in the middle of an argument that is a flag so far, so is the entry. *)
InStep(a, b) ==
  /\ a.quoted = b.quoted /\ a.escaped = b.escaped
  /\ (a.escaped => a.quoted) /\ (a.quoted => a.started)
  /\ b.fresh => a.token = <<>>
  /\ ~b.fresh => b.args # <<>> /\ b.args[Len(b.args)] # <<>>

Sees(a, b) ==
  \A k \in 1..Len(b.args) :
    IsFlag(b.args[k]) =>
      /\ k = Len(b.args) /\ ~b.fresh /\ a.started /\ IsFlag(a.token)
      /\ Len(b.args[k]) > 1 => Len(a.token) > 1

Pair(a, b) == a \in ScanState /\ b \in NodeState /\ InStep(a, b) /\ (Found(a) \/ Sees(a, b))

LEMMA Appended ==
  ASSUME NEW S, NEW t \in Seq(S), NEW c \in S
  PROVE  /\ Append(t, c) \in Seq(S) /\ Len(Append(t, c)) = Len(t) + 1 /\ Append(t, c) # <<>>
         /\ Len(t) \in Nat
         /\ \A k \in 1..Len(t) : Append(t, c)[k] = t[k]
         /\ Append(t, c)[Len(t) + 1] = c
<1>1. Len(t) \in Nat
  BY LenProperties
<1> QED
  BY <1>1, AppendProperties

LEMMA OneOrMore ==
  ASSUME NEW n \in Nat \ {0}
  PROVE  n > 0 /\ (n = 1 \/ n > 1) /\ (n # 1 => n > 1 /\ 2 \in 1..n) /\ 1 \in 1..n
  OBVIOUS

LEMMA Counted ==
  ASSUME NEW S, NEW t \in Seq(S), t # <<>>
  PROVE  /\ Len(t) \in Nat /\ Len(t) > 0 /\ 1 \in 1..Len(t) /\ (Len(t) = 1 \/ Len(t) > 1)
         /\ Len(t) # 1 => Len(t) > 1 /\ 2 \in 1..Len(t)
<1> DEFINE n == Len(t)
<1>1. n \in Nat \ {0}
  BY EmptySeq
<1> HIDE DEF n
<1>2. n \in Nat /\ n > 0 /\ 1 \in 1..n /\ (n = 1 \/ n > 1) /\ (n # 1 => n > 1 /\ 2 \in 1..n)
  BY <1>1, OneOrMore
<1> QED
  BY <1>2 DEF n

LEMMA FlagAppend ==
  ASSUME NEW t \in Seq(Unit), t # <<>>, NEW c \in Unit
  PROVE  IsFlag(Append(t, c)) <=> IsFlag(t) /\ (Len(t) = 1 => c = "=")
<1> DEFINE w == Append(t, c)
<1>0. Len(t) \in Nat /\ Len(t) > 0 /\ (Len(t) # 1 => Len(t) > 1 /\ 2 \in 1..Len(t))
  BY Counted
<1>a. w # <<>> /\ Len(w) = Len(t) + 1 /\ w[Len(t) + 1] = c /\ \A k \in 1..Len(t) : w[k] = t[k]
  BY Appended
<1> HIDE DEF w
<1>1. w[1] = t[1] /\ Len(w) > 1
  BY <1>0, <1>a
<1>2. CASE Len(t) = 1
  <2>1. w[2] = c /\ ~(Len(t) > 1)
    BY <1>a, <1>2
  <2>2. IsFlag(w) <=> w[1] \in {"flag", "flag_"} /\ w[2] = "="
    BY <1>a, <1>1 DEF IsFlag
  <2>3. IsFlag(t) <=> t[1] \in {"flag", "flag_"}
    BY <2>1 DEF IsFlag
  <2> QED
    BY <1>1, <1>2, <2>1, <2>2, <2>3 DEF w
<1>3. CASE Len(t) # 1
  <2>1. w[2] = t[2] /\ Len(t) > 1
    BY <1>0, <1>a, <1>3
  <2>2. IsFlag(w) <=> w[1] \in {"flag", "flag_"} /\ w[2] = "="
    BY <1>a, <1>1 DEF IsFlag
  <2>3. IsFlag(t) <=> t[1] \in {"flag", "flag_"} /\ t[2] = "="
    BY <2>1 DEF IsFlag
  <2> QED
    BY <1>1, <1>3, <2>1, <2>2, <2>3 DEF w
<1> QED
  BY <1>2, <1>3

LEMMA FlagAlone ==
  ASSUME NEW c \in Unit
  PROVE  <<c>> \in Seq(Unit) /\ Len(<<c>>) = 1 /\ (IsFlag(<<c>>) <=> c \in {"flag", "flag_"}) /\ ~IsFlag(<<>>)
<1> HIDE DEF Unit
<1> QED
  BY DEF IsFlag

(* What Node's adding a unit makes of its arguments. *)
LEMMA AddsWhat ==
  ASSUME NEW b \in NodeState, ~b.fresh => b.args # <<>> /\ b.args[Len(b.args)] # <<>>, NEW c \in Unit
  PROVE  LET z == Adds(b, c) IN
           /\ z \in Seq(Seq(Unit)) /\ z # <<>> /\ z[Len(z)] # <<>>
           /\ \A k \in 1..Len(z) : IsFlag(z[k]) =>
                \/ b.fresh /\ k = Len(z) /\ c \in {"flag", "flag_"} /\ ~(Len(z[k]) > 1)
                \/ /\ k \in 1..Len(b.args) /\ IsFlag(b.args[k])
                   /\ ~b.fresh /\ k = Len(b.args) => k = Len(z) /\ (Len(b.args[k]) > 1 \/ c = "=")
<1> DEFINE z == Adds(b, c)
<1>t. b.args \in Seq(Seq(Unit)) /\ Len(b.args) \in Nat
  <2>1. b.args \in Seq(Seq(Unit))
    BY DEF NodeState
  <2> QED
    BY <2>1, LenProperties
<1>2. CASE b.fresh
  <2>2. z = Append(b.args, <<c>>) /\ <<c>> \in Seq(Unit)
    BY <1>2, FlagAlone DEF Adds
  <2> DEFINE W == Seq(Unit)
  <2>w. b.args \in Seq(W) /\ <<c>> \in W
    BY <1>t, <2>2
  <2> HIDE DEF W, z
  <2>v. /\ z \in Seq(W) /\ Len(z) = Len(b.args) + 1 /\ z # <<>>
        /\ z[Len(b.args) + 1] = <<c>> /\ \A k \in 1..Len(b.args) : z[k] = b.args[k]
    BY <2>2, <2>w, Appended
  <2>a. z \in Seq(Seq(Unit)) /\ Len(z) = Len(b.args) + 1 /\ z # <<>>
    BY <2>v DEF W
  <2>b. z[Len(z)] = <<c>> /\ \A k \in 1..Len(b.args) : z[k] = b.args[k]
    BY <2>v, <2>a
  <2>3. <<c>> # <<>> /\ ~(Len(<<c>>) > 1)
    BY FlagAlone
  <2>4. ASSUME NEW k \in 1..Len(z), IsFlag(z[k])
        PROVE  \/ k = Len(z) /\ c \in {"flag", "flag_"} /\ ~(Len(z[k]) > 1)
               \/ k \in 1..Len(b.args) /\ IsFlag(b.args[k])
    <3>1. CASE k = Len(z)
      <4>1. IsFlag(<<c>>) /\ z[k] = <<c>>
        BY <3>1, <2>4, <2>b
      <4> QED
        BY <3>1, <4>1, <2>3, FlagAlone
    <3>2. CASE k # Len(z)
      <4>1. k \in 1..Len(b.args)
        BY <3>2, <2>a, <1>t
      <4> QED
        BY <4>1, <2>4, <2>b
    <3> QED
      BY <3>1, <3>2
  <2>5. z[Len(z)] # <<>>
    BY <2>b, <2>3
  <2> QED
    BY <1>2, <2>a, <2>4, <2>5 DEF z
<1>3. CASE ~b.fresh
  <2> DEFINE n == Len(b.args)
             old == b.args[n]
             e == Append(old, c)
  <2>1. b.args # <<>> /\ old # <<>>
    BY <1>3
  <2>2. z = [b.args EXCEPT ![n] = e]
    BY <1>3 DEF Adds
  <2>n. n \in 1..n
    <3>1. Len(b.args) \in Nat /\ Len(b.args) > 0
      BY <2>1, <1>t, Counted
    <3> QED
      BY <3>1
  <2>c. old \in Seq(Unit)
    BY <2>n, <1>t, ElementOfSeq
  <2> HIDE DEF old, z
  <2>e. e \in Seq(Unit) /\ e # <<>>
    BY <2>c, Appended
  <2>a. z \in Seq(Seq(Unit)) /\ Len(z) = n /\ z[n] = e /\ \A k \in 1..n : k # n => z[k] = b.args[k]
    <3> DEFINE W == Seq(Unit)
    <3>0. b.args \in Seq(W) /\ e \in W
      BY <1>t, <2>e
    <3> HIDE DEF W, e
    <3>1. /\ z \in Seq(W) /\ Len(z) = Len(b.args)
          /\ \A k \in 1..Len(b.args) : z[k] = IF k = n THEN e ELSE b.args[k]
      BY <3>0, <2>n, <2>2, ExceptSeq
    <3> QED
      BY <3>1, <2>n DEF W
  <2>3. z # <<>>
    <3>1. Len(z) > 0
      BY <2>a, <2>n, <1>t
    <3>2. Len(<<>>) = 0
      BY EmptySeq
    <3> QED
      BY <3>1, <3>2
  <2>4. IsFlag(e) => IsFlag(old) /\ (Len(old) > 1 \/ c = "=")
    <3>1. Len(old) = 1 \/ Len(old) > 1
      BY <2>1, <2>c, Counted
    <3> QED
      BY <3>1, <2>1, <2>c, FlagAppend
  <2> HIDE DEF n, e
  <2>5. ASSUME NEW k \in 1..Len(z), IsFlag(z[k])
        PROVE  /\ k \in 1..n /\ IsFlag(b.args[k])
               /\ k = n => k = Len(z) /\ (Len(b.args[k]) > 1 \/ c = "=")
    <3>1. CASE k = n
      BY <3>1, <2>5, <2>a, <2>4 DEF old
    <3>2. CASE k # n
      BY <3>2, <2>5, <2>a
    <3> QED
      BY <3>1, <3>2
  <2> QED
    BY <1>3, <2>a, <2>e, <2>3, <2>5 DEF z, n
<1> QED
  BY <1>2, <1>3

LEMMA BothAdd ==
  ASSUME NEW a, NEW b, Pair(a, b), NEW c \in Unit, NEW x, NEW y,
         x = [a EXCEPT !.token = Append(@, c), !.started = TRUE, !.escaped = FALSE],
         y = [b EXCEPT !.args = Adds(b, c), !.fresh = FALSE, !.escaped = FALSE]
  PROVE  Pair(x, y)
<1>1. /\ x = [tokens |-> a.tokens, token |-> Append(a.token, c), started |-> TRUE, quoted |-> a.quoted, escaped |-> FALSE]
      /\ y = [args |-> Adds(b, c), fresh |-> FALSE, quoted |-> b.quoted, escaped |-> FALSE]
  BY DEF Pair, ScanState, NodeState
<1>2. /\ x.tokens = a.tokens /\ x.token = Append(a.token, c) /\ x.started = TRUE /\ x.quoted = a.quoted /\ x.escaped = FALSE
      /\ y.args = Adds(b, c) /\ y.fresh = FALSE /\ y.quoted = b.quoted /\ y.escaped = FALSE
  BY <1>1
<1>t. a.token \in Seq(Unit) /\ b \in NodeState /\ InStep(a, b)
  BY DEF Pair, ScanState
<1>k. x.token \in Seq(Unit) /\ Len(x.token) = Len(a.token) + 1 /\ Len(a.token) \in Nat
  BY <1>2, <1>t, Appended
<1>z. /\ y.args \in Seq(Seq(Unit)) /\ y.args # <<>> /\ y.args[Len(y.args)] # <<>>
      /\ \A k \in 1..Len(y.args) : IsFlag(y.args[k]) =>
           \/ b.fresh /\ k = Len(y.args) /\ c \in {"flag", "flag_"} /\ ~(Len(y.args[k]) > 1)
           \/ /\ k \in 1..Len(b.args) /\ IsFlag(b.args[k])
              /\ ~b.fresh /\ k = Len(b.args) => k = Len(y.args) /\ (Len(b.args[k]) > 1 \/ c = "=")
  BY <1>2, <1>t, AddsWhat DEF InStep
<1>3. x \in ScanState /\ y \in NodeState
  BY <1>1, <1>2, <1>k, <1>z DEF Pair, ScanState, NodeState
<1>4. InStep(x, y)
  BY <1>2, <1>z DEF Pair, InStep
<1>5. Found(a) => Found(x)
  BY <1>2 DEF Found
<1>6. ASSUME Sees(a, b) PROVE Sees(x, y)
  <2>1. ASSUME NEW k \in 1..Len(y.args), IsFlag(y.args[k])
        PROVE  k = Len(y.args) /\ IsFlag(x.token) /\ (Len(y.args[k]) > 1 => Len(x.token) > 1)
    <3>1. CASE b.fresh /\ k = Len(y.args) /\ c \in {"flag", "flag_"} /\ ~(Len(y.args[k]) > 1)
      <4>1. x.token = <<c>>
        <5>1. a.token = <<>>
          BY <3>1, <1>t DEF InStep
        <5>2. Append(<<>>, c) = <<c>>
          OBVIOUS
        <5> QED
          BY <5>1, <5>2, <1>2
      <4>2. IsFlag(<<c>>)
        BY <3>1, FlagAlone
      <4> QED
        BY <3>1, <4>1, <4>2
    <3>2. CASE /\ k \in 1..Len(b.args) /\ IsFlag(b.args[k])
               /\ ~b.fresh /\ k = Len(b.args) => k = Len(y.args) /\ (Len(b.args[k]) > 1 \/ c = "=")
      <4>1. k = Len(y.args) /\ IsFlag(a.token) /\ (Len(b.args[k]) > 1 \/ c = "=") /\ (Len(b.args[k]) > 1 => Len(a.token) > 1)
        BY <3>2, <1>6 DEF Sees
      <4>2. a.token # <<>>
        BY <4>1 DEF IsFlag
      <4>3. Len(a.token) > 0
        BY <4>2, <1>t, Counted
      <4>4. Len(a.token) = 1 => c = "="
        BY <4>1, <1>k
      <4>5. IsFlag(x.token)
        BY <4>1, <4>2, <4>4, <1>2, <1>t, FlagAppend
      <4>6. Len(x.token) > 1
        BY <4>3, <1>k
      <4> QED
        BY <4>1, <4>5, <4>6
    <3> QED
      BY <2>1, <3>1, <3>2, <1>z
  <2> QED
    BY <1>2, <2>1 DEF Sees
<1> QED
  BY <1>3, <1>4, <1>5, <1>6 DEF Pair

(* What the entry's closing a token makes of its state. *)
LEMMA Flushes ==
  ASSUME NEW a, NEW b, Pair(a, b), NEW x,
         x = [tokens |-> IF a.started THEN Append(a.tokens, a.token) ELSE a.tokens, token |-> <<>>, started |-> FALSE,
              quoted |-> a.quoted, escaped |-> a.escaped]
  PROVE  /\ x \in ScanState /\ x.token = <<>> /\ x.started = FALSE /\ x.quoted = a.quoted /\ x.escaped = a.escaped
         /\ Found(a) => Found(x)
         /\ (\E k \in 1..Len(b.args) : IsFlag(b.args[k])) => Found(x)
<1>1. /\ a.tokens \in Seq(Seq(Unit)) /\ a.token \in Seq(Unit) /\ a.started \in BOOLEAN /\ a.quoted \in BOOLEAN
      /\ a.escaped \in BOOLEAN
  BY DEF Pair, ScanState
<1>3. /\ x.tokens = (IF a.started THEN Append(a.tokens, a.token) ELSE a.tokens)
      /\ x.token = <<>> /\ x.started = FALSE /\ x.quoted = a.quoted /\ x.escaped = a.escaped
  OBVIOUS
<1> DEFINE W == Seq(Unit)
           s == a.tokens
<1>w. s \in Seq(W) /\ a.token \in W
  BY <1>1
<1>l. Len(s) \in Nat
  BY <1>w, LenProperties
<1> HIDE DEF W
<1>4. /\ Append(s, a.token) \in Seq(W) /\ Len(Append(s, a.token)) = Len(s) + 1
      /\ Append(s, a.token)[Len(s) + 1] = a.token
      /\ \A k \in 1..Len(s) : Append(s, a.token)[k] = s[k]
  BY <1>w, Appended
<1>5. x.tokens \in Seq(W)
  BY <1>3, <1>4, <1>w
<1>6. <<>> \in Seq(Unit)
  BY EmptySeq
<1>7. x \in ScanState
  <2>1. x.tokens \in Seq(Seq(Unit))
    BY <1>5 DEF W
  <2> QED
    BY <2>1, <1>1, <1>3, <1>6 DEF ScanState
<1>8. Found(a) => Found(x)
  <2>1. CASE a.started
    <3>1. \A k \in 1..Len(s) : k \in 1..Len(x.tokens) /\ x.tokens[k] = s[k]
      BY <2>1, <1>3, <1>4, <1>l
    <3> QED
      BY <3>1 DEF Found
  <2>2. CASE ~a.started
    BY <2>2, <1>3 DEF Found
  <2> QED
    BY <2>1, <2>2
<1>9. ASSUME NEW k \in 1..Len(b.args), IsFlag(b.args[k]) PROVE Found(x)
  <2>1. CASE Sees(a, b)
    <3>1. a.started /\ IsFlag(a.token)
      BY <2>1, <1>9 DEF Sees
    <3>2. Len(x.tokens) = Len(s) + 1 /\ x.tokens[Len(s) + 1] = a.token
      BY <3>1, <1>3, <1>4
    <3>3. Len(s) + 1 \in 1..Len(x.tokens)
      BY <3>2, <1>l
    <3> QED
      BY <3>1, <3>2, <3>3 DEF Found
  <2> QED
    BY <2>1, <1>8 DEF Pair
<1> QED
  BY <1>3, <1>7, <1>8, <1>9

LEMMA StepPair ==
  ASSUME NEW a, NEW b, Pair(a, b), NEW c \in Unit
  PROVE  Pair(Scan(a, c), NodeScan(b, c))
<1> DEFINE x == Scan(a, c)
           y == NodeScan(b, c)
<1>t. a \in ScanState /\ b \in NodeState /\ InStep(a, b)
  BY DEF Pair
<1>b. /\ a.quoted \in BOOLEAN /\ a.escaped \in BOOLEAN /\ b.quoted \in BOOLEAN /\ b.escaped \in BOOLEAN
      /\ a.quoted = b.quoted /\ a.escaped = b.escaped
  BY <1>t DEF ScanState, NodeState, InStep
<1>1. CASE a.escaped
  <2>1. a.started = TRUE
    BY <1>1, <1>t DEF InStep, ScanState
  <2>2. x = [a EXCEPT !.token = Append(@, c), !.escaped = FALSE]
    BY <1>1 DEF Scan
  <2>3. x = [a EXCEPT !.token = Append(@, c), !.started = TRUE, !.escaped = FALSE]
    BY <2>1, <2>2, <1>t DEF ScanState
  <2>4. y = [b EXCEPT !.args = Adds(b, c), !.fresh = FALSE, !.escaped = FALSE]
    BY <1>1, <1>b DEF NodeScan
  <2> HIDE DEF x, y
  <2>5. Pair(x, y)
    BY <2>3, <2>4, BothAdd
  <2> QED
    BY <2>5 DEF x, y
<1>2. CASE ~a.escaped /\ a.quoted /\ c = "backslash"
  <2>1. x = [a EXCEPT !.escaped = TRUE] /\ y = [b EXCEPT !.escaped = TRUE]
    BY <1>2, <1>b DEF Scan, NodeScan
  <2> HIDE DEF x, y
  <2>2. /\ x \in ScanState /\ x.tokens = a.tokens /\ x.token = a.token /\ x.started = a.started /\ x.quoted = a.quoted /\ x.escaped = TRUE
        /\ y \in NodeState /\ y.args = b.args /\ y.fresh = b.fresh /\ y.quoted = b.quoted /\ y.escaped = TRUE
    BY <2>1, <1>t DEF ScanState, NodeState
  <2>3. Pair(x, y)
    BY <2>2, <1>2 DEF Pair, InStep, Found, Sees
  <2> QED
    BY <2>3 DEF x, y
<1>3. CASE ~a.escaped /\ c = "quote"
  <2>1. x = [a EXCEPT !.quoted = ~@, !.started = TRUE] /\ y = [b EXCEPT !.quoted = ~@]
    BY <1>3, <1>b DEF Scan, NodeScan
  <2> HIDE DEF x, y
  <2>2. /\ x \in ScanState /\ x.tokens = a.tokens /\ x.token = a.token /\ x.started = TRUE /\ x.quoted = ~a.quoted /\ x.escaped = a.escaped
        /\ y \in NodeState /\ y.args = b.args /\ y.fresh = b.fresh /\ y.quoted = ~b.quoted /\ y.escaped = b.escaped
    BY <2>1, <1>t DEF ScanState, NodeState
  <2>3. Pair(x, y)
    BY <2>2, <1>3 DEF Pair, InStep, Found, Sees
  <2> QED
    BY <2>3 DEF x, y
<1>4. CASE ~a.escaped /\ ~a.quoted /\ c \in {"space", "tab"}
  <2>1. x = [a EXCEPT !.tokens = IF a.started THEN Append(@, a.token) ELSE @, !.token = <<>>, !.started = FALSE]
    BY <1>4, <1>b DEF Scan
  <2>r. x = [tokens |-> IF a.started THEN Append(a.tokens, a.token) ELSE a.tokens, token |-> <<>>, started |-> FALSE,
             quoted |-> a.quoted, escaped |-> a.escaped]
    BY <2>1, <1>t DEF ScanState
  <2> HIDE DEF x
  <2>2. /\ x \in ScanState /\ x.token = <<>> /\ x.started = FALSE /\ x.quoted = a.quoted /\ x.escaped = a.escaped
        /\ Found(a) => Found(x)
        /\ (\E k \in 1..Len(b.args) : IsFlag(b.args[k])) => Found(x)
    BY <2>r, Flushes
  <2>3. CASE c = "space"
    <3>1. y = [b EXCEPT !.fresh = TRUE]
      BY <1>4, <2>3, <1>b DEF NodeScan
    <3> HIDE DEF y
    <3>2. y \in NodeState /\ y.args = b.args /\ y.fresh = TRUE /\ y.quoted = b.quoted /\ y.escaped = b.escaped
      BY <3>1, <1>t DEF NodeState
    <3>3. Found(x) \/ Sees(x, y)
      BY <2>2, <3>2 DEF Sees
    <3>4. InStep(x, y)
      BY <2>2, <3>2, <1>4, <1>t DEF InStep
    <3> QED
      BY <2>2, <3>2, <3>3, <3>4 DEF Pair, x, y
  <2>4. CASE c = "tab"
    <3>1. y = [b EXCEPT !.args = Adds(b, c), !.fresh = FALSE]
      BY <1>4, <2>4, <1>b DEF NodeScan
    <3> HIDE DEF y
    <3>d. y = [args |-> Adds(b, c), fresh |-> FALSE, quoted |-> b.quoted, escaped |-> b.escaped]
      BY <3>1, <1>t DEF NodeState
    <3>2. y.args = Adds(b, c) /\ y.fresh = FALSE /\ y.quoted = b.quoted /\ y.escaped = b.escaped
      BY <3>d
    <3>z. /\ y.args \in Seq(Seq(Unit)) /\ y.args # <<>> /\ y.args[Len(y.args)] # <<>>
          /\ \A k \in 1..Len(y.args) : IsFlag(y.args[k]) =>
               \/ b.fresh /\ k = Len(y.args) /\ c \in {"flag", "flag_"} /\ ~(Len(y.args[k]) > 1)
               \/ /\ k \in 1..Len(b.args) /\ IsFlag(b.args[k])
                  /\ ~b.fresh /\ k = Len(b.args) => k = Len(y.args) /\ (Len(b.args[k]) > 1 \/ c = "=")
      BY <3>2, <1>t, AddsWhat DEF InStep
    <3>3. Found(x) \/ Sees(x, y)
      BY <2>2, <2>4, <3>z DEF Sees
    <3>4. InStep(x, y)
      BY <2>2, <3>2, <3>z, <1>4, <1>t DEF InStep
    <3>5. y \in NodeState
      BY <3>d, <3>2, <3>z, <1>b DEF NodeState
    <3> QED
      BY <2>2, <3>3, <3>4, <3>5 DEF Pair, x, y
  <2> QED
    BY <1>4, <2>3, <2>4
<1>5. CASE ~a.escaped /\ ~(a.quoted /\ c = "backslash") /\ c # "quote" /\ ~(~a.quoted /\ c \in {"space", "tab"})
  <2>1. x = [a EXCEPT !.token = Append(@, c), !.started = TRUE]
    BY <1>5 DEF Scan
  <2>2. a.escaped = FALSE /\ b.escaped = FALSE
    BY <1>5, <1>b
  <2>3. x = [a EXCEPT !.token = Append(@, c), !.started = TRUE, !.escaped = FALSE]
    BY <2>1, <2>2, <1>t DEF ScanState
  <2>4. y = [b EXCEPT !.args = Adds(b, c), !.fresh = FALSE]
    BY <1>5, <1>b DEF NodeScan
  <2>5. y = [b EXCEPT !.args = Adds(b, c), !.fresh = FALSE, !.escaped = FALSE]
    BY <2>4, <2>2, <1>t DEF NodeState
  <2> HIDE DEF x, y
  <2>6. Pair(x, y)
    BY <2>3, <2>5, BothAdd
  <2> QED
    BY <2>6 DEF x, y
<1> QED
  BY <1>1, <1>2, <1>3, <1>4, <1>5

LEMMA ScanRuns ==
  ASSUME NEW value, Len(value) \in Nat
  PROVE  Scanned(value) = [i \in 0..Len(value) |-> IF i = 0 THEN ScanStart ELSE Scan(Scanned(value)[i - 1], value[i])]
<1> DEFINE Runs(n, h) == h = [i \in 0..n |-> IF i = 0 THEN ScanStart ELSE Scan(h[i - 1], value[i])]
           Bad == {n \in Nat : ~\E h : Runs(n, h)}
<1>1. Bad = {}
  <2> SUFFICES ASSUME Bad # {} PROVE FALSE
    OBVIOUS
  <2>1. PICK n \in Bad : \A k \in Bad : ~(k < n)
    BY LeastOf
  <2>2. CASE n = 0
    <3>1. Runs(0, [i \in 0..0 |-> ScanStart])
      BY SMT
    <3> QED
      BY <3>1, <2>1, <2>2
  <2>3. CASE n # 0
    <3>1. n - 1 \in Nat /\ ~(n - 1 \in Bad)
      BY <2>1, <2>3
    <3>2. PICK h : Runs(n - 1, h)
      BY <3>1
    <3> DEFINE g == [i \in 0..n |-> IF i = n THEN Scan(h[n - 1], value[n]) ELSE h[i]]
    <3>3. \A i \in 0..(n - 1) : g[i] = h[i]
      BY <2>1
    <3>4. \A i \in 0..n : g[i] = IF i = 0 THEN ScanStart ELSE Scan(g[i - 1], value[i])
      <4> TAKE i \in 0..n
      <4>1. CASE i = n
        BY <4>1, <3>3, <2>3, <2>1
      <4>2. CASE i # n
        BY <4>2, <3>2, <3>3, <2>1
      <4> QED
        BY <4>1, <4>2
    <3>5. Runs(n, g)
      BY <3>4
    <3> QED
      BY <3>5, <2>1
  <2> QED
    BY <2>2, <2>3
<1>2. PICK h : Runs(Len(value), h)
  BY <1>1
<1> QED
  BY <1>2 DEF Scanned

LEMMA NodeRunsOn ==
  ASSUME NEW value, Len(value) \in Nat
  PROVE  NodeReads(value) = [i \in 0..Len(value) |-> IF i = 0 THEN NodeBegins ELSE NodeScan(NodeReads(value)[i - 1], value[i])]
<1> DEFINE Runs(n, h) == h = [i \in 0..n |-> IF i = 0 THEN NodeBegins ELSE NodeScan(h[i - 1], value[i])]
           Bad == {n \in Nat : ~\E h : Runs(n, h)}
<1>1. Bad = {}
  <2> SUFFICES ASSUME Bad # {} PROVE FALSE
    OBVIOUS
  <2>1. PICK n \in Bad : \A k \in Bad : ~(k < n)
    BY LeastOf
  <2>2. CASE n = 0
    <3>1. Runs(0, [i \in 0..0 |-> NodeBegins])
      BY SMT
    <3> QED
      BY <3>1, <2>1, <2>2
  <2>3. CASE n # 0
    <3>1. n - 1 \in Nat /\ ~(n - 1 \in Bad)
      BY <2>1, <2>3
    <3>2. PICK h : Runs(n - 1, h)
      BY <3>1
    <3> DEFINE g == [i \in 0..n |-> IF i = n THEN NodeScan(h[n - 1], value[n]) ELSE h[i]]
    <3>3. \A i \in 0..(n - 1) : g[i] = h[i]
      BY <2>1
    <3>4. \A i \in 0..n : g[i] = IF i = 0 THEN NodeBegins ELSE NodeScan(g[i - 1], value[i])
      <4> TAKE i \in 0..n
      <4>1. CASE i = n
        BY <4>1, <3>3, <2>3, <2>1
      <4>2. CASE i # n
        BY <4>2, <3>2, <3>3, <2>1
      <4> QED
        BY <4>1, <4>2
    <3>5. Runs(n, g)
      BY <3>4
    <3> QED
      BY <3>5, <2>1
  <2> QED
    BY <2>2, <2>3
<1>2. PICK h : Runs(Len(value), h)
  BY <1>1
<1> QED
  BY <1>2 DEF NodeReads


LEMMA ScansPair ==
  ASSUME NEW value \in Seq(Unit)
  PROVE  Pair(Scanned(value)[Len(value)], NodeReads(value)[Len(value)])
<1> DEFINE A == Scanned(value)
           B == NodeReads(value)
           Bad == {n \in 0..Len(value) : ~Pair(A[n], B[n])}
<1>1. Len(value) \in Nat
  BY LenProperties
<1>2. /\ A = [i \in 0..Len(value) |-> IF i = 0 THEN ScanStart ELSE Scan(A[i - 1], value[i])]
      /\ B = [i \in 0..Len(value) |-> IF i = 0 THEN NodeBegins ELSE NodeScan(B[i - 1], value[i])]
  BY <1>1, ScanRuns, NodeRunsOn
<1> HIDE DEF A, B
<1>3. Bad = {}
  <2> SUFFICES ASSUME Bad # {} PROVE FALSE
    OBVIOUS
  <2>1. PICK n \in Bad : \A k \in Bad : ~(k < n)
    <3>1. Bad \in SUBSET Nat
      BY <1>1
    <3> HIDE DEF Bad
    <3> QED
      BY <3>1, LeastOf
  <2>2. n \in 0..Len(value) /\ ~Pair(A[n], B[n])
    BY <2>1
  <2>3. CASE n = 0
    <3>1. A[0] = ScanStart /\ B[0] = NodeBegins
      BY <1>1, <1>2
    <3>2. Pair(ScanStart, NodeBegins)
      BY EmptySeq DEF Pair, ScanState, NodeState, ScanStart, NodeBegins, InStep, Sees
    <3> QED
      BY <2>2, <2>3, <3>1, <3>2
  <2>4. CASE n # 0
    <3>1. n - 1 \in 0..Len(value) /\ n - 1 < n /\ n \in 1..Len(value)
      BY <1>1, <2>2, <2>4
    <3>2. Pair(A[n - 1], B[n - 1])
      BY <2>1, <3>1
    <3>3. A[n] = Scan(A[n - 1], value[n]) /\ B[n] = NodeScan(B[n - 1], value[n])
      BY <1>1, <1>2, <2>2, <2>4
    <3>4. value[n] \in Unit
      BY <3>1, ElementOfSeq
    <3> QED
      BY <2>2, <3>2, <3>3, <3>4, StepPair
  <2> QED
    BY <2>3, <2>4
<1>4. Len(value) \in 0..Len(value)
  BY <1>1
<1> QED
  BY <1>3, <1>4 DEF A, B

(* The entry reads NODE_OPTIONS as Node does or more finely: where it finds no flag, no
   argument of Node's is one ("it can refuse more, never less", cli.ts:76-80). *)
THEOREM NoFlagIsMissed ==
  ASSUME NEW value \in Seq(Unit), \A t \in Range(NodeOptionsTokens(value)) : ~IsFlag(t)
  PROVE  \A a \in NodeArgs(value) : ~IsFlag(a)
<1> DEFINE end == Scanned(value)[Len(value)]
           node == NodeReads(value)[Len(value)]
<1>1. Pair(end, node)
  BY ScansPair
<1>2. \A t \in Range(IF end.started THEN Append(end.tokens, end.token) ELSE end.tokens) : ~IsFlag(t)
  BY DEF NodeOptionsTokens
<1>3. NodeArgs(value) = Range(node.args)
  BY DEF NodeArgs, NodeRuns
<1> HIDE DEF end, node
<1>t. end.tokens \in Seq(Seq(Unit)) /\ end.token \in Seq(Unit) /\ node.args \in Seq(Seq(Unit))
  BY <1>1 DEF Pair, ScanState, NodeState
<1> DEFINE W == Seq(Unit)
           s == end.tokens
<1>w. s \in Seq(W) /\ end.token \in W
  BY <1>t
<1>l. Len(s) \in Nat /\ DOMAIN s = 1..Len(s)
  BY <1>w, LenProperties
<1> HIDE DEF W
<1>4. /\ Append(s, end.token) \in Seq(W) /\ Len(Append(s, end.token)) = Len(s) + 1
      /\ Append(s, end.token)[Len(s) + 1] = end.token
      /\ \A k \in 1..Len(s) : Append(s, end.token)[k] = s[k]
  BY <1>w, Appended
<1>5. DOMAIN Append(s, end.token) = 1..(Len(s) + 1)
  BY <1>4, LenProperties
<1>6. ~Found(end)
  BY <1>2, <1>l, <1>4, <1>5 DEF Found, Range
<1>7. end.started => ~IsFlag(end.token)
  <2>1. Len(s) + 1 \in 1..(Len(s) + 1)
    BY <1>l
  <2> QED
    BY <1>2, <1>4, <1>5, <2>1 DEF Range
<1>8. \A k \in 1..Len(node.args) : ~IsFlag(node.args[k])
  BY <1>1, <1>6, <1>7 DEF Pair, Sees
<1>9. DOMAIN node.args = 1..Len(node.args)
  BY <1>t, LenProperties
<1> QED
  BY <1>3, <1>8, <1>9 DEF Range

-----------------------------------------------------------------------------
(* The walk of a schema, which is told of each object by the one that holds it. *)

ToldBy(f, I, Base, Keep, up) == f = [i \in I |-> i \in Base \/ (i \in Keep /\ f[up[i]])]
Ups(s) == [i \in DOMAIN s |-> s[i].up]

(* A fact told of each object by the one that holds it is well defined. *)
LEMMA Descends ==
  ASSUME NEW N \in Nat, NEW Base, NEW Keep, NEW up, \A i \in 1..N : i \in Base \/ i \notin Keep \/ up[i] \in 1..(i - 1)
  PROVE  \E f : ToldBy(f, 1..N, Base, Keep, up)
<1> DEFINE Down(n, f) == f = [i \in 1..n |-> i \in Base \/ (i \in Keep /\ f[up[i]])]
           Bad == {n \in 0..N : ~\E f : Down(n, f)}
<1>1. Bad = {}
  <2> SUFFICES ASSUME Bad # {} PROVE FALSE
    OBVIOUS
  <2>1. PICK n \in Bad : \A k \in Bad : ~(k < n)
    <3>1. Bad \in SUBSET Nat
      OBVIOUS
    <3> HIDE DEF Bad
    <3> QED
      BY <3>1, LeastOf
  <2>2. CASE n = 0
    <3>1. 1..0 = {}
      OBVIOUS
    <3>2. Down(0, [i \in {} |-> TRUE])
      BY <3>1
    <3> QED
      BY <3>2, <2>1, <2>2
  <2>3. CASE n # 0
    <3>1. n - 1 \in 0..N /\ n - 1 < n /\ n \in 1..N
      BY <2>1, <2>3
    <3>2. PICK h : Down(n - 1, h)
      BY <2>1, <3>1
    <3> DEFINE g == [i \in 1..n |-> IF i = n THEN n \in Base \/ (n \in Keep /\ h[up[n]]) ELSE h[i]]
    <3>3. \A i \in 1..(n - 1) : g[i] = h[i]
      BY <3>1
    <3>4. \A i \in 1..n : g[i] = (i \in Base \/ (i \in Keep /\ g[up[i]]))
      <4> SUFFICES ASSUME NEW i \in 1..n PROVE g[i] = (i \in Base \/ (i \in Keep /\ g[up[i]]))
        OBVIOUS
      <4>0. i \in Base \/ i \notin Keep \/ g[up[i]] = h[up[i]]
        <5>1. i \in Base \/ i \notin Keep \/ up[i] \in 1..(n - 1)
          BY <3>1
        <5> QED
          BY <5>1, <3>3
      <4>1. CASE i = n
        <5>1. g[i] = (i \in Base \/ (i \in Keep /\ h[up[i]]))
          BY <4>1
        <5> HIDE DEF g
        <5> QED
          BY <4>0, <5>1
      <4>2. CASE i # n
        <5>1. i \in 1..(n - 1)
          BY <4>2, <3>1
        <5>2. h[i] = (i \in Base \/ (i \in Keep /\ h[up[i]]))
          BY <3>2, <5>1
        <5>3. g[i] = h[i]
          BY <3>3, <5>1
        <5> HIDE DEF g
        <5> QED
          BY <4>0, <5>2, <5>3
      <4> QED
        BY <4>1, <4>2
    <3>5. g = [i \in 1..n |-> g[i]]
      OBVIOUS
    <3> HIDE DEF g
    <3>6. Down(n, g)
      BY <3>4, <3>5
    <3> QED
      BY <3>6, <2>1
  <2> QED
    BY <2>2, <2>3
<1>2. N \in 0..N
  OBVIOUS
<1> QED
  BY <1>1, <1>2 DEF ToldBy

LEMMA ObjectsAre ==
  ASSUME NEW s \in InputSchema
  PROVE  /\ Len(s) \in Nat /\ DOMAIN s = 1..Len(s) /\ 1 \in 1..Len(s)
         /\ \A i \in 1..Len(s) : i = 1 \/ s[i].up \in 1..(i - 1)
<1>1. s \in Seq(SchemaObject) /\ s # <<>> /\ \A i \in 2..Len(s) : s[i].up \in 1..(i - 1)
  BY DEF InputSchema
<1> HIDE DEF SchemaObject
<1>2. Len(s) \in Nat /\ DOMAIN s = 1..Len(s)
  BY <1>1, LenProperties
<1>3. Len(s) \in Nat \ {0}
  BY <1>1, EmptySeq
<1> QED
  BY <1>1, <1>2, <1>3

LEMMA ToldDown ==
  ASSUME NEW s \in InputSchema, NEW Base, NEW Keep, 1 \in Base \/ 1 \notin Keep
  PROVE  \E f : ToldBy(f, DOMAIN s, Base, Keep, Ups(s))
<1> DEFINE up == Ups(s)
           N == Len(s)
<1>1. N \in Nat /\ DOMAIN s = 1..N /\ \A i \in 1..N : i \in Base \/ i \notin Keep \/ up[i] \in 1..(i - 1)
  BY ObjectsAre DEF Ups
<1> HIDE DEF up, N
<1>2. PICK f : ToldBy(f, 1..N, Base, Keep, up)
  BY <1>1, Descends
<1> QED
  BY <1>1, <1>2 DEF up

LEMMA WalkedIs ==
  ASSUME NEW s \in InputSchema
  PROVE  \E w : /\ w = [i \in DOMAIN s |-> i = 1 \/ (s[i].by # "data" /\ w[s[i].up])]
                /\ Walked(s) = {i \in DOMAIN s : w[i]}
<1> DEFINE w == CHOOSE w : w = [i \in DOMAIN s |-> i = 1 \/ (s[i].by # "data" /\ w[s[i].up])]
           Base == {1}
           Keep == {i \in DOMAIN s : s[i].by # "data"}
<1>1. \E f : f = [i \in DOMAIN s |-> i = 1 \/ (s[i].by # "data" /\ f[s[i].up])]
  <2>1. 1 \in Base \/ 1 \notin Keep
    OBVIOUS
  <2> HIDE DEF Base, Keep
  <2>2. PICK f : ToldBy(f, DOMAIN s, Base, Keep, Ups(s))
    BY <2>1, ToldDown
  <2>3. f = [i \in DOMAIN s |-> i = 1 \/ (s[i].by # "data" /\ f[s[i].up])]
    BY <2>2 DEF Base, Keep, ToldBy, Ups
  <2> QED
    BY <2>3
<1>2. w = [i \in DOMAIN s |-> i = 1 \/ (s[i].by # "data" /\ w[s[i].up])]
  BY <1>1
<1>3. Walked(s) = {i \in DOMAIN s : w[i]}
  BY DEF Walked
<1> HIDE DEF w
<1> QED
  BY <1>2, <1>3

LEMMA StaticIs ==
  ASSUME NEW s \in InputSchema
  PROVE  \E w : /\ w = [i \in DOMAIN s |-> i = 1 \/ (s[i].by = "properties" /\ w[s[i].up])]
                /\ Static(s) = {i \in DOMAIN s : w[i]}
<1> DEFINE w == CHOOSE w : w = [i \in DOMAIN s |-> i = 1 \/ (s[i].by = "properties" /\ w[s[i].up])]
           Base == {1}
           Keep == {i \in DOMAIN s : s[i].by = "properties"}
<1>1. \E f : f = [i \in DOMAIN s |-> i = 1 \/ (s[i].by = "properties" /\ f[s[i].up])]
  <2>1. 1 \in Base \/ 1 \notin Keep
    OBVIOUS
  <2> HIDE DEF Base, Keep
  <2>2. PICK f : ToldBy(f, DOMAIN s, Base, Keep, Ups(s))
    BY <2>1, ToldDown
  <2>3. f = [i \in DOMAIN s |-> i = 1 \/ (s[i].by = "properties" /\ f[s[i].up])]
    BY <2>2 DEF Base, Keep, ToldBy, Ups
  <2> QED
    BY <2>3
<1>2. w = [i \in DOMAIN s |-> i = 1 \/ (s[i].by = "properties" /\ w[s[i].up])]
  BY <1>1
<1>3. Static(s) = {i \in DOMAIN s : w[i]}
  BY DEF Static
<1> HIDE DEF w
<1> QED
  BY <1>2, <1>3

LEMMA IsDataIs ==
  ASSUME NEW s \in InputSchema
  PROVE  \E w : /\ w = [i \in DOMAIN s |-> s[i].by = "data" \/ (i # 1 /\ w[s[i].up])]
                /\ \A j \in DOMAIN s : IsData(s, j) <=> w[j]
<1> DEFINE w == CHOOSE w : w = [i \in DOMAIN s |-> s[i].by = "data" \/ (i # 1 /\ w[s[i].up])]
           Base == {i \in DOMAIN s : s[i].by = "data"}
           Keep == {i \in DOMAIN s : i # 1}
<1>1. \E f : f = [i \in DOMAIN s |-> s[i].by = "data" \/ (i # 1 /\ f[s[i].up])]
  <2>1. 1 \in Base \/ 1 \notin Keep
    OBVIOUS
  <2> HIDE DEF Base, Keep
  <2>2. PICK f : ToldBy(f, DOMAIN s, Base, Keep, Ups(s))
    BY <2>1, ToldDown
  <2>3. f = [i \in DOMAIN s |-> s[i].by = "data" \/ (i # 1 /\ f[s[i].up])]
    BY <2>2 DEF Base, Keep, ToldBy, Ups
  <2> QED
    BY <2>3
<1>2. w = [i \in DOMAIN s |-> s[i].by = "data" \/ (i # 1 /\ w[s[i].up])]
  BY <1>1
<1>3. \A j \in DOMAIN s : IsData(s, j) <=> w[j]
  BY DEF IsData
<1> HIDE DEF w
<1> QED
  BY <1>2, <1>3


(* What the walk does not visit is data. *)
LEMMA UnwalkedIsData ==
  ASSUME NEW s \in InputSchema, NEW j \in DOMAIN s \ Walked(s)
  PROVE  IsData(s, j)
<1>1. PICK w : /\ w = [i \in DOMAIN s |-> i = 1 \/ (s[i].by # "data" /\ w[s[i].up])]
               /\ Walked(s) = {i \in DOMAIN s : w[i]}
  BY WalkedIs
<1>2. PICK d : /\ d = [i \in DOMAIN s |-> s[i].by = "data" \/ (i # 1 /\ d[s[i].up])]
               /\ \A i \in DOMAIN s : IsData(s, i) <=> d[i]
  BY IsDataIs
<1> DEFINE Bad == {i \in DOMAIN s : ~w[i] /\ ~d[i]}
<1>3. Bad = {}
  <2> SUFFICES ASSUME Bad # {} PROVE FALSE
    OBVIOUS
  <2>1. PICK n \in Bad : \A k \in Bad : ~(k < n)
    <3>1. Bad \in SUBSET Nat
      BY ObjectsAre
    <3> HIDE DEF Bad
    <3> QED
      BY <3>1, LeastOf
  <2>2. n # 1 /\ s[n].by # "data" /\ ~w[s[n].up] /\ ~d[s[n].up]
    BY <2>1, <1>1, <1>2
  <2>3. s[n].up \in DOMAIN s /\ s[n].up < n
    BY <2>1, <2>2, ObjectsAre
  <2> QED
    BY <2>1, <2>2, <2>3
<1> QED
  BY <1>1, <1>2, <1>3

-----------------------------------------------------------------------------
(* The ladder that asks for the cage: which tools may be served with which of
   their controls, the cage being one (capability/ladder.ts). *)

(* A requirement is unmet when none of its controls is present, a prohibition
   when its control is carried: the rules left over, by tag (ladder.ts:150-159). *)
LEMMA UnmetRules ==
  ASSUME NEW t, NEW b
  PROVE  /\ Unmet(t, b) \subseteq {"CAP-7", "CAP-5", "CAP-2", "CAP-3", "CAP-6", "N7"}
         /\ "CAP-7" \in Unmet(t, b) <=> t.elevated /\ b # "configured"
         /\ "CAP-5" \in Unmet(t, b) <=> t.cls = "owned_state" /\ t.basis \in BasisProblem
         /\ "CAP-2" \in Unmet(t, b) <=>
              /\ t.untrusted /\ t.cls = "state_change"
              /\ t.domain \in {"null", "empty"} /\ ~(t.elevated /\ b = "configured")
         /\ "CAP-3" \in Unmet(t, b) <=>
              t.untrusted /\ t.cls = "arbitrary_exec" /\ ~(t.elevated /\ b = "configured")
         /\ "CAP-6" \in Unmet(t, b) <=> t.cls # "owned_state" /\ t.basis # "none"
         /\ "N7" \in Unmet(t, b) <=> t.cls = "arbitrary_exec" /\ t.domain # "null"
<1>1. /\ Present("backend", t, b) <=> b = "configured"
      /\ Present("basis", t, b) <=> t.basis \notin BasisProblem
      /\ Present("approval", t, b) <=> t.elevated /\ b = "configured"
      /\ Present("containment", t, b) <=> t.domain \notin {"null", "empty"}
  BY DEF Present
<1>2. /\ AnyOf("CAP-7") = {"backend"} /\ AnyOf("CAP-5") = {"basis"}
      /\ AnyOf("CAP-2") = {"containment", "approval"} /\ AnyOf("CAP-3") = {"approval"}
  BY DEF AnyOf
<1>3. \A r : r \in Unmet(t, b) <=>
        \/ r \in Requires(t) /\ \A c \in AnyOf(r) : ~Present(c, t, b)
        \/ r \in Carried(t)
  BY DEF Unmet
<1>4. /\ "CAP-7" \in Requires(t) <=> t.elevated
      /\ "CAP-5" \in Requires(t) <=> t.cls = "owned_state"
      /\ "CAP-2" \in Requires(t) <=> t.untrusted /\ t.cls = "state_change"
      /\ "CAP-3" \in Requires(t) <=> t.untrusted /\ t.cls = "arbitrary_exec"
      /\ Requires(t) \subseteq {"CAP-7", "CAP-5", "CAP-2", "CAP-3"}
  BY DEF Requires
<1>5. /\ "CAP-6" \in Carried(t) <=> t.cls # "owned_state" /\ t.basis # "none"
      /\ "N7" \in Carried(t) <=> t.cls = "arbitrary_exec" /\ t.domain # "null"
      /\ Carried(t) \subseteq {"CAP-6", "N7"}
  BY DEF Carried
<1>6. Unmet(t, b) \subseteq {"CAP-7", "CAP-5", "CAP-2", "CAP-3", "CAP-6", "N7"}
  BY <1>3, <1>4, <1>5
<1>7. "CAP-7" \in Unmet(t, b) <=> t.elevated /\ b # "configured"
  BY <1>1, <1>2, <1>3, <1>4, <1>5
<1>8. "CAP-5" \in Unmet(t, b) <=> t.cls = "owned_state" /\ t.basis \in BasisProblem
  BY <1>1, <1>2, <1>3, <1>4, <1>5
<1>9. "CAP-2" \in Unmet(t, b) <=>
        /\ t.untrusted /\ t.cls = "state_change"
        /\ t.domain \in {"null", "empty"} /\ ~(t.elevated /\ b = "configured")
  BY <1>1, <1>2, <1>3, <1>4, <1>5
<1>10. "CAP-3" \in Unmet(t, b) <=>
         t.untrusted /\ t.cls = "arbitrary_exec" /\ ~(t.elevated /\ b = "configured")
  BY <1>1, <1>2, <1>3, <1>4, <1>5
<1>11. /\ "CAP-6" \in Unmet(t, b) <=> t.cls # "owned_state" /\ t.basis # "none"
       /\ "N7" \in Unmet(t, b) <=> t.cls = "arbitrary_exec" /\ t.domain # "null"
  BY <1>3, <1>4, <1>5
<1> QED BY <1>6, <1>7, <1>8, <1>9, <1>10, <1>11

(* No tag is served without the controls its rung asks for, none is refused that
   has them, and only a human decides what discharges the Rule of Two
   (capability/RULES.md; approval/RULES.md APR-6). *)
THEOREM LadderIsTheStandard == ObligationIsTheStandard
<1> SUFFICES ASSUME NEW t \in Tag
    PROVE /\ \A b \in Backend : Unmet(t, b) = {} <=> MayServe(t, b)
          /\ HumanOnly(t) <=> (t.untrusted /\ (\/ t.cls = "arbitrary_exec"
                                               \/ t.cls = "state_change" /\ t.domain \in {"null", "empty"}))
  BY DEF ObligationIsTheStandard
<1>1. /\ t.cls \in Class /\ t.basis \in Basis /\ t.domain \in DomainForm
      /\ t.untrusted \in BOOLEAN /\ t.elevated \in BOOLEAN
  BY DEF Tag
<1>2. ASSUME NEW b \in Backend PROVE Unmet(t, b) = {} <=> MayServe(t, b)
  <2>1. Unmet(t, b) = {} <=>
          /\ ~(t.elevated /\ b # "configured")
          /\ ~(t.cls = "owned_state" /\ t.basis \in BasisProblem)
          /\ ~(t.untrusted /\ t.cls = "state_change"
                /\ t.domain \in {"null", "empty"} /\ ~(t.elevated /\ b = "configured"))
          /\ ~(t.untrusted /\ t.cls = "arbitrary_exec" /\ ~(t.elevated /\ b = "configured"))
          /\ ~(t.cls # "owned_state" /\ t.basis # "none")
          /\ ~(t.cls = "arbitrary_exec" /\ t.domain # "null")
    BY UnmetRules
  <2> QED BY <2>1, <1>1 DEF MayServe, Class, Basis, BasisProblem, DomainForm, Backend
<1>3. HumanOnly(t) <=> "CAP-2" \in Unmet(t, "none") \/ "CAP-3" \in Unmet(t, "none")
  BY DEF HumanOnly
<1>4. /\ "CAP-2" \in Unmet(t, "none") <=>
           t.untrusted /\ t.cls = "state_change" /\ t.domain \in {"null", "empty"}
      /\ "CAP-3" \in Unmet(t, "none") <=> t.untrusted /\ t.cls = "arbitrary_exec"
  BY UnmetRules
<1> QED BY <1>2, <1>3, <1>4, <1>1

-----------------------------------------------------------------------------
(* The stages a start has left behind.                                      *)

PastListen == {"approvals", "serving", "closing", "closed"}
PastVerifier == PastListen \cup {"listen"}
PastRows == PastVerifier \cup {"verifier"}
PastConfigure == PastRows \cup {"rows"}
PastAssemble == PastConfigure \cup {"configure"}
PastImport == PastAssemble \cup {"assemble"}
PastParse == PastImport \cup {"import"}
PastOpen == PastParse \cup {"parse"}
PastRead == PastOpen \cup {"open"}
PastCapture == PastRead \cup {"read"}
Stage == PastCapture \cup {"capture", "refused", "crashed"}

NodeTypes ==
  /\ stage \in Stage
  /\ store \in Resource /\ pool \in Resource /\ approvals \in Resource
  /\ server \in Resource \cup {"bound"}
  /\ calls \in [Call -> {"idle", "running", "answered", "cut"}]
  /\ places = [main |-> places.main, approval |-> places.approval]

(* What is open at each stage. *)
StoreInv ==
  /\ stage \in {"capture", "read", "open"} => store = "none"
  /\ stage \in PastOpen \ {"closed"} => store = (IF settings.stored THEN "open" ELSE "none")
  /\ stage \in {"closed", "refused", "crashed"} => store # "open"

PoolInv ==
  /\ stage \in Stage \ (PastAssemble \cup {"refused", "crashed"}) => pool = "none"
  /\ stage \in PastAssemble \ {"closing", "closed"} => pool = "open"
  /\ stage = "refused" /\ pool = "open" => settings.stored /\ (refused # {} \/ AudienceDiffers)

ServerInv ==
  /\ stage \in Stage \ (PastListen \cup {"refused", "crashed"}) => server = "none"
  /\ stage = "approvals" => server = "bound" /\ settings.backend = "configured"
  /\ stage = "serving" => server = "open"
  /\ stage = "closing" => server \in {"open", "closed"} /\ (pool = "closed" => server = "closed")
  /\ stage \in {"closed", "refused", "crashed"} => server \in {"none", "closed"}

ApprovalsInv ==
  /\ stage \notin {"serving", "closing", "closed"} => approvals = "none"
  /\ stage = "serving" => approvals # "closed" /\ (settings.backend = "configured" => approvals = "open")
  /\ stage = "closing" /\ server = "open" => approvals # "none"

RowsInv ==
  /\ stage \in PastParse => "manifest-loaded" \in rows
  /\ \A c \in Call :
       /\ calls[c] # "idle" => stage \in {"serving", "closing", "closed", "crashed"}
       /\ calls[c] = "answered" /\ c \notin rows => stage \in {"closing", "closed"} /\ approvals # "none"
       /\ stage = "crashed" => calls[c] = "cut"

HoldsInv == NodeTypes /\ StoreInv /\ PoolInv /\ ServerInv /\ ApprovalsInv /\ RowsInv

-----------------------------------------------------------------------------
LEMMA InitHolds == NodeInit => HoldsInv
  BY DEF NodeInit, HoldsInv, NodeTypes, StoreInv, PoolInv, ServerInv, ApprovalsInv, RowsInv, Stage, Resource,
     PastCapture, PastRead, PastOpen, PastParse, PastImport, PastAssemble, PastConfigure, PastRows, PastVerifier,
     PastListen

LEMMA StepHolds == HoldsInv /\ [NodeNext]_vars => HoldsInv'
<1> SUFFICES ASSUME HoldsInv, [NodeNext]_vars PROVE HoldsInv'
  OBVIOUS
<1> USE DEF HoldsInv, NodeTypes, StoreInv, PoolInv, ServerInv, ApprovalsInv, RowsInv, Stage, Resource,
     PastCapture, PastRead, PastOpen, PastParse, PastImport, PastAssemble, PastConfigure, PastRows, PastVerifier,
     PastListen, Shut, RowMayFail, Refuse, inputs, registry, held, AudienceDiffers, Config
<1>1. CASE Capture
  BY <1>1 DEF Capture
<1>2. CASE ReadManifest
  BY <1>2 DEF ReadManifest
<1>3. CASE OpenStore
  BY <1>3 DEF OpenStore
<1>4. CASE ParseManifest
  BY <1>4 DEF ParseManifest
<1>5. CASE ImportEdition
  BY <1>5 DEF ImportEdition
<1>6. CASE Assemble
  BY <1>6 DEF Assemble, Registers
<1>7. CASE Configure
  BY <1>7 DEF Configure
<1>8. CASE RefusalRows
  BY <1>8 DEF RefusalRows
<1>9. CASE CheckVerifier
  BY <1>9 DEF CheckVerifier
<1>10. CASE Listen
  BY <1>10 DEF Listen
<1>11. CASE StartApprovals
  BY <1>11 DEF StartApprovals
<1>12. CASE CrashBeforeHold
  BY <1>12 DEF CrashBeforeHold
<1>13. ASSUME NEW c \in Call, Begin(c) PROVE HoldsInv'
  BY <1>13 DEF Begin
<1>14. ASSUME NEW c \in Call, Finish(c) PROVE HoldsInv'
  BY <1>14 DEF Finish
<1>15. ASSUME NEW c \in Call, FinishUnrecorded(c) PROVE HoldsInv'
  BY <1>15 DEF FinishUnrecorded
<1>16. CASE Stop
  BY <1>16 DEF Stop
<1>17. CASE CloseApprovals
  BY <1>17 DEF CloseApprovals
<1>18. CASE CloseServer
  BY <1>18 DEF CloseServer
<1>19. CASE ClosePool
  BY <1>19 DEF ClosePool
<1>20. CASE CloseStore
  BY <1>20 DEF CloseStore
<1>21. CASE UNCHANGED vars
  BY <1>21 DEF vars
<1> QED
  BY <1>1, <1>2, <1>3, <1>4, <1>5, <1>6, <1>7, <1>8, <1>9, <1>10, <1>11, <1>12, <1>13, <1>14, <1>15, <1>16, <1>17,
     <1>18, <1>19, <1>20, <1>21 DEF NodeNext, StartStep, CloseStep

LEMMA HoldsAlways == NodeSpec => []HoldsInv
  BY InitHolds, StepHolds, PTL DEF NodeSpec

(* A start that fails leaves nothing open, but the pool where a row could not be
   written (server.ts:295-317). *)
THEOREM NothingIsLeft == NodeSpec => []FailedStartLeavesNothing
<1>1. HoldsInv => FailedStartLeavesNothing
  BY DEF HoldsInv, StoreInv, PoolInv, ServerInv, ApprovalsInv, FailedStartLeavesNothing
<1> QED
  BY <1>1, HoldsAlways, PTL

(* The store outlives the endpoint, and a call is answered without its row only by a
   node that is closing behind its approval listener (start.ts:263-276). *)
THEOREM RowsOutlive == NodeSpec => []RowsOutliveTheEndpoint
<1>1. HoldsInv => RowsOutliveTheEndpoint
  BY DEF HoldsInv, NodeTypes, Stage, PastCapture, PastRead, PastOpen, PastParse, PastImport, PastAssemble, PastConfigure,
     PastRows, PastVerifier, PastListen, StoreInv, ServerInv, RowsInv, RowsOutliveTheEndpoint
<1> QED
  BY <1>1, HoldsAlways, PTL

-----------------------------------------------------------------------------
(* What each stage has settled.                                             *)

SettingsInv ==
  /\ operator \in Env
  /\ stage = "capture" => env = operator
  /\ stage \in PastCapture \cup {"crashed"} => Captures(operator) /\ settings = Captured(operator)

FilesInv ==
  /\ stage \in PastRead => gate = Disk[settings.manifest]
  /\ stage \in PastOpen => StoreOpens
  /\ stage \in PastParse => Parses(gate)

Registered ==
  /\ \A o \in Admitted(gate, defs) : Builds(o, settings)
  /\ tools = {ToolOf(o) : o \in Admitted(gate, defs)}
  /\ refused = Refused(gate, defs)

Reasons == {r.reason : r \in refused}

EditionInv ==
  /\ stage \in PastImport => edition \in Editions
  /\ stage \in PastAssemble => Registered
  /\ stage \in PastConfigure => Configures
  /\ stage \in PastRows => (settings.strict => refused = {}) /\ Reasons \subseteq rows

PlacesInv ==
  /\ stage \in PastListen => places.main.address \in Binds(Config.host)
  /\ approvals = "open" =>
       /\ ~Same(places.approval, places.main)
       /\ places.approval.port = places.main.port => FALSE \in HostsOverlap(places.approval.address, Config.host)
  /\ approvals # "none" => settings.backend = "configured"

ServesInv == HoldsInv /\ SettingsInv /\ FilesInv /\ EditionInv /\ PlacesInv

LEMMA InitServes == NodeInit => ServesInv
<1>1. NodeInit => SettingsInv /\ FilesInv /\ EditionInv /\ PlacesInv
  BY DEF NodeInit, SettingsInv, FilesInv, EditionInv, PlacesInv,
     PastCapture, PastRead, PastOpen, PastParse, PastImport, PastAssemble, PastConfigure, PastRows, PastVerifier,
     PastListen
<1> QED
  BY <1>1, InitHolds DEF ServesInv

LEMMA MainSet ==
  ASSUME NEW p, p = [main |-> p.main, approval |-> p.approval], NEW x
  PROVE  [p EXCEPT !.main = x].main = x
  OBVIOUS

LEMMA ApprovalSet ==
  ASSUME NEW p, p = [main |-> p.main, approval |-> p.approval], NEW x
  PROVE  [p EXCEPT !.approval = x].main = p.main /\ [p EXCEPT !.approval = x].approval = x
  OBVIOUS

LEMMA StepServes == ServesInv /\ [NodeNext]_vars => ServesInv'
<1> SUFFICES ASSUME ServesInv, [NodeNext]_vars PROVE ServesInv'
  OBVIOUS
<1>0. HoldsInv'
  BY StepHolds DEF ServesInv
<1> USE DEF HoldsInv, NodeTypes, ApprovalsInv, Stage, Resource, PastCapture, PastRead, PastOpen, PastParse, PastImport,
      PastAssemble, PastConfigure, PastRows, PastVerifier, PastListen, RowMayFail, Refuse, inputs, registry, held
<1>s. SettingsInv'
  BY DEF ServesInv, SettingsInv, NodeNext, StartStep, CloseStep, vars, Capture, ReadManifest, OpenStore, ParseManifest,
     ImportEdition, Assemble, Registers, Configure, RefusalRows, CheckVerifier, Listen, StartApprovals, CrashBeforeHold,
     Begin, Finish, FinishUnrecorded, Stop, CloseApprovals, CloseServer, ClosePool, CloseStore
<1>f. FilesInv'
  BY DEF ServesInv, FilesInv, StoreOpens, NodeNext, StartStep, CloseStep, vars, Capture, ReadManifest, OpenStore, ParseManifest,
     ImportEdition, Assemble, Registers, Configure, RefusalRows, CheckVerifier, Listen, StartApprovals, CrashBeforeHold,
     Begin, Finish, FinishUnrecorded, Stop, CloseApprovals, CloseServer, ClosePool, CloseStore
<1>r. UNCHANGED <<gate, edition, settings, registry>> => (Registered' <=> Registered)
  BY DEF Registered, defs
<1>c. UNCHANGED <<edition, settings, registry>> => (Configures' <=> Configures)
  BY DEF Configures, Config
<1>n. UNCHANGED registry => Reasons' = Reasons
  BY DEF Reasons
<1>e. EditionInv'
  <2>1. CASE Capture
    BY <1>r, <1>c, <1>n, <2>1 DEF ServesInv, EditionInv, Capture
  <2>2. CASE ReadManifest
    BY <1>r, <1>c, <1>n, <2>2 DEF ServesInv, EditionInv, ReadManifest
  <2>3. CASE OpenStore
    BY <1>r, <1>c, <1>n, <2>3 DEF ServesInv, EditionInv, OpenStore
  <2>4. CASE ParseManifest
    BY <1>r, <1>c, <1>n, <2>4 DEF ServesInv, EditionInv, ParseManifest
  <2>5. CASE ImportEdition
    BY <1>r, <1>c, <1>n, <2>5 DEF ServesInv, EditionInv, ImportEdition
  <2>6. CASE Assemble
    <3>1. ASSUME Registers(settings) PROVE EditionInv'
      <4>1. Registered'
        BY <3>1 DEF Registers, Registered, defs
      <4>2. stage' = "configure" /\ UNCHANGED edition
        BY <3>1 DEF Registers
      <4>3. edition \in Editions
        BY <2>6 DEF ServesInv, EditionInv, Assemble
      <4> QED
        BY <4>1, <4>2, <4>3 DEF EditionInv
    <3>2. ASSUME stage' = "refused" PROVE EditionInv'
      BY <3>2 DEF EditionInv
    <3> QED
      BY <2>6, <3>1, <3>2 DEF Assemble
  <2>7. CASE Configure
    BY <1>r, <1>c, <1>n, <2>7 DEF ServesInv, EditionInv, Configure
  <2>8. CASE RefusalRows
    <3>1. ASSUME stage' = "refused" PROVE EditionInv'
      BY <3>1 DEF EditionInv
    <3>2. ASSUME stage' = "verifier", stage = "rows", settings.strict => refused = {}, rows' = rows \cup Reasons,
                 UNCHANGED <<inputs, registry>>
          PROVE  EditionInv'
      BY <1>r, <1>c, <1>n, <3>2 DEF ServesInv, EditionInv
    <3> QED
      BY <2>8, <3>1, <3>2 DEF RefusalRows, Reasons
  <2>9. CASE CheckVerifier
    BY <1>r, <1>c, <1>n, <2>9 DEF ServesInv, EditionInv, CheckVerifier
  <2>10. CASE Listen
    BY <1>r, <1>c, <1>n, <2>10 DEF ServesInv, EditionInv, Listen
  <2>11. CASE StartApprovals
    BY <1>r, <1>c, <1>n, <2>11 DEF ServesInv, EditionInv, StartApprovals
  <2>12. CASE CrashBeforeHold
    BY <1>r, <1>c, <1>n, <2>12 DEF ServesInv, EditionInv, CrashBeforeHold
  <2>13. ASSUME NEW c \in Call, Begin(c) PROVE EditionInv'
    BY <1>r, <1>c, <1>n, <2>13 DEF ServesInv, EditionInv, Begin
  <2>14. ASSUME NEW c \in Call, Finish(c) PROVE EditionInv'
    BY <1>r, <1>c, <1>n, <2>14 DEF ServesInv, EditionInv, Finish
  <2>15. ASSUME NEW c \in Call, FinishUnrecorded(c) PROVE EditionInv'
    BY <1>r, <1>c, <1>n, <2>15 DEF ServesInv, EditionInv, FinishUnrecorded
  <2>16. CASE Stop
    BY <1>r, <1>c, <1>n, <2>16 DEF ServesInv, EditionInv, Stop
  <2>17. CASE CloseApprovals
    BY <1>r, <1>c, <1>n, <2>17 DEF ServesInv, EditionInv, CloseApprovals
  <2>18. CASE CloseServer
    BY <1>r, <1>c, <1>n, <2>18 DEF ServesInv, EditionInv, CloseServer
  <2>19. CASE ClosePool
    BY <1>r, <1>c, <1>n, <2>19 DEF ServesInv, EditionInv, ClosePool
  <2>20. CASE CloseStore
    BY <1>r, <1>c, <1>n, <2>20 DEF ServesInv, EditionInv, CloseStore
  <2>21. CASE UNCHANGED vars
    BY <1>r, <1>c, <1>n, <2>21 DEF ServesInv, EditionInv, vars
  <2> QED
    BY <1>r, <1>c, <1>n, <2>1, <2>2, <2>3, <2>4, <2>5, <2>6, <2>7, <2>8, <2>9, <2>10, <2>11, <2>12, <2>13, <2>14, <2>15, <2>16, <2>17, <2>18, <2>19, <2>20, <2>21 DEF NodeNext, StartStep, CloseStep
<1>g. UNCHANGED inputs => Config' = Config
  BY DEF Config
<1>p. PlacesInv'
  <2>1. CASE Capture
    BY <2>1 DEF ServesInv, PlacesInv, Config, ServerInv, Capture
  <2>2. CASE ReadManifest
    BY <2>2 DEF ServesInv, PlacesInv, Config, ServerInv, ReadManifest
  <2>3. CASE OpenStore
    BY <2>3 DEF ServesInv, PlacesInv, Config, ServerInv, OpenStore
  <2>4. CASE ParseManifest
    BY <2>4 DEF ServesInv, PlacesInv, Config, ServerInv, ParseManifest
  <2>5. CASE ImportEdition
    BY <2>5 DEF ServesInv, PlacesInv, Config, ServerInv, ImportEdition
  <2>6. CASE Assemble
    BY <2>6 DEF ServesInv, PlacesInv, Config, ServerInv, Assemble, Registers
  <2>7. CASE Configure
    BY <2>7 DEF ServesInv, PlacesInv, Config, ServerInv, Configure
  <2>8. CASE RefusalRows
    BY <2>8 DEF ServesInv, PlacesInv, Config, ServerInv, RefusalRows
  <2>9. CASE CheckVerifier
    BY <1>g, <2>9 DEF ServesInv, PlacesInv, CheckVerifier
  <2>10. CASE Listen
    <3>1. ASSUME stage' = "refused", UNCHANGED approvals PROVE PlacesInv'
      BY <2>10, <3>1 DEF ServesInv, PlacesInv, Listen
    <3>2. ASSUME NEW a \in Binds(Config.host), NEW p, places' = [places EXCEPT !.main = [address |-> a, port |-> p]],
                 UNCHANGED <<inputs, approvals>>
          PROVE  PlacesInv'
      <4>1. places'.main = [address |-> a, port |-> p]
        BY <3>2, MainSet DEF ServesInv
      <4>2. approvals = "none" /\ stage = "listen"
        BY <2>10 DEF ServesInv, Listen
      <4> QED
        BY <1>g, <3>2, <4>1, <4>2 DEF ServesInv, PlacesInv
    <3> QED
      BY <2>10, <3>1, <3>2 DEF Listen
  <2>11. CASE StartApprovals
    <3>1. ASSUME stage' = "refused", UNCHANGED approvals PROVE PlacesInv'
      BY <2>11, <3>1 DEF ServesInv, PlacesInv, StartApprovals
    <3>2. ASSUME NEW a, NEW p, ~Same([address |-> a, port |-> p], places.main),
                 p = places.main.port => FALSE \in HostsOverlap(a, Config.host),
                 places' = [places EXCEPT !.approval = [address |-> a, port |-> p]],
                 UNCHANGED inputs
          PROVE  PlacesInv'
      <4>1. places'.main = places.main /\ places'.approval = [address |-> a, port |-> p]
        BY <3>2, ApprovalSet DEF ServesInv
      <4>2. stage = "approvals" /\ settings.backend = "configured" /\ places.main.address \in Binds(Config.host)
        BY <2>11 DEF ServesInv, StartApprovals, PlacesInv, ServerInv
      <4>3. ~Same(places'.approval, places'.main)
        BY <3>2, <4>1
      <4>4. places'.approval.port = p /\ places'.approval.address = a
        BY <4>1
      <4>5. places'.approval.port = places'.main.port => FALSE \in HostsOverlap(places'.approval.address, Config.host)
        BY <3>2, <4>1, <4>4
      <4> QED
        BY <1>g, <3>2, <4>1, <4>2, <4>3, <4>5 DEF PlacesInv
    <3> QED
      BY <2>11, <3>1, <3>2 DEF StartApprovals
  <2>12. CASE CrashBeforeHold
    BY <2>12 DEF ServesInv, PlacesInv, Config, ServerInv, CrashBeforeHold
  <2>13. ASSUME NEW c \in Call, Begin(c) PROVE PlacesInv'
    BY <2>13 DEF ServesInv, PlacesInv, Config, ServerInv, Begin
  <2>14. ASSUME NEW c \in Call, Finish(c) PROVE PlacesInv'
    BY <2>14 DEF ServesInv, PlacesInv, Config, ServerInv, Finish
  <2>15. ASSUME NEW c \in Call, FinishUnrecorded(c) PROVE PlacesInv'
    BY <2>15 DEF ServesInv, PlacesInv, Config, ServerInv, FinishUnrecorded
  <2>16. CASE Stop
    BY <2>16 DEF ServesInv, PlacesInv, Config, ServerInv, Stop
  <2>17. CASE CloseApprovals
    BY <2>17 DEF ServesInv, PlacesInv, Config, ServerInv, CloseApprovals
  <2>18. CASE CloseServer
    BY <2>18 DEF ServesInv, PlacesInv, Config, ServerInv, CloseServer
  <2>19. CASE ClosePool
    BY <2>19 DEF ServesInv, PlacesInv, Config, ServerInv, ClosePool
  <2>20. CASE CloseStore
    BY <2>20 DEF ServesInv, PlacesInv, Config, ServerInv, CloseStore
  <2>21. CASE UNCHANGED vars
    BY <2>21 DEF ServesInv, PlacesInv, Config, ServerInv, vars
  <2> QED
    BY <2>1, <2>2, <2>3, <2>4, <2>5, <2>6, <2>7, <2>8, <2>9, <2>10, <2>11, <2>12, <2>13, <2>14, <2>15, <2>16, <2>17, <2>18, <2>19, <2>20, <2>21 DEF NodeNext, StartStep, CloseStep
<1> QED
  BY <1>0, <1>s, <1>f, <1>e, <1>p DEF ServesInv

LEMMA ServesAlways == NodeSpec => []ServesInv
  BY InitServes, StepServes, PTL DEF NodeSpec

-----------------------------------------------------------------------------
(* Numbers in their order, and what a selection of a sequence keeps.        *)

Below(S, n) == {m \in S : m < n}

LEMMA BelowGrows ==
  ASSUME NEW S \in SUBSET Nat, IsFiniteSet(S), NEW n \in S
  PROVE  /\ Cardinality(Below(S, n)) \in 0..(Cardinality(S) - 1)
         /\ \A m \in S : n < m => Cardinality(Below(S, n)) < Cardinality(Below(S, m))
<1> DEFINE B == Below(S, n)
<1>1. IsFiniteSet(B) /\ Cardinality(B) \in Nat /\ Cardinality(S) \in Nat
  <2>1. B \in SUBSET S
    BY DEF Below
  <2> HIDE DEF B
  <2> QED  BY <2>1, FS_Subset, FS_CardinalityType
<1>2. IsFiniteSet(B \cup {n}) /\ Cardinality(B \cup {n}) = Cardinality(B) + 1
  <2>1. n \notin B
    BY DEF Below
  <2> HIDE DEF B
  <2> QED  BY <1>1, <2>1, FS_AddElement
<1>3. Cardinality(B \cup {n}) <= Cardinality(S)
  <2>1. B \cup {n} \in SUBSET S
    BY DEF Below
  <2> HIDE DEF B
  <2> QED  BY <2>1, FS_Subset
<1>4. ASSUME NEW m \in S, n < m
      PROVE  Cardinality(B) < Cardinality(Below(S, m))
  <2> DEFINE M == Below(S, m)
  <2>0. \A x \in S : x < n => x < m
    <3>1. \A x, y, z \in Nat : x < y /\ y < z => x < z
      OBVIOUS
    <3> QED  BY <1>4, <3>1
  <2>1. M \in SUBSET S /\ B \cup {n} \in SUBSET M
    BY <1>4, <2>0 DEF Below
  <2> HIDE DEF B, M
  <2>2. IsFiniteSet(M) /\ Cardinality(M) \in Nat
    BY <2>1, FS_Subset, FS_CardinalityType
  <2>3. Cardinality(B \cup {n}) <= Cardinality(M)
    BY <2>1, <2>2, FS_Subset
  <2>4. Cardinality(B) < Cardinality(M)
    BY <1>1, <1>2, <2>2, <2>3
  <2> QED  BY <2>4 DEF B, M
<1> HIDE DEF B
<1>5. Cardinality(B) \in 0..(Cardinality(S) - 1)
  BY <1>1, <1>2, <1>3
<1> QED
  BY <1>4, <1>5 DEF B

(* Of a finite set of numbers, Nth counts through every one, in increasing order. *)
LEMMA NthIs ==
  ASSUME NEW S \in SUBSET Nat, IsFiniteSet(S)
  PROVE  /\ Cardinality(S) \in Nat
         /\ \A k \in 1..Cardinality(S) : Nth(S, k) \in S /\ Cardinality(Below(S, Nth(S, k))) = k - 1
         /\ \A j, k \in 1..Cardinality(S) : j < k <=> Nth(S, j) < Nth(S, k)
         /\ \A n \in S : \E k \in 1..Cardinality(S) : Nth(S, k) = n
<1> DEFINE c == Cardinality(S)
           rank == [n \in S |-> Cardinality(Below(S, n))]
<1>1. c \in Nat
  BY FS_CardinalityType
<1>2. rank \in [S -> 0..(c - 1)]
  BY BelowGrows
<1>3. \A m, n \in S : m < n => rank[m] < rank[n]
  BY BelowGrows
<1>4. \A m, n \in S : rank[m] = rank[n] => m = n
  <2>1. \A n \in S : rank[n] \in Int /\ n \in Int
    BY <1>1, <1>2
  <2>2. \A m, n \in S : m = n \/ m < n \/ n < m
    BY <2>1
  <2> HIDE DEF rank
  <2> QED  BY <1>3, <2>1, <2>2
<1>5. \A i \in 0..(c - 1) : \E n \in S : rank[n] = i
  <2>1. rank \in Injection(S, 0..(c - 1))
    BY <1>2, <1>4 DEF Injection, IsInjective
  <2>2. IsFiniteSet(0..(c - 1)) /\ Cardinality(0..(c - 1)) = c
    <3> HIDE DEF c
    <3>1. 0 \in Int /\ c - 1 \in Int
      BY <1>1
    <3>2. IsFiniteSet(0..(c - 1)) /\ Cardinality(0..(c - 1)) = IF 0 > c - 1 THEN 0 ELSE (c - 1) - 0 + 1
      BY <3>1, FS_Interval
    <3> QED  BY <1>1, <3>2
  <2> HIDE DEF rank
  <2>3. rank \in Surjection(S, 0..(c - 1))
    BY <2>1, <2>2, FS_Injection
  <2> QED  BY <2>3 DEF Surjection
<1>6. ASSUME NEW k \in 1..c
      PROVE  Nth(S, k) \in S /\ rank[Nth(S, k)] = k - 1
  <2>1. k - 1 \in 0..(c - 1)
    BY <1>1
  <2>2. \E n \in S : Cardinality({m \in S : m < n}) = k - 1
    BY <1>5, <2>1 DEF Below
  <2>3. Nth(S, k) \in S /\ Cardinality({m \in S : m < Nth(S, k)}) = k - 1
    BY <2>2 DEF Nth
  <2> QED  BY <2>3 DEF Below
<1>7. ASSUME NEW n \in S
      PROVE  \E k \in 1..c : Nth(S, k) = n
  <2>1. rank[n] \in 0..(c - 1)
    BY <1>2
  <2> HIDE DEF rank, c
  <2>2. PICK k \in 1..c : k - 1 = rank[n]
    <3>1. rank[n] + 1 \in 1..c /\ (rank[n] + 1) - 1 = rank[n]
      BY <1>1, <2>1
    <3> QED  BY <3>1
  <2> QED  BY <1>4, <1>6, <2>2
<1>8. ASSUME NEW j \in 1..c, NEW k \in 1..c
      PROVE  j < k <=> Nth(S, j) < Nth(S, k)
  <2>1. /\ Nth(S, j) \in S /\ Nth(S, k) \in S
        /\ rank[Nth(S, j)] = j - 1 /\ rank[Nth(S, k)] = k - 1
    BY <1>6
  <2>2. Nth(S, j) \in Nat /\ Nth(S, k) \in Nat
    BY <2>1
  <2> HIDE DEF rank, c
  <2>3. Nth(S, j) < Nth(S, k) => j - 1 < k - 1
    BY <1>3, <2>1
  <2>4. Nth(S, k) < Nth(S, j) => k - 1 < j - 1
    BY <1>3, <2>1
  <2>5. Nth(S, j) = Nth(S, k) => j - 1 = k - 1
    BY <2>1
  <2>6. j \in Int /\ k \in Int
    BY <1>1
  <2> QED  BY <2>2, <2>3, <2>4, <2>5, <2>6
<1> QED
  BY <1>1, <1>6, <1>7, <1>8

LEMMA NthOfInterval ==
  ASSUME NEW n \in Nat, NEW k \in 1..n
  PROVE  Nth(1..n, k) = k
<1> DEFINE S == 1..n
<1>1. S \in SUBSET Nat /\ IsFiniteSet(S) /\ k \in S
  BY FS_Interval
<1>2. Below(S, k) = 1..(k - 1)
  BY DEF Below
<1>3. Cardinality(1..(k - 1)) = k - 1
  <2>1. 1 \in Int /\ k - 1 \in Int
    OBVIOUS
  <2>2. Cardinality(1..(k - 1)) = IF 1 > k - 1 THEN 0 ELSE (k - 1) - 1 + 1
    BY <2>1, FS_Interval
  <2> QED  BY <2>2
<1> HIDE DEF S
<1>4. PICK j \in 1..Cardinality(S) : Nth(S, j) = k
  BY <1>1, NthIs
<1>5. k - 1 = j - 1 /\ Cardinality(S) \in Nat
  BY <1>1, <1>2, <1>3, <1>4, NthIs
<1>6. j = k
  BY <1>5
<1> QED
  BY <1>4, <1>6 DEF S

LEMMA PickIs ==
  ASSUME NEW T, NEW s \in Seq(T), NEW K \in SUBSET DOMAIN s
  PROVE  /\ K \in SUBSET Nat /\ IsFiniteSet(K) /\ Cardinality(K) \in Nat
         /\ Pick(s, K) \in Seq(T) /\ DOMAIN Pick(s, K) = 1..Cardinality(K) /\ Len(Pick(s, K)) = Cardinality(K)
         /\ \A k \in 1..Cardinality(K) : Nth(K, k) \in K /\ Pick(s, K)[k] = s[Nth(K, k)]
         /\ \A j, k \in 1..Cardinality(K) : j < k <=> Nth(K, j) < Nth(K, k)
         /\ \A n \in K : \E k \in 1..Cardinality(K) : Nth(K, k) = n
<1>1. Len(s) \in Nat /\ DOMAIN s = 1..Len(s)
  BY LenProperties
<1>2. K \in SUBSET Nat /\ IsFiniteSet(K)
  <2>1. IsFiniteSet(1..Len(s))
    BY <1>1, FS_Interval
  <2> QED  BY <1>1, <2>1, FS_Subset
<1> DEFINE c == Cardinality(K)
<1>3. /\ c \in Nat
      /\ \A k \in 1..c : Nth(K, k) \in K
      /\ \A j, k \in 1..c : j < k <=> Nth(K, j) < Nth(K, k)
      /\ \A n \in K : \E k \in 1..c : Nth(K, k) = n
  BY <1>2, NthIs
<1> DEFINE f == [k \in 1..c |-> s[Nth(K, k)]]
<1>0. Pick(s, K) = <<>> \o f
  BY DEF Pick
<1> HIDE DEF c
<1>5. \A k \in 1..c : s[Nth(K, k)] \in T
  BY <1>3, ElementOfSeq
<1>6. f \in [1..c -> T] /\ f \in Seq(T)
  BY <1>3, <1>5, SeqDef
<1>4. Pick(s, K) = f
  <2> HIDE DEF f
  <2> QED  BY <1>0, <1>6, ConcatEmptySeq
<1>7. Pick(s, K) \in Seq(T) /\ Len(Pick(s, K)) = c /\ DOMAIN Pick(s, K) = 1..c
  <2>1. f \in Seq(T) /\ DOMAIN f = 1..c
    BY <1>6
  <2> HIDE DEF f
  <2>2. Len(f) \in Nat /\ DOMAIN f = 1..Len(f)
    BY <2>1, LenProperties
  <2>3. Len(f) = c
    BY <1>3, <2>1, <2>2
  <2> QED  BY <1>4, <2>1, <2>3
<1> QED
  BY <1>2, <1>3, <1>4, <1>7 DEF c

LEMMA PickAll ==
  ASSUME NEW T, NEW s \in Seq(T)
  PROVE  Pick(s, DOMAIN s) = s
<1>1. Len(s) \in Nat /\ DOMAIN s = 1..Len(s) /\ s = [k \in 1..Len(s) |-> s[k]]
  BY LenProperties
<1>2. Cardinality(1..Len(s)) = Len(s)
  <2>1. Cardinality(1..Len(s)) = IF 1 > Len(s) THEN 0 ELSE Len(s) - 1 + 1
    <3>1. 1 \in Int /\ Len(s) \in Int
      BY <1>1
    <3> QED  BY <3>1, FS_Interval
  <2> QED  BY <1>1, <2>1
<1>3. \A k \in 1..Len(s) : s[Nth(1..Len(s), k)] = s[k]
  BY <1>1, NthOfInterval
<1> DEFINE t == Pick(s, 1..Len(s))
<1>4. /\ t \in Seq(T) /\ Len(t) = Cardinality(1..Len(s))
      /\ \A k \in 1..Cardinality(1..Len(s)) : t[k] = s[Nth(1..Len(s), k)]
  BY <1>1, PickIs
<1> HIDE DEF t
<1>5. t \in Seq(T) /\ Len(t) = Len(s) /\ \A k \in 1..Len(s) : t[k] = s[k]
  BY <1>2, <1>3, <1>4
<1>6. t = s
  BY <1>5, SeqEqual
<1> QED
  BY <1>1, <1>6 DEF t

(* A selection that keeps every unit that is neither a blank nor a line end, and no
   blank that trails its line, has no blank that trails its line. *)
LEMMA NothingTrails ==
  ASSUME NEW s \in Seq(CodeUnit), NEW K \in SUBSET DOMAIN s,
         \A i \in DOMAIN s : s[i] \notin {"blank", "lf"} => i \in K,
         \A i \in K : ~BlankRun(s, i)
  PROVE  \A i \in DOMAIN Pick(s, K) : ~BlankRun(Pick(s, K), i)
<1> DEFINE t == Pick(s, K)
           c == Cardinality(K)
<1>1. Len(s) \in Nat /\ DOMAIN s = 1..Len(s)
  BY LenProperties
<1>2. /\ c \in Nat /\ DOMAIN t = 1..c /\ Len(t) = c
      /\ \A k \in 1..c : Nth(K, k) \in K /\ t[k] = s[Nth(K, k)]
      /\ \A j, k \in 1..c : j < k <=> Nth(K, j) < Nth(K, k)
      /\ \A n \in K : \E k \in 1..c : Nth(K, k) = n
  BY PickIs
<1> HIDE DEF t, c
<1> SUFFICES ASSUME NEW k \in 1..c, BlankRun(t, k)
             PROVE  FALSE
  BY <1>2 DEF t
<1>3. PICK e \in k..c : (e = c \/ t[e + 1] = "lf") /\ t[e] = "blank"
  <2>1. PICK e \in k..c : (e = c \/ t[e + 1] = "lf") /\ \A j \in k..e : t[j] = "blank"
    BY <1>2 DEF BlankRun
  <2>2. e \in k..e
    BY <1>2
  <2> QED  BY <2>1, <2>2
<1>4. e \in 1..c /\ (e # c => e + 1 \in 1..c) /\ e \in Nat
  BY <1>2
<1> DEFINE i == Nth(K, e)
<1>5. i \in K /\ i \in 1..Len(s) /\ s[i] = "blank" /\ ~BlankRun(s, i)
  BY <1>1, <1>2, <1>3, <1>4
<1> HIDE DEF i
<1>6. \E j \in (i + 1)..Len(s) : s[j] # "blank"
  <2> SUFFICES ASSUME \A j \in (i + 1)..Len(s) : s[j] = "blank"
               PROVE  FALSE
    OBVIOUS
  <2>1. Len(s) \in i..Len(s) /\ \A j \in i..Len(s) : j = i \/ j \in (i + 1)..Len(s)
    BY <1>1, <1>5
  <2>2. BlankRun(s, i)
    BY <1>5, <2>1 DEF BlankRun
  <2> QED  BY <1>5, <2>2
<1>7. PICK j \in (i + 1)..Len(s) : s[j] # "blank" /\ \A m \in (i + 1)..Len(s) : m < j => s[m] = "blank"
  <2> DEFINE S == {n \in (i + 1)..Len(s) : s[n] # "blank"}
  <2>1. S \in SUBSET Nat /\ S # {}
    BY <1>1, <1>5, <1>6
  <2>2. PICK j \in S : \A n \in S : ~(n < j)
    <3> HIDE DEF S
    <3> QED  BY <2>1, LeastOf
  <2> QED  BY <2>2
<1>8. s[j] # "lf"
  <2> SUFFICES ASSUME s[j] = "lf"
               PROVE  FALSE
    OBVIOUS
  <2>1. j - 1 \in i..Len(s) /\ (j - 1) + 1 = j
    BY <1>1, <1>5
  <2>2. \A m \in i..(j - 1) : m = i \/ (m \in (i + 1)..Len(s) /\ m < j)
    BY <1>1, <1>5
  <2>3. \A m \in i..(j - 1) : s[m] = "blank"
    BY <1>5, <1>7, <2>2
  <2>4. BlankRun(s, i)
    BY <2>1, <2>3 DEF BlankRun
  <2> QED  BY <1>5, <2>4
<1>9. j \in K /\ j \in Nat /\ i < j
  BY <1>1, <1>5, <1>7, <1>8
<1>10. PICK l \in 1..c : Nth(K, l) = j
  BY <1>2, <1>9
<1>11. e < l
  BY <1>2, <1>4, <1>9, <1>10 DEF i
<1>12. e + 1 \in 1..c /\ e + 1 <= l
  BY <1>2, <1>4, <1>11
<1> DEFINE n == Nth(K, e + 1)
<1>13. n \in K /\ t[e + 1] = s[n] /\ i < n
  <2>1. e < e + 1
    BY <1>4
  <2> QED  BY <1>2, <1>4, <1>12, <2>1 DEF i
<1>14. n < j \/ n = j
  <2>1. e + 1 < l \/ e + 1 = l
    BY <1>4, <1>12
  <2> QED  BY <1>2, <1>10, <1>12, <2>1
<1> HIDE DEF n
<1>15. n \in (i + 1)..Len(s)
  <2>1. n \in 1..Len(s)
    BY <1>1, <1>13
  <2> QED  BY <1>5, <1>13, <2>1
<1>16. s[n] # "lf"
  BY <1>7, <1>8, <1>14, <1>15
<1> QED
  BY <1>2, <1>3, <1>11, <1>13, <1>16

-----------------------------------------------------------------------------
(* What normalizing a description leaves (A4).                              *)

Normal(t) ==
  /\ t \in Seq(CodeUnit)
  /\ \A i \in DOMAIN t : t[i] # "cr" /\ ~BlankRun(t, i)
  /\ t # <<>> => t[1] # "lf" /\ t[Len(t)] # "lf"

LEMMA LineEndsLeave ==
  ASSUME NEW s \in Seq(CodeUnit)
  PROVE  /\ LineEnds(s) \in Seq(CodeUnit)
         /\ \A i \in DOMAIN LineEnds(s) : LineEnds(s)[i] # "cr"
<1> DEFINE K == {i \in DOMAIN s : ~(s[i] = "lf" /\ i > 1 /\ s[i - 1] = "cr")}
           t == Pick(s, K)
           u == [i \in DOMAIN t |-> IF t[i] = "cr" THEN "lf" ELSE t[i]]
<1>1. LineEnds(s) = u
  BY DEF LineEnds
<1>2. t \in Seq(CodeUnit)
  <2>1. K \in SUBSET DOMAIN s
    OBVIOUS
  <2> HIDE DEF K
  <2> QED  BY <2>1, PickIs
<1> HIDE DEF t
<1>3. Len(t) \in Nat /\ DOMAIN t = 1..Len(t)
  BY <1>2, LenProperties
<1>4. \A i \in DOMAIN t : u[i] \in CodeUnit /\ u[i] # "cr"
  <2>1. \A i \in 1..Len(t) : t[i] \in CodeUnit
    BY <1>2, ElementOfSeq
  <2> QED  BY <1>3, <2>1 DEF CodeUnit
<1>5. u \in [1..Len(t) -> CodeUnit] /\ DOMAIN u = DOMAIN t
  BY <1>3, <1>4
<1>6. u \in Seq(CodeUnit)
  BY <1>3, <1>5, SeqDef
<1> QED
  BY <1>1, <1>4, <1>5, <1>6

LEMMA NormalizeLeaves ==
  ASSUME NEW s \in Seq(CodeUnit)
  PROVE  Normal(NormalizeDescription(s))
<1> DEFINE u == LineEnds(s)
           K == {i \in DOMAIN u : ~BlankRun(u, i)}
           v == Pick(u, K)
           L == {i \in DOMAIN v : \E a \in 1..i, b \in i..Len(v) : v[a] # "lf" /\ v[b] # "lf"}
           t == Pick(v, L)
<1>1. NormalizeDescription(s) = t
  BY DEF NormalizeDescription, Stripped, Trimmed
<1>2. u \in Seq(CodeUnit) /\ \A i \in DOMAIN u : u[i] # "cr"
  BY LineEndsLeave
<1> HIDE DEF u
<1>3. K \in SUBSET DOMAIN u /\ \A i \in K : ~BlankRun(u, i)
  OBVIOUS
<1>4. \A i \in DOMAIN u : u[i] \notin {"blank", "lf"} => i \in K
  <2> SUFFICES ASSUME NEW i \in DOMAIN u, BlankRun(u, i)
               PROVE  u[i] = "blank"
    OBVIOUS
  <2>1. Len(u) \in Nat /\ i \in 1..Len(u)
    BY <1>2, LenProperties
  <2>2. PICK e \in i..Len(u) : \A j \in i..e : u[j] = "blank"
    BY DEF BlankRun
  <2>3. i \in i..e
    BY <2>1
  <2> QED  BY <2>2, <2>3
<1> HIDE DEF K
<1>5. /\ v \in Seq(CodeUnit)
      /\ \A i \in DOMAIN v : v[i] # "cr"
  BY <1>2, <1>3, PickIs
<1>6. \A i \in DOMAIN v : ~BlankRun(v, i)
  BY <1>2, <1>3, <1>4, NothingTrails
<1> HIDE DEF v
<1>7. Len(v) \in Nat /\ DOMAIN v = 1..Len(v)
  BY <1>5, LenProperties
<1>8. /\ L \in SUBSET DOMAIN v
      /\ \A i \in DOMAIN v : v[i] # "lf" => i \in L
  BY <1>7
<1>9. \A i \in L : (\E a \in L : a <= i /\ v[a] # "lf") /\ (\E b \in L : i <= b /\ v[b] # "lf")
  <2> SUFFICES ASSUME NEW i \in L
               PROVE  (\E a \in L : a <= i /\ v[a] # "lf") /\ (\E b \in L : i <= b /\ v[b] # "lf")
    OBVIOUS
  <2>1. PICK a \in 1..i : \E b \in i..Len(v) : v[a] # "lf" /\ v[b] # "lf"
    OBVIOUS
  <2>2. PICK b \in i..Len(v) : v[a] # "lf" /\ v[b] # "lf"
    BY <2>1
  <2>3. a \in 1..Len(v) /\ b \in 1..Len(v) /\ a <= i /\ i <= b
    BY <1>7
  <2>4. a \in L /\ b \in L
    BY <1>7, <1>8, <2>2, <2>3
  <2> HIDE DEF L
  <2> QED  BY <2>2, <2>3, <2>4
<1> HIDE DEF L
<1>10. \A i \in DOMAIN t : ~BlankRun(t, i)
  <2>1. \A i \in L : ~BlankRun(v, i)
    BY <1>6, <1>8
  <2>2. \A i \in DOMAIN v : v[i] \notin {"blank", "lf"} => i \in L
    BY <1>8
  <2> QED  BY <1>5, <1>8, <2>1, <2>2, NothingTrails
<1> DEFINE c == Cardinality(L)
<1>11. /\ L \in SUBSET Nat /\ c \in Nat
       /\ t \in Seq(CodeUnit) /\ DOMAIN t = 1..c /\ Len(t) = c
       /\ \A k \in 1..c : Nth(L, k) \in L /\ t[k] = v[Nth(L, k)]
       /\ \A j, k \in 1..c : j < k <=> Nth(L, j) < Nth(L, k)
       /\ \A n \in L : \E k \in 1..c : Nth(L, k) = n
  BY <1>5, <1>8, PickIs
<1> HIDE DEF t, c
<1>12. \A i \in DOMAIN t : t[i] # "cr"
  BY <1>5, <1>8, <1>11
<1>13. ASSUME t # <<>>
       PROVE  t[1] # "lf" /\ t[Len(t)] # "lf"
  <2>1. 1 \in 1..c /\ c \in 1..c
    BY <1>11, <1>13, EmptySeq
  <2>2. t[1] # "lf"
    <3>1. PICK a \in L : a <= Nth(L, 1) /\ v[a] # "lf"
      BY <1>9, <1>11, <2>1
    <3>2. PICK k \in 1..c : Nth(L, k) = a
      BY <1>11
    <3>3. ~(1 < k)
      <4>1. Nth(L, 1) \in Nat /\ Nth(L, k) \in Nat
        BY <1>11, <2>1
      <4>2. ~(Nth(L, 1) < Nth(L, k))
        BY <3>1, <3>2, <4>1
      <4> QED  BY <1>11, <2>1, <4>2
    <3>4. k = 1
      BY <1>11, <3>3
    <3> QED  BY <1>11, <2>1, <3>1, <3>2, <3>4
  <2>3. t[c] # "lf"
    <3>1. PICK b \in L : Nth(L, c) <= b /\ v[b] # "lf"
      BY <1>9, <1>11, <2>1
    <3>2. PICK k \in 1..c : Nth(L, k) = b
      BY <1>11
    <3>3. ~(k < c)
      <4>1. Nth(L, c) \in Nat /\ Nth(L, k) \in Nat
        BY <1>11, <2>1
      <4>2. ~(Nth(L, k) < Nth(L, c))
        BY <3>1, <3>2, <4>1
      <4> QED  BY <1>11, <2>1, <4>2
    <3>4. k = c
      BY <1>11, <3>3
    <3> QED  BY <1>11, <2>1, <3>1, <3>2, <3>4
  <2> QED  BY <1>11, <2>2, <2>3
<1>14. Normal(t)
  BY <1>10, <1>11, <1>12, <1>13 DEF Normal
<1> QED
  BY <1>1, <1>14

(* Normalizing leaves nothing for a second time: the gate's snapshot of a snapshot
   is the snapshot (gate.ts:124-126). *)
LEMMA NormalStays ==
  ASSUME NEW t, Normal(t)
  PROVE  NormalizeDescription(t) = t
<1>1. /\ t \in Seq(CodeUnit) /\ Len(t) \in Nat /\ DOMAIN t = 1..Len(t)
      /\ \A i \in DOMAIN t : t[i] # "cr" /\ ~BlankRun(t, i)
  BY LenProperties DEF Normal
<1>2. LineEnds(t) = t
  <2> DEFINE K == {i \in DOMAIN t : ~(t[i] = "lf" /\ i > 1 /\ t[i - 1] = "cr")}
  <2>1. K = DOMAIN t
    <3>1. \A i \in 1..Len(t) : i > 1 => i - 1 \in 1..Len(t)
      BY <1>1
    <3> QED  BY <1>1, <3>1
  <2>2. LineEnds(t) = [i \in DOMAIN Pick(t, K) |-> IF Pick(t, K)[i] = "cr" THEN "lf" ELSE Pick(t, K)[i]]
    BY DEF LineEnds
  <2> HIDE DEF K
  <2>3. Pick(t, K) = t
    BY <1>1, <2>1, PickAll
  <2>4. LineEnds(t) = [i \in 1..Len(t) |-> t[i]]
    BY <1>1, <2>2, <2>3
  <2> QED  BY <1>1, <2>4, LenProperties
<1>3. Stripped(t) = t
  <2> DEFINE K == {i \in DOMAIN t : ~BlankRun(t, i)}
  <2>1. K = DOMAIN t
    BY <1>1
  <2>2. Stripped(t) = Pick(t, K)
    BY DEF Stripped
  <2> HIDE DEF K
  <2> QED  BY <1>1, <2>1, <2>2, PickAll
<1>4. Trimmed(t) = t
  <2> DEFINE K == {i \in DOMAIN t : \E a \in 1..i, b \in i..Len(t) : t[a] # "lf" /\ t[b] # "lf"}
  <2>1. K = DOMAIN t
    <3> SUFFICES ASSUME NEW i \in 1..Len(t)
                 PROVE  \E a \in 1..i, b \in i..Len(t) : t[a] # "lf" /\ t[b] # "lf"
      BY <1>1
    <3>1. 1 \in 1..i /\ Len(t) \in i..Len(t)
      BY <1>1
    <3>2. t # <<>>
      BY <1>1, EmptySeq
    <3>3. t[1] # "lf" /\ t[Len(t)] # "lf"
      BY <3>2 DEF Normal
    <3> QED  BY <3>1, <3>3
  <2>2. Trimmed(t) = Pick(t, K)
    BY DEF Trimmed
  <2> HIDE DEF K
  <2> QED  BY <1>1, <2>1, <2>2, PickAll
<1> QED
  BY <1>2, <1>3, <1>4 DEF NormalizeDescription

-----------------------------------------------------------------------------
(* A set-valued field (A7).                                                 *)

LEMMA RangeIsFinite ==
  ASSUME NEW T, NEW s \in Seq(T)
  PROVE  Range(s) \in SUBSET T /\ IsFiniteSet(Range(s))
<1>1. Len(s) \in Nat /\ DOMAIN s = 1..Len(s) /\ \A i \in 1..Len(s) : s[i] \in T
  BY LenProperties, ElementOfSeq
<1>2. s \in Surjection(1..Len(s), Range(s))
  <2>1. s \in [1..Len(s) -> Range(s)]
    <3>1. s = [i \in 1..Len(s) |-> s[i]]
      BY LenProperties
    <3> QED  BY <1>1, <3>1 DEF Range
  <2> QED  BY <1>1, <2>1 DEF Surjection, Range
<1>3. IsFiniteSet(1..Len(s))
  BY <1>1, FS_Interval
<1> QED
  BY <1>1, <1>2, <1>3, FS_Surjection DEF Range

Keyed(S) == \A a, b \in S : a.order = b.order => a = b

LEMMA CanonicalSetIs ==
  ASSUME NEW s \in Seq(DomainEntry), Keyed(Range(s))
  PROVE  /\ CanonicalSet(s) \in Seq(DomainEntry)
         /\ Range(CanonicalSet(s)) = Range(s)
         /\ Ordered(CanonicalSet(s))
<1> DEFINE O == {e.order : e \in Range(s)}
           c == Cardinality(O)
           t == CanonicalSet(s)
<1>1. Range(s) \in SUBSET DomainEntry /\ IsFiniteSet(Range(s))
  BY RangeIsFinite
<1>2. O \in SUBSET Nat /\ IsFiniteSet(O)
  <2>1. \A e \in Range(s) : e.order \in Nat
    BY <1>1 DEF DomainEntry
  <2> DEFINE f == [e \in Range(s) |-> e.order]
  <2>2. f \in Surjection(Range(s), O)
    BY DEF Surjection
  <2> QED  BY <1>1, <2>1, <2>2, FS_Surjection
<1>3. t = [k \in 1..c |-> CHOOSE e \in Range(s) : e.order = Nth(O, k)]
  BY DEF CanonicalSet
<1> HIDE DEF t, c
<1>4. /\ c \in Nat
      /\ \A k \in 1..c : Nth(O, k) \in O
      /\ \A j, k \in 1..c : j < k <=> Nth(O, j) < Nth(O, k)
      /\ \A n \in O : \E k \in 1..c : Nth(O, k) = n
  <2> HIDE DEF O
  <2> QED  BY <1>2, NthIs DEF c
<1>5. \A k \in 1..c : t[k] \in Range(s) /\ t[k].order = Nth(O, k)
  <2> SUFFICES ASSUME NEW k \in 1..c
               PROVE  t[k] \in Range(s) /\ t[k].order = Nth(O, k)
    OBVIOUS
  <2>1. \E e \in Range(s) : e.order = Nth(O, k)
    BY <1>4
  <2>2. t[k] = CHOOSE e \in Range(s) : e.order = Nth(O, k)
    BY <1>3
  <2> HIDE DEF O
  <2> QED  BY <2>1, <2>2
<1>6. t \in [1..c -> DomainEntry] /\ DOMAIN t = 1..c
  <2>1. \A k \in 1..c : (CHOOSE e \in Range(s) : e.order = Nth(O, k)) \in DomainEntry
    <3> HIDE DEF O
    <3> QED  BY <1>1, <1>3, <1>5
  <2> HIDE DEF O
  <2> QED  BY <1>3, <2>1
<1>7. t \in Seq(DomainEntry) /\ Len(t) = c
  BY <1>4, <1>6, SeqDef, LenProperties
<1>8. Range(t) = Range(s)
  <2>1. \A e \in Range(s) : \E k \in 1..c : t[k] = e
    <3> SUFFICES ASSUME NEW e \in Range(s)
                 PROVE  \E k \in 1..c : t[k] = e
      OBVIOUS
    <3>1. PICK k \in 1..c : Nth(O, k) = e.order
      BY <1>4
    <3> HIDE DEF O
    <3> QED  BY <1>5, <3>1 DEF Keyed
  <2>2. \A x : x \in Range(t) <=> \E k \in 1..c : x = t[k]
    BY <1>6 DEF Range
  <2> HIDE DEF O
  <2>3. \A x : x \in Range(t) <=> x \in Range(s)
    BY <1>5, <2>1, <2>2
  <2> QED  BY <2>3
<1>9. Ordered(t)
  <2> SUFFICES ASSUME NEW i \in 2..c
               PROVE  t[i - 1].order < t[i].order
    BY <1>7 DEF Ordered
  <2>1. i - 1 \in 1..c /\ i \in 1..c /\ i - 1 < i
    BY <1>4
  <2> HIDE DEF O
  <2> QED  BY <1>4, <1>5, <2>1
<1> QED
  BY <1>7, <1>8, <1>9 DEF t

(* A set depends on its members only, so the set of a set is the set. *)
LEMMA CanonicalSetStays ==
  ASSUME NEW s \in Seq(DomainEntry), Keyed(Range(s))
  PROVE  CanonicalSet(CanonicalSet(s)) = CanonicalSet(s)
<1>1. \A t : Range(t) = Range(s) => CanonicalSet(t) = CanonicalSet(s)
  BY DEF CanonicalSet
<1> QED
  BY <1>1, CanonicalSetIs

LEMMA SnapshotOf ==
  ASSUME NEW d \in Definition
  PROVE  CanonicalToolObject(d) =
           [name |-> d.name, nameOk |-> d.nameOk, keys |-> d.keys, description |-> NormalizeDescription(d.description),
            schema |-> d.schema, cls |-> d.cls, untrusted |-> d.untrusted, elevated |-> d.elevated, basis |-> d.basis,
            domainNull |-> d.domainNull, domain |-> IF d.domainNull THEN <<>> ELSE CanonicalSet(d.domain)]
<1>1. /\ d \in [name : Nat, nameOk : BOOLEAN, keys : STRING, description : Seq(CodeUnit), schema : InputSchema, cls : Class,
                untrusted : BOOLEAN, elevated : BOOLEAN, basis : Basis, domainNull : BOOLEAN, domain : Seq(DomainEntry)]
      /\ d.domainNull => d.domain = <<>>
  BY DEF Definition
<1> DEFINE n == NormalizeDescription(d.description)
           m == IF d.domainNull THEN d.domain ELSE CanonicalSet(d.domain)
<1>2. CanonicalToolObject(d) = [d EXCEPT !.description = n, !.domain = m]
  BY DEF CanonicalToolObject
<1>3. m = IF d.domainNull THEN <<>> ELSE CanonicalSet(d.domain)
  BY <1>1
<1> HIDE DEF n, m
<1>4. CanonicalToolObject(d) =
        [name |-> d.name, nameOk |-> d.nameOk, keys |-> d.keys, description |-> n, schema |-> d.schema, cls |-> d.cls,
         untrusted |-> d.untrusted, elevated |-> d.elevated, basis |-> d.basis, domainNull |-> d.domainNull, domain |-> m]
  BY <1>1, <1>2
<1> QED
  BY <1>3, <1>4 DEF n

(* The gate hashes the snapshot of a snapshot, which is the snapshot. *)
LEMMA SnapshotStays ==
  ASSUME NEW d \in Definition
  PROVE  /\ CanonicalToolObject(d) \in Definition
         /\ CanonicalToolObject(CanonicalToolObject(d)) = CanonicalToolObject(d)
         /\ Ordered(CanonicalToolObject(d).domain)
<1> DEFINE o == CanonicalToolObject(d)
           n == NormalizeDescription(d.description)
           m == IF d.domainNull THEN <<>> ELSE CanonicalSet(d.domain)
<1>1. /\ d \in [name : Nat, nameOk : BOOLEAN, keys : STRING, description : Seq(CodeUnit), schema : InputSchema, cls : Class,
                untrusted : BOOLEAN, elevated : BOOLEAN, basis : Basis, domainNull : BOOLEAN, domain : Seq(DomainEntry)]
      /\ Keyed(Range(d.domain))
  BY DEF Definition, Keyed
<1>2. o = [name |-> d.name, nameOk |-> d.nameOk, keys |-> d.keys, description |-> n,
           schema |-> d.schema, cls |-> d.cls, untrusted |-> d.untrusted, elevated |-> d.elevated, basis |-> d.basis,
           domainNull |-> d.domainNull, domain |-> m]
  BY SnapshotOf
<1>3. n \in Seq(CodeUnit) /\ NormalizeDescription(n) = n
  <2>1. Normal(n)
    BY <1>1, NormalizeLeaves
  <2> QED  BY <2>1, NormalStays DEF Normal
<1>4. /\ m \in Seq(DomainEntry) /\ Ordered(m) /\ Keyed(Range(m))
      /\ d.domainNull => m = <<>>
      /\ ~d.domainNull => CanonicalSet(m) = m
  <2>1. CASE d.domainNull
    <3>1. m = <<>> /\ m \in Seq(DomainEntry) /\ Len(m) = 0 /\ DOMAIN m = {}
      BY <2>1, EmptySeq
    <3> QED  BY <2>1, <3>1 DEF Ordered, Keyed, Range
  <2>2. CASE ~d.domainNull
    BY <1>1, <2>2, CanonicalSetIs, CanonicalSetStays
  <2> QED  BY <2>1, <2>2
<1> HIDE DEF o, n, m
<1>5. o \in [name : Nat, nameOk : BOOLEAN, keys : STRING, description : Seq(CodeUnit), schema : InputSchema, cls : Class,
             untrusted : BOOLEAN, elevated : BOOLEAN, basis : Basis, domainNull : BOOLEAN, domain : Seq(DomainEntry)]
  BY <1>1, <1>2, <1>3, <1>4
<1>6. o.domain = m /\ o.description = n /\ o.domainNull = d.domainNull
  BY <1>2
<1>7. o \in Definition
  BY <1>4, <1>5, <1>6 DEF Definition, Keyed
<1>8. CanonicalToolObject(o) =
        [name |-> o.name, nameOk |-> o.nameOk, keys |-> o.keys, description |-> NormalizeDescription(o.description),
         schema |-> o.schema, cls |-> o.cls, untrusted |-> o.untrusted, elevated |-> o.elevated, basis |-> o.basis,
         domainNull |-> o.domainNull, domain |-> IF o.domainNull THEN <<>> ELSE CanonicalSet(o.domain)]
  BY <1>7, SnapshotOf
<1>9. (IF o.domainNull THEN <<>> ELSE CanonicalSet(o.domain)) = m
  BY <1>4, <1>6
<1>10. CanonicalToolObject(o) = o
  BY <1>2, <1>3, <1>6, <1>8, <1>9
<1> QED
  BY <1>4, <1>6, <1>7, <1>10 DEF o

-----------------------------------------------------------------------------
(* The operator's command and the gate, on the same file and definitions.   *)

LEMMA GivenIs ==
  ASSUME NEW ds \in Seq(Definition)
  PROVE  /\ \A d \in Range(ds) :
              /\ d \in Definition /\ d.name \in Nat /\ d.name \in Names(ds)
              /\ CanonicalToolObject(d).name = d.name
              /\ ToolHash(CanonicalToolObject(d)) = ToolHash(d)
              /\ Ordered(CanonicalToolObject(d).domain)
         /\ \A d, e \in Range(ds) : d.name = e.name => d = e \/ Twice(ds, d.name)
         /\ \A n : Twice(ds, n) => n \in Names(ds)
         /\ \A n \in Names(ds) : \E d \in Range(ds) : d.name = n
         /\ IsFiniteSet(Names(ds)) /\ Names(ds) \in SUBSET Nat
<1>1. Range(ds) \in SUBSET Definition /\ IsFiniteSet(Range(ds))
  BY RangeIsFinite
<1>2. \A d \in Range(ds) : d \in Definition /\ d.name \in Nat /\ d.name \in Names(ds)
  BY <1>1 DEF Definition, Names
<1>3. \A d \in Range(ds) :
        /\ CanonicalToolObject(d).name = d.name
        /\ ToolHash(CanonicalToolObject(d)) = ToolHash(d)
        /\ Ordered(CanonicalToolObject(d).domain)
  <2> SUFFICES ASSUME NEW d \in Range(ds)
               PROVE  /\ CanonicalToolObject(d).name = d.name
                      /\ ToolHash(CanonicalToolObject(d)) = ToolHash(d)
                      /\ Ordered(CanonicalToolObject(d).domain)
    OBVIOUS
  <2>1. d \in Definition
    BY <1>2
  <2>2. CanonicalToolObject(d).name = d.name
    BY <2>1, SnapshotOf
  <2> QED  BY <2>1, <2>2, SnapshotStays DEF ToolHash
<1>4. \A d, e \in Range(ds) : d.name = e.name => d = e \/ Twice(ds, d.name)
  BY DEF Range, Twice
<1>5. \A n : Twice(ds, n) => n \in Names(ds)
  BY DEF Range, Twice, Names
<1>6. IsFiniteSet(Names(ds))
  <2> DEFINE f == [d \in Range(ds) |-> d.name]
  <2>1. f \in Surjection(Range(ds), Names(ds))
    BY DEF Surjection, Names
  <2> QED  BY <1>1, <2>1, FS_Surjection
<1> QED
  BY <1>2, <1>3, <1>4, <1>5, <1>6 DEF Names

(* A definition is admitted exactly when it is named once, canonical, pinned, and
   hashes as pinned. *)
LEMMA AdmittedIs ==
  ASSUME NEW ds \in Seq(Definition), NEW m, NEW d \in Range(ds)
  PROVE  Verdict(m, ds, d) = "admitted" <=>
           ~Twice(ds, d.name) /\ Canonical(d) /\ d.name \in Pinned(m) /\ ToolHash(d) = HashOf(m, d.name)
<1>1. ToolHash(CanonicalToolObject(d)) = ToolHash(d)
  BY GivenIs
<1> QED
  BY <1>1, Zenon DEF Verdict

LEMMA RefusesNothing ==
  ASSUME NEW ds \in Seq(Definition), NEW m
  PROVE  Refused(m, ds) = {} <=>
           (\A d \in Range(ds) : Verdict(m, ds, d) = "admitted") /\ Pinned(m) \subseteq Names(ds)
  BY DEF Refused

LEMMA DiffIsClean ==
  ASSUME NEW ds \in Seq(Definition), NEW m, Parses(m)
  PROVE  DiffCode(m, ds) = 0 <=>
           /\ \A d \in Range(ds) : Canonical(d)
           /\ \A n \in Names(ds) \cup Pinned(m) :
                /\ n \in Names(ds) /\ ~Twice(ds, n) /\ n \in Pinned(m)
                /\ \E d \in Range(ds) : d.name = n /\ ToolHash(d) = HashOf(m, n)
<1> DEFINE Status(n) ==
             CASE Twice(ds, n) -> "duplicate"
               [] n \notin Names(ds) -> "removed"
               [] n \notin Pinned(m) /\ ~Twice(ds, n) -> "new"
               [] OTHER -> IF \E d \in Range(ds) : d.name = n /\ ToolHash(d) = HashOf(m, n) THEN "unchanged" ELSE "drifted"
<1>1. \A n : Status(n) = "unchanged" <=>
        /\ n \in Names(ds) /\ ~Twice(ds, n) /\ n \in Pinned(m)
        /\ \E d \in Range(ds) : d.name = n /\ ToolHash(d) = HashOf(m, n)
  BY Zenon
<1>2. DiffLines(m, ds) = {[name |-> n, status |-> Status(n)] : n \in Names(ds) \cup Pinned(m)}
  BY DEF DiffLines
<1> HIDE DEF Status
<1>3. (\A l \in DiffLines(m, ds) : l.status = "unchanged") <=> \A n \in Names(ds) \cup Pinned(m) : Status(n) = "unchanged"
  <2>1. \A n \in Names(ds) \cup Pinned(m) : [name |-> n, status |-> Status(n)] \in DiffLines(m, ds)
    BY <1>2
  <2>2. \A l \in DiffLines(m, ds) : \E n \in Names(ds) \cup Pinned(m) : l = [name |-> n, status |-> Status(n)]
    BY <1>2
  <2>3. \A n : [name |-> n, status |-> Status(n)].status = Status(n)
    OBVIOUS
  <2> QED  BY <2>1, <2>2, <2>3, Zenon
<1>4. DiffCode(m, ds) = 0 <=>
        (\A d \in Range(ds) : Canonical(d)) /\ \A l \in DiffLines(m, ds) : l.status = "unchanged"
  BY DEF DiffCode, DiffReads
<1> QED
  BY <1>1, <1>3, <1>4

LEMMA DiffIsVerify ==
  ASSUME NEW ds \in Seq(Definition), NEW m, Parses(m)
  PROVE  DiffCode(m, ds) = VerifyCode(m, ds)
<1>1. VerifyCode(m, ds) = 0 <=>
        (\A d \in Range(ds) : Verdict(m, ds, d) = "admitted") /\ Pinned(m) \subseteq Names(ds)
  BY RefusesNothing DEF VerifyCode
<1>2. DiffCode(m, ds) \in {0, 1} /\ VerifyCode(m, ds) \in {0, 1}
  BY DEF DiffCode, VerifyCode
<1>3. ASSUME DiffCode(m, ds) = 0
      PROVE  VerifyCode(m, ds) = 0
  <2>1. \A d \in Range(ds) : Canonical(d)
    BY <1>3, DiffIsClean
  <2>2. \A n \in Names(ds) \cup Pinned(m) :
          /\ n \in Names(ds) /\ ~Twice(ds, n) /\ n \in Pinned(m)
          /\ \E d \in Range(ds) : d.name = n /\ ToolHash(d) = HashOf(m, n)
    BY <1>3, DiffIsClean
  <2>3. ASSUME NEW d \in Range(ds)
        PROVE  Verdict(m, ds, d) = "admitted"
    <3>1. d.name \in Names(ds)
      BY GivenIs
    <3>2. ~Twice(ds, d.name) /\ d.name \in Pinned(m)
      BY <2>2, <3>1
    <3>3. PICK e \in Range(ds) : e.name = d.name /\ ToolHash(e) = HashOf(m, d.name)
      BY <2>2, <3>1
    <3>4. e = d
      BY <3>2, <3>3, GivenIs
    <3> QED  BY <2>1, <3>2, <3>3, <3>4, AdmittedIs
  <2> QED  BY <1>1, <2>2, <2>3
<1>4. ASSUME VerifyCode(m, ds) = 0
      PROVE  DiffCode(m, ds) = 0
  <2>1. \A d \in Range(ds) :
          ~Twice(ds, d.name) /\ Canonical(d) /\ d.name \in Pinned(m) /\ ToolHash(d) = HashOf(m, d.name)
    BY <1>1, <1>4, AdmittedIs
  <2>2. \A n \in Names(ds) \cup Pinned(m) : \E d \in Range(ds) : d.name = n
    BY <1>1, <1>4, GivenIs
  <2>3. \A n \in Names(ds) \cup Pinned(m) : n \in Names(ds)
    BY <2>2, GivenIs
  <2> QED  BY <2>1, <2>2, <2>3, DiffIsClean
<1> QED
  BY <1>2, <1>3, <1>4

Of(S, n) == {x \in S : x.name = n}

LEMMA RefusalsIs ==
  ASSUME NEW ds, NEW m
  PROVE  \A r : r \in Refused(m, ds) <=>
           \/ \E d \in Range(ds) : Verdict(m, ds, d) # "admitted" /\ r = [name |-> d.name, reason |-> Verdict(m, ds, d)]
           \/ \E n \in Pinned(m) \ Names(ds) : r = [name |-> n, reason |-> "removed"]
  BY DEF Refused

LEMMA EachNameOnce ==
  ASSUME NEW ds \in Seq(Definition), NEW m, NEW n \in Names(ds) \cup Pinned(m)
  PROVE  Cardinality(Of(Admitted(m, ds), n)) + Cardinality(Of(Refused(m, ds), n)) = 1
<1> DEFINE A == Of(Admitted(m, ds), n)
           R == Of(Refused(m, ds), n)
<1>1. \A o : o \in A <=> \E d \in Range(ds) : Verdict(m, ds, d) = "admitted" /\ d.name = n /\ o = CanonicalToolObject(d)
  <2>1. \A o : o \in Admitted(m, ds) <=> \E d \in Range(ds) : Verdict(m, ds, d) = "admitted" /\ o = CanonicalToolObject(d)
    BY DEF Admitted
  <2>2. \A d \in Range(ds) : CanonicalToolObject(d).name = d.name
    BY GivenIs
  <2> QED  BY <2>1, <2>2 DEF Of
<1>2. \A r : r \in R <=>
        \/ \E d \in Range(ds) : Verdict(m, ds, d) # "admitted" /\ d.name = n /\ r = [name |-> n, reason |-> Verdict(m, ds, d)]
        \/ n \in Pinned(m) \ Names(ds) /\ r = [name |-> n, reason |-> "removed"]
  BY RefusalsIs DEF Of
<1>0. SUFFICES Cardinality(A) + Cardinality(R) = 1
  OBVIOUS
<1> HIDE DEF A, R
<1>6. ASSUME NEW x, (A = {} /\ R = {x}) \/ (A = {x} /\ R = {})
      PROVE  Cardinality(A) + Cardinality(R) = 1
  <2>1. Cardinality({}) = 0 /\ Cardinality({x}) = 1
    BY FS_EmptySet, FS_Singleton
  <2>2. CASE A = {} /\ R = {x}
    <3>1. Cardinality(A) = 0 /\ Cardinality(R) = 1
      BY <2>1, <2>2
    <3> QED  BY <3>1
  <2>3. CASE A = {x} /\ R = {}
    <3>1. Cardinality(A) = 1 /\ Cardinality(R) = 0
      BY <2>1, <2>3
    <3> QED  BY <3>1
  <2> QED  BY <1>6, <2>2, <2>3
<1>3. CASE n \notin Names(ds)
  <2>1. \A d \in Range(ds) : d.name # n
    BY <1>3, GivenIs
  <2>2. A = {} /\ R = {[name |-> n, reason |-> "removed"]}
    BY <1>1, <1>2, <1>3, <2>1
  <2> QED  BY <1>6, <2>2
<1>4. CASE n \in Names(ds) /\ Twice(ds, n)
  <2>1. PICK d \in Range(ds) : d.name = n
    BY <1>4, GivenIs
  <2>2. \A e \in Range(ds) : e.name = n => Verdict(m, ds, e) = "duplicate"
    <3> SUFFICES ASSUME NEW e \in Range(ds), Twice(ds, e.name)
                 PROVE  Verdict(m, ds, e) = "duplicate"
      BY <1>4
    <3> QED  BY DEF Verdict
  <2>3. A = {}
    BY <1>1, <2>2
  <2>4. R = {[name |-> n, reason |-> "duplicate"]}
    BY <1>2, <1>4, <2>1, <2>2
  <2> QED  BY <1>6, <2>3, <2>4
<1>5. CASE n \in Names(ds) /\ ~Twice(ds, n)
  <2>1. PICK d \in Range(ds) : d.name = n
    BY <1>5, GivenIs
  <2>2. \A e \in Range(ds) : e.name = n => e = d
    BY <1>5, <2>1, GivenIs
  <2>3. CASE Verdict(m, ds, d) = "admitted"
    <3>1. A = {CanonicalToolObject(d)}
      BY <1>1, <2>1, <2>2, <2>3
    <3>2. R = {}
      BY <1>2, <1>5, <2>2, <2>3
    <3> QED  BY <1>6, <3>1, <3>2
  <2>4. CASE Verdict(m, ds, d) # "admitted"
    <3>1. A = {}
      BY <1>1, <2>2, <2>4
    <3>2. R = {[name |-> n, reason |-> Verdict(m, ds, d)]}
      BY <1>2, <1>5, <2>1, <2>2, <2>4
    <3> QED  BY <1>6, <3>1, <3>2
  <2> QED  BY <2>3, <2>4
<1> QED
  BY <1>3, <1>4, <1>5

LEMMA ApprovedIsAdmitted ==
  ASSUME NEW ds \in Seq(Definition), NEW file, ApproveWrites(file, ds)
  PROVE  LET m == BuildManifest(ds) IN
           Parses(m) /\ VerifyCode(m, ds) = 0 /\ {o.name : o \in Admitted(m, ds)} = Names(ds)
<1> DEFINE m == BuildManifest(ds)
           N == Names(ds)
           c == Cardinality(N)
           es == m.entries
<1>1. (\A d \in Range(ds) : Canonical(d)) /\ \A n \in N : ~Twice(ds, n)
  BY DEF ApproveWrites, EntriesRefuse
<1>2. /\ c \in Nat
      /\ \A k \in 1..c : Nth(N, k) \in N
      /\ \A j, k \in 1..c : j < k <=> Nth(N, j) < Nth(N, k)
      /\ \A n \in N : \E k \in 1..c : Nth(N, k) = n
  <2>1. N \in SUBSET Nat /\ IsFiniteSet(N)
    BY GivenIs
  <2> HIDE DEF N
  <2> QED  BY <2>1, NthIs
<1>3. /\ es = [k \in 1..c |-> Entry(CHOOSE d \in Range(ds) : d.name = Nth(N, k))]
      /\ m.sum = es /\ m.text = "manifest"
  BY DEF BuildManifest
<1> HIDE DEF m, c, es
<1>4. \A k \in 1..c : \E d \in Range(ds) : d.name = Nth(N, k) /\ es[k] = [name |-> d.name, hash |-> ToolHash(d)]
  <2> SUFFICES ASSUME NEW k \in 1..c
               PROVE  \E d \in Range(ds) : d.name = Nth(N, k) /\ es[k] = [name |-> d.name, hash |-> ToolHash(d)]
    OBVIOUS
  <2>1. \E d \in Range(ds) : d.name = Nth(N, k)
    BY <1>2, GivenIs
  <2>2. es[k] = Entry(CHOOSE d \in Range(ds) : d.name = Nth(N, k))
    BY <1>3
  <2> HIDE DEF N
  <2> QED  BY <2>1, <2>2 DEF Entry
<1> HIDE DEF N
<1>5. Len(es) = c /\ DOMAIN es = 1..c
  <2>1. es \in [1..c -> Range(es)] /\ DOMAIN es = 1..c
    BY <1>3 DEF Range
  <2>2. es \in Seq(Range(es))
    BY <1>2, <2>1, SeqDef
  <2>3. Len(es) \in Nat /\ DOMAIN es = 1..Len(es)
    BY <2>2, LenProperties
  <2> QED  BY <1>2, <2>1, <2>3
<1>6. Parses(m)
  <2>1. ASSUME NEW i \in 2..Len(es)
        PROVE  es[i - 1].name < es[i].name
    <3>1. i - 1 \in 1..c /\ i \in 1..c /\ i - 1 < i
      BY <1>2, <1>5
    <3>2. ASSUME NEW k \in 1..c
          PROVE  es[k].name = Nth(N, k)
      <4>1. PICK d \in Range(ds) : d.name = Nth(N, k) /\ es[k] = [name |-> d.name, hash |-> ToolHash(d)]
        BY <1>4
      <4> QED  BY <4>1
    <3> QED  BY <1>2, <3>1, <3>2
  <2> QED  BY <1>3, <2>1 DEF Parses, es
<1>7. \A e : e \in Range(es) <=> \E d \in Range(ds) : e = [name |-> d.name, hash |-> ToolHash(d)]
  <2>1. ASSUME NEW e \in Range(es)
        PROVE  \E d \in Range(ds) : e = [name |-> d.name, hash |-> ToolHash(d)]
    <3>1. PICK k \in 1..c : e = es[k]
      BY <1>5 DEF Range
    <3> QED  BY <1>4, <3>1
  <2>2. ASSUME NEW d \in Range(ds)
        PROVE  [name |-> d.name, hash |-> ToolHash(d)] \in Range(es)
    <3>1. PICK k \in 1..c : Nth(N, k) = d.name
      BY <1>2, GivenIs DEF N
    <3>2. PICK f \in Range(ds) : f.name = Nth(N, k) /\ es[k] = [name |-> f.name, hash |-> ToolHash(f)]
      BY <1>4
    <3>3. f = d
      BY <1>1, <3>1, <3>2, GivenIs DEF N
    <3>4. es[k] \in Range(es)
      BY <1>5 DEF Range
    <3> QED  BY <3>2, <3>3, <3>4
  <2> QED  BY <2>1, <2>2
<1>8. Pinned(m) = N
  <2>1. \A n : n \in Pinned(m) <=> \E e \in Range(es) : n = e.name
    BY DEF Pinned, es
  <2>2. \A n : n \in N <=> \E d \in Range(ds) : n = d.name
    BY DEF N, Names
  <2>3. \A d : [name |-> d.name, hash |-> ToolHash(d)].name = d.name
    OBVIOUS
  <2>4. ASSUME NEW n \in Pinned(m)
        PROVE  n \in N
    <3>1. PICK e \in Range(es) : n = e.name
      BY <2>1
    <3>2. PICK d \in Range(ds) : e = [name |-> d.name, hash |-> ToolHash(d)]
      BY <1>7
    <3> QED  BY <2>2, <3>1, <3>2
  <2>5. ASSUME NEW n \in N
        PROVE  n \in Pinned(m)
    <3>1. PICK d \in Range(ds) : n = d.name
      BY <2>2
    <3>2. [name |-> d.name, hash |-> ToolHash(d)] \in Range(es)
      BY <1>7
    <3> QED  BY <2>1, <2>3, <3>1, <3>2
  <2> QED  BY <2>4, <2>5
<1>9. ASSUME NEW d \in Range(ds)
      PROVE  HashOf(m, d.name) = ToolHash(d)
  <2>1. d.name \in N
    BY GivenIs DEF N
  <2>2. \A e \in Range(es) : e.name = d.name => e.hash = ToolHash(d)
    <3> SUFFICES ASSUME NEW e \in Range(es), e.name = d.name
                 PROVE  e.hash = ToolHash(d)
      OBVIOUS
    <3>1. PICK f \in Range(ds) : e = [name |-> f.name, hash |-> ToolHash(f)]
      BY <1>7
    <3>2. f.name = d.name
      BY <3>1
    <3>3. f = d
      BY <1>1, <2>1, <3>2, GivenIs DEF N
    <3> QED  BY <3>1, <3>3
  <2>3. \E e \in Range(es) : e.name = d.name
    <3>1. [name |-> d.name, hash |-> ToolHash(d)] \in Range(es)
      BY <1>7
    <3>2. [name |-> d.name, hash |-> ToolHash(d)].name = d.name
      OBVIOUS
    <3> QED  BY <3>1, <3>2, Zenon
  <2>4. HashOf(m, d.name) = (CHOOSE e \in Range(es) : e.name = d.name).hash
    BY DEF HashOf, es
  <2> QED  BY <2>2, <2>3, <2>4
<1>10. \A d \in Range(ds) : Verdict(m, ds, d) = "admitted"
  <2>1. \A d \in Range(ds) : d.name \in N
    BY GivenIs DEF N
  <2> QED  BY <1>1, <1>8, <1>9, <2>1, AdmittedIs
<1>11. VerifyCode(m, ds) = 0
  <2>1. Pinned(m) \subseteq Names(ds)
    BY <1>8 DEF N
  <2> QED  BY <1>6, <1>10, <2>1, RefusesNothing DEF VerifyCode
<1>12. {o.name : o \in Admitted(m, ds)} = N
  <2>1. \A d \in Range(ds) : CanonicalToolObject(d).name = d.name
    BY GivenIs
  <2>2. \A o : o \in Admitted(m, ds) <=> \E d \in Range(ds) : o = CanonicalToolObject(d)
    BY <1>10 DEF Admitted
  <2>3. \A n : n \in N <=> \E d \in Range(ds) : n = d.name
    BY DEF N, Names
  <2>4. \A n : n \in {o.name : o \in Admitted(m, ds)} <=> n \in N
    BY <2>1, <2>2, <2>3
  <2> QED  BY <2>4
<1> QED
  BY <1>6, <1>11, <1>12 DEF m, N

-----------------------------------------------------------------------------
(* What a tool that is served is.                                           *)

LEMMA SnapshotIs ==
  ASSUME NEW d \in Definition
  PROVE  LET o == CanonicalToolObject(d) IN
           /\ o.name = d.name /\ o.schema = d.schema /\ o.cls = d.cls /\ o.untrusted = d.untrusted
           /\ o.elevated = d.elevated /\ o.basis = d.basis /\ o.domainNull = d.domainNull
           /\ o.domain = IF d.domainNull THEN <<>> ELSE CanonicalSet(d.domain)
  BY SnapshotOf

LEMMA TagIsATag ==
  ASSUME NEW d \in Definition
  PROVE  /\ TagOf(CanonicalToolObject(d)) \in Tag
         /\ TagOf(CanonicalToolObject(d)).untrusted = d.untrusted /\ TagOf(CanonicalToolObject(d)).elevated = d.elevated
<1> DEFINE o == CanonicalToolObject(d)
           f == TagOf(o).domain
<1>1. /\ o.cls \in Class /\ o.untrusted \in BOOLEAN /\ o.elevated \in BOOLEAN /\ o.basis \in Basis
      /\ o.untrusted = d.untrusted /\ o.elevated = d.elevated
  BY SnapshotIs DEF Definition
<1>2. (CASE o.domainNull -> "null"
         [] ~o.domainNull /\ o.domain = <<>> -> "empty"
         [] o.domain # <<>> /\ ParsesDomain(o) -> "sinks"
         [] OTHER -> "malformed") \in DomainForm
  BY DEF DomainForm
<1> HIDE DEF o
<1>3. TagOf(o) \in Tag /\ TagOf(o).untrusted = o.untrusted /\ TagOf(o).elevated = o.elevated
  BY <1>1, <1>2 DEF TagOf, Tag
<1> QED
  BY <1>1, <1>3 DEF o

LEMMA SafeSchema ==
  ASSUME NEW s \in InputSchema, Prepares(s)
  PROVE  /\ \A i \in DOMAIN s : s[i].ref = "outside" => IsData(s, i)
         /\ \A h, g \in ParamHeaders(s) : h.header = g.header => h.at = g.at
         /\ \A h \in ParamHeaders(s) : s[h.at].by = "properties" /\ "object" \notin Range(s[h.at].types)
<1>1. \A i \in Walked(s) : s[i].ref # "outside"
  BY DEF Prepares, Inspects
<1>2. \A i \in DOMAIN s : s[i].ref = "outside" => IsData(s, i)
  BY <1>1, UnwalkedIsData
<1>3. HeadersFit(s)
  BY DEF Prepares
<1>4. \A h \in ParamHeaders(s) : h.at \in Annotated(s) /\ h.header = Lower(s[h.at].header)
  BY DEF ParamHeaders
<1>5. \A h, g \in ParamHeaders(s) : h.header = g.header => h.at = g.at
  BY <1>3, <1>4 DEF HeadersFit
<1>6. ASSUME NEW i \in Annotated(s) PROVE s[i].by = "properties" /\ "object" \notin Range(s[i].types)
  <2>1. i \in Static(s) \ {1} /\ PrimitiveType(s[i])
    BY <1>3, <1>6 DEF HeadersFit
  <2>2. PICK w : /\ w = [k \in DOMAIN s |-> k = 1 \/ (s[k].by = "properties" /\ w[s[k].up])]
                 /\ Static(s) = {k \in DOMAIN s : w[k]}
    BY StaticIs
  <2>3. s[i].by = "properties"
    BY <2>1, <2>2
  <2>4. "object" \notin Range(s[i].types)
    BY <2>1 DEF PrimitiveType, Range
  <2> QED
    BY <2>3, <2>4
<1> QED
  BY <1>2, <1>4, <1>5, <1>6

LEMMA NamedLast ==
  ASSUME NEW sink, HostParses(sink)
  PROVE  \E i \in DOMAIN sink.labels : sink.labels[i] = "name"
<1>1. Len(sink.labels) \in DOMAIN sink.labels /\ Last(sink.labels) = "name"
  BY DEF HostParses
<1>2. Last(sink.labels) = sink.labels[Len(sink.labels)]
  BY DEF Last
<1> QED
  BY <1>1, <1>2

LEMMA BoundedDomain ==
  ASSUME NEW d \in Definition, Builds(CanonicalToolObject(d), settings)
  PROVE  \A sink \in Range(CanonicalToolObject(d).domain) :
           /\ sink.scheme = "fs" => sink.path # <<>> /\ ".." \notin Range(sink.path)
           /\ sink.scheme = "host" => \E i \in DOMAIN sink.labels : sink.labels[i] = "name"
<1> DEFINE o == CanonicalToolObject(d)
<1>1. o.domainNull = d.domainNull /\ (d.domainNull => o.domain = <<>>)
  BY SnapshotIs
<1> HIDE DEF o
<1>2. CASE d.domainNull
  <2>1. Range(<<>>) = {}
    BY DEF Range
  <2> QED
    BY <1>1, <1>2, <2>1 DEF o
<1>3. CASE ~d.domainNull
  <2>1. \A sink \in Range(o.domain) : SinkParses(sink)
    BY <1>1, <1>3 DEF Builds, ParsesDomain, o
  <2>2. ASSUME NEW sink, SinkParses(sink)
        PROVE  /\ sink.scheme = "fs" => sink.path # <<>> /\ ".." \notin Range(sink.path)
               /\ sink.scheme = "host" => \E i \in DOMAIN sink.labels : sink.labels[i] = "name"
    <3>1. sink.scheme = "fs" => FsParses(sink)
      BY <2>2 DEF SinkParses
    <3>2. sink.scheme = "host" => HostParses(sink)
      BY <2>2 DEF SinkParses
    <3>3. FsParses(sink) => sink.path # <<>> /\ ".." \notin Range(sink.path)
      <4>1. ".." \in {"", ".", "..", "nul", "backslash"}
        OBVIOUS
      <4> QED
        BY <4>1 DEF FsParses
    <3>4. HostParses(sink) => \E i \in DOMAIN sink.labels : sink.labels[i] = "name"
      BY NamedLast
    <3> QED
      BY <3>1, <3>2, <3>3, <3>4
  <2> QED
    BY <2>1, <2>2 DEF o
<1> QED
  BY <1>2, <1>3, SnapshotIs

(* Where an address is one that a host is bound at, some form of it is among the
   addresses that the host is compared by. *)
LEMMA BoundIsCompared ==
  ASSUME NEW host \in DOMAIN OneForm, NEW a \in Binds(host), NEW y \in AddressesOf(host), y \cap Wildcards = {}
  PROVE  OneForm[a] \notin Wildcards
<1> DEFINE h == OneForm[host]
<1>0. h \in DOMAIN OneForm /\ OneForm[h] = h
  BY AddressAssumption DEF AddressAssumption
<1>1. a \in (IF h \in DOMAIN Resolves THEN Resolves[h] ELSE {h})
  BY DEF Binds
<1>2. y \in (IF h \notin DOMAIN Resolves THEN {{h}}
             ELSE {{OneForm[b] : b \in Resolves[h]} \cup {h}} \cup (IF h \in Flaky THEN {{h}} ELSE {}))
  BY DEF AddressesOf
<1> HIDE DEF h
<1>3. CASE h \notin DOMAIN Resolves
  BY <1>0, <1>1, <1>2, <1>3
<1>4. CASE h \in DOMAIN Resolves /\ y = {OneForm[b] : b \in Resolves[h]} \cup {h}
  BY <1>1, <1>4
<1>5. CASE h \in DOMAIN Resolves /\ h \in Flaky
  <2>1. {OneForm[b] : b \in Resolves[h]} \cap Wildcards = {}
    BY <1>5, AddressAssumption DEF AddressAssumption
  <2> QED
    BY <1>1, <1>5, <2>1
<1> QED
  BY <1>2, <1>3, <1>4, <1>5

LEMMA ComparedBySelf ==
  ASSUME NEW a, NEW x \in AddressesOf(a)
  PROVE  OneForm[a] \in x
  BY DEF AddressesOf

LEMMA OverlapFalse ==
  ASSUME NEW a, NEW b, FALSE \in HostsOverlap(a, b)
  PROVE  \E x \in AddressesOf(a), y \in AddressesOf(b) : ~Meet(x, y)
<1>1. ASSUME NEW v \in HostsOverlap(a, b) PROVE \E x \in AddressesOf(a), y \in AddressesOf(b) : v = Meet(x, y)
  BY <1>1 DEF HostsOverlap
<1>2. PICK v \in HostsOverlap(a, b) : v = FALSE
  OBVIOUS
<1>3. PICK x \in AddressesOf(a), y \in AddressesOf(b) : v = Meet(x, y)
  BY <1>1
<1>4. ~Meet(x, y)
  BY <1>2, <1>3, Zenon
<1> QED
  BY <1>4

LEMMA PlacesApart ==
  ASSUME ServesInv, approvals = "open", Config.host \in DOMAIN OneForm, places.main.address \in Binds(Config.host)
  PROVE  ~Collide(places.main, places.approval)
<1> DEFINE m == places.main
           p == places.approval
<1>1. /\ ~Same(p, m)
      /\ p.port = m.port => FALSE \in HostsOverlap(p.address, Config.host)
  BY DEF ServesInv, PlacesInv
<1> HIDE DEF m, p
<1> SUFFICES ASSUME Collide(m, p) PROVE FALSE
  BY DEF m, p
<1>2. p.port = m.port
  BY DEF Collide
<1>3. OneForm[p.address] # OneForm[m.address]
  BY <1>1, <1>2 DEF Same
<1>4. {OneForm[m.address], OneForm[p.address]} \cap Wildcards # {}
  BY <1>3 DEF Collide
<1>5. PICK x \in AddressesOf(p.address), y \in AddressesOf(Config.host) : ~Meet(x, y)
  BY <1>1, <1>2, OverlapFalse
<1>6. x \cap Wildcards = {} /\ y \cap Wildcards = {}
  BY <1>5 DEF Meet
<1>7. OneForm[p.address] \notin Wildcards
  BY <1>6, ComparedBySelf
<1>8. OneForm[m.address] \notin Wildcards
  BY <1>6, BoundIsCompared DEF m
<1> QED
  BY <1>4, <1>7, <1>8

LEMMA NoFlagRan ==
  ASSUME NEW e \in Env, Captures(e)
  PROVE  \A a \in NodeArgs(e.options) \cup Range(e.execArgv) : ~IsFlag(a)
<1>1. \A t \in Range(NodeOptionsTokens(e.options)) \cup Range(e.execArgv) : ~IsFlag(t)
  BY DEF Captures, ModuleLoadingFlags
<1>2. e.options \in Seq(Unit)
  BY NodeAssumption DEF NodeAssumption
<1> QED
  BY <1>1, <1>2, NoFlagIsMissed

LEMMA SettingsApart ==
  ASSUME NEW e, Captures(e)
  PROVE  /\ Captured(e).approvalAudience # Captured(e).audience
         /\ Captured(e).backend \in Backend
<1>1. /\ ReadsApproval(e) /\ ReadsVerifier(e, e.text.audience)
  BY DEF Captures
<1>2. e.text.audience # "" /\ (e.text.approvalAudience # "" => e.text.approvalAudience # e.text.audience)
  BY <1>1 DEF ReadsApproval, ReadsVerifier, Set
<1>3. Captured(e).approvalAudience = e.text.approvalAudience /\ Captured(e).audience = e.text.audience
  BY DEF Captured
<1>4. Captured(e).backend = IF e.text.approvalBackend = "listener" THEN "configured" ELSE "none"
  BY DEF Captured
<1>5. Captured(e).approvalAudience # Captured(e).audience
  BY <1>2, <1>3
<1>6. Captured(e).backend \in Backend
  BY <1>4 DEF Backend
<1> QED
  BY <1>5, <1>6

-----------------------------------------------------------------------------
(* A tool that is served is one of the edition's definitions, snapshot as it was
   hashed, that the manifest pins. *)
LEMMA ToolIsPinned ==
  ASSUME Registered, defs \in Seq(Definition), NEW t \in tools
  PROVE  \E d \in Definition :
           /\ d \in Range(defs) /\ t = ToolOf(CanonicalToolObject(d)) /\ Builds(CanonicalToolObject(d), settings)
           /\ d.name \in Pinned(gate) /\ ToolHash(CanonicalToolObject(d)) = HashOf(gate, d.name)
<1>1. PICK o \in Admitted(gate, defs) : t = ToolOf(o) /\ Builds(o, settings)
  BY DEF Registered
<1>2. PICK d \in Range(defs) : o = CanonicalToolObject(d) /\ Verdict(gate, defs, d) = "admitted"
  BY DEF Admitted
<1>3. d \in Definition
  BY <1>2 DEF Range
<1>4. d.name \in Pinned(gate) /\ ToolHash(CanonicalToolObject(d)) = HashOf(gate, d.name)
  BY <1>2 DEF Verdict
<1> QED
  BY <1>1, <1>2, <1>3, <1>4

LEMMA ToolIs ==
  ASSUME NEW o
  PROVE  /\ ToolOf(o).snapshot = o /\ ToolOf(o).headers = ParamHeaders(o.schema)
         /\ ToolOf(o).humanOnly = (o.elevated /\ HumanOnly(TagOf(o)))
  BY DEF ToolOf

(* What a served tool promises, whatever the definition it was registered from. *)
LEMMA ToolIsSafe ==
  ASSUME NEW d \in Definition, Builds(CanonicalToolObject(d), settings), settings.backend \in Backend
  PROVE  LET t == ToolOf(CanonicalToolObject(d)) IN
           /\ t.snapshot.name = d.name
           /\ t.snapshot.cls = "arbitrary_exec" => ~settings.execForbidden
           /\ MayServe(TagOf(t.snapshot), settings.backend)
           /\ t.humanOnly => t.snapshot.untrusted /\ t.snapshot.elevated /\ settings.backend = "configured"
           /\ SchemaIsSafe(t) /\ DomainIsABound(t)
<1> DEFINE o == CanonicalToolObject(d)
           t == ToolOf(o)
           b == settings.backend
<1>1. /\ t.snapshot = o /\ t.headers = ParamHeaders(o.schema)
      /\ t.humanOnly = (o.elevated /\ HumanOnly(TagOf(o)))
  BY ToolIs
<1>2. o.name = d.name /\ o.schema = d.schema /\ o.untrusted = d.untrusted /\ o.elevated = d.elevated
  BY SnapshotIs
<1>3. /\ TagOf(o) \in Tag /\ TagOf(o).untrusted = d.untrusted /\ TagOf(o).elevated = d.elevated
  BY TagIsATag
<1>4. /\ o.cls = "arbitrary_exec" => ~settings.execForbidden
      /\ Unmet(TagOf(o), b) = {} /\ Prepares(o.schema)
  BY DEF Builds
<1>5. d.schema \in InputSchema /\ d.elevated \in BOOLEAN
  BY DEF Definition
<1>6. DomainIsABound(t)
  <2>1. \A sink \in Range(o.domain) :
           /\ sink.scheme = "fs" => sink.path # <<>> /\ ".." \notin Range(sink.path)
           /\ sink.scheme = "host" => \E i \in DOMAIN sink.labels : sink.labels[i] = "name"
    BY BoundedDomain
  <2> HIDE DEF o, t
  <2> QED
    BY <2>1, <1>1 DEF DomainIsABound
<1> HIDE DEF o, t, b
<1>7. /\ MayServe(TagOf(o), b)
      /\ HumanOnly(TagOf(o)) => TagOf(o).untrusted
  BY <1>3, <1>4, LadderIsTheStandard DEF ObligationIsTheStandard, b
<1>8. SchemaIsSafe(t)
  BY <1>1, <1>2, <1>4, <1>5, SafeSchema DEF SchemaIsSafe
<1>9. t.humanOnly => t.snapshot.untrusted /\ t.snapshot.elevated /\ b = "configured"
  BY <1>1, <1>2, <1>3, <1>7 DEF MayServe
<1> QED
  BY <1>1, <1>2, <1>4, <1>6, <1>7, <1>8, <1>9 DEF o, t, b

(* With nothing refused, the tools are the manifest's. *)
LEMMA NothingRefused ==
  ASSUME Registered, defs \in Seq(Definition), refused = {}
  PROVE  {t.snapshot.name : t \in tools} = Pinned(gate)
<1>1. \A t \in tools : t.snapshot.name \in Pinned(gate)
  <2> TAKE t \in tools
  <2>1. PICK d \in Definition : t = ToolOf(CanonicalToolObject(d)) /\ d.name \in Pinned(gate)
    BY ToolIsPinned
  <2>2. t.snapshot = CanonicalToolObject(d)
    BY <2>1, ToolIs
  <2> QED
    BY <2>1, <2>2, SnapshotIs
<1>2. ASSUME NEW n \in Pinned(gate) PROVE \E t \in tools : t.snapshot.name = n
  <2>1. n \in Names(defs)
    <3>1. n \notin Names(defs) => [name |-> n, reason |-> "removed"] \in Refused(gate, defs)
      BY DEF Refused
    <3> QED
      BY <3>1 DEF Registered
  <2>2. PICK d \in Range(defs) : d.name = n
    BY <2>1 DEF Names
  <2>3. Verdict(gate, defs, d) = "admitted"
    <3>1. Verdict(gate, defs, d) # "admitted" =>
            [name |-> d.name, reason |-> Verdict(gate, defs, d)] \in Refused(gate, defs)
      BY DEF Refused
    <3> QED
      BY <3>1 DEF Registered
  <2>4. CanonicalToolObject(d) \in Admitted(gate, defs)
    BY <2>3 DEF Admitted
  <2>5. ToolOf(CanonicalToolObject(d)) \in tools
    BY <2>4 DEF Registered
  <2>6. d \in Definition
    BY DEF Range
  <2>7. ToolOf(CanonicalToolObject(d)).snapshot = CanonicalToolObject(d)
    BY ToolIs
  <2> QED
    BY <2>2, <2>5, <2>6, <2>7, SnapshotIs
<1> QED
  BY <1>1, <1>2

LEMMA CapturedIs ==
  ASSUME NEW e
  PROVE  Captured(e).manifest = e.manifest /\ Captured(e).own = e.own
  BY DEF Captured

LEMMA ServesApproved == ServesInv => ServedIsApproved
<1> SUFFICES ASSUME ServesInv PROVE ServedIsApproved
  OBVIOUS
<1>1. ASSUME stage \notin {"capture", "refused"}
      PROVE  \A a \in NodeArgs(operator.options) \cup Range(operator.execArgv) : ~IsFlag(a)
  <2>1. operator \in Env /\ Captures(operator)
    BY <1>1 DEF ServesInv, SettingsInv, HoldsInv, NodeTypes, Stage
  <2> QED
    BY <2>1, NoFlagRan
<1>2. ASSUME server = "open"
      PROVE  LET m == Disk[operator.manifest]
                 s == Captured(operator)
             IN
               /\ settings = s /\ gate = m /\ Parses(m)
               /\ \A t \in tools :
                    /\ t.snapshot.name \in Pinned(m) /\ ToolHash(t.snapshot) = HashOf(m, t.snapshot.name)
                    /\ t.snapshot.cls = "arbitrary_exec" => ~s.execForbidden
                    /\ MayServe(TagOf(t.snapshot), s.backend)
                    /\ t.humanOnly =>
                         t.snapshot.untrusted /\ t.snapshot.elevated /\ approvals # "none"
                    /\ SchemaIsSafe(t) /\ DomainIsABound(t)
               /\ s.strict => {t.snapshot.name : t \in tools} = Pinned(m)
               /\ s.stored =>
                    /\ Files[s.log].id # Files[s.anchor].id
                    /\ {Files[s.log].id, Files[s.anchor].id} \cap {Files[p].id : p \in {operator.manifest} \cup s.keyFiles} = {}
               /\ {r.reason : r \in refused} \subseteq rows
               /\ ApprovalsApart
  <2>1. stage \in {"serving", "closing"}
    BY <1>2 DEF ServesInv, HoldsInv, NodeTypes, ServerInv, Stage, PastCapture, PastRead, PastOpen, PastParse,
         PastImport, PastAssemble, PastConfigure, PastRows, PastVerifier, PastListen
  <2>2. /\ stage \in PastListen /\ stage \in PastRows /\ stage \in PastConfigure /\ stage \in PastAssemble
        /\ stage \in PastImport /\ stage \in PastParse /\ stage \in PastOpen /\ stage \in PastRead
        /\ stage \in PastCapture
    BY <2>1 DEF PastCapture, PastRead, PastOpen, PastParse, PastImport, PastAssemble, PastConfigure, PastRows,
         PastVerifier, PastListen
  <2>3. operator \in Env /\ Captures(operator) /\ settings = Captured(operator)
    BY <2>2 DEF ServesInv, SettingsInv
  <2>4. settings.manifest = operator.manifest /\ settings.own = operator.own
    BY <2>3, CapturedIs
  <2>5. gate = Disk[operator.manifest] /\ Parses(gate) /\ StoreOpens
    BY <2>2, <2>4 DEF ServesInv, FilesInv
  <2>6. /\ edition \in Editions /\ Registered /\ Configures
        /\ settings.strict => refused = {}
        /\ Reasons \subseteq rows
    BY <2>2 DEF ServesInv, EditionInv
  <2>7. defs \in Seq(Definition) /\ Config.host \in DOMAIN OneForm
    BY <2>3, <2>4, <2>6, NodeAssumption DEF NodeAssumption, defs, Config
  <2>8. settings.approvalAudience # settings.audience /\ settings.backend \in Backend
    BY <2>3, SettingsApart
  <2>9. settings.backend = "configured" => approvals # "none"
    BY <1>2, <2>1 DEF ServesInv, HoldsInv, ApprovalsInv
  <2>10. ASSUME NEW t \in tools
         PROVE  /\ t.snapshot.name \in Pinned(gate) /\ ToolHash(t.snapshot) = HashOf(gate, t.snapshot.name)
                /\ t.snapshot.cls = "arbitrary_exec" => ~settings.execForbidden
                /\ MayServe(TagOf(t.snapshot), settings.backend)
                /\ t.humanOnly =>
                     t.snapshot.untrusted /\ t.snapshot.elevated /\ approvals # "none"
                /\ SchemaIsSafe(t) /\ DomainIsABound(t)
    <3>1. PICK d \in Definition :
            /\ t = ToolOf(CanonicalToolObject(d)) /\ Builds(CanonicalToolObject(d), settings)
            /\ d.name \in Pinned(gate) /\ ToolHash(CanonicalToolObject(d)) = HashOf(gate, d.name)
      BY <2>6, <2>7, ToolIsPinned
    <3>2. /\ t.snapshot.name = d.name
          /\ t.snapshot.cls = "arbitrary_exec" => ~settings.execForbidden
          /\ MayServe(TagOf(t.snapshot), settings.backend)
          /\ t.humanOnly => t.snapshot.untrusted /\ t.snapshot.elevated /\ settings.backend = "configured"
          /\ SchemaIsSafe(t) /\ DomainIsABound(t)
      BY <2>8, <3>1, ToolIsSafe
    <3>3. t.snapshot = CanonicalToolObject(d)
      BY <3>1, ToolIs
    <3> QED
      BY <2>9, <3>1, <3>2, <3>3
  <2>11. settings.strict => {t.snapshot.name : t \in tools} = Pinned(gate)
    BY <2>6, <2>7, NothingRefused
  <2>12. settings.stored =>
           /\ Files[settings.log].id # Files[settings.anchor].id
           /\ {Files[settings.log].id, Files[settings.anchor].id}
                \cap {Files[p].id : p \in {operator.manifest} \cup settings.keyFiles} = {}
    BY <2>4, <2>5 DEF StoreOpens, StoreFilesApart
  <2>13. ApprovalsApart
    <3> SUFFICES ASSUME approvals = "open"
                 PROVE  /\ ~Collide(places.main, places.approval)
                        /\ settings.approvalAudience # settings.audience
                        /\ settings.wait > 0 => settings.maxWaiting * 2 <= MaxInFlight
      BY DEF ApprovalsApart
    <3>1. places.main.address \in Binds(Config.host) /\ settings.backend = "configured"
      BY <2>2 DEF ServesInv, PlacesInv
    <3>2. settings.wait > 0 => settings.maxWaiting * 2 <= MaxInFlight
      BY <2>6, <3>1 DEF Configures
    <3> QED
      BY <2>7, <2>8, <3>1, <3>2, PlacesApart
  <2>14. {r.reason : r \in refused} \subseteq rows
    BY <2>6 DEF Reasons
  <2> QED
    BY <2>3, <2>5, <2>10, <2>11, <2>12, <2>13, <2>14
<1> QED
  BY <1>1, <1>2 DEF ServedIsApproved

(* A node that is serving serves what its operator approved and configured, and no flag
   that Node read had a module run before it (settings.ts:96-123, cli.ts:84-127,
   server.ts:261-280, audit/store.ts:126-132, registry.ts). *)
THEOREM ServesWhatIsApproved == NodeSpec => []ServedIsApproved
  BY ServesApproved, ServesAlways, PTL

-----------------------------------------------------------------------------
(* The operator's command, where the gate is about to judge.                *)

LEMMA CommandAgrees == ServesInv => OperatorSeesWhatTheNodeDoes
<1> SUFFICES ASSUME ServesInv, stage = "assemble"
             PROVE  OperatorSeesWhatTheNodeDoes
  BY DEF OperatorSeesWhatTheNodeDoes
<1>1. Parses(gate)
  BY DEF ServesInv, FilesInv, PastParse, PastImport
<1>2. defs \in Seq(Definition)
  BY NodeAssumption DEF ServesInv, EditionInv, PastImport, defs
<1>3. DiffCode(gate, defs) = VerifyCode(gate, defs)
  BY <1>1, <1>2, DiffIsVerify
<1>4. ASSUME NEW n \in Names(defs) \cup Pinned(gate)
      PROVE  Cardinality({o \in Admitted(gate, defs) : o.name = n})
             + Cardinality({x \in Refused(gate, defs) : x.name = n}) = 1
  BY <1>2, EachNameOnce DEF Of
<1>5. ApproveWrites(gate, defs) =>
        LET m == BuildManifest(defs) IN
          Parses(m) /\ VerifyCode(m, defs) = 0 /\ {o.name : o \in Admitted(m, defs)} = Names(defs)
  BY <1>2, ApprovedIsAdmitted
<1>6. \A o \in Admitted(gate, defs) : Ordered(o.domain)
  BY <1>2, GivenIs DEF Admitted
<1> QED
  BY <1>3, <1>4, <1>5, <1>6 DEF OperatorSeesWhatTheNodeDoes

(* Whatever a manifest pins and whatever an edition defines, the operator's command
   and the node's gate agree: a clean diff is a clean verify, every name is admitted
   once or refused once, and what approve would write now is admitted whole - for a
   description or a domain of any length, normalizing twice is normalizing once
   (cli.ts:104-137, gate.ts:107-142, canonical.ts:182-223). *)
THEOREM CommandSeesTheGate == NodeSpec => []OperatorSeesWhatTheNodeDoes
  BY ServesAlways, CommandAgrees, PTL

=============================================================================
