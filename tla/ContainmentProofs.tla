--------------------------- MODULE ContainmentProofs ---------------------------
(***************************************************************************)
(* The cage, for any file system, roots, links, openings and changes by    *)
(* other processes.                                                        *)
(*                                                                         *)
(* What a write outside the roots takes (WritesOnlyThroughADirectory)      *)
(* rests on one fact about resolveReal, ResolvesThroughItsDirectory: where *)
(* the last name is no link, a path leads to that name in the place its    *)
(* directory leads to, which is the place open(2) acts on.                 *)
(***************************************************************************)
EXTENDS Containment, SequenceTheorems, WellFoundedInduction, TLAPS

-----------------------------------------------------------------------------
(* Paths, and a name appended to one. *)
LEMMA PathAppend ==
  ASSUME NEW p \in Path, NEW n \in Name
  PROVE  /\ Append(p, n) \in Path /\ Append(p, n) # <<>> /\ Len(Append(p, n)) = Len(p) + 1
         /\ \A i \in 1 .. Len(p) : Append(p, n)[i] = p[i]
         /\ Append(p, n)[Len(p) + 1] = n
BY AppendProperties DEF Path

LEMMA SubPath ==
  ASSUME NEW p \in Path, NEW i \in 1 .. Len(p) + 1, NEW k \in 0 .. Len(p)
  PROVE  /\ SubSeq(p, i, k) \in Path
         /\ Len(SubSeq(p, i, k)) = IF i <= k THEN k - i + 1 ELSE 0
         /\ \A j \in 1 .. k - i + 1 : SubSeq(p, i, k)[j] = p[i + j - 1]
<1>1. Len(p) \in Nat /\ \A j \in 1 .. Len(p) : p[j] \in Name
  BY LenProperties DEF Path
<1>2. i \in Int /\ k \in Int /\ \A j \in i .. k : p[j] \in Name
  BY <1>1
<1>3. /\ SubSeq(p, i, k) \in Seq(Name)
      /\ Len(SubSeq(p, i, k)) = IF i <= k THEN k - i + 1 ELSE 0
      /\ \A j \in 1 .. k - i + 1 : SubSeq(p, i, k)[j] = p[i + j - 1]
  BY <1>2, SubSeqProperties
<1> QED  BY <1>3 DEF Path

LEMMA SamePath ==
  ASSUME NEW p \in Path, NEW q \in Path, Len(p) = Len(q), \A i \in 1 .. Len(p) : p[i] = q[i]
  PROVE  p = q
BY SeqEqual DEF Path

LEMMA FrontIs ==
  ASSUME NEW p \in Path, p # <<>>
  PROVE  /\ Front(p) \in Path /\ Last(p) \in Name /\ Len(Front(p)) = Len(p) - 1
         /\ \A i \in 1 .. Len(p) - 1 : Front(p)[i] = p[i]
         /\ p = Append(Front(p), Last(p))
<1>1. Len(p) \in Nat \ {0} /\ \A j \in 1 .. Len(p) : p[j] \in Name
  BY LenProperties, EmptySeq DEF Path
<1>2. /\ Front(p) \in Path /\ Len(Front(p)) = Len(p) - 1
      /\ \A i \in 1 .. Len(p) - 1 : Front(p)[i] = p[i]
  <2>1. 1 \in 1 .. Len(p) + 1 /\ Len(p) - 1 \in 0 .. Len(p)
    BY <1>1
  <2>2. /\ SubSeq(p, 1, Len(p) - 1) \in Path
        /\ Len(SubSeq(p, 1, Len(p) - 1)) = IF 1 <= Len(p) - 1 THEN Len(p) - 1 - 1 + 1 ELSE 0
        /\ \A j \in 1 .. Len(p) - 1 - 1 + 1 : SubSeq(p, 1, Len(p) - 1)[j] = p[1 + j - 1]
    BY <2>1, SubPath
  <2> QED  BY <1>1, <2>2 DEF Front
<1>3. Last(p) = p[Len(p)] /\ Last(p) \in Name
  BY <1>1 DEF Last
<1>4. p = Append(Front(p), Last(p))
  <2>1. /\ Append(Front(p), Last(p)) \in Path /\ Len(Append(Front(p), Last(p))) = Len(p)
        /\ \A i \in 1 .. Len(p) - 1 : Append(Front(p), Last(p))[i] = p[i]
        /\ Append(Front(p), Last(p))[Len(p)] = p[Len(p)]
    BY <1>1, <1>2, <1>3, PathAppend
  <2>2. \A i \in 1 .. Len(p) : Append(Front(p), Last(p))[i] = p[i]
    BY <1>1, <2>1
  <2> QED  BY <2>1, <2>2, SamePath
<1> QED  BY <1>2, <1>3, <1>4

LEMMA FrontOfAppend ==
  ASSUME NEW p \in Path, NEW n \in Name
  PROVE  Front(Append(p, n)) = p /\ Last(Append(p, n)) = n
<1>1. Len(p) \in Nat
  BY LenProperties DEF Path
<1> DEFINE a == Append(p, n)
<1>2. a \in Path /\ a # <<>> /\ Len(a) = Len(p) + 1 /\ a[Len(p) + 1] = n
      /\ \A i \in 1 .. Len(p) : a[i] = p[i]
  BY PathAppend
<1> HIDE DEF a
<1>3. Front(a) \in Path /\ Len(Front(a)) = Len(p) /\ \A i \in 1 .. Len(p) : Front(a)[i] = p[i]
  BY <1>1, <1>2, FrontIs
<1>4. Front(a) = p
  BY <1>3, SamePath
<1> QED  BY <1>1, <1>2, <1>4 DEF Last, a

(* What stands before the appended name, and what after any place in the path. *)
LEMMA PartsOfAppend ==
  ASSUME NEW p \in Path, NEW n \in Name
  PROVE  /\ \A i \in 0 .. Len(p) : SubSeq(Append(p, n), 1, i) = SubSeq(p, 1, i)
         /\ SubSeq(Append(p, n), 1, Len(p) + 1) = Append(p, n)
         /\ \A i \in 0 .. Len(p) :
              SubSeq(Append(p, n), i + 1, Len(p) + 1) = Append(SubSeq(p, i + 1, Len(p)), n)
<1>1. Len(p) \in Nat
  BY LenProperties DEF Path
<1> DEFINE a == Append(p, n)
<1>2. a \in Path /\ Len(a) = Len(p) + 1 /\ a[Len(p) + 1] = n /\ \A i \in 1 .. Len(p) : a[i] = p[i]
  BY PathAppend
<1> HIDE DEF a
<1>3. ASSUME NEW i \in 0 .. Len(p) PROVE SubSeq(a, 1, i) = SubSeq(p, 1, i)
  <2>1. i \in 0 .. Len(a) /\ 1 \in 1 .. Len(p) + 1 /\ 1 \in 1 .. Len(a) + 1
    BY <1>1, <1>2
  <2>2. /\ SubSeq(a, 1, i) \in Path
        /\ Len(SubSeq(a, 1, i)) = IF 1 <= i THEN i - 1 + 1 ELSE 0
        /\ \A j \in 1 .. i - 1 + 1 : SubSeq(a, 1, i)[j] = a[1 + j - 1]
    BY <1>2, <2>1, SubPath
  <2>3. /\ SubSeq(p, 1, i) \in Path
        /\ Len(SubSeq(p, 1, i)) = IF 1 <= i THEN i - 1 + 1 ELSE 0
        /\ \A j \in 1 .. i - 1 + 1 : SubSeq(p, 1, i)[j] = p[1 + j - 1]
    BY <2>1, SubPath
  <2>4. /\ Len(SubSeq(a, 1, i)) = Len(SubSeq(p, 1, i))
        /\ \A j \in 1 .. Len(SubSeq(a, 1, i)) : SubSeq(a, 1, i)[j] = SubSeq(p, 1, i)[j]
    BY <1>1, <1>2, <2>2, <2>3
  <2> QED  BY <2>2, <2>3, <2>4, SamePath
<1>4. SubSeq(a, 1, Len(p) + 1) = a
  BY <1>2, SubSeqFull DEF Path
<1>5. ASSUME NEW i \in 0 .. Len(p) PROVE SubSeq(a, i + 1, Len(p) + 1) = Append(SubSeq(p, i + 1, Len(p)), n)
  <2>1. i + 1 \in 1 .. Len(a) + 1 /\ Len(p) + 1 \in 0 .. Len(a) /\ i + 1 \in 1 .. Len(p) + 1 /\ Len(p) \in 0 .. Len(p)
    BY <1>1, <1>2
  <2> DEFINE s == SubSeq(a, i + 1, Len(p) + 1)
             t == SubSeq(p, i + 1, Len(p))
  <2>2. s \in Path /\ Len(s) = Len(p) - i + 1 /\ \A j \in 1 .. Len(p) - i + 1 : s[j] = a[i + j]
    <3>1. /\ s \in Path
          /\ Len(s) = IF i + 1 <= Len(p) + 1 THEN Len(p) + 1 - (i + 1) + 1 ELSE 0
          /\ \A j \in 1 .. Len(p) + 1 - (i + 1) + 1 : s[j] = a[i + 1 + j - 1]
      BY <1>2, <2>1, SubPath
    <3> HIDE DEF s
    <3> QED  BY <1>1, <3>1
  <2>3. t \in Path /\ Len(t) = Len(p) - i /\ \A j \in 1 .. Len(p) - i : t[j] = p[i + j]
    <3>1. /\ t \in Path
          /\ Len(t) = IF i + 1 <= Len(p) THEN Len(p) - (i + 1) + 1 ELSE 0
          /\ \A j \in 1 .. Len(p) - (i + 1) + 1 : t[j] = p[i + 1 + j - 1]
      BY <2>1, SubPath
    <3> HIDE DEF t
    <3> QED  BY <1>1, <3>1
  <2> HIDE DEF s, t
  <2>4. /\ Append(t, n) \in Path /\ Len(Append(t, n)) = Len(p) - i + 1
        /\ \A j \in 1 .. Len(p) - i : Append(t, n)[j] = t[j]
        /\ Append(t, n)[Len(p) - i + 1] = n
    BY <2>3, PathAppend
  <2>5. ASSUME NEW j \in 1 .. Len(p) - i + 1 PROVE s[j] = Append(t, n)[j]
    <3>1. CASE j = Len(p) - i + 1
      BY <3>1, <1>1, <1>2, <2>2, <2>4
    <3>2. CASE j # Len(p) - i + 1
      <4>1. j \in 1 .. Len(p) - i /\ i + j \in 1 .. Len(p)
        BY <1>1, <3>2
      <4> QED  BY <4>1, <1>2, <2>2, <2>3, <2>4
    <3> QED  BY <3>1, <3>2
  <2>6. s = Append(t, n)
    BY <2>2, <2>4, <2>5, SamePath
  <2> QED  BY <2>6 DEF s, t
<1> QED  BY <1>3, <1>4, <1>5 DEF a

LEMMA ConcatAppend ==
  ASSUME NEW p \in Path, NEW q \in Path, NEW n \in Name
  PROVE  p \o Append(q, n) = Append(p \o q, n) /\ p \o q \in Path
<1>1. <<n>> \in Seq(Name)
  OBVIOUS
<1>2. Append(q, n) = q \o <<n>> /\ p \o q \in Path
  BY AppendIsConcat, ConcatProperties DEF Path
<1>3. Append(p \o q, n) = (p \o q) \o <<n>>
  BY <1>2, AppendIsConcat DEF Path
<1>4. (p \o q) \o <<n>> = p \o (q \o <<n>>)
  BY <1>1, ConcatAssociative DEF Path
<1> QED  BY <1>2, <1>3, <1>4

-----------------------------------------------------------------------------
(* Following links. *)
IsTree(t) == t \in [Place -> Nodes]

LEMMA NodeIs == \A n \in Nodes : n.type \in NodeType /\ n.to \in Path
<1>1. <<>> \in Path
  BY DEF Path
<1>2. \A t \in NodeType : Node(t).type \in NodeType /\ Node(t).to \in Path
  BY <1>1 DEF Node
<1>3. \A to \in Target : LinkTo(to).type \in NodeType /\ LinkTo(to).to \in Path
  BY TreeAssumption DEF LinkTo, NodeType
<1> QED  BY <1>2, <1>3 DEF Nodes

(* A link is at a place of the tree, and leads along a path. *)
LEMMA LinkIs ==
  ASSUME NEW t, IsTree(t), NEW p, TypeAt(t, p) = "link"
  PROVE  t[p].to \in Path
<1>1. p \in Place /\ DOMAIN t = Place
  BY DEF TypeAt, IsTree
<1> QED  BY <1>1, NodeIs DEF IsTree

LEMMA LeastOf ==
  ASSUME NEW S \in SUBSET Nat, S # {}
  PROVE  \E i \in S : \A k \in S : i <= k
<1> DEFINE R == {ss \in Nat \X Nat : ss[1] < ss[2]}
<1>1. IsWellFoundedOn(R, Nat)
  BY NatLessThanWellFounded DEF OpToRel
<1>2. PICK i \in S : \A k \in S : <<k, i>> \notin R
  <2> HIDE DEF R
  <2> QED  BY <1>1, WFMin
<1>3. \A k \in S : ~(k < i)
  BY <1>2
<1>4. S \subseteq Nat
  OBVIOUS
<1> QED  BY <1>3, <1>4

LEMMA LinksOfAppend ==
  ASSUME NEW t, NEW p \in Path, NEW n \in Name
  PROVE  /\ LinksOn(t, p) \subseteq 1 .. Len(p)
         /\ LinksOn(t, Append(p, n)) =
              LinksOn(t, p) \cup IF TypeAt(t, Append(p, n)) = "link" THEN {Len(p) + 1} ELSE {}
<1>1. Len(p) \in Nat /\ Len(Append(p, n)) = Len(p) + 1
  BY LenProperties, PathAppend DEF Path
<1>2. 1 .. Len(p) + 1 = (1 .. Len(p)) \cup {Len(p) + 1}
  BY <1>1
<1>3. \A i \in 1 .. Len(p) : SubSeq(Append(p, n), 1, i) = SubSeq(p, 1, i)
  BY <1>1, PartsOfAppend
<1>4. SubSeq(Append(p, n), 1, Len(p) + 1) = Append(p, n)
  BY PartsOfAppend
<1> QED  BY <1>1, <1>2, <1>3, <1>4 DEF LinksOn

LEMMA HopIs ==
  ASSUME NEW t, IsTree(t), NEW p \in Path, LinksOn(t, p) # {}
  PROVE  \E i \in LinksOn(t, p) :
           /\ \A k \in LinksOn(t, p) : i <= k
           /\ Hop(t, p) = t[SubSeq(p, 1, i)].to \o SubSeq(p, i + 1, Len(p))
           /\ Hop(t, p) \in Path
<1>1. Len(p) \in Nat
  BY LenProperties DEF Path
<1>2. LinksOn(t, p) \subseteq 1 .. Len(p)
  BY DEF LinksOn
<1> DEFINE i == CHOOSE n \in LinksOn(t, p) : \A m \in LinksOn(t, p) : n <= m
<1>3. i \in LinksOn(t, p) /\ \A k \in LinksOn(t, p) : i <= k
  <2>1. LinksOn(t, p) \in SUBSET Nat
    BY <1>1, <1>2
  <2> QED  BY <2>1, LeastOf
<1>4. Hop(t, p) = t[SubSeq(p, 1, i)].to \o SubSeq(p, i + 1, Len(p))
  BY DEF Hop
<1> HIDE DEF i
<1>5. t[SubSeq(p, 1, i)].to \in Path
  BY <1>3, LinkIs DEF LinksOn
<1>6. SubSeq(p, i + 1, Len(p)) \in Path
  <2>1. i + 1 \in 1 .. Len(p) + 1 /\ Len(p) \in 0 .. Len(p)
    BY <1>1, <1>2, <1>3
  <2> QED  BY <2>1, SubPath
<1>7. Hop(t, p) \in Path
  BY <1>4, <1>5, <1>6, ConcatProperties DEF Path
<1> QED  BY <1>3, <1>4, <1>7

LEMMA HopPath ==
  ASSUME NEW t, IsTree(t), NEW p \in Path
  PROVE  Hop(t, p) \in Path /\ (LinksOn(t, p) = {} => Hop(t, p) = p)
BY HopIs DEF Hop

LEMMA FollowPath ==
  ASSUME NEW t, IsTree(t), NEW p \in Path
  PROVE  Follow(t, p) \in Path
BY HopPath DEF Follow

(* A name appended stays behind: the links before it are followed first. *)
LEMMA HopOfAppend ==
  ASSUME NEW t, IsTree(t), NEW p \in Path, NEW n \in Name,
         LinksOn(t, p) # {} \/ TypeAt(t, Append(p, n)) # "link"
  PROVE  Hop(t, Append(p, n)) = Append(Hop(t, p), n)
<1>1. Len(p) \in Nat /\ Append(p, n) \in Path /\ Len(Append(p, n)) = Len(p) + 1
  BY LenProperties, PathAppend DEF Path
<1>2. CASE LinksOn(t, p) = {}
  <2>1. LinksOn(t, Append(p, n)) = {}
    BY <1>2, LinksOfAppend
  <2> QED  BY <1>2, <2>1 DEF Hop
<1>3. CASE LinksOn(t, p) # {}
  <2>1. PICK i \in LinksOn(t, p) :
          /\ \A k \in LinksOn(t, p) : i <= k
          /\ Hop(t, p) = t[SubSeq(p, 1, i)].to \o SubSeq(p, i + 1, Len(p))
    BY <1>3, HopIs
  <2>2. LinksOn(t, Append(p, n)) # {}
    BY <2>1, LinksOfAppend
  <2>3. PICK j \in LinksOn(t, Append(p, n)) :
          /\ \A k \in LinksOn(t, Append(p, n)) : j <= k
          /\ Hop(t, Append(p, n)) =
               t[SubSeq(Append(p, n), 1, j)].to \o SubSeq(Append(p, n), j + 1, Len(Append(p, n)))
    BY <1>1, <2>2, HopIs
  <2>4. i \in 1 .. Len(p)
    BY DEF LinksOn
  <2>5. j = i
    <3>1. LinksOn(t, p) \subseteq LinksOn(t, Append(p, n))
          /\ LinksOn(t, Append(p, n)) \subseteq LinksOn(t, p) \cup {Len(p) + 1}
      BY LinksOfAppend
    <3>2. j <= i /\ (j \in LinksOn(t, p) \/ j = Len(p) + 1)
      BY <2>3, <3>1
    <3>3. j \in LinksOn(t, p)
      BY <1>1, <2>4, <3>2
    <3>4. j \in 1 .. Len(p)
      BY <3>3 DEF LinksOn
    <3> QED  BY <1>1, <2>1, <2>4, <3>2, <3>3, <3>4
  <2>6. /\ SubSeq(Append(p, n), 1, i) = SubSeq(p, 1, i)
        /\ SubSeq(Append(p, n), i + 1, Len(p) + 1) = Append(SubSeq(p, i + 1, Len(p)), n)
    <3>1. i \in 0 .. Len(p)
      BY <1>1, <2>4
    <3> QED  BY <3>1, PartsOfAppend
  <2>7. t[SubSeq(p, 1, i)].to \in Path /\ SubSeq(p, i + 1, Len(p)) \in Path
    <3>1. i + 1 \in 1 .. Len(p) + 1 /\ Len(p) \in 0 .. Len(p)
      BY <1>1, <2>4
    <3>2. TypeAt(t, SubSeq(p, 1, i)) = "link"
      BY DEF LinksOn
    <3> QED  BY <3>1, <3>2, SubPath, LinkIs
  <2>8. t[SubSeq(p, 1, i)].to \o Append(SubSeq(p, i + 1, Len(p)), n)
          = Append(t[SubSeq(p, 1, i)].to \o SubSeq(p, i + 1, Len(p)), n)
    BY <2>7, ConcatAppend
  <2> QED  BY <1>1, <2>1, <2>3, <2>5, <2>6, <2>8
<1> QED  BY <1>2, <1>3

LEMMA FollowOfAppend ==
  ASSUME NEW t, IsTree(t), NEW p \in Path, NEW n \in Name,
         Loops(t, p) \/ TypeAt(t, Append(Follow(t, p), n)) # "link"
  PROVE  /\ Follow(t, Append(p, n)) = Append(Follow(t, p), n)
         /\ Loops(t, Append(p, n)) <=> Loops(t, p)
<1> DEFINE p1 == Hop(t, p)  p2 == Hop(t, p1)  p3 == Hop(t, p2)
           Fits(q) == LinksOn(t, q) # {} \/ TypeAt(t, Append(q, n)) # "link"
<1>1. p1 \in Path /\ (LinksOn(t, p) = {} => p1 = p)
  BY HopPath
<1>2. p2 \in Path /\ (LinksOn(t, p1) = {} => p2 = p1)
  BY <1>1, HopPath
<1>3. p3 \in Path /\ (LinksOn(t, p2) = {} => p3 = p2)
  BY <1>2, HopPath
<1>4. Follow(t, p) = p3
  BY DEF Follow
<1> HIDE DEF p1, p2, p3
<1>5. Fits(p3)
  BY <1>4 DEF Loops
<1>6. Fits(p2)
  BY <1>3, <1>5
<1>7. Fits(p1)
  BY <1>2, <1>6
<1>8. Fits(p)
  BY <1>1, <1>7
<1>9. Hop(t, Append(p, n)) = Append(p1, n)
  BY <1>8, HopOfAppend DEF p1
<1>10. Hop(t, Append(p1, n)) = Append(p2, n)
  BY <1>1, <1>7, HopOfAppend DEF p2
<1>11. Hop(t, Append(p2, n)) = Append(p3, n)
  BY <1>2, <1>6, HopOfAppend DEF p3
<1>12. Follow(t, Append(p, n)) = Append(p3, n)
  BY <1>9, <1>10, <1>11 DEF Follow
<1>13. LinksOn(t, Append(p3, n)) = {} <=> LinksOn(t, p3) = {}
  BY <1>3, <1>5, LinksOfAppend
<1> QED  BY <1>4, <1>12, <1>13 DEF Loops

-----------------------------------------------------------------------------
(* resolveReal. *)
Judged(t, p) == {i \in 0 .. Len(p) : Exists(t, SubSeq(p, 1, i)) \/ Loops(t, SubSeq(p, 1, i))}
Greatest(S) == CHOOSE n \in S : \A m \in S : m <= n
Resolved(t, p, i) ==
  IF Loops(t, SubSeq(p, 1, i)) THEN <<"unresolvable">>
  ELSE Follow(t, SubSeq(p, 1, i)) \o SubSeq(p, i + 1, Len(p))

LEMMA ResolveRealIs ==
  ASSUME NEW t, NEW p
  PROVE  ResolveReal(t, p) = Resolved(t, p, Greatest(Judged(t, p)))
BY DEF ResolveReal, Resolved, Greatest, Judged

(* The root of the file system exists, so something of each path is judged. *)
LEMMA GreatestJudged ==
  ASSUME NEW t, NEW p \in Path
  PROVE  /\ Greatest(Judged(t, p)) \in Judged(t, p)
         /\ Judged(t, p) \subseteq 0 .. Len(p)
         /\ \A m \in Judged(t, p) : m <= Greatest(Judged(t, p))
         /\ Len(p) \in Judged(t, p) => Greatest(Judged(t, p)) = Len(p)
<1> DEFINE J == Judged(t, p)
<1>1. Len(p) \in Nat /\ J \subseteq 0 .. Len(p)
  BY LenProperties DEF Path, Judged
<1>2. 0 \in J
  <2>1. SubSeq(p, 1, 0) = <<>>
    BY SubSeqEmpty
  <2>2. LinksOn(t, <<>>) = {}
    <3>1. Len(<<>>) = 0
      BY EmptySeq
    <3> QED  BY <3>1 DEF LinksOn
  <2>3. Follow(t, <<>>) = <<>>
    BY <2>2 DEF Follow, Hop
  <2>4. Exists(t, <<>>)
    BY <2>2, <2>3 DEF Exists, Loops, TypeAt
  <2>5. 0 \in 0 .. Len(p)
    BY <1>1
  <2> QED  BY <2>1, <2>4, <2>5 DEF Judged
<1> HIDE DEF J
<1>3. \E n \in J : \A m \in J : m <= n
  <2> DEFINE R == {Len(p) - n : n \in J}
  <2>1. R \in SUBSET Nat /\ R # {}
    BY <1>1, <1>2
  <2>2. PICK r \in R : \A k \in R : r <= k
    <3> HIDE DEF R
    <3> QED  BY <2>1, LeastOf
  <2>3. PICK n \in J : r = Len(p) - n
    OBVIOUS
  <2>4. \A m \in J : Len(p) - n <= Len(p) - m
    BY <2>2, <2>3
  <2> QED  BY <1>1, <2>4
<1>4. Greatest(J) \in J /\ \A m \in J : m <= Greatest(J)
  BY <1>3 DEF Greatest
<1>5. Len(p) \in J => Greatest(J) = Len(p)
  <2>1. Greatest(J) \in 0 .. Len(p)
    BY <1>1, <1>4
  <2> QED  BY <1>1, <1>4, <2>1
<1> QED  BY <1>1, <1>4, <1>5 DEF J

(* What is there is in a directory that leads nowhere else. *)
LEMMA DirectoryOfLeaf ==
  ASSUME NEW t, WellFormed(t), NEW to \in Path, NEW n \in Name, TypeAt(t, Append(to, n)) # "absent"
  PROVE  TypeAt(t, to) = "directory"
<1>1. Append(to, n) # <<>> /\ Front(Append(to, n)) = to
  BY PathAppend, FrontOfAppend
<1>2. Append(to, n) \in DOMAIN t /\ t[Append(to, n)].type # "absent"
  BY <1>1 DEF TypeAt
<1> QED  BY <1>1, <1>2 DEF WellFormed

(* A path whose last name is no link resolves to that name in the place its
   directory resolves to, or to nothing. *)
LEMMA ResolvesThroughItsDirectory ==
  ASSUME NEW t, IsTree(t), WellFormed(t), NEW p \in Path, p # <<>>, LeafType(t, p) # "link"
  PROVE  ResolveReal(t, p) \in {Append(ResolveReal(t, Front(p)), Last(p)), <<"unresolvable">>}
<1> DEFINE d == Front(p)  n == Last(p)  to == Follow(t, d)
<1>1. d \in Path /\ n \in Name /\ p = Append(d, n)
  BY FrontIs
<1>2. LeafType(t, p) = TypeAt(t, Append(to, n))
  BY DEF LeafType, LeafOf
<1> HIDE DEF d, n, to
<1>3. to \in Path
  BY <1>1, FollowPath DEF to
<1>4. Follow(t, p) = Append(to, n) /\ (Loops(t, p) <=> Loops(t, d))
  BY <1>1, <1>2, FollowOfAppend DEF to
<1>5. /\ Len(d) \in Nat /\ Len(p) = Len(d) + 1
      /\ SubSeq(p, 1, Len(p)) = p /\ SubSeq(d, 1, Len(d)) = d
      /\ Len(p) \in 0 .. Len(p) /\ Len(d) \in 0 .. Len(d)
  <2>1. Len(d) \in Nat /\ Len(p) = Len(d) + 1 /\ SubSeq(p, 1, Len(p)) = p /\ SubSeq(d, 1, Len(d)) = d
    BY <1>1, PathAppend, LenProperties, SubSeqFull DEF Path
  <2> QED  BY <2>1
<1>6. \A i \in 0 .. Len(d) : SubSeq(p, 1, i) = SubSeq(d, 1, i)
  BY <1>1, PartsOfAppend
<1>7. \A q \in Path : q \o <<>> = q
  BY ConcatEmptySeq DEF Path
<1>8. SubSeq(p, Len(p) + 1, Len(p)) = <<>> /\ SubSeq(d, Len(d) + 1, Len(d)) = <<>>
  BY <1>5, SubSeqEmpty
<1>9. CASE Loops(t, p)
  <2>1. Len(p) \in Judged(t, p)
    BY <1>5, <1>9 DEF Judged
  <2>2. Greatest(Judged(t, p)) = Len(p)
    BY <2>1, GreatestJudged
  <2> QED  BY <2>2, <1>5, <1>9, ResolveRealIs DEF Resolved
<1>10. CASE ~Loops(t, p) /\ LeafType(t, p) # "absent"
  <2>1. Exists(t, p)
    BY <1>2, <1>4, <1>10 DEF Exists
  <2>2. Len(p) \in Judged(t, p)
    BY <1>5, <2>1 DEF Judged
  <2>3. Greatest(Judged(t, p)) = Len(p)
    BY <2>2, GreatestJudged
  <2>4. ResolveReal(t, p) = Append(to, n)
    <3>1. Append(to, n) \in Path
      BY <1>1, <1>3, PathAppend
    <3>2. ResolveReal(t, p) = Append(to, n) \o <<>>
      BY <2>3, <1>4, <1>5, <1>8, <1>10, ResolveRealIs DEF Resolved
    <3> QED  BY <3>1, <3>2, <1>7
  <2>5. TypeAt(t, to) = "directory"
    BY <1>1, <1>2, <1>3, <1>10, DirectoryOfLeaf
  <2>6. Exists(t, d)
    BY <1>4, <1>10, <2>5 DEF Exists, to
  <2>7. Greatest(Judged(t, d)) = Len(d)
    <3>1. Len(d) \in Judged(t, d)
      BY <1>5, <2>6 DEF Judged
    <3> QED  BY <1>1, <3>1, GreatestJudged
  <2>8. ResolveReal(t, d) = to
    <3>1. ResolveReal(t, d) = to \o <<>>
      BY <2>7, <1>4, <1>5, <1>8, <1>10, ResolveRealIs DEF Resolved, to
    <3> QED  BY <3>1, <1>3, <1>7
  <2> QED  BY <2>4, <2>8 DEF d, n
<1>11. CASE ~Loops(t, p) /\ LeafType(t, p) = "absent"
  <2>1. ~Exists(t, p)
    BY <1>2, <1>4, <1>11 DEF Exists
  <2>2. Judged(t, p) = Judged(t, d)
    <3>1. Len(p) \notin Judged(t, p)
      BY <1>5, <1>11, <2>1 DEF Judged
    <3>2. 0 .. Len(p) = (0 .. Len(d)) \cup {Len(p)}
      BY <1>5
    <3>3. \A i \in 0 .. Len(d) : i \in Judged(t, p) <=> i \in Judged(t, d)
      BY <1>6, <3>2 DEF Judged
    <3>4. Judged(t, p) \subseteq 0 .. Len(p) /\ Judged(t, d) \subseteq 0 .. Len(d)
      BY DEF Judged
    <3> QED  BY <3>1, <3>2, <3>3, <3>4
  <2> DEFINE i == Greatest(Judged(t, d))
  <2>3. i \in 0 .. Len(d)
    BY <1>1, GreatestJudged
  <2>4. ResolveReal(t, p) = Resolved(t, p, i) /\ ResolveReal(t, d) = Resolved(t, d, i)
    BY <2>2, ResolveRealIs
  <2> HIDE DEF i
  <2>5. SubSeq(p, 1, i) = SubSeq(d, 1, i)
    BY <1>6, <2>3
  <2>6. CASE Loops(t, SubSeq(d, 1, i))
    BY <2>4, <2>5, <2>6 DEF Resolved
  <2>7. CASE ~Loops(t, SubSeq(d, 1, i))
    <3>1. SubSeq(p, i + 1, Len(p)) = Append(SubSeq(d, i + 1, Len(d)), n)
      <4>1. SubSeq(Append(d, n), i + 1, Len(d) + 1) = Append(SubSeq(d, i + 1, Len(d)), n)
        BY <1>1, <2>3, PartsOfAppend
      <4> QED  BY <4>1, <1>1, <1>5
    <3>2. SubSeq(d, 1, i) \in Path /\ SubSeq(d, i + 1, Len(d)) \in Path
      <4>1. 1 \in 1 .. Len(d) + 1 /\ i + 1 \in 1 .. Len(d) + 1 /\ Len(d) \in 0 .. Len(d)
        BY <1>5, <2>3
      <4> QED  BY <4>1, <1>1, <2>3, SubPath
    <3>3. Follow(t, SubSeq(d, 1, i)) \in Path
      BY <3>2, FollowPath
    <3>4. Follow(t, SubSeq(d, 1, i)) \o Append(SubSeq(d, i + 1, Len(d)), n)
            = Append(Follow(t, SubSeq(d, 1, i)) \o SubSeq(d, i + 1, Len(d)), n)
      BY <1>1, <3>2, <3>3, ConcatAppend
    <3>5. ResolveReal(t, p) = Append(ResolveReal(t, d), n)
      BY <2>4, <2>5, <2>7, <3>1, <3>4 DEF Resolved
    <3> QED  BY <3>5 DEF d, n
  <2> QED  BY <2>6, <2>7
<1> QED  BY <1>9, <1>10, <1>11

-----------------------------------------------------------------------------
(* The inductive invariant: what holds of each opening, by where it is. *)
Field ==
  {"at", "path", "mode", "leaf", "parent", "code", "fd", "met", "wrote", "moved", "lent", "stale", "reached"}

(* A descriptor is held from the open to the end, and of a file once stated. *)
HeldOK(c) ==
  /\ c.at \in {"idle", "looked", "opening", "caught", "failed", "reached"} => c.fd = None
  /\ c.fd = None \/ DOMAIN c.fd = {"place", "held", "type"}
  /\ c.at \in {"opened", "stated", "served"} => DOMAIN c.fd = {"place", "held", "type"} /\ c.fd.held
  /\ c.at \in {"stated", "served"} => c.fd.type = "file"
  /\ c.at = "served" => Inside(c.fd.place)
  /\ c.at = "refused" => c.fd = None \/ ~c.fd.held

(* One judgement is recorded, and what came after an allowed one. *)
RecordOK(c) ==
  /\ c.at \in {"idle", "looked"} => c.reached = <<>>
  /\ c.at \in {"opening", "caught", "opened", "stated", "served", "failed", "reached"} => c.reached = <<TRUE>>
  /\ c.at = "refused" => c.reached \in {<<FALSE>>, <<TRUE, FALSE>>}

ModeOK(o, c) ==
  /\ c.at = "looked" => c.path \in Asked
  /\ c.at \in {"opening", "caught", "opened", "stated"} => c.path \in Asked \ {None} /\ c.mode \in Known
  /\ c.at \in {"opening", "caught", "opened", "stated", "served"} => (o \in ReadOnly => c.mode = "r")

(* What was judged inside is what is written, unless a directory moved or a link
   was lent to the judgement; and the descriptor is of what was written. *)
WroteOK(o, c) ==
  /\ c.at \in {"idle", "looked", "opening", "caught", "failed", "reached"} => c.wrote = None
  /\ c.at = "opening" => c.lent \/ Inside(Append(c.parent, Last(c.path)))
  /\ c.wrote # None => o \notin ReadOnly /\ (Inside(c.wrote) \/ c.moved \/ c.lent)
  /\ c.at \in {"opened", "stated"} /\ c.wrote # None => c.fd.place \in {c.wrote, None}
  /\ c.at = "served" /\ c.wrote # None => c.fd.place = c.wrote

(* A failed open that counts as no attempt met nothing, or a file, or what has
   changed since. *)
MetOK(c) ==
  /\ c.at = "caught" => \/ c.code \in {"ELOOP", "ENXIO", "EISDIR", "EEXIST"}
                        \/ c.code = "ENOENT" /\ c.met = "absent"
  /\ c.at = "failed" => c.met \in {"absent", "file"} \/ c.stale

OpeningOK(o, c) ==
  /\ DOMAIN c = Field
  /\ HeldOK(c) /\ RecordOK(c) /\ ModeOK(o, c) /\ WroteOK(o, c) /\ MetOK(c)

CageInv ==
  /\ IsTree(fs) /\ WellFormed(fs)
  /\ cage = [o \in Opening |-> cage[o]]
  /\ \A o \in Opening : OpeningOK(o, cage[o])

LEMMA CageInvInit == CageInit => CageInv
<1> SUFFICES ASSUME CageInit PROVE CageInv
  OBVIOUS
<1>1. IsTree(fs) /\ WellFormed(fs)
  BY TreeAssumption DEF CageInit, IsTree
<1>2. ASSUME NEW o PROVE OpeningOK(o, NotOpened)
  BY DEF NotOpened, OpeningOK, Field, HeldOK, RecordOK, ModeOK, WroteOK, MetOK
<1>3. \A o \in Opening : cage[o] = NotOpened
  BY DEF CageInit
<1>4. cage = [o \in Opening |-> cage[o]]
  BY DEF CageInit
<1> QED  BY <1>1, <1>2, <1>3, <1>4 DEF CageInv

(* Records and ends. *)
LEMMA Records ==
  ASSUME NEW c, DOMAIN c = Field, NEW allowed
  PROVE  /\ DOMAIN Record(c, allowed) = Field
         /\ Record(c, allowed).reached = Append(c.reached, allowed)
         /\ \A f \in Field \ {"reached"} : Record(c, allowed)[f] = c[f]
BY DEF Record, Field

LEMMA Ends ==
  ASSUME NEW c, DOMAIN c = Field, NEW how
  PROVE  /\ DOMAIN Over(c, how) = Field
         /\ Over(c, how).at = how
         /\ Over(c, how).mode = IF how = "served" THEN c.mode ELSE None
         /\ Over(c, how).lent <=> c.lent /\ c.wrote # None
         /\ \A f \in {"fd", "met", "wrote", "moved", "stale", "reached"} : Over(c, how)[f] = c[f]
BY DEF Over, Field

LEMMA Appended ==
  ASSUME NEW S, NEW a \in S, NEW b \in S
  PROVE  Append(<<>>, b) = <<b>> /\ Append(<<a>>, b) = <<a, b>>
<1>1. /\ <<>> \in Seq(S) /\ <<a>> \in Seq(S) /\ <<b>> \in Seq(S) /\ <<a, b>> \in Seq(S)
      /\ Len(<<>>) = 0 /\ Len(<<a>>) = 1 /\ Len(<<b>>) = 1 /\ Len(<<a, b>>) = 2
      /\ <<a>>[1] = a /\ <<b>>[1] = b /\ <<a, b>>[1] = a /\ <<a, b>>[2] = b
  OBVIOUS
<1>2. Append(<<>>, b) = <<b>>
  BY <1>1, AppendProperties, SeqEqual
<1>3. ASSUME NEW s \in Seq(S), NEW t \in Seq(S), Len(s) = 1, Len(t) = 2, t[1] = s[1], t[2] = b
      PROVE  Append(s, b) = t
  <2>1. /\ Append(s, b) \in Seq(S) /\ Len(Append(s, b)) = Len(s) + 1
        /\ \A i \in 1 .. Len(s) : Append(s, b)[i] = s[i]
        /\ Append(s, b)[Len(s) + 1] = b
    BY AppendProperties
  <2>2. Len(Append(s, b)) = 2 /\ Append(s, b)[1] = t[1] /\ Append(s, b)[2] = t[2]
    BY <1>3, <2>1
  <2>3. Len(Append(s, b)) = Len(t) /\ \A i \in 1 .. Len(Append(s, b)) : Append(s, b)[i] = t[i]
    BY <1>3, <2>2
  <2> QED  BY <2>1, <2>3, SeqEqual
<1>4. Append(<<a>>, b) = <<a, b>>
  BY <1>1, <1>3
<1> QED  BY <1>2, <1>4

(* A refusal of an opening that holds no descriptor. *)
LEMMA RefusalOK ==
  ASSUME NEW o, NEW c, DOMAIN c = Field,
         c.fd = None \/ (DOMAIN c.fd = {"place", "held", "type"} /\ ~c.fd.held), c.reached \in {<<>>, <<TRUE>>},
         c.wrote # None => o \notin ReadOnly /\ (Inside(c.wrote) \/ c.moved \/ c.lent)
  PROVE  OpeningOK(o, Refuse(c))
<1> DEFINE r == Record(c, FALSE)
<1>1. /\ DOMAIN r = Field /\ r.reached = Append(c.reached, FALSE)
      /\ \A f \in Field \ {"reached"} : r[f] = c[f]
  BY Records
<1>2. r.reached \in {<<FALSE>>, <<TRUE, FALSE>>}
  <2>1. Append(<<>>, FALSE) = <<FALSE>> /\ Append(<<TRUE>>, FALSE) = <<TRUE, FALSE>>
    <3>1. TRUE \in BOOLEAN /\ FALSE \in BOOLEAN
      OBVIOUS
    <3> QED  BY <3>1, Appended, Zenon
  <2> QED  BY <1>1, <2>1 DEF Field
<1>3. r.fd = c.fd /\ r.wrote = c.wrote /\ r.moved = c.moved /\ r.lent = c.lent
  BY <1>1 DEF Field
<1> HIDE DEF r
<1> DEFINE e == Over(r, "refused")
<1>4. /\ DOMAIN e = Field /\ e.at = "refused"
      /\ \A f \in {"fd", "met", "wrote", "moved", "stale", "reached"} : e[f] = r[f]
  BY <1>1, Ends
<1>5. e.lent <=> r.lent /\ r.wrote # None
  BY <1>1, Ends
<1> HIDE DEF e
<1>6. e.fd = r.fd /\ e.wrote = r.wrote /\ e.moved = r.moved /\ e.reached = r.reached
  BY <1>4
<1>7. OpeningOK(o, e)
  BY <1>2, <1>3, <1>4, <1>5, <1>6 DEF OpeningOK, HeldOK, RecordOK, ModeOK, WroteOK, MetOK
<1> QED  BY <1>7 DEF Refuse, r, e

(* A step of one opening. *)
LEMMA BecomeOK ==
  ASSUME CageInv, NEW o \in Opening, NEW c, Become(o, c), OpeningOK(o, c)
  PROVE  cage' = [q \in Opening |-> cage'[q]] /\ \A q \in Opening : OpeningOK(q, cage'[q])
<1>1. cage' = [cage EXCEPT ![o] = c] /\ DOMAIN cage = Opening
  BY DEF Become, CageInv
<1>2. \A q \in Opening : cage'[q] = IF q = o THEN c ELSE cage[q]
  BY <1>1
<1>3. cage' = [q \in Opening |-> cage'[q]]
  BY <1>1
<1> QED  BY <1>2, <1>3 DEF CageInv

LEMMA OneOpening ==
  ASSUME CageInv, NEW o \in Opening, NEW c, Become(o, c), OpeningOK(o, c), UNCHANGED fs
  PROVE  CageInv'
<1>1. cage' = [q \in Opening |-> cage'[q]] /\ \A q \in Opening : OpeningOK(q, cage'[q])
  BY BecomeOK
<1> QED  BY <1>1 DEF CageInv, IsTree, WellFormed, TypeAt

-----------------------------------------------------------------------------
(* The steps. *)
LEMMA ReachInv ==
  ASSUME CageInv, NEW o \in Opening, NEW allowed, Reach(o, allowed)
  PROVE  CageInv'
<1> DEFINE c == cage[o]
<1>1. OpeningOK(o, c) /\ c.at = "idle" /\ UNCHANGED fs
  BY DEF CageInv, Reach
<1>2. /\ DOMAIN c = Field /\ c.fd = None /\ c.reached = <<>> /\ c.wrote = None
  BY <1>1 DEF OpeningOK, HeldOK, RecordOK, WroteOK
<1>3. CASE allowed
  <2> DEFINE r == Record(c, TRUE)  e == Over(r, "reached")
  <2>1. Append(<<>>, TRUE) = <<TRUE>>
    <3>1. TRUE \in BOOLEAN
      OBVIOUS
    <3> QED  BY <3>1, Appended, Zenon
  <2>2. DOMAIN r = Field /\ r.reached = Append(c.reached, TRUE) /\ \A f \in Field \ {"reached"} : r[f] = c[f]
    BY <1>2, Records
  <2> HIDE DEF r
  <2>3. r.reached = <<TRUE>> /\ r.fd = None /\ r.wrote = None
    BY <1>2, <2>1, <2>2 DEF Field
  <2>4. /\ DOMAIN e = Field /\ e.at = "reached"
        /\ \A f \in {"fd", "met", "wrote", "moved", "stale", "reached"} : e[f] = r[f]
    BY <2>2, Ends
  <2>5. Become(o, e)
    BY <1>3 DEF Reach, r, e
  <2> HIDE DEF e
  <2>6. OpeningOK(o, e)
    BY <2>3, <2>4 DEF OpeningOK, HeldOK, RecordOK, ModeOK, WroteOK, MetOK
  <2> QED  BY <1>1, <2>5, <2>6, OneOpening
<1>4. CASE ~allowed
  <2>1. OpeningOK(o, Refuse(c))
    BY <1>2, RefusalOK
  <2>2. Become(o, Refuse(c))
    BY <1>4 DEF Reach
  <2> QED  BY <1>1, <2>1, <2>2, OneOpening
<1> QED  BY <1>3, <1>4

LEMMA LookInv ==
  ASSUME CageInv, NEW o \in Opening, NEW path \in Asked, NEW mode, Look(o, path, mode)
  PROVE  CageInv'
<1> DEFINE c == cage[o]
           leaf == IF path = None THEN "absent" ELSE LeafType(fs, path)
           d == [c EXCEPT !.at = "looked", !.path = path, !.mode = mode, !.leaf = leaf]
<1>1. OpeningOK(o, c) /\ c.at = "idle" /\ UNCHANGED fs /\ Become(o, d)
  BY DEF CageInv, Look
<1>2. /\ DOMAIN c = Field /\ c.fd = None /\ c.reached = <<>> /\ c.wrote = None
  BY <1>1 DEF OpeningOK, HeldOK, RecordOK, WroteOK
<1> HIDE DEF leaf
<1>3. /\ DOMAIN d = Field /\ d.at = "looked" /\ d.path = path
      /\ d.fd = c.fd /\ d.reached = c.reached /\ d.wrote = c.wrote
  BY <1>2 DEF Field
<1> HIDE DEF d
<1>4. OpeningOK(o, d)
  BY <1>2, <1>3 DEF OpeningOK, HeldOK, RecordOK, ModeOK, WroteOK, MetOK
<1> QED  BY <1>1, <1>4, OneOpening

(* What is permitted leads inside a root by the directory it is in, or by a link
   that was not there when it was looked at. *)
LEMMA PermittedInside ==
  ASSUME IsTree(fs), WellFormed(fs), NEW o, NEW c, c.path \in Asked, Permitted(o, c)
  PROVE  \/ LeafType(fs, c.path) = "link"
         \/ Inside(Append(ResolveReal(fs, Front(c.path)), Last(c.path)))
<1> SUFFICES ASSUME LeafType(fs, c.path) # "link"
             PROVE  Inside(Append(ResolveReal(fs, Front(c.path)), Last(c.path)))
  OBVIOUS
<1>1. c.path \in Path /\ c.path # <<>> /\ Inside(ResolveReal(fs, c.path))
  BY TreeAssumption DEF Permitted
<1>2. ~Inside(<<"unresolvable">>)
  BY RootAssumption DEF Inside
<1> QED  BY <1>1, <1>2, ResolvesThroughItsDirectory

LEMMA JudgeInv ==
  ASSUME CageInv, NEW o \in Opening, Judge(o)
  PROVE  CageInv'
<1> DEFINE c == cage[o]
<1>1. OpeningOK(o, c) /\ c.at = "looked" /\ UNCHANGED fs
  BY DEF CageInv, Judge
<1>2. /\ DOMAIN c = Field /\ c.fd = None /\ c.reached = <<>> /\ c.wrote = None /\ c.path \in Asked
  BY <1>1 DEF OpeningOK, HeldOK, RecordOK, ModeOK, WroteOK
<1>3. CASE Permitted(o, c) /\ c.leaf \in {"absent", "file"}
  <2> DEFINE r == Record(c, TRUE)
             parent == ResolveReal(fs, Front(c.path))
             lent == LeafType(fs, c.path) = "link"
             d == [r EXCEPT !.at = "opening", !.parent = parent, !.lent = lent]
  <2>1. Append(<<>>, TRUE) = <<TRUE>>
    <3>1. TRUE \in BOOLEAN
      OBVIOUS
    <3> QED  BY <3>1, Appended, Zenon
  <2>2. DOMAIN r = Field /\ r.reached = Append(c.reached, TRUE) /\ \A f \in Field \ {"reached"} : r[f] = c[f]
    BY <1>2, Records
  <2>3. Become(o, d)
    BY <1>3 DEF Judge
  <2>4. lent \/ Inside(Append(parent, Last(c.path)))
    BY <1>2, <1>3, PermittedInside DEF CageInv
  <2> HIDE DEF r, parent, lent
  <2>5. /\ r.reached = <<TRUE>> /\ r.fd = None /\ r.wrote = None /\ r.path = c.path /\ r.mode = c.mode
    BY <1>2, <2>1, <2>2 DEF Field
  <2>6. /\ DOMAIN d = Field /\ d.at = "opening" /\ d.parent = parent
        /\ d.path = r.path /\ d.mode = r.mode /\ d.fd = r.fd /\ d.reached = r.reached /\ d.wrote = r.wrote
    BY <2>2 DEF Field
  <2>7. d.lent <=> lent
    BY <2>2 DEF Field
  <2> HIDE DEF d
  <2>8. c.path # None /\ c.mode \in Known /\ (o \in ReadOnly => c.mode = "r")
    BY <1>3 DEF Permitted
  <2>9. OpeningOK(o, d)
    <3>1. HeldOK(d) /\ RecordOK(d) /\ MetOK(d)
      BY <2>5, <2>6 DEF HeldOK, RecordOK, MetOK
    <3>2. ModeOK(o, d)
      BY <1>2, <2>5, <2>6, <2>8 DEF ModeOK
    <3>3. WroteOK(o, d)
      BY <2>4, <2>5, <2>6, <2>7 DEF WroteOK
    <3> QED  BY <2>6, <3>1, <3>2, <3>3 DEF OpeningOK
  <2> QED  BY <1>1, <2>3, <2>9, OneOpening
<1>4. CASE ~(Permitted(o, c) /\ c.leaf \in {"absent", "file"})
  <2>1. OpeningOK(o, Refuse(c))
    BY <1>2, RefusalOK
  <2>2. Become(o, Refuse(c))
    BY <1>4 DEF Judge
  <2> QED  BY <1>1, <2>1, <2>2, OneOpening
<1> QED  BY <1>3, <1>4

(* What open(2) answers. *)
LEMMA ErrorsAre ==
  ASSUME IsTree(fs), WellFormed(fs), NEW c, c.path \in Path \ {<<>>},
         NEW code \in Errors(c, TypeAt(fs, LeafOf(fs, c.path)))
  PROVE  \/ code \in {"ELOOP", "ENXIO", "EISDIR", "EEXIST"}
         \/ code = "ENOENT" /\ TypeAt(fs, LeafOf(fs, c.path)) = "absent"
<1> DEFINE d == Front(c.path)  n == Last(c.path)  type == TypeAt(fs, LeafOf(fs, c.path))
<1>1. d \in Path /\ n \in Name /\ Follow(fs, d) \in Path
  BY FrontIs, FollowPath
<1>2. ~Loops(fs, d) /\ ~ParentOpens(c) => type = "absent"
  <2> SUFFICES ASSUME ~Loops(fs, d), type # "absent" PROVE ParentOpens(c)
    OBVIOUS
  <2>1. TypeAt(fs, Follow(fs, d)) = "directory"
    BY <1>1, DirectoryOfLeaf DEF LeafOf
  <2> QED  BY <2>1 DEF ParentOpens, Exists
<1> HIDE DEF d, n, type
<1>3. code \in Errors(c, type)
  BY DEF type
<1> QED  BY <1>2, <1>3 DEF Errors, d, type

LEMMA OpensWhere ==
  ASSUME NEW c, NEW type, Errors(c, type) = {}
  PROVE  ParentOpens(c) /\ (type = "absent" => Creates(c.mode))
<1>1. ParentOpens(c)
  BY DEF Errors
<1>2. ~Loops(fs, Front(c.path))
  BY <1>1 DEF ParentOpens, Exists
<1> QED  BY <1>1, <1>2 DEF Errors

LEMMA MeetsIs ==
  ASSUME NEW o, DOMAIN cage[o] = Field
  PROVE  /\ DOMAIN Meets(o) = Field
         /\ Meets(o).met = TypeAt(fs, LeafOf(fs, cage[o].path))
         /\ Meets(o).moved <=> Follow(fs, Front(cage[o].path)) # cage[o].parent
         /\ \A f \in Field \ {"met", "moved"} : Meets(o)[f] = cage[o][f]
BY DEF Meets, OpenedPlace, Field

LEMMA OpenFailsInv ==
  ASSUME CageInv, NEW o \in Opening, OpenFails(o)
  PROVE  CageInv'
<1> DEFINE c == cage[o]  m == Meets(o)
<1>1. OpeningOK(o, c) /\ c.at = "opening" /\ UNCHANGED fs
  BY DEF CageInv, OpenFails
<1>2. PICK code \in Errors(m, m.met) : Become(o, [m EXCEPT !.at = "caught", !.code = code])
  BY DEF OpenFails
<1> DEFINE e == [m EXCEPT !.at = "caught", !.code = code]
<1>3. /\ DOMAIN c = Field /\ c.fd = None /\ c.reached = <<TRUE>> /\ c.wrote = None
      /\ c.path \in Asked \ {None} /\ c.mode \in Known /\ (o \in ReadOnly => c.mode = "r")
  BY <1>1 DEF OpeningOK, HeldOK, RecordOK, ModeOK, WroteOK
<1>4. /\ DOMAIN m = Field /\ m.met = TypeAt(fs, LeafOf(fs, c.path))
      /\ \A f \in Field \ {"met", "moved"} : m[f] = c[f]
  BY <1>3, MeetsIs
<1> HIDE DEF m
<1>5. /\ m.path = c.path /\ m.mode = c.mode /\ m.fd = c.fd /\ m.reached = c.reached /\ m.wrote = c.wrote
  BY <1>4 DEF Field
<1>6. \/ code \in {"ELOOP", "ENXIO", "EISDIR", "EEXIST"}
      \/ code = "ENOENT" /\ m.met = "absent"
  <2>1. m.path \in Path \ {<<>>}
    BY <1>3, <1>5, TreeAssumption
  <2> QED  BY <2>1, <1>2, <1>4, <1>5, ErrorsAre DEF CageInv
<1>7. /\ DOMAIN e = Field /\ e.at = "caught" /\ e.code = code /\ e.met = m.met
      /\ e.path = m.path /\ e.mode = m.mode /\ e.fd = m.fd /\ e.reached = m.reached /\ e.wrote = m.wrote
  BY <1>4 DEF Field
<1> HIDE DEF e
<1>8. OpeningOK(o, e)
  BY <1>3, <1>5, <1>6, <1>7 DEF OpeningOK, HeldOK, RecordOK, ModeOK, WroteOK, MetOK
<1> QED  BY <1>1, <1>2, <1>8, OneOpening DEF e

(* A file created in a directory leaves a tree. *)
LEMMA Created ==
  ASSUME NEW t, IsTree(t), WellFormed(t), NEW to \in Path, NEW n \in Name,
         TypeAt(t, to) = "directory", TypeAt(t, Append(to, n)) = "absent"
  PROVE  LET u == [t EXCEPT ![Append(to, n)] = Node("file")] IN IsTree(u) /\ WellFormed(u)
<1> DEFINE place == Append(to, n)  u == [t EXCEPT ![place] = Node("file")]
<1>1. place # <<>> /\ Front(place) = to /\ to # place
  <2>1. Len(place) = Len(to) + 1 /\ Len(to) \in Nat
    BY PathAppend, LenProperties DEF Path
  <2>2. to # place
    BY <2>1
  <2> QED  BY <2>2, PathAppend, FrontOfAppend
<1> HIDE DEF place
<1>2. Node("file") \in Nodes /\ Node("file").type = "file"
  BY DEF Nodes, Node, NodeType
<1>3. /\ t \in [Place -> Nodes] /\ DOMAIN t = Place /\ DOMAIN u = Place /\ u \in [Place -> Nodes]
      /\ \A q \in Place : u[q] = IF q = place THEN Node("file") ELSE t[q]
  BY <1>2 DEF IsTree
<1> HIDE DEF u
<1>4. \A q : q # place => TypeAt(u, q) = TypeAt(t, q)
  BY <1>3 DEF TypeAt
<1>5. ASSUME NEW q \in Place, u[q].type # "absent" PROVE TypeAt(u, Front(q)) = "directory"
  <2>1. CASE q = place
    BY <2>1, <1>1, <1>4
  <2>2. CASE q # place
    <3>1. TypeAt(t, Front(q)) = "directory"
      BY <1>3, <1>5, <2>2 DEF WellFormed
    <3>2. Front(q) # place
      BY <3>1 DEF place
    <3> QED  BY <3>1, <3>2, <1>4
  <2> QED  BY <2>1, <2>2
<1> QED  BY <1>3, <1>5 DEF IsTree, WellFormed, u, place

LEMMA OpensInv ==
  ASSUME CageInv, NEW o \in Opening, Opens(o)
  PROVE  CageInv'
<1> DEFINE c == cage[o]  m == Meets(o)  place == LeafOf(fs, m.path)
           changes == m.met = "absent" \/ (m.met = "file" /\ Truncates(m.mode))
           wrote == IF changes THEN place ELSE None
           fd == [place |-> place, held |-> TRUE, type |-> IF m.met = "absent" THEN "file" ELSE m.met]
           e == [m EXCEPT !.at = "opened", !.wrote = wrote, !.fd = fd]
<1>1. /\ OpeningOK(o, c) /\ c.at = "opening" /\ Errors(m, m.met) = {} /\ Become(o, e)
      /\ fs' = IF m.met = "absent" THEN [fs EXCEPT ![place] = Node("file")] ELSE fs
  BY DEF CageInv, Opens, OpenedPlace
<1>2. /\ DOMAIN c = Field /\ c.reached = <<TRUE>>
      /\ c.path \in Asked \ {None} /\ c.mode \in Known /\ (o \in ReadOnly => c.mode = "r")
      /\ c.lent \/ Inside(Append(c.parent, Last(c.path)))
  BY <1>1 DEF OpeningOK, HeldOK, RecordOK, ModeOK, WroteOK
<1>3. /\ DOMAIN m = Field /\ m.met = TypeAt(fs, LeafOf(fs, c.path))
      /\ m.moved <=> Follow(fs, Front(c.path)) # c.parent
      /\ \A f \in Field \ {"met", "moved"} : m[f] = c[f]
  BY <1>2, MeetsIs
<1> HIDE DEF m, place, wrote, fd
<1>4. /\ m.path = c.path /\ m.mode = c.mode /\ m.reached = c.reached /\ m.lent = c.lent
  BY <1>3 DEF Field
<1>5. c.path \in Path \ {<<>>} /\ Front(c.path) \in Path /\ Last(c.path) \in Name
      /\ Follow(fs, Front(c.path)) \in Path
  BY <1>2, TreeAssumption, FrontIs, FollowPath DEF CageInv
<1>6. place = Append(Follow(fs, Front(c.path)), Last(c.path))
  BY <1>4 DEF place, LeafOf
<1>7. ParentOpens(m) /\ (m.met = "absent" => Creates(m.mode))
  BY <1>1, OpensWhere
<1>8. /\ DOMAIN e = Field /\ e.at = "opened" /\ e.wrote = wrote /\ e.fd = fd
      /\ e.path = m.path /\ e.mode = m.mode /\ e.reached = m.reached
  BY <1>3 DEF Field
<1>9. e.moved = m.moved /\ e.lent = m.lent
  BY <1>3 DEF Field
<1> HIDE DEF e
<1>10. /\ DOMAIN fd = {"place", "held", "type"} /\ fd.held /\ fd.place = place
  BY DEF fd
<1>11. wrote # None => /\ wrote = place /\ o \notin ReadOnly
                       /\ Inside(wrote) \/ m.moved \/ m.lent
  <2> SUFFICES ASSUME wrote # None PROVE wrote = place /\ o \notin ReadOnly /\ (Inside(wrote) \/ m.moved \/ m.lent)
    OBVIOUS
  <2>1. wrote = place /\ (Creates(m.mode) \/ Truncates(m.mode))
    BY <1>7 DEF wrote
  <2>2. m.mode # "r"
    BY <2>1 DEF Creates, Truncates
  <2>3. ~m.moved => place = Append(c.parent, Last(c.path))
    BY <1>3, <1>6
  <2> QED  BY <2>1, <2>2, <2>3, <1>2, <1>4
<1>12. OpeningOK(o, e)
  <2>1. HeldOK(e) /\ RecordOK(e) /\ MetOK(e)
    BY <1>2, <1>4, <1>8, <1>10 DEF HeldOK, RecordOK, MetOK
  <2>2. ModeOK(o, e)
    BY <1>2, <1>4, <1>8 DEF ModeOK
  <2>3. WroteOK(o, e)
    BY <1>8, <1>9, <1>10, <1>11 DEF WroteOK
  <2> QED  BY <1>8, <2>1, <2>2, <2>3 DEF OpeningOK
<1>13. IsTree(fs') /\ WellFormed(fs')
  <2>1. CASE m.met = "absent"
    <3>1. TypeAt(fs, Follow(fs, Front(c.path))) = "directory"
      BY <1>4, <1>7 DEF ParentOpens
    <3>2. TypeAt(fs, place) = "absent"
      BY <1>3, <1>4, <2>1 DEF place
    <3>3. fs' = [fs EXCEPT ![place] = Node("file")]
      BY <1>1, <2>1
    <3> QED  BY <3>1, <3>2, <3>3, <1>5, <1>6, Created DEF CageInv
  <2>2. CASE m.met # "absent"
    BY <2>2, <1>1 DEF CageInv
  <2> QED  BY <2>1, <2>2
<1> QED  BY <1>1, <1>12, <1>13, BecomeOK DEF CageInv

LEMMA CaughtInv ==
  ASSUME CageInv, NEW o \in Opening, Caught(o)
  PROVE  CageInv'
<1> DEFINE c == cage[o]  leafNow == LeafType(fs, c.path)
           known == [c EXCEPT !.stale = leafNow # c.met]
           e == Over(known, "failed")
<1>1. /\ OpeningOK(o, c) /\ c.at = "caught" /\ UNCHANGED fs
      /\ Become(o, IF Attempt(c, leafNow) THEN Refuse(known) ELSE e)
  BY DEF CageInv, Caught
<1>2. /\ DOMAIN c = Field /\ c.fd = None /\ c.reached = <<TRUE>> /\ c.wrote = None
      /\ \/ c.code \in {"ELOOP", "ENXIO", "EISDIR", "EEXIST"}
         \/ c.code = "ENOENT" /\ c.met = "absent"
  BY <1>1 DEF OpeningOK, HeldOK, RecordOK, WroteOK, MetOK
<1> HIDE DEF leafNow
<1>3. /\ DOMAIN known = Field /\ known.fd = c.fd /\ known.reached = c.reached /\ known.wrote = c.wrote
      /\ known.met = c.met /\ (known.stale <=> leafNow # c.met)
  BY <1>2 DEF Field
<1> HIDE DEF known
<1>4. CASE Attempt(c, leafNow)
  <2>1. OpeningOK(o, Refuse(known))
    BY <1>2, <1>3, RefusalOK
  <2> QED  BY <1>1, <1>4, <2>1, OneOpening
<1>5. CASE ~Attempt(c, leafNow)
  <2>1. /\ DOMAIN e = Field /\ e.at = "failed"
        /\ \A f \in {"fd", "met", "wrote", "moved", "stale", "reached"} : e[f] = known[f]
    BY <1>3, Ends
  <2>2. Become(o, e)
    BY <1>1, <1>5
  <2> HIDE DEF e
  <2>3. e.fd = None /\ e.wrote = None /\ e.reached = <<TRUE>> /\ e.met = c.met
    BY <1>2, <1>3, <2>1
  <2>4. c.met \in {"absent", "file"} \/ leafNow # c.met
    BY <1>2, <1>5 DEF Attempt
  <2>5. e.stale <=> leafNow # c.met
    BY <1>3, <2>1
  <2>6. OpeningOK(o, e)
    BY <2>1, <2>3, <2>4, <2>5 DEF OpeningOK, HeldOK, RecordOK, ModeOK, WroteOK, MetOK
  <2> QED  BY <1>1, <2>2, <2>6, OneOpening
<1> QED  BY <1>4, <1>5

(* The descriptor is closed before the refusal. *)
LEMMA DropOK ==
  ASSUME NEW o, NEW c, OpeningOK(o, c), c.at \in {"opened", "stated"}
  PROVE  OpeningOK(o, Drop(c))
<1> DEFINE d == [c EXCEPT !.fd.held = FALSE]
<1>1. /\ DOMAIN c = Field /\ DOMAIN c.fd = {"place", "held", "type"} /\ c.reached = <<TRUE>>
      /\ c.wrote # None => o \notin ReadOnly /\ (Inside(c.wrote) \/ c.moved \/ c.lent)
  BY DEF OpeningOK, HeldOK, RecordOK, WroteOK
<1>2. DOMAIN d = Field /\ d.fd = [c.fd EXCEPT !.held = FALSE] /\ d.reached = c.reached /\ d.wrote = c.wrote
  BY <1>1 DEF Field
<1>3. d.moved = c.moved /\ d.lent = c.lent
  BY <1>1 DEF Field
<1>4. DOMAIN d.fd = {"place", "held", "type"} /\ ~d.fd.held
  BY <1>1, <1>2
<1> HIDE DEF d
<1>5. OpeningOK(o, Refuse(d))
  BY <1>1, <1>2, <1>3, <1>4, RefusalOK
<1> QED  BY <1>5 DEF Drop, d

LEMMA StatInv ==
  ASSUME CageInv, NEW o \in Opening, Stat(o)
  PROVE  CageInv'
<1> DEFINE c == cage[o]  d == [c EXCEPT !.at = "stated"]
<1>1. /\ OpeningOK(o, c) /\ c.at = "opened" /\ UNCHANGED fs
      /\ Become(o, IF c.fd.type = "file" THEN d ELSE Drop(c))
  BY DEF CageInv, Stat
<1>2. CASE c.fd.type = "file"
  <2>1. /\ DOMAIN c = Field /\ DOMAIN c.fd = {"place", "held", "type"} /\ c.fd.held /\ c.reached = <<TRUE>>
        /\ c.path \in Asked \ {None} /\ c.mode \in Known /\ (o \in ReadOnly => c.mode = "r")
        /\ c.wrote # None => /\ o \notin ReadOnly /\ (Inside(c.wrote) \/ c.moved \/ c.lent)
                             /\ c.fd.place \in {c.wrote, None}
    BY <1>1 DEF OpeningOK, HeldOK, RecordOK, ModeOK, WroteOK
  <2>2. /\ DOMAIN d = Field /\ d.at = "stated" /\ d.fd = c.fd /\ d.reached = c.reached /\ d.path = c.path
        /\ d.mode = c.mode /\ d.wrote = c.wrote
    BY <2>1 DEF Field
  <2>3. d.moved = c.moved /\ d.lent = c.lent
    BY <2>1 DEF Field
  <2>4. Become(o, d)
    BY <1>1, <1>2
  <2> HIDE DEF d
  <2>5. OpeningOK(o, d)
    <3>1. HeldOK(d) /\ RecordOK(d) /\ MetOK(d)
      BY <1>2, <2>1, <2>2 DEF HeldOK, RecordOK, MetOK
    <3>2. ModeOK(o, d)
      BY <2>1, <2>2 DEF ModeOK
    <3>3. WroteOK(o, d)
      BY <2>1, <2>2, <2>3 DEF WroteOK
    <3> QED  BY <2>2, <3>1, <3>2, <3>3 DEF OpeningOK
  <2> QED  BY <1>1, <2>4, <2>5, OneOpening
<1>3. CASE c.fd.type # "file"
  BY <1>1, <1>3, DropOK, OneOpening
<1> QED  BY <1>2, <1>3

LEMMA FindInv ==
  ASSUME CageInv, NEW o \in Opening, Find(o)
  PROVE  CageInv'
<1> DEFINE c == cage[o]  e == Over(c, "served")
<1>1. /\ OpeningOK(o, c) /\ c.at = "stated" /\ UNCHANGED fs
      /\ Become(o, IF FoundInside(c) THEN e ELSE Drop(c))
  BY DEF CageInv, Find
<1>2. CASE FoundInside(c)
  <2>1. /\ DOMAIN c = Field /\ DOMAIN c.fd = {"place", "held", "type"} /\ c.fd.held /\ c.fd.type = "file"
        /\ c.reached = <<TRUE>> /\ (o \in ReadOnly => c.mode = "r")
        /\ c.wrote # None => o \notin ReadOnly /\ c.fd.place \in {c.wrote, None}
    BY <1>1 DEF OpeningOK, HeldOK, RecordOK, ModeOK, WroteOK
  <2>2. /\ DOMAIN e = Field /\ e.at = "served" /\ e.mode = c.mode
        /\ \A f \in {"fd", "met", "wrote", "moved", "stale", "reached"} : e[f] = c[f]
    BY <2>1, Ends
  <2>3. Become(o, e)
    BY <1>1, <1>2
  <2> HIDE DEF e
  <2>4. e.fd = c.fd /\ e.wrote = c.wrote /\ e.reached = c.reached
    BY <2>2
  <2>5. c.fd.place # None /\ Inside(c.fd.place)
    BY <1>2 DEF FoundInside
  <2>6. OpeningOK(o, e)
    <3>1. HeldOK(e) /\ RecordOK(e) /\ MetOK(e)
      BY <2>1, <2>2, <2>4, <2>5 DEF HeldOK, RecordOK, MetOK
    <3>2. ModeOK(o, e)
      BY <2>1, <2>2 DEF ModeOK
    <3>3. WroteOK(o, e)
      BY <2>1, <2>2, <2>4, <2>5 DEF WroteOK
    <3> QED  BY <2>2, <3>1, <3>2, <3>3 DEF OpeningOK
  <2> QED  BY <1>1, <2>3, <2>6, OneOpening
<1>3. CASE ~FoundInside(c)
  BY <1>1, <1>3, DropOK, OneOpening
<1> QED  BY <1>2, <1>3

(* What leads to a path's directory leads to the path, and no path to its own
   directory. *)
LEMMA PrefixOfFront ==
  ASSUME NEW p \in Path \ {<<>>}, NEW q \in Path \ {<<>>}
  PROVE  /\ IsPrefix(p, Front(q)) => IsPrefix(p, q)
         /\ ~IsPrefix(p, Front(p)) /\ Front(p) # p
         /\ IsPrefix(p, p)
<1>1. /\ Len(p) \in Nat /\ Len(q) \in Nat /\ Len(Front(p)) = Len(p) - 1 /\ Len(Front(q)) = Len(q) - 1
      /\ Front(q) \in Path /\ Last(q) \in Name /\ q = Append(Front(q), Last(q))
  BY FrontIs, LenProperties DEF Path
<1>2. IsPrefix(p, Front(q)) => IsPrefix(p, q)
  <2> SUFFICES ASSUME IsPrefix(p, Front(q)) PROVE IsPrefix(p, q)
    OBVIOUS
  <2>1. Len(p) <= Len(Front(q)) /\ SubSeq(p, 1, Len(p)) = SubSeq(Front(q), 1, Len(p))
    BY DEF IsPrefix
  <2>2. Len(p) \in 0 .. Len(Front(q)) /\ Len(p) <= Len(q)
    BY <1>1, <2>1
  <2>3. SubSeq(q, 1, Len(p)) = SubSeq(Front(q), 1, Len(p))
    BY <1>1, <2>2, PartsOfAppend
  <2> QED  BY <2>1, <2>2, <2>3 DEF IsPrefix
<1>3. ~IsPrefix(p, Front(p)) /\ Front(p) # p
  BY <1>1 DEF IsPrefix
<1>4. IsPrefix(p, p)
  BY <1>1 DEF IsPrefix
<1> QED  BY <1>2, <1>3, <1>4

LEMMA SwapInv ==
  ASSUME CageInv, NEW p \in Place, NEW node \in Nodes, Swap(p, node)
  PROVE  CageInv'
<1>1. /\ fs \in [Place -> Nodes] /\ DOMAIN fs = Place /\ TypeAt(fs, Front(p)) = "directory"
      /\ fs' = [q \in Place |-> IF q = p THEN node ELSE IF IsPrefix(p, q) THEN Node("absent") ELSE fs[q]]
  BY DEF CageInv, IsTree, Swap
<1>2. Node("absent") \in Nodes /\ Node("absent").type = "absent"
  BY DEF Nodes, Node, NodeType
<1>3. DOMAIN fs' = Place /\ IsTree(fs')
  BY <1>1, <1>2 DEF IsTree
<1>4. \A q : q # p /\ ~IsPrefix(p, q) => TypeAt(fs', q) = TypeAt(fs, q)
  BY <1>1 DEF TypeAt
<1>5. WellFormed(fs')
  <2> SUFFICES ASSUME NEW q \in Place, fs'[q].type # "absent" PROVE TypeAt(fs', Front(q)) = "directory"
    BY <1>3 DEF WellFormed
  <2>1. p \in Path \ {<<>>} /\ q \in Path \ {<<>>}
    BY TreeAssumption
  <2>2. CASE q = p
    <3>1. ~IsPrefix(p, Front(p)) /\ Front(p) # p
      BY <2>1, PrefixOfFront
    <3> QED  BY <1>1, <1>4, <2>2, <3>1
  <2>3. CASE q # p
    <3>1. ~IsPrefix(p, q) /\ fs'[q] = fs[q]
      BY <1>1, <1>2, <2>3
    <3>2. TypeAt(fs, Front(q)) = "directory"
      BY <1>1, <3>1 DEF CageInv, WellFormed
    <3>3. ~IsPrefix(p, Front(q)) /\ Front(q) # p
      BY <2>1, <3>1, PrefixOfFront
    <3> QED  BY <1>4, <3>2, <3>3
  <2> QED  BY <2>2, <2>3
<1>6. ASSUME NEW o \in Opening PROVE OpeningOK(o, cage'[o])
  <2> DEFINE c == cage[o]  d == [c EXCEPT !.fd.place = None]
  <2>1. OpeningOK(o, c) /\ (cage'[o] = c \/ (cage'[o] = d /\ c.fd # None /\ c.at # "served"))
    BY DEF CageInv, Swap
  <2>2. CASE cage'[o] = d /\ c.fd # None /\ c.at # "served"
    <3>1. DOMAIN c = Field /\ DOMAIN c.fd = {"place", "held", "type"}
      BY <2>1, <2>2 DEF OpeningOK, HeldOK
    <3>2. /\ DOMAIN d = Field /\ d.fd = [c.fd EXCEPT !.place = None]
          /\ \A f \in Field \ {"fd"} : d[f] = c[f]
      BY <3>1 DEF Field
    <3>3. DOMAIN d.fd = {"place", "held", "type"} /\ d.fd.place = None /\ d.fd.type = c.fd.type
      BY <3>1, <3>2
    <3>4. d.fd.held <=> c.fd.held
      BY <3>1, <3>2
    <3> HIDE DEF d
    <3>5. /\ d.at = c.at /\ d.path = c.path /\ d.mode = c.mode /\ d.parent = c.parent
          /\ d.code = c.code /\ d.met = c.met /\ d.wrote = c.wrote
      BY <3>2 DEF Field
    <3>6. d.moved = c.moved /\ d.lent = c.lent /\ d.stale = c.stale /\ d.reached = c.reached
      BY <3>2 DEF Field
    <3>7. HeldOK(d)
      BY <2>1, <2>2, <3>3, <3>4, <3>5 DEF OpeningOK, HeldOK
    <3>8. RecordOK(d) /\ ModeOK(o, d) /\ MetOK(d)
      BY <2>1, <3>5, <3>6 DEF OpeningOK, RecordOK, ModeOK, MetOK
    <3>9. WroteOK(o, d)
      BY <2>1, <2>2, <3>3, <3>5, <3>6 DEF OpeningOK, WroteOK
    <3> QED  BY <2>2, <3>2, <3>7, <3>8, <3>9 DEF OpeningOK
  <2> QED  BY <2>1, <2>2
<1>7. cage' = [o \in Opening |-> cage'[o]]
  BY DEF Swap
<1> QED  BY <1>3, <1>5, <1>6, <1>7 DEF CageInv

LEMMA CageInvStep == CageInv /\ [CageNext]_cageVars => CageInv'
<1> SUFFICES ASSUME CageInv, [CageNext]_cageVars PROVE CageInv'
  OBVIOUS
<1>1. ASSUME NEW o \in Opening, CageStep(o) PROVE CageInv'
  BY <1>1, JudgeInv, OpenFailsInv, OpensInv, CaughtInv, StatInv, FindInv DEF CageStep
<1>2. ASSUME NEW o \in Opening, NEW path \in Asked, NEW mode \in Mode, Look(o, path, mode) PROVE CageInv'
  BY <1>2, LookInv
<1>3. ASSUME NEW o \in Opening, NEW name \in DOMAIN LowerCase, NEW port \in AskedPorts, Connect(o, name, port)
      PROVE  CageInv'
  <2> DEFINE allowed == HostAllowed(name, port)
  <2>1. Reach(o, allowed)
    BY <1>3 DEF Connect
  <2> HIDE DEF allowed
  <2> QED  BY <2>1, ReachInv
<1>4. ASSUME NEW o \in Opening, NEW name \in AskedNames, Service(o, name) PROVE CageInv'
  <2> DEFINE allowed == name \in Declared
  <2>1. Reach(o, allowed)
    BY <1>4 DEF Service
  <2> HIDE DEF allowed
  <2> QED  BY <2>1, ReachInv
<1>5. ASSUME OthersMove PROVE CageInv'
  BY <1>5, SwapInv DEF OthersMove
<1>6. ASSUME UNCHANGED cageVars PROVE CageInv'
  BY <1>6 DEF cageVars, CageInv, IsTree, WellFormed, TypeAt
<1> QED  BY <1>1, <1>2, <1>3, <1>4, <1>5, <1>6 DEF CageNext

-----------------------------------------------------------------------------
(* The theorems. *)

(* However others change the file system between the cage's looks, a handler is
   given a descriptor only of a regular file inside a root, and a read_only tool
   only one opened to read (cage.ts, open). *)
THEOREM TheServedAreInside == CageSpec => []ServedInside
<1>1. CageInv => ServedInside
  BY DEF CageInv, OpeningOK, HeldOK, RecordOK, ModeOK, ServedInside
<1> QED  BY <1>1, CageInvInit, CageInvStep, PTL DEF CageSpec

(* A file outside the roots is created or truncated only where a directory on the
   way was moved between check and open, or a link was there for the judgement
   alone; its handle is never served, and a read_only tool's cage writes nothing
   (cage.ts, resolveReal and open). *)
THEOREM WritesNeedADirectory == CageSpec => []WritesOnlyThroughADirectory
<1>1. CageInv => WritesOnlyThroughADirectory
  <2> SUFFICES ASSUME CageInv, NEW o \in Opening, cage[o].wrote # None
      PROVE  /\ o \notin ReadOnly
             /\ ~Inside(cage[o].wrote) => cage[o].at # "served" /\ (cage[o].moved \/ cage[o].lent)
    BY DEF WritesOnlyThroughADirectory
  <2>1. HeldOK(cage[o]) /\ WroteOK(o, cage[o])
    BY DEF CageInv, OpeningOK
  <2> QED  BY <2>1 DEF HeldOK, WroteOK
<1> QED  BY <1>1, CageInvInit, CageInvStep, PTL DEF CageSpec

(* A refused or failed open holds no descriptor; one that met a link, a FIFO or a
   directory is on record as refused, unless what it met had changed again before
   it was looked at (cage.ts, the catch of open). *)
THEOREM AttemptsStayOnRecord == CageSpec => []AttemptsAreRecorded
<1>1. CageInv => AttemptsAreRecorded
  <2> SUFFICES ASSUME CageInv, NEW o \in Opening
      PROVE  LET c == cage[o] IN
             /\ c.at \in {"refused", "failed"} => c.fd = None \/ ~c.fd.held
             /\ c.at = "refused" => c.reached # <<>> /\ ~Last(c.reached)
             /\ c.at = "reached" => c.reached = <<TRUE>>
             /\ c.at = "failed" => c.met \in {"absent", "file"} \/ c.stale
    BY DEF AttemptsAreRecorded
  <2>1. HeldOK(cage[o]) /\ RecordOK(cage[o]) /\ MetOK(cage[o])
    BY DEF CageInv, OpeningOK
  <2>2. /\ <<FALSE>> # <<>> /\ <<TRUE, FALSE>> # <<>>
        /\ Last(<<FALSE>>) = FALSE /\ Last(<<TRUE, FALSE>>) = FALSE
    BY DEF Last
  <2>3. cage[o].at = "refused" => cage[o].reached # <<>> /\ ~Last(cage[o].reached)
    BY <2>1, <2>2 DEF RecordOK
  <2> QED  BY <2>1, <2>3 DEF HeldOK, RecordOK, MetOK
<1> QED  BY <1>1, CageInvInit, CageInvStep, PTL DEF CageSpec

=============================================================================
