------------------------------- MODULE FileTree -------------------------------
(***************************************************************************)
(* The file system the containment cage looks at, as the calls it makes    *)
(* see it (packages/core/src/containment/cage.ts: lstat, realpath.native,  *)
(* open(2)), and resolveReal, the cage's own path judgement over them.     *)
(*                                                                         *)
(* A path is a sequence of names from the root of the file system; a tree  *)
(* fs gives each place (a path with no link on the way to it) its node.    *)
(* Links are absolute, and at most MaxHops of them are followed.           *)
(***************************************************************************)
EXTENDS Naturals, SequencesExt

NodeType == {"absent", "file", "fifo", "directory", "link"}
Node(type) == [type |-> type, to |-> <<>>]
LinkTo(target) == [type |-> "link", to |-> target]

TypeAt(fs, p) == IF p = <<>> THEN "directory" ELSE IF p \in DOMAIN fs THEN fs[p].type ELSE "absent"

(* What is there is in a directory. *)
WellFormed(fs) == \A p \in DOMAIN fs : fs[p].type # "absent" => TypeAt(fs, Front(p)) = "directory"

(* The links a path meets, by how far along it they are. *)
LinksOn(fs, p) == {i \in 1 .. Len(p) : TypeAt(fs, SubSeq(p, 1, i)) = "link"}

Hop(fs, p) ==
  IF LinksOn(fs, p) = {} THEN p
  ELSE LET i == CHOOSE n \in LinksOn(fs, p) : \A m \in LinksOn(fs, p) : n <= m
       IN fs[SubSeq(p, 1, i)].to \o SubSeq(p, i + 1, Len(p))

(* realpath: where a path leads (MaxHops is three), and whether it is a loop. *)
Follow(fs, p) == Hop(fs, Hop(fs, Hop(fs, p)))
Loops(fs, p) == LinksOn(fs, Follow(fs, p)) # {}
Exists(fs, p) == ~Loops(fs, p) /\ TypeAt(fs, Follow(fs, p)) # "absent"

(* What open(2) and lstat act on: the last name, in the directory the rest of
   the path leads to. *)
LeafOf(fs, p) == Append(Follow(fs, Front(p)), Last(p))
LeafType(fs, p) == TypeAt(fs, LeafOf(fs, p))

(* resolveReal: the deepest part of the path that exists, resolved, with the
   rest appended; a part that cannot be resolved matches no root. *)
ResolveReal(fs, p) ==
  LET judged == {i \in 0 .. Len(p) : Exists(fs, SubSeq(p, 1, i)) \/ Loops(fs, SubSeq(p, 1, i))}
      i == CHOOSE n \in judged : \A m \in judged : m <= n
      head == SubSeq(p, 1, i)
  IN IF Loops(fs, head) THEN <<"unresolvable">> ELSE Follow(fs, head) \o SubSeq(p, i + 1, Len(p))

(* within: the root, or below it. *)
Within(p, root) == IsPrefix(root, p)

=============================================================================
