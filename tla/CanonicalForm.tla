----------------------------- MODULE CanonicalForm -----------------------------
(***************************************************************************)
(* The canonical form of a tool: packages/core/src/pinning/canonical.ts,   *)
(* with canonicalInput of pinning/manifest.ts.                             *)
(*                                                                         *)
(* A string is a sequence of the code units the form tells apart: an       *)
(* ordinary unit, a blank, CR, LF, U+FEFF and the halves of a surrogate    *)
(* pair.  An input schema is ToolSchema's.  A set's strings are sinks, by  *)
(* their "order" in UTF-16.  A hash is its own preimage: SHA-256 is taken  *)
(* to be injective.                                                        *)
(***************************************************************************)
EXTENDS ToolSchema, FiniteSetsExt

CodeUnit == {"x", "blank", "cr", "lf", "bom", "high", "low"}

(* A finite set's k-th number in increasing order. *)
Nth(S, k) == CHOOSE n \in S : Cardinality({m \in S : m < n}) = k - 1

(* The elements of a sequence whose indices are kept, in its order (held by TLC as a
   sequence, not a function). *)
Pick(s, kept) == <<>> \o [k \in 1..Cardinality(kept) |-> s[Nth(kept, k)]]

(* A3: no lone surrogate, and no string that begins with U+FEFF. *)
CheckString(s) ==
  /\ s # <<>> => s[1] # "bom"
  /\ \A i \in DOMAIN s :
       /\ s[i] = "high" => i < Len(s) /\ s[i + 1] = "low"
       /\ s[i] = "low" => i > 1 /\ s[i - 1] = "high"

(* A4, step by step. *)
LineEnds(s) ==
  LET t == Pick(s, {i \in DOMAIN s : ~(s[i] = "lf" /\ i > 1 /\ s[i - 1] = "cr")})
  IN  [i \in DOMAIN t |-> IF t[i] = "cr" THEN "lf" ELSE t[i]]

BlankRun(s, i) ==
  \E e \in i..Len(s) : (e = Len(s) \/ s[e + 1] = "lf") /\ \A j \in i..e : s[j] = "blank"

Stripped(s) == Pick(s, {i \in DOMAIN s : ~BlankRun(s, i)})

Trimmed(s) == Pick(s, {i \in DOMAIN s : \E a \in 1..i, b \in i..Len(s) : s[a] # "lf" /\ s[b] # "lf"})

(* Slip: the line ends are trimmed before the trailing blanks are removed. *)
TrimFirst(s) == Stripped(Trimmed(LineEnds(s)))

NormalizeDescription(s) == Trimmed(Stripped(LineEnds(s)))

(* A7: a set's distinct strings in order. *)
CanonicalSet(s) ==
  LET orders == {e.order : e \in Range(s)}
  IN  [k \in 1..Cardinality(orders) |-> CHOOSE e \in Range(s) : e.order = Nth(orders, k)]

(* A5, A6, A8: what refuses a definition before anything is serialized.  "keys"
   is the tag's key set as given: exactly the seven, one more, or one short. *)
Refuses(d) ==
  \/ d.keys # "seven"
  \/ ~d.nameOk
  \/ ~CheckString(d.description)

CanonicalToolObject(d) ==
  [d EXCEPT !.description = NormalizeDescription(@), !.domain = IF d.domainNull THEN @ ELSE CanonicalSet(@)]

(* Serialization refuses what is not JSON, and a normalized description that now
   begins with U+FEFF (A3 again, after A4). *)
Serializes(o) == SerializesSchema(o.schema) /\ CheckString(o.description)

Canonical(d) == ~Refuses(d) /\ Serializes(CanonicalToolObject(d))

ToolHash(d) == CanonicalToolObject(d)

=============================================================================
