-------------------------------- MODULE PinGate ---------------------------------
(***************************************************************************)
(* The pin gate, its manifest, the operator's command and the pinned       *)
(* registry: packages/core/src/pinning/{gate,manifest,cli,registry}.ts,    *)
(* with parseDomain of containment/domain.ts, resolveReal left out.        *)
(*                                                                         *)
(* A definition is its name (a number: names are compared), description,   *)
(* schema, tag and containment domain (its sinks, "order" being a sink's   *)
(* place in UTF-16 order; "domainNull" tells null from the empty list).  A *)
(* manifest is the text an operator's file holds: entries, the entries its *)
(* manifest_hash was computed over, and whether the text parses at all.    *)
(***************************************************************************)
EXTENDS CanonicalForm, CapabilityLadder

DomainEntry ==
  [order : Nat, scheme : STRING, absolute : BOOLEAN, path : Seq(STRING), labels : Seq(STRING), port : Nat, name : STRING]
Definition ==
  {d \in [name : Nat, nameOk : BOOLEAN, keys : STRING, description : Seq(CodeUnit), schema : InputSchema, cls : Class,
          untrusted : BOOLEAN, elevated : BOOLEAN, basis : Basis, domainNull : BOOLEAN, domain : Seq(DomainEntry)] :
     /\ d.domainNull => d.domain = <<>>
     /\ \A a, b \in Range(d.domain) : a.order = b.order => a = b}

Names(defs) == {d.name : d \in Range(defs)}
Twice(defs, name) == \E i, j \in DOMAIN defs : i # j /\ defs[i].name = name /\ defs[j].name = name

-----------------------------------------------------------------------------
(* The manifest (manifest.ts).                                              *)

Entry(d) == [name |-> d.name, hash |-> ToolHash(d)]

(* entriesFor: never an ambiguous or unhashable manifest; of what it does not
   refuse, an entry for each name, in order. *)
EntriesRefuse(defs) == (\E d \in Range(defs) : ~Canonical(d)) \/ (\E n \in Names(defs) : Twice(defs, n))

BuildManifest(defs) ==
  LET names == Names(defs)
      entries == [k \in 1..Cardinality(names) |-> Entry(CHOOSE d \in Range(defs) : d.name = Nth(names, k))]
  IN  [text |-> "manifest", entries |-> entries, sum |-> entries]

(* parseManifest: the text and its schema, strict order, the recomputed hash. *)
Parses(m) ==
  /\ m.text = "manifest"
  /\ \A i \in 2..Len(m.entries) : m.entries[i - 1].name < m.entries[i].name
  /\ m.sum = m.entries

Pinned(m) == {e.name : e \in Range(m.entries)}
HashOf(m, name) == (CHOOSE e \in Range(m.entries) : e.name = name).hash

-----------------------------------------------------------------------------
(* PinGate.admit (gate.ts): the snapshot is what is hashed, and what is served. *)

Verdict(m, defs, d) ==
  IF Twice(defs, d.name) THEN "duplicate"
  ELSE IF ~Canonical(d) THEN "invalid"
  ELSE IF d.name \notin Pinned(m) THEN "unpinned"
  ELSE IF ToolHash(CanonicalToolObject(d)) # HashOf(m, d.name) THEN "drifted" ELSE "admitted"

Admitted(m, defs) == {CanonicalToolObject(d) : d \in {e \in Range(defs) : Verdict(m, defs, e) = "admitted"}}

Refused(m, defs) ==
  {[name |-> d.name, reason |-> Verdict(m, defs, d)] : d \in {e \in Range(defs) : Verdict(m, defs, e) # "admitted"}}
  \cup {[name |-> n, reason |-> "removed"] : n \in Pinned(m) \ Names(defs)}

-----------------------------------------------------------------------------
(* PinnedRegistry's constructor (registry.ts): each admitted tool, from its snapshot. *)

(* parseFs: a rooted, normalized path, and not the root of all. *)
FsParses(sink) ==
  /\ sink.absolute /\ sink.path # <<>>
  /\ Range(sink.path) \cap {"", ".", "..", "nul", "backslash"} = {}

SinkPort == 1..65535

(* parseHost: a name of labels, none of them hexadecimal and the last beginning with
   a letter, so never an address; a port as written, 0 when it is not one, or None. *)
HostParses(sink) ==
  /\ Range(sink.labels) \subseteq {"name", "digits"}
  /\ Len(sink.labels) \in DOMAIN sink.labels /\ Last(sink.labels) = "name"
  /\ sink.port \in SinkPort

(* parseDomain: in order, without repetition, each sink well-formed. *)
SinkParses(sink) ==
  \/ sink.scheme = "fs" /\ FsParses(sink)
  \/ sink.scheme = "host" /\ HostParses(sink)
  \/ sink.scheme = "svc" /\ sink.name # "malformed"

Ordered(domain) == \A i \in 2..Len(domain) : domain[i - 1].order < domain[i].order
ParsesDomain(o) == Ordered(o.domain) /\ \A sink \in Range(o.domain) : SinkParses(sink)

TagOf(o) ==
  [cls |-> o.cls, untrusted |-> o.untrusted, private |-> FALSE, elevated |-> o.elevated, basis |-> o.basis,
   domain |-> CASE o.domainNull -> "null"
                [] ~o.domainNull /\ o.domain = <<>> -> "empty"
                [] o.domain # <<>> /\ ParsesDomain(o) -> "sinks"
                [] OTHER -> "malformed"]

Builds(o, settings) ==
  /\ ~(o.cls = "arbitrary_exec" /\ ~o.domainNull)
  /\ ~(o.cls = "arbitrary_exec" /\ settings.execForbidden)
  /\ o.domainNull \/ ParsesDomain(o)
  /\ Unmet(TagOf(o), settings.backend) = {}
  /\ Prepares(o.schema)

ToolOf(o) ==
  [snapshot |-> o, headers |-> ParamHeaders(o.schema), humanOnly |-> o.elevated /\ HumanOnly(TagOf(o)), readOnly |-> o.cls = "read_only"]

-----------------------------------------------------------------------------
(* The operator's command (cli.ts), on a file that may not exist.           *)

NoFile == [text |-> "missing", entries |-> <<>>, sum |-> <<>>]
DiffReads(file, defs) == (file = NoFile \/ Parses(file)) /\ \A d \in Range(defs) : Canonical(d)

DiffLines(file, defs) ==
  {[name |-> n, status |->
      CASE Twice(defs, n) -> "duplicate"
        [] n \notin Names(defs) -> "removed"
        [] n \notin Pinned(file) /\ ~Twice(defs, n) -> "new"
        [] OTHER -> IF \E d \in Range(defs) : d.name = n /\ ToolHash(d) = HashOf(file, n)
                      THEN "unchanged" ELSE "drifted"] : n \in Names(defs) \cup Pinned(file)}

DiffCode(file, defs) ==
  IF DiffReads(file, defs) /\ \A l \in DiffLines(file, defs) : l.status = "unchanged" THEN 0 ELSE 1

VerifyCode(file, defs) == IF Parses(file) /\ Refused(file, defs) = {} THEN 0 ELSE 1

(* approve --yes: the diff is read and printed first, so an existing file that
   does not parse is never written over. *)
ApproveWrites(file, defs) == DiffReads(file, defs) /\ ~EntriesRefuse(defs)

=============================================================================
