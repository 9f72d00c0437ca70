------------------------------- MODULE ToolSchema -------------------------------
(***************************************************************************)
(* A tool's input schema, as the canonical form serializes it and the      *)
(* registry checks it: packages/core/src/transport/{schema-walk,registry,  *)
(* headers,schema}.ts and the serializer of pinning/canonical.ts.          *)
(*                                                                         *)
(* A schema is the sequence of its objects, each after the one that holds  *)
(* it ("up", an index) and with the place it has there ("by"): a name      *)
(* under properties, a name under another map of names, an element of an   *)
(* array, the value of any other keyword, or instance data (const, enum,   *)
(* default, examples).  "ref" is the object's $ref, "dialect" its $schema, *)
(* "header" its x-mcp-header, "types" its type (a list when "listed"),     *)
(* "member" the worst of its members that are not objects.                 *)
(***************************************************************************)
EXTENDS Naturals, Sequences, FiniteSets, SequencesExt

CONSTANTS MaxSchemaDepth, MaxSchemaNodes, MaxNesting

SchemaObject ==
  [up : Nat, by : STRING, ref : STRING, dialect : STRING, header : STRING, types : Seq(STRING), listed : BOOLEAN,
   member : STRING, compiles : BOOLEAN]
InputSchema == {s \in Seq(SchemaObject) : s # <<>> /\ \A i \in 2..Len(s) : s[i].up \in 1..(i - 1)}

Tokens == {"A", "a", "B"}
Lower(header) == IF header = "A" THEN "a" ELSE header

-----------------------------------------------------------------------------
(* What the serializer refuses: members that are not JSON data read once (A1, A8),
   numbers (A2) and strings (A3) with no one form, and nesting, where a map of
   names and an array are a level of their own (A1). *)
NotData == {"accessor", "symbol", "hidden", "hole", "undefined", "function"}
NotOneNumber == {"nan", "minus-zero", "huge"}
NotOneString == {"lone-surrogate", "bom"}

Nesting(s) ==
  LET level[i \in DOMAIN s] ==
        IF i = 1 THEN 1 ELSE level[s[i].up] + (IF s[i].by \in {"properties", "names", "item"} THEN 2 ELSE 1)
  IN  level

SerializesSchema(s) ==
  \A i \in DOMAIN s :
    s[i].member \notin NotData \cup NotOneNumber \cup NotOneString /\ Nesting(s)[i] < MaxNesting

-----------------------------------------------------------------------------
(* The keyword-aware walk: which objects it visits, how deep, and which of them
   it reaches through properties alone. *)
Walked(s) ==
  LET walked[i \in DOMAIN s] == i = 1 \/ (s[i].by # "data" /\ walked[s[i].up])
  IN  {i \in DOMAIN s : walked[i]}

Depth(s) == LET depth[i \in DOMAIN s] == IF i = 1 THEN 0 ELSE depth[s[i].up] + 1 IN depth

Static(s) ==
  LET static[i \in DOMAIN s] == i = 1 \/ (s[i].by = "properties" /\ static[s[i].up])
  IN  {i \in DOMAIN s : static[i]}

(* inspectSchema: size, depth, one dialect, and no reference out of the document. *)
Inspects(s) ==
  /\ Cardinality(Walked(s)) <= MaxSchemaNodes
  /\ \A i \in Walked(s) :
       /\ Depth(s)[i] <= MaxSchemaDepth
       /\ i # 1 => s[i].dialect = "none"
       /\ s[i].ref # "outside"

(* primitiveType: exactly one primitive, with "null" beside it or not. *)
PrimitiveType(node) ==
  /\ Len(node.types) <= 2
  /\ \E i \in DOMAIN node.types :
       /\ node.types[i] \in {"string", "integer", "boolean"}
       /\ \A j \in DOMAIN node.types \ {i} : node.types[j] = "null"

(* paramHeaders: each annotation on a statically reachable primitive property, and
   no two of them one header. *)
Annotated(s) == {i \in Walked(s) : s[i].header # "none"}
ParamHeaders(s) == {[header |-> Lower(s[i].header), at |-> i] : i \in Annotated(s)}
HeadersFit(s) ==
  /\ \A i \in Annotated(s) :
       i \in Static(s) \ {1} /\ s[i].header \in Tokens /\ PrimitiveType(s[i])
  /\ \A i, j \in Annotated(s) : i # j => Lower(s[i].header) # Lower(s[j].header)

(* prepareTool, on a name the canonical form has already passed.  What the pinned
   validator refuses to compile is its own affair ("compiles", at the root). *)
Prepares(s) ==
  /\ s[1].types = <<"object">> /\ ~s[1].listed
  /\ s[1].dialect \in {"none", "2020-12"}
  /\ Inspects(s) /\ HeadersFit(s)
  /\ s[1].compiles

-----------------------------------------------------------------------------
(* Instance data: what const, enum, default or examples holds, and all below it. *)
IsData(s, i) == LET data[k \in DOMAIN s] == s[k].by = "data" \/ (k # 1 /\ data[s[k].up]) IN data[i]

=============================================================================
