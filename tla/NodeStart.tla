-------------------------------- MODULE NodeStart --------------------------------
(***************************************************************************)
(* Starting and stopping a node: packages/core/src/node/{cli,settings,     *)
(* start}.ts and startTransport's own steps and close (transport/server.ts *)
(* and transport/config.ts).                                               *)
(*                                                                         *)
(* One action per step the entry takes, in its order, with the ways each   *)
(* may refuse the start.  What a step reads is in "env" (the process's     *)
(* environment, which an edition's module code may rewrite as it is        *)
(* imported), "Disk" (a manifest file by its path) or "settings" (the      *)
(* snapshot).  A step that awaits nothing is atomic with what follows it   *)
(* only up to the next row it writes, because a row may fail.  Calls are   *)
(* kept only as far as the row that records them (dispatch.ts).            *)
(***************************************************************************)
EXTENDS PinGate, Settings, ListenAddress

CONSTANTS
  Env,           \* the environments an operator starts a node in
  Rewritten,     \* those an edition's module code may leave instead
  Disk,          \* [path -> manifest file], the paths those environments name
  Editions,      \* what an edition's package may export
  Ports,         \* the ports the system picks from when none is named
  MaxInFlight,   \* the transport's in-flight cap
  Call           \* the calls that reach a serving node

ASSUME NodeAssumption ==
  /\ DOMAIN Disk \subseteq DOMAIN Files
  /\ \A e \in Env :
       e.manifest \in DOMAIN Disk \cup {""} /\ e.options \in Seq(Unit) /\ NodeStarts(e.options)
  /\ \A ed \in Editions : ed.definitions \in Seq(Definition)
  /\ \A ed \in Editions, e \in Env : EditionConfig(ed.schema, e.own).host \in DOMAIN OneForm

VARIABLES
  env, operator,     \* the environment now, and as the operator set it
  settings,          \* the snapshot
  gate,              \* the manifest as read
  edition,           \* what its package exports
  tools, refused,    \* the registry, and what the gate refused
  stage,
  store, pool, server, approvals,
  places,            \* where the endpoint and the approval listener are bound
  rows,              \* what the store (or the seam) holds
  calls

inputs == <<env, operator, settings, gate, edition>>
registry == <<tools, refused>>
held == <<store, pool, server, approvals>>
vars == <<inputs, registry, stage, held, places, rows, calls>>

Resource == {"none", "open", "closed"}
Shut(r) == IF r = "open" THEN "closed" ELSE r
NoSettings == [none |-> TRUE]
NoEdition == [exports |-> {}, definitions |-> <<>>]
Nowhere == [address |-> "", port |-> 0]

defs == edition.definitions
Config == EditionConfig(edition.schema, settings.own)

NodeInit ==
  /\ env \in Env /\ operator = env
  /\ settings = NoSettings /\ gate = NoFile /\ edition = NoEdition
  /\ tools = {} /\ refused = {}
  /\ stage = "capture"
  /\ store = "none" /\ pool = "none" /\ server = "none" /\ approvals = "none"
  /\ places = [main |-> Nowhere, approval |-> Nowhere]
  /\ rows = {} /\ calls = [c \in Call |-> "idle"]

-----------------------------------------------------------------------------
(* A start that fails: what the failing step closes, then the caller the store. *)
Refuse(poolEnd) ==
  /\ stage' = "refused"
  /\ pool' = poolEnd
  /\ store' = Shut(store)
  /\ UNCHANGED <<inputs, registry, approvals, places, calls>>

RowMayFail == store = "open"

(* Steps 0 and 1 (cli.ts, settings.ts): a module-loading flag, or a setting that is
   missing or invalid, refuses; else every setting is copied. *)
Capture ==
  /\ stage = "capture"
  /\ \/ /\ Captures(env) /\ settings' = Captured(env) /\ stage' = "read"
        /\ UNCHANGED <<env, operator, gate, edition, registry, held, places, rows, calls>>
     \/ ~Captures(env) /\ Refuse(pool) /\ UNCHANGED <<server, rows>>

(* Step 2 (PreparedNode.prepare): the manifest is read once, from the file checked; a
   read may fail. *)
ReadManifest ==
  /\ stage = "read"
  /\ \/ /\ OperatorFile(Files[settings.manifest], FALSE)
        /\ gate' = Disk[settings.manifest] /\ stage' = "open"
        /\ UNCHANGED <<env, operator, settings, edition, registry, held, places, rows, calls>>
     \/ Refuse(pool) /\ UNCHANGED <<server, rows>>

StoreOpens ==
  settings.stored => StoreFilesApart(settings.log, settings.anchor, settings.keyFiles \cup {settings.manifest})

(* A store whose files are its own may still refuse for what they hold (AuditStore). *)
OpenStore ==
  /\ stage = "open"
  /\ \/ /\ StoreOpens /\ stage' = "parse" /\ store' = (IF settings.stored THEN "open" ELSE "none")
        /\ rows' = (IF settings.stored THEN {} ELSE {"audit-unanchored"})
        /\ UNCHANGED <<inputs, registry, pool, server, approvals, places, calls>>
     \/ settings.stored /\ Refuse(pool) /\ UNCHANGED <<server, rows>>

(* The row is written only after the parse; a manifest read but refused has its own. *)
ParseManifest ==
  /\ stage = "parse"
  /\ \/ /\ Parses(gate)
        /\ rows' = rows \cup {"manifest-loaded"} /\ stage' = "import"
        /\ UNCHANGED <<inputs, registry, held, places, calls>>
     \/ /\ Parses(gate) /\ RowMayFail /\ Refuse(pool) /\ UNCHANGED <<server, rows>>
     \/ /\ ~Parses(gate) /\ Refuse(pool) /\ UNCHANGED server
        /\ \/ rows' = rows \cup {"manifest-refused"}
           \/ RowMayFail /\ UNCHANGED rows

(* Step 3: the edition's module code runs, and may leave any environment behind. *)
ImportEdition ==
  /\ stage = "import"
  /\ \E e \in {env} \cup Rewritten, ed \in Editions :
       /\ env' = e /\ edition' = ed
       /\ \/ stage' = "assemble" /\ ed.exports = {"definitions", "configSchema"} /\ UNCHANGED store
          \/ stage' = "refused" /\ store' = Shut(store)
  /\ UNCHANGED <<operator, settings, gate, registry, pool, server, approvals, places, rows, calls>>

Registers(s) ==
  /\ \A o \in Admitted(gate, defs) : Builds(o, s)
  /\ tools' = {ToolOf(o) : o \in Admitted(gate, defs)}
  /\ refused' = Refused(gate, defs)
  /\ pool' = "open" /\ stage' = "configure"
  /\ UNCHANGED <<inputs, store, server, approvals, places, rows, calls>>

(* Slip: the registry's options are read from the environment, not the snapshot. *)
AssembleFromEnv ==
  /\ stage = "assemble"
  /\ \/ ~ReadsEdition(edition.schema, settings.own) /\ Refuse(pool) /\ UNCHANGED <<server, rows>>
     \/ ReadsEdition(edition.schema, settings.own) /\ Registers(Captured(env))

(* Step 4 (startNode): the edition's configuration, then the pool, the gate and the
   registry, which reads the snapshot. *)
Assemble ==
  /\ stage = "assemble"
  /\ \/ ~ReadsEdition(edition.schema, settings.own) /\ Refuse(pool) /\ UNCHANGED <<server, rows>>
     \/ /\ ReadsEdition(edition.schema, settings.own) /\ \E o \in Admitted(gate, defs) : ~Builds(o, settings)
        /\ Refuse("closed") /\ UNCHANGED <<server, rows>>
     \/ ReadsEdition(edition.schema, settings.own) /\ Registers(settings)

-----------------------------------------------------------------------------
(* startTransport, before anything binds. *)

(* resolveConfig, APR-14 (a tool that needs approval and no backend) and APR-20 (the
   calls that may wait hold at most half the slots). *)
Configures ==
  /\ Config.port \in PortNumber
  /\ settings.backend = "none" => \A t \in tools : ~t.snapshot.elevated
  /\ settings.backend = "configured" /\ settings.wait > 0 => settings.maxWaiting * 2 <= MaxInFlight

(* Slip: a configuration refused leaves the pool to its caller. *)
ConfigureKeepsPool ==
  /\ stage = "configure"
  /\ \/ ~Configures /\ Refuse(pool) /\ UNCHANGED <<server, rows>>
     \/ /\ Configures /\ stage' = "rows"
        /\ UNCHANGED <<inputs, registry, held, places, rows, calls>>

(* Any refused setting closes the pool. *)
Configure ==
  /\ stage = "configure"
  /\ \/ ~Configures /\ Refuse("closed") /\ UNCHANGED <<server, rows>>
     \/ /\ Configures /\ stage' = "rows"
        /\ UNCHANGED <<inputs, registry, held, places, rows, calls>>

(* One row per refusal, then strict stops the node.  A row that fails here throws
   outside every try: the pool stays open. *)
RefusalRows ==
  /\ stage = "rows"
  /\ \/ /\ refused # {} /\ RowMayFail /\ Refuse(pool) /\ UNCHANGED <<server, rows>>
     \/ /\ refused # {} /\ settings.strict
        /\ rows' = rows \cup {r.reason : r \in refused}
        /\ Refuse("closed") /\ UNCHANGED server
     \/ /\ settings.strict => refused = {}
        /\ rows' = rows \cup {r.reason : r \in refused} /\ stage' = "verifier"
        /\ UNCHANGED <<inputs, registry, held, places, calls>>

(* G1: no resource URL closes the pool; the row of an audience that differs from it
   may fail as above. *)
AudienceDiffers == settings.audience # Config.resource
CheckVerifier ==
  /\ stage = "verifier"
  /\ \/ Config.resource = "" /\ Refuse("closed") /\ UNCHANGED <<server, rows>>
     \/ RowMayFail /\ Config.resource # "" /\ AudienceDiffers /\ Refuse(pool) /\ UNCHANGED <<server, rows>>
     \/ /\ Config.resource # "" /\ stage' = "listen"
        /\ rows' = rows \cup (IF AudienceDiffers THEN {"auth-audience-differs"} ELSE {})
        /\ UNCHANGED <<inputs, registry, held, places, calls>>

(* The port binds or not.  Until the allowed hosts are set, every request is refused:
   "bound".  With no approval backend nothing is awaited before they are. *)
Listen ==
  /\ stage = "listen"
  /\ \/ Refuse("closed") /\ UNCHANGED <<server, rows>>
     \/ /\ \E a \in Binds(Config.host), p \in (IF Config.port = 0 THEN Ports ELSE {Config.port}) :
             places' = [places EXCEPT !.main = [address |-> a, port |-> p]]
        /\ \/ settings.backend = "configured" /\ server' = "bound" /\ stage' = "approvals"
           \/ settings.backend = "none" /\ server' = "open" /\ stage' = "serving"
        /\ UNCHANGED <<inputs, registry, store, pool, approvals, rows, calls>>

(* startApprovalListener: the two hosts are compared before the bind, where both ports
   are named, and again with the address it bound; the kernel refuses what it refuses.
   A listener that does not start closes the endpoint and the pool. *)
StartApprovals ==
  /\ stage = "approvals"
  /\ \/ Refuse("closed") /\ server' = "closed" /\ UNCHANGED rows
     \/ /\ settings.approvalPort = places.main.port => FALSE \in HostsOverlap(settings.approvalHost, Config.host)
        /\ \E a \in Binds(settings.approvalHost),
             p \in (IF settings.approvalPort = 0 THEN Ports ELSE {settings.approvalPort}) :
             /\ ~Same([address |-> a, port |-> p], places.main)
             /\ p = places.main.port => FALSE \in HostsOverlap(a, Config.host)
             /\ places' = [places EXCEPT !.approval = [address |-> a, port |-> p]]
        /\ approvals' = "open" /\ server' = "open" /\ stage' = "serving"
        /\ UNCHANGED <<inputs, registry, store, pool, rows, calls>>

(* A request refused before hold whose row fails: the row throws again in the catch
   of the request, and the unhandled rejection ends the process. *)
CrashBeforeHold ==
  /\ stage = "approvals" /\ RowMayFail
  /\ stage' = "crashed"
  /\ store' = "closed" /\ pool' = "closed" /\ server' = "closed" /\ calls' = [c \in Call |-> "cut"]
  /\ UNCHANGED <<inputs, registry, approvals, places, rows>>

-----------------------------------------------------------------------------
(* Serving, and the close hold wraps. *)

Begin(c) ==
  /\ server = "open" /\ calls[c] = "idle"
  /\ calls' = [calls EXCEPT ![c] = "running"]
  /\ UNCHANGED <<inputs, registry, held, places, stage, rows>>

(* The handler settles and its row is recorded; a client is answered while its
   connection lasts. *)
Finish(c) ==
  /\ calls[c] = "running" /\ store # "closed"
  /\ rows' = rows \cup {c}
  /\ calls' = [calls EXCEPT ![c] = IF server = "open" THEN "answered" ELSE "cut"]
  /\ UNCHANGED <<inputs, registry, held, places, stage>>

(* Its row cannot be written: the first failure closes the node, and the call goes
   on.  With nothing else to close first, its connection is gone before its answer. *)
FinishUnrecorded(c) ==
  /\ calls[c] = "running" /\ settings.stored
  /\ \/ stage = "serving" /\ stage' = "closing"
     \/ stage # "serving" /\ stage' = stage
  /\ IF stage = "serving" /\ approvals # "open"
       THEN server' = "closed" /\ calls' = [calls EXCEPT ![c] = "cut"]
       ELSE /\ calls' = [calls EXCEPT ![c] = IF server = "open" THEN "answered" ELSE "cut"]
            /\ UNCHANGED server
  /\ UNCHANGED <<inputs, registry, store, pool, approvals, places, rows>>

(* The operator's own close. *)
Stop ==
  /\ stage = "serving" /\ stage' = "closing"
  /\ server' = (IF approvals = "open" THEN server ELSE "closed")
  /\ UNCHANGED <<inputs, registry, store, pool, approvals, places, rows, calls>>

(* The approval listener, the endpoint with its connections, the pool, then the store. *)
CloseApprovals ==
  /\ stage = "closing" /\ approvals = "open" /\ approvals' = "closed"
  /\ UNCHANGED <<inputs, registry, store, pool, server, places, stage, rows, calls>>

CloseServer ==
  /\ stage = "closing" /\ approvals = "closed" /\ server = "open" /\ server' = "closed"
  /\ UNCHANGED <<inputs, registry, store, pool, approvals, places, stage, rows, calls>>

ClosePool ==
  /\ stage = "closing" /\ server = "closed" /\ pool = "open" /\ pool' = "closed"
  /\ UNCHANGED <<inputs, registry, store, server, approvals, places, stage, rows, calls>>

(* Slip: the store is closed with the endpoint still open. *)
CloseStoreEarly ==
  /\ stage = "closing"
  /\ store' = Shut(store) /\ stage' = "closed"
  /\ UNCHANGED <<inputs, registry, pool, server, approvals, places, rows, calls>>

CloseStore ==
  /\ stage = "closing" /\ pool = "closed"
  /\ store' = Shut(store) /\ stage' = "closed"
  /\ UNCHANGED <<inputs, registry, pool, server, approvals, places, rows, calls>>

StartStep ==
  \/ Capture \/ ReadManifest \/ OpenStore \/ ParseManifest \/ ImportEdition \/ Assemble
  \/ Configure \/ RefusalRows \/ CheckVerifier \/ Listen \/ StartApprovals
CloseStep == CloseApprovals \/ CloseServer \/ ClosePool \/ CloseStore

NodeNext ==
  \/ StartStep \/ CrashBeforeHold
  \/ \E c \in Call : Begin(c) \/ Finish(c) \/ FinishUnrecorded(c)
  \/ Stop \/ CloseStep

NodeSpec == NodeInit /\ [][NodeNext]_vars

-----------------------------------------------------------------------------
SchemaIsSafe(t) ==
  LET s == t.snapshot.schema IN
    /\ \A i \in DOMAIN s : s[i].ref = "outside" => IsData(s, i)
    /\ \A h, g \in t.headers : h.header = g.header => h.at = g.at
    /\ \A h \in t.headers : s[h.at].by = "properties" /\ "object" \notin Range(s[h.at].types)

DomainIsABound(t) ==
  \A sink \in Range(t.snapshot.domain) :
    /\ sink.scheme = "fs" => sink.path # <<>> /\ ".." \notin Range(sink.path)
    /\ sink.scheme = "host" => \E i \in DOMAIN sink.labels : sink.labels[i] = "name"

ApprovalsApart ==
  approvals = "open" =>
    /\ ~Collide(places.main, places.approval)
    /\ settings.approvalAudience # settings.audience
    /\ settings.wait > 0 => settings.maxWaiting * 2 <= MaxInFlight

(* What a node serves is what its operator approved and configured, whatever the
   edition's module code did to the environment after the snapshot: each tool is
   pinned by the manifest the operator named, served as hashed, carries the
   controls its rung asks for, asks a human where the Rule of Two does, has a
   schema that refers to nothing outside itself except as data and whose headers are
   told apart, and a domain that is a bound and names no address; a strict node
   serves all of that manifest or nothing; its log and anchor are neither each other
   nor a file it reads; and its approval listener shares no address with the
   endpoint, decides by no token callers hold, and lets waiting calls hold half the
   slots (settings.ts:96-123, server.ts:261-280, audit/store.ts:126-132).  No flag
   Node read could have run a module first (cli.ts:84-127). *)
ServedIsApproved ==
  /\ stage \notin {"capture", "refused"} => \A a \in NodeArgs(operator.options) \cup Range(operator.execArgv) : ~IsFlag(a)
  /\ server = "open" =>
       LET m == Disk[operator.manifest]
           s == Captured(operator)
       IN
         /\ settings = s /\ gate = m /\ Parses(m)
         /\ \A t \in tools :
              /\ t.snapshot.name \in Pinned(m) /\ ToolHash(t.snapshot) = HashOf(m, t.snapshot.name)
              /\ t.snapshot.cls = "arbitrary_exec" => ~s.execForbidden
              /\ MayServe(TagOf(t.snapshot), s.backend)
              /\ t.humanOnly =>
                   t.snapshot.untrusted /\ t.snapshot.elevated /\ approvals # "none"
              /\ SchemaIsSafe(t) /\ DomainIsABound(t)
         /\ s.strict => {t.snapshot.name : t \in tools} = Pinned(m)
         /\ s.stored =>
              /\ Files[s.log].id # Files[s.anchor].id
              /\ {Files[s.log].id, Files[s.anchor].id} \cap {Files[p].id : p \in {operator.manifest} \cup s.keyFiles} = {}
         /\ {r.reason : r \in refused} \subseteq rows
         /\ ApprovalsApart

(* A start that fails leaves nothing open, except the pool where a row of
   startTransport could not be written (server.ts:295-317): the only steps after
   the pool is made that throw outside a try. *)
FailedStartLeavesNothing ==
  stage = "refused" =>
    /\ store # "open" /\ server \notin {"bound", "open"} /\ approvals # "open"
    /\ pool = "open" => settings.stored /\ (refused # {} \/ AudienceDiffers)

(* The store outlives the endpoint; a call is answered without its row only by a
   node already closing, and only while its approval listener is closed first
   (start.ts:263-276, server.ts:609-615). *)
RowsOutliveTheEndpoint ==
  /\ server = "open" => store # "closed" /\ "manifest-loaded" \in rows
  /\ \A c \in Call : calls[c] = "answered" /\ c \notin rows =>
       stage \in {"closing", "closed"} /\ approvals # "none"

(* The comment at start.ts:254-257, "the node never serves unrecorded (N4)": no call
   is answered whose row the store does not hold. *)
NeverServesUnrecorded == \A c \in Call : calls[c] = "answered" => c \in rows

-----------------------------------------------------------------------------
(* The operator's command and the node's gate agree on the file and the definitions
   at hand: a clean diff and a clean verify are the same thing; every name is
   admitted once or refused; what approve would write now is admitted whole, though
   the gate hashes the snapshot of a snapshot; and a domain is never refused for its
   order, which the hash has already fixed (cli.ts:104-137, gate.ts:107-142). *)
OperatorSeesWhatTheNodeDoes ==
  stage = "assemble" =>
    /\ DiffCode(gate, defs) = VerifyCode(gate, defs)
    /\ \A n \in Names(defs) \cup Pinned(gate) :
         Cardinality({o \in Admitted(gate, defs) : o.name = n})
         + Cardinality({r \in Refused(gate, defs) : r.name = n}) = 1
    /\ ApproveWrites(gate, defs) =>
         LET m == BuildManifest(defs) IN
           Parses(m) /\ VerifyCode(m, defs) = 0 /\ {o.name : o \in Admitted(m, defs)} = Names(defs)
    /\ \A o \in Admitted(gate, defs) : Ordered(o.domain)

=============================================================================
