-------------------------------- MODULE Settings --------------------------------
(***************************************************************************)
(* What a node reads before it runs anything: the flags it was started     *)
(* with (node/cli.ts) and the snapshot of its settings (node/settings.ts   *)
(* and the readers it calls), then what an edition's configuration schema  *)
(* makes of the edition's own variables (readEditionConfig of              *)
(* node/start.ts).                                                         *)
(*                                                                         *)
(* An environment holds "options" (NODE_OPTIONS, as units), "execArgv"     *)
(* (tokens), "number" (the numeric variables: one that is unset holds its  *)
(* default, one that is not plain digits holds -1), "text" (the others: "" *)
(* when unset, "malformed" when it fails the check of its form, files by   *)
(* their paths), "manifest" (a path) and "own" (the edition's variables,   *)
(* by the role its schema gives them).                                     *)
(***************************************************************************)
EXTENDS Integers, Sequences, FiniteSets, SequencesExt

CONSTANT Files     \* [path -> what is there]: one "id" is one file, under two names or one

-----------------------------------------------------------------------------
(* Module-loading flags.  A unit of NODE_OPTIONS is a whole flag, spelled with
   dashes or with underscores, or one of the characters that matter. *)
Unit == {"flag", "flag_", "x", "=", "space", "tab", "quote", "backslash"}

Scan(at, c) ==
  CASE at.escaped -> [at EXCEPT !.token = Append(@, c), !.escaped = FALSE]
    [] ~at.escaped /\ at.quoted /\ c = "backslash" -> [at EXCEPT !.escaped = TRUE]
    [] ~at.escaped /\ c = "quote" -> [at EXCEPT !.quoted = ~@, !.started = TRUE]
    [] ~at.escaped /\ ~at.quoted /\ c \in {"space", "tab"} ->
         [at EXCEPT !.tokens = IF at.started THEN Append(@, at.token) ELSE @, !.token = <<>>, !.started = FALSE]
    [] OTHER -> [at EXCEPT !.token = Append(@, c), !.started = TRUE]

ScanStart == [tokens |-> <<>>, token |-> <<>>, started |-> FALSE, quoted |-> FALSE, escaped |-> FALSE]
Scanned(value) ==
  LET at[i \in 0..Len(value)] == IF i = 0 THEN ScanStart ELSE Scan(at[i - 1], value[i]) IN at

NodeOptionsTokens(value) ==
  LET end == Scanned(value)[Len(value)]
  IN  IF end.started THEN Append(end.tokens, end.token) ELSE end.tokens

(* The name before "=", with _ read as -. *)
IsFlag(token) == token # <<>> /\ token[1] \in {"flag", "flag_"} /\ (Len(token) > 1 => token[2] = "=")

ModuleLoadingFlags(env) ==
  {t \in Range(NodeOptionsTokens(env.options)) \cup Range(env.execArgv) : IsFlag(t)}

(* Node's own reading of NODE_OPTIONS: at spaces alone, a pair of quotes being no
   argument of its own; a quote or an escape left open stops Node itself. *)
Adds(at, c) == IF at.fresh THEN Append(at.args, <<c>>) ELSE [at.args EXCEPT ![Len(at.args)] = Append(@, c)]
NodeScan(at, c) ==
  CASE at.escaped -> [at EXCEPT !.args = Adds(at, c), !.fresh = FALSE, !.escaped = FALSE]
    [] ~at.escaped /\ at.quoted /\ c = "backslash" -> [at EXCEPT !.escaped = TRUE]
    [] ~at.escaped /\ c = "quote" -> [at EXCEPT !.quoted = ~@]
    [] ~at.escaped /\ ~at.quoted /\ c = "space" -> [at EXCEPT !.fresh = TRUE]
    [] OTHER -> [at EXCEPT !.args = Adds(at, c), !.fresh = FALSE]

NodeBegins == [args |-> <<>>, fresh |-> TRUE, quoted |-> FALSE, escaped |-> FALSE]
NodeReads(value) ==
  LET at[i \in 0..Len(value)] == IF i = 0 THEN NodeBegins ELSE NodeScan(at[i - 1], value[i]) IN at
NodeRuns(value) == NodeReads(value)[Len(value)]
NodeStarts(value) == ~NodeRuns(value).quoted /\ ~NodeRuns(value).escaped
NodeArgs(value) == Range(NodeRuns(value).args)

-----------------------------------------------------------------------------
(* The whole numbers, by the reader that bounds them. *)

PortNumber == 0..65535
ApprovalBounds ==
  [approvalPort |-> PortNumber, requestTtl |-> 1..86400, grantTtl |-> 1..86400, wait |-> 0..25,
   maxPending |-> 1..100000, maxPendingPerPrincipal |-> 1..100, maxWaitingPerPrincipal |-> 1..100,
   maxWaiting |-> 1..10000, listenerBurst |-> 1..1000000, listenerRefill |-> 1..6000000, listenerAddresses |-> 1..1000000]
RateBounds == [burst |-> 1..1000000, refill |-> 1..6000000, ratePrincipals |-> 1..1000000]
TripwireBounds == [threshold |-> 1..10000, window |-> 1..86400, quiet |-> 1..86400, tripPrincipals |-> 1..100000]
VerifierBounds == [jwksTtl |-> 30..86400, clockSkew |-> 0..300, tokenLifetime |-> 60..604800]
AuditBounds == [checkpointRows |-> 1..100000, checkpointSeconds |-> 1..86400]

MaxTripwireTimestamps == 5000000

Within(env, bounds) == \A n \in DOMAIN bounds : env.number[n] \in bounds[n]
WellFormed(env, names) == \A n \in names : env.text[n] # "malformed"
Set(env, n) == env.text[n] # ""

(* approvalFromEnv: every variable is read, whatever the backend is. *)
ReadsApproval(env) ==
  /\ env.text.approvalBackend \in {"", "none", "listener"}
  /\ env.text.notifier \in {"", "stderr", "webhook"}
  /\ Within(env, ApprovalBounds)
  /\ WellFormed(env, {"approvalHost", "publicUrl", "humanApprover", "webhookUrl", "trustedProxies"})
  /\ Set(env, "approvalAudience") => env.text.approvalAudience # env.text.audience
  /\ env.text.notifier = "webhook" => Set(env, "webhookUrl")
  /\ env.number.wait < env.number.requestTtl

(* openOperatorFile: an absolute path to a regular file, with no link at the leaf nor on
   the way; the log and the anchor may be created. *)
OperatorFile(f, create) ==
  f.absolute /\ ~f.linked /\ (f.type = "file" \/ (create /\ f.type = "absent"))

(* auditFromEnv: the store whole, or the seam alone and nothing of the store. *)
StoreSettings == {"auditLog", "auditAnchor", "digestKeyFile", "digestKeyId", "signingKeyFile", "signingKeyId"}
ReadsAudit(env) ==
  \/ env.text.auditStore = "seam-only" /\ \A n \in StoreSettings : ~Set(env, n)
  \/ /\ env.text.auditStore \in {"", "jsonl"}
     /\ \A n \in StoreSettings : Set(env, n)
     /\ WellFormed(env, {"digestKeyId", "signingKeyId"})
     /\ env.text.digestKeyId # env.text.signingKeyId
     /\ \A n \in {"digestKeyFile", "signingKeyFile"} : OperatorFile(Files[env.text[n]], FALSE)
     /\ Files[env.text.digestKeyFile].holds = "random-32-bytes"
     /\ Files[env.text.signingKeyFile].holds = "signing-key"
     /\ Within(env, AuditBounds)

(* JsonLinesStore: the log and the anchor are files of their own, told by identity and
   not by name; "inputs" are the key files and the manifest. *)
StoreFilesApart(log, anchor, inputs) ==
  /\ OperatorFile(Files[log], TRUE) /\ OperatorFile(Files[anchor], TRUE)
  /\ Files[log].id # Files[anchor].id
  /\ \A path \in inputs : Files[path].id \notin {Files[log].id, Files[anchor].id}

(* readCaFile: certificates and nothing else.  A link is followed. *)
ReadsCaFile(f) ==
  f.type = "file" /\ ~f.large /\ f.blocks # <<>> /\ Range(f.blocks) = {"certificate"} /\ ~f.stray

(* jwtVerifierFromEnv, for the node and again for the approval audience. *)
ReadsVerifier(env, audience) ==
  /\ Set(env, "issuer") /\ Set(env, "jwksUrl") /\ audience # ""
  /\ WellFormed(env, {"jwksUrl", "algs"})
  /\ Set(env, "caFile") => ReadsCaFile(Files[env.text.caFile])
  /\ env.text.requireAtJwt \in {"", "true", "false"}
  /\ Within(env, VerifierBounds)

ReadsLimits(env) ==
  /\ Within(env, RateBounds) /\ Within(env, TripwireBounds)
  /\ env.number.threshold * env.number.tripPrincipals <= MaxTripwireTimestamps

(* captureSettings refuses, or copies what the node will use. *)
Captures(env) ==
  /\ ModuleLoadingFlags(env) = {}
  /\ env.text.stateKey # "short"
  /\ ReadsApproval(env)
  /\ Set(env, "edition") /\ env.text.edition # "malformed"
  /\ env.manifest # ""
  /\ ReadsAudit(env) /\ ReadsVerifier(env, env.text.audience) /\ ReadsLimits(env)
  /\ Set(env, "approvalAudience") => ReadsVerifier(env, env.text.approvalAudience)

Captured(env) ==
  [manifest |-> env.manifest, own |-> env.own,
   strict |-> env.text.pinStrict # "false", execForbidden |-> env.text.execForbidden # "false",
   backend |-> IF env.text.approvalBackend = "listener" THEN "configured" ELSE "none",
   stored |-> env.text.auditStore # "seam-only", log |-> env.text.auditLog, anchor |-> env.text.auditAnchor,
   keyFiles |-> {env.text.digestKeyFile, env.text.signingKeyFile},
   audience |-> env.text.audience, approvalAudience |-> env.text.approvalAudience,
   approvalHost |-> IF Set(env, "approvalHost") THEN env.text.approvalHost ELSE "127.0.0.1",
   approvalPort |-> env.number.approvalPort, wait |-> env.number.wait, maxWaiting |-> env.number.maxWaiting]

-----------------------------------------------------------------------------
(* The edition's configuration (readEditionConfig): its variables carry a prefix that is
   not one of the four listed as the core's, each setting is one variable's, the resource
   URL is one of them, and the port is a port. *)
Roles == {"host", "port", "resource"}

(* The variable's value, else its schema's default, else the reader's own: each a
   sequence of at most one value. *)
Value(schema, own, role, fallback) ==
  CASE role \in Range(schema.roles) /\ own[role] # <<>> -> own[role][1]
    [] role \in Range(schema.roles) /\ own[role] = <<>> /\ schema.default[role] # <<>> -> schema.default[role][1]
    [] OTHER -> fallback

EditionConfig(schema, own) ==
  [host |-> Value(schema, own, "host", "127.0.0.1"), port |-> Value(schema, own, "port", 0),
   resource |-> Value(schema, own, "resource", "")]

ReadsEdition(schema, own) ==
  /\ schema.prefix \notin {"malformed", "listed"} /\ schema.prefixed /\ schema.matches
  /\ \A r \in Range(schema.roles) : r \in Roles
  /\ \A i, j \in DOMAIN schema.roles : i # j => schema.roles[i] # schema.roles[j]
  /\ "resource" \in Range(schema.roles)
  /\ EditionConfig(schema, own).port \in PortNumber

=============================================================================
