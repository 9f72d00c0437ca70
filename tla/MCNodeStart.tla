------------------------------ MODULE MCNodeStart ------------------------------
(* Two tools, a plain one and a risky one in several shapes; manifests that pin
   one or both, a torn one, one that cannot be read; editions that export what was
   approved, and what was not; schemas wrong in one place each; and environments
   that differ from a good one in one setting, or in where the two listeners are. *)
EXTENDS NodeStart, TLC

-----------------------------------------------------------------------------
(* Schemas: a root with a property, and what else hangs from them. *)
At(up, by) ==
  [up |-> up, by |-> by, ref |-> "none", dialect |-> "none", header |-> "none", types |-> <<"string">>, listed |-> FALSE,
   member |-> "json", compiles |-> TRUE]
Root == [At(1, "root") EXCEPT !.types = <<"object">>]
Shape(by, node) == <<Root, At(1, "properties"), [node EXCEPT !.up = 2, !.by = by]>>
Headed(h) == [At(1, "properties") EXCEPT !.header = h]

Fit == <<Root, At(1, "properties")>>
Schemas ==
  [data |-> Shape("data", [At(1, "x") EXCEPT !.ref = "outside"]),
   name |-> Shape("names", [At(1, "x") EXCEPT !.ref = "outside"]),
   unknown |-> Shape("other", [At(1, "x") EXCEPT !.ref = "outside"]),
   own |-> Shape("item", [At(1, "x") EXCEPT !.ref = "own"]),
   headers |-> <<Root, Headed("A"), Headed("B")>>,
   twins |-> <<Root, Headed("A"), Headed("a")>>,
   hidden |-> Shape("item", Headed("A")),
   nested |-> Shape("properties", [Headed("A") EXCEPT !.types = <<"integer", "null">>, !.listed = TRUE]),
   several |-> <<Root, [Headed("A") EXCEPT !.types = <<"string", "integer">>]>>,
   atRoot |-> <<[Root EXCEPT !.header = "A"]>>,
   deep |-> <<Root, At(1, "properties"), At(2, "properties"), At(3, "properties")>>,
   wide |-> <<Root, At(1, "properties"), At(1, "properties"), At(1, "properties"), At(1, "names")>>,
   deepData |-> <<Root, At(1, "data"), At(2, "item"), At(3, "item")>>,
   dialect |-> <<Root, [At(1, "other") EXCEPT !.dialect = "2020-12"]>>,
   listed |-> <<[Root EXCEPT !.listed = TRUE]>>,
   accessor |-> <<Root, [At(1, "data") EXCEPT !.member = "accessor"]>>,
   zero |-> <<Root, [At(1, "other") EXCEPT !.member = "minus-zero"]>>,
   uncompiled |-> <<[Root EXCEPT !.compiles = FALSE]>>]

(* Sinks, and editions whose tool names one that is no bound. *)
Sink(n, scheme) ==
  [order |-> n, scheme |-> scheme, absolute |-> TRUE, path |-> <<"x", "y">>, labels |-> <<"digits", "name">>, port |-> 443, name |-> "service"]
Folder == Sink(1, "fs")
Climbs == [Sink(2, "fs") EXCEPT !.path = <<"x", "..">>]
Host == Sink(4, "host")
BadSinks ==
  {Climbs, [Folder EXCEPT !.path = <<>>], [Folder EXCEPT !.absolute = FALSE], [Host EXCEPT !.labels = <<"digits", "digits">>],
   [Host EXCEPT !.labels = <<"hex", "name">>], [Host EXCEPT !.port = 65536], [Sink(5, "svc") EXCEPT !.name = "malformed"], Sink(6, "tcp")}

Messy == <<"lf", "x", "blank", "cr", "lf", "blank">>
Plain == [name |-> 1, nameOk |-> TRUE, keys |-> "seven", description |-> Messy, schema |-> Fit,
          cls |-> "read_only", untrusted |-> TRUE, elevated |-> FALSE, basis |-> "none",
          domainNull |-> FALSE, domain |-> <<Host, Folder, Host>>]
Drifted == [Plain EXCEPT !.description = <<"lf", "bom">>]
Exec == [Plain EXCEPT !.name = 2, !.cls = "arbitrary_exec", !.untrusted = FALSE, !.domainNull = TRUE, !.domain = <<>>]
Gated == [Plain EXCEPT !.name = 2, !.cls = "state_change", !.elevated = TRUE, !.domain = <<>>]
Owned == [Plain EXCEPT !.name = 2, !.cls = "owned_state", !.basis = "good", !.domain = <<Climbs>>]
Reaching(sink) == [Plain EXCEPT !.domain = <<sink>>]
With(n) == [Plain EXCEPT !.schema = Schemas[n]]

-----------------------------------------------------------------------------
(* Editions. *)
Schema == [prefix |-> "own", prefixed |-> TRUE, matches |-> TRUE, roles |-> <<"resource", "host", "port">>,
           default |-> [host |-> <<>>, port |-> <<>>, resource |-> <<>>]]
Package(ds) == [exports |-> {"definitions", "configSchema"}, definitions |-> ds, schema |-> Schema]

MCEditions ==
  {Package(ds) : ds \in {<<Plain>>, <<Exec, Plain>>, <<Gated, Plain>>, <<Plain, Owned>>, <<Plain, Plain>>, <<Drifted>>, <<>>}
                        \cup {<<With(n)>> : n \in DOMAIN Schemas} \cup {<<Reaching(sk)>> : sk \in BadSinks}}
  \cup {[Package(<<Plain>>) EXCEPT !.exports = @ \cup {"manifest"}],
        [Package(<<Plain>>) EXCEPT !.schema.prefix = "listed"], [Package(<<Plain>>) EXCEPT !.schema.prefix = "unlisted"],
        [Package(<<Plain>>) EXCEPT !.schema.roles = <<"resource", "host", "host">>],
        [Package(<<Plain>>) EXCEPT !.schema.roles = <<"host", "port">>],
        [Package(<<Plain>>) EXCEPT !.schema.roles = <<"resource">>, !.schema.default.resource = <<"elsewhere">>]}

MCDisk ==
  [one |-> BuildManifest(<<Plain>>), exec |-> BuildManifest(<<Exec, Plain>>), gated |-> BuildManifest(<<Gated, Plain>>),
   owned |-> BuildManifest(<<Plain, Owned>>), torn |-> [BuildManifest(<<Plain>>) EXCEPT !.sum = <<>>],
   climbs |-> BuildManifest(<<Reaching(Climbs)>>), address |-> BuildManifest(<<Reaching([Host EXCEPT !.labels = <<"digits", "digits">>])>>),
   none |-> NoFile, linked |-> BuildManifest(<<Plain>>), fifo |-> NoFile]
  @@ [n \in DOMAIN Schemas |-> BuildManifest(<<With(n)>>)]

-----------------------------------------------------------------------------
(* Files: the ones a good environment names, others wrong in one way, and the log and
   a manifest under a second name. *)
Regular(id) ==
  [absolute |-> TRUE, type |-> "file", linked |-> FALSE, id |-> id, holds |-> "text", blocks |-> <<>>, stray |-> FALSE, large |-> FALSE]
Key == [Regular("key") EXCEPT !.holds = "random-32-bytes"]
Ca == [Regular("ca") EXCEPT !.blocks = <<"certificate", "certificate">>]

MCFiles ==
  [log |-> [Regular("log") EXCEPT !.type = "absent"], anchor |-> Regular("anchor"), key |-> Key,
   pem |-> [Regular("pem") EXCEPT !.holds = "signing-key"], short |-> [Key EXCEPT !.holds = "31-bytes"],
   patterned |-> [Key EXCEPT !.holds = "pattern"], relative |-> [Key EXCEPT !.absolute = FALSE],
   logAgain |-> Regular("anchor"), oneAgain |-> Regular("one"), keyAgain |-> Regular("key"), pipe |-> [Regular("pipe") EXCEPT !.type = "fifo"],
   ca |-> Ca, caLinked |-> [Ca EXCEPT !.linked = TRUE], caKey |-> [Ca EXCEPT !.blocks = @ \o <<"private-key">>],
   caTorn |-> [Ca EXCEPT !.stray = TRUE], caEmpty |-> Regular("ca"), caLarge |-> [Ca EXCEPT !.large = TRUE]]
  @@ [m \in DOMAIN MCDisk |->
        [Regular(m) EXCEPT !.type = CASE m = "none" -> "absent" [] m = "fifo" -> "fifo" [] OTHER -> "file", !.linked = (m = "linked")]]

(* Environments. *)
Default ==
  [approvalPort |-> 3031, requestTtl |-> 600, grantTtl |-> 300, wait |-> 0, maxPending |-> 1000,
   maxPendingPerPrincipal |-> 3, maxWaitingPerPrincipal |-> 1, maxWaiting |-> 8, listenerBurst |-> 60,
   listenerRefill |-> 60, listenerAddresses |-> 10000, burst |-> 300, refill |-> 600, ratePrincipals |-> 10000,
   threshold |-> 200, window |-> 60, quiet |-> 300, tripPrincipals |-> 1000, jwksTtl |-> 300, clockSkew |-> 60,
   tokenLifetime |-> 86400, checkpointRows |-> 100, checkpointSeconds |-> 300]
Text ==
  [edition |-> "edition", stateKey |-> "", issuer |-> "issuer", jwksUrl |-> "keys", audience |-> "node", algs |-> "",
   caFile |-> "", requireAtJwt |-> "", approvalBackend |-> "", approvalHost |-> "", publicUrl |-> "",
   approvalAudience |-> "", humanApprover |-> "", notifier |-> "", webhookUrl |-> "", trustedProxies |-> "",
   auditStore |-> "", auditLog |-> "log", auditAnchor |-> "anchor", digestKeyFile |-> "key", digestKeyId |-> "k1",
   signingKeyFile |-> "pem", signingKeyId |-> "k2", pinStrict |-> "", execForbidden |-> ""]
Good ==
  [options |-> <<>>, execArgv |-> <<>>, number |-> Default, text |-> [Text EXCEPT !.approvalBackend = "listener"],
   manifest |-> "one", own |-> [host |-> <<>>, port |-> <<>>, resource |-> <<"node">>]]
SeamOnly(t) ==
  [t EXCEPT !.auditStore = "seam-only", !.auditLog = "", !.auditAnchor = "", !.digestKeyFile = "", !.digestKeyId = "",
            !.signingKeyFile = "", !.signingKeyId = ""]

Texts ==
  {[edition |-> ""], [edition |-> "malformed"], [stateKey |-> "short"], [issuer |-> ""], [jwksUrl |-> "malformed"],
   [requireAtJwt |-> "yes"], [approvalBackend |-> "both"], [approvalAudience |-> "node"], [approvalAudience |-> "approvers"],
   [notifier |-> "webhook"], [notifier |-> "webhook", webhookUrl |-> "hook"], [trustedProxies |-> "malformed"],
   [auditStore |-> "seam-only"], [auditLog |-> ""], [digestKeyId |-> "k2"], [digestKeyFile |-> "short"],
   [digestKeyFile |-> "patterned"], [digestKeyFile |-> "relative"], [signingKeyFile |-> "key"],
   [auditLog |-> "anchor"], [auditLog |-> "logAgain"], [auditLog |-> "oneAgain"], [auditAnchor |-> "keyAgain"], [auditLog |-> "pipe"],
   [caFile |-> "ca"], [caFile |-> "caLinked"], [caFile |-> "caKey"], [caFile |-> "caTorn"], [caFile |-> "caEmpty"], [caFile |-> "caLarge"]}
Numbers ==
  {[wait |-> 26], [wait |-> 10, requestTtl |-> 10], [wait |-> 5, maxWaiting |-> 17], [wait |-> 5, maxWaiting |-> 16],
   [maxWaiting |-> 17], [threshold |-> 10000, tripPrincipals |-> 501], [threshold |-> 10000, tripPrincipals |-> 500],
   [burst |-> -1], [tokenLifetime |-> 59], [checkpointRows |-> 0]}

Options == UNION {[1..k -> {"flag", "flag_", "x", "=", "space", "tab", "quote", "backslash"}] : k \in 0..3}

MCEnv ==
  {[Good EXCEPT !.manifest = m, !.own.resource = <<IF d THEN "url" ELSE "node">>,
      !.text = [(IF d THEN @ ELSE SeamOnly(@)) EXCEPT !.pinStrict = s, !.execForbidden = x, !.approvalBackend = b]] :
     m \in {"one", "exec", "gated", "owned", "torn", "none"}, s \in {"", "false"}, x \in {"yes", "false"},
     b \in {"none", "listener"}, d \in BOOLEAN}
  \cup {[Good EXCEPT !.manifest = m] : m \in DOMAIN Schemas \cup {"", "linked", "fifo", "climbs", "address"}}
  \cup {[Good EXCEPT !.text = t @@ @] : t \in Texts}
  \cup {[Good EXCEPT !.number = n @@ @] : n \in Numbers}
  \cup {[Good EXCEPT !.own.resource = <<>>], [Good EXCEPT !.own.port = <<65536>>]}
  \cup {[Good EXCEPT !.text.approvalHost = h, !.number.approvalPort = p, !.own.host = mh, !.own.port = mp] :
          h \in {"", "::ffff:127.0.0.1", "localhost", "::", "0"}, p \in {0, 8001},
          mh \in {<<>>, <<"localhost">>, <<"0">>}, mp \in {<<>>, <<8001>>}}
  \cup {[Good EXCEPT !.manifest = "none", !.options = o] : o \in {o \in Options : NodeStarts(o)}}
  \cup {[Good EXCEPT !.manifest = "none", !.execArgv = <<<<"x">>, a>>] : a \in {<<"x">>, <<"flag">>, <<"flag_", "=", "x">>}}

MCRewritten ==
  {[Good EXCEPT !.manifest = "exec", !.text = [SeamOnly(@) EXCEPT !.pinStrict = "false", !.execForbidden = "false"]]}

MCOneForm ==
  [h \in {"127.0.0.1", "::1", "::", "0.0.0.0", "localhost", "0"} |-> h] @@ ("::ffff:127.0.0.1" :> "127.0.0.1")
MCResolves == [localhost |-> {"127.0.0.1", "::1"}] @@ ("0" :> {"0.0.0.0"})
=============================================================================
