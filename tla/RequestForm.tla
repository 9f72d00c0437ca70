------------------------------ MODULE RequestForm ------------------------------
(***************************************************************************)
(* What the transport refuses a request for, in the order it looks:        *)
(* packages/core/src/transport/server.ts (handle), dispatch.ts (dispatch,  *)
(* selectEra, the checks, route, callTool), headers.ts and jsonrpc.ts.     *)
(*                                                                         *)
(* A request is a record of what its checks tell apart.  A mirrored header *)
(* is named by how it stands to the body it mirrors; "encoded" agrees      *)
(* under the Base64 sentinel and "garbled" decodes to nothing.             *)
(***************************************************************************)
EXTENDS Integers, Sequences, FiniteSets

CONSTANTS
  Modern, Legacy,   \* the two protocol revisions
  Tool,             \* the admitted tools
  Elevated,         \* those whose every call needs a grant
  Param,            \* the parameters annotated with x-mcp-header
  None

Header == {"absent", "agrees", "encoded", "differs", "garbled", "twice"}

(* The checks that find something, and the first of them. *)
Failing(checks) == {i \in DOMAIN checks : checks[i].when}
Passed(checks) == Failing(checks) = {}
FirstOf(checks) == checks[CHOOSE i \in Failing(checks) : \A k \in Failing(checks) : i <= k]

-----------------------------------------------------------------------------
(* handle, before dispatch: each refusal by its audit reason. *)
OnEveryRoute ==
  <<"request-target", "not-found", "host-count", "method", "host-not-allowed", "origin-not-allowed">>
Unauthenticated ==
  <<"duplicate-authorization", "token-elsewhere", "verifier-timeout", "verifier-contract",
    "auth-unavailable", "auth-refused">>
Authenticated ==
  <<"rate-limited", "capacity", "not-acceptable", "content-type", "content-coding", "transfer-coding",
    "body-too-large", "body-not-utf8", "body-depth", "duplicate-key", "lone-surrogate", "parse-error",
    "framing">>

Fault == {OnEveryRoute[i] : i \in 1 .. 6} \cup {Unauthenticated[i] : i \in 1 .. 6}
           \cup {Authenticated[i] : i \in 1 .. 13}

(* The refusals that write a row of their own name, and no http-refused. *)
OwnRow ==
  {"token-elsewhere", "verifier-timeout", "verifier-contract", "auth-unavailable", "auth-refused",
   "rate-limited"}

HttpChecks(r) ==
  LET order == IF r.path = "endpoint" THEN OnEveryRoute \o Unauthenticated \o Authenticated ELSE OnEveryRoute
  IN [i \in DOMAIN order |-> [when |-> order[i] \in r.faults, name |-> order[i]]]
HttpFault(r) == FirstOf(HttpChecks(r)).name

Known(fault) == \E i \in DOMAIN Authenticated : Authenticated[i] = fault

-----------------------------------------------------------------------------
(* What a refusal of dispatch answers, and the rows it may have written itself. *)
Code ==
  {"header-mismatch", "invalid-params", "method-not-found", "internal", "unsupported-version",
   "missing-capability"}
OwnRefusalRow ==
  {"validation-timeout", "validation-error", "result-over-cap", "legacy-input-required",
   "request-state-unsealable", "handler-error", "handler-timeout", "client-disconnect",
   "containment-refused"}

(* A refusal of dispatch; audited when its own row is written already. *)
Refusal(code, status) == [code |-> code, status |-> status, audited |-> FALSE, row |-> None]
Audited(row, code, status) == [code |-> code, status |-> status, audited |-> TRUE, row |-> row]
Mismatch == Refusal("header-mismatch", 400)
InvalidParams == Refusal("invalid-params", 400)
NotFound(status) == Refusal("method-not-found", status)

Check(when, refusal) == [when |-> when, refusal |-> refusal]

(* selectEra *)
EraChecks(r) ==
  <<Check(r.version = "twice", Mismatch),
    Check(r.version = None /\ r.method # "initialize", Mismatch),
    Check(r.version \notin {Modern, Legacy, None}, Refusal("unsupported-version", 400))>>

Era(r) == IF r.version = None THEN Legacy ELSE r.version

(* checkModernMeta and checkLegacyMeta: "bare" is an object with neither member. *)
MetaChecks(r) ==
  IF Era(r) = Modern
    THEN <<Check(r.meta \in {"absent", "not-object", "bare", "no-caps"}, InvalidParams),
           Check(r.meta = "other-version", Mismatch)>>
    ELSE <<Check(r.meta = "not-object", InvalidParams), Check(r.meta = "other-version", Mismatch)>>

(* singleHeader and decodeHeaderValue, compared with the body; Mcp-Method is
   compared as it is. *)
Decodes(header) == header \in {"agrees", "encoded"}

(* checkMirroredHeaders *)
MirrorChecks(r) ==
  <<Check(IF r.mcpMethod = "absent" THEN Era(r) = Modern ELSE r.mcpMethod # "agrees", Mismatch),
    Check(/\ r.method \in {"tools/call", "resources/read", "prompts/get"}
          /\ IF r.mcpName = "absent" THEN Era(r) = Modern ELSE r.tool = None \/ ~Decodes(r.mcpName),
          Mismatch)>>

Served(era) ==
  {"tools/list", "tools/call"} \cup IF era = Modern THEN {"server/discover"} ELSE {"initialize", "ping"}

(* route *)
RouteChecks(r) ==
  <<Check(r.method \notin Served(Era(r)), NotFound(404)),
    Check(r.method = "tools/list" /\ r.cursor, InvalidParams)>>

(* Slip: the parameters' headers are a modern client's only. *)
ReadsParamsModern(r) == Era(r) = Modern

(* Legacy: in full as soon as any of them is sent. *)
ReadsParams(r) == Era(r) = Modern \/ \E p \in Param : r.params[p] # "absent"

(* checkParamHeaders: absent exactly when the body has no value. *)
ParamAgrees(r, p) == IF p \in r.valued THEN Decodes(r.params[p]) ELSE r.params[p] = "absent"

(* callTool, up to its arguments. *)
ToolChecks(r) ==
  <<Check(r.tool \notin Tool, InvalidParams),
    Check(r.args = "not-object", InvalidParams),
    Check(ReadsParams(r) /\ \E p \in Param : ~ParamAgrees(r, p), Mismatch),
    Check(r.valid = "timeout", Audited("validation-timeout", "invalid-params", 400)),
    Check(r.valid = "error", Audited("validation-error", "internal", 500)),
    Check(r.valid = "no", InvalidParams)>>

(* The input responses and the request state; a legacy call has neither. *)
RoundChecks(r, opens) ==
  IF Era(r) = Modern
    THEN <<Check(r.responses = "not-objects", InvalidParams), Check(r.token # None /\ ~opens, InvalidParams)>>
    ELSE <<>>

(* Everything before the approval gate, in its order. *)
FormChecks(r, opens) ==
  EraChecks(r) \o MetaChecks(r) \o MirrorChecks(r) \o RouteChecks(r)
    \o IF r.method = "tools/call" THEN ToolChecks(r) \o RoundChecks(r, opens) ELSE <<>>

(* A notification is accepted only as the legacy handshake's. *)
NotificationChecks(r) ==
  <<Check(r.version # Legacy \/ r.method # "notifications/initialized", NotFound(400))>>
    \o MetaChecks(r) \o MirrorChecks(r)

-----------------------------------------------------------------------------
(* Slip: the mapped refusal is a new one, and nobody has audited it. *)
StatusForEraUnmarked(era, refusal) ==
  IF era = Legacy /\ refusal.code # "header-mismatch"
    THEN [refusal EXCEPT !.status = 200, !.audited = FALSE] ELSE refusal

(* statusForEra: a legacy client reads an error only at 200. *)
StatusForEra(era, refusal) ==
  IF era = Legacy /\ refusal.code # "header-mismatch" THEN [refusal EXCEPT !.status = 200] ELSE refusal

(* The refusal of a call that does not pass; the era is not known before it is
   selected. *)
FormRefusal(r, opens) ==
  LET refusal == FirstOf(FormChecks(r, opens)).refusal
  IN IF Passed(EraChecks(r)) THEN StatusForEra(Era(r), refusal) ELSE refusal

=============================================================================
