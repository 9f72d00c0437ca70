------------------------------- MODULE MCDispatch -------------------------------
(* A small instance of Dispatch for TLC: well-formed calls of two principals and
   two tools, and requests wrong in one place or two. *)
EXTENDS Dispatch, TLC

MCPlain(era) ==
  [path |-> "endpoint", faults |-> {}, kind |-> "request", version |-> era,
   meta |-> IF era = Modern THEN "full" ELSE "absent", method |-> "tools/call", cursor |-> FALSE,
   mcpMethod |-> "agrees", mcpName |-> "encoded", params |-> [p \in Param |-> "agrees"], valued |-> Param,
   who |-> "ann", tool |-> "read", args |-> "a", valid |-> "yes", responses |-> None, token |-> None,
   caps |-> {"elicitation"}, grant |-> None, large |-> FALSE]

MCCalls ==
  {[MCPlain(Modern) EXCEPT !.who = w, !.tool = "deploy"] : w \in {"ann", "bob"}}
    \cup {[MCPlain(Modern) EXCEPT !.tool = "deploy", !.responses = "yes"]}
    \cup {[MCPlain(Modern) EXCEPT !.tool = "deploy", !.valid = "no"]}
    \cup {[MCPlain(Modern) EXCEPT !.args = a] : a \in {"a", "b"}}
    \cup {[MCPlain(Legacy) EXCEPT !.tool = "deploy"]}

(* Wrong before dispatch, alone or with a second fault. *)
MCFaults ==
  LET names == OnEveryRoute \o Unauthenticated \o Authenticated
      one == {{names[i]} : i \in DOMAIN names}
  IN one \cup {{names[i], names[i + 1]} : i \in 1 .. Len(names) - 1}

MCHttp ==
  {[MCPlain(Modern) EXCEPT !.faults = f] : f \in MCFaults}
    \cup {[MCPlain(Modern) EXCEPT !.path = p, !.faults = f] : p \in {"health", "metadata"}, f \in {{}, {"method"}, {"host-not-allowed"}}}

MCWrong(r) ==
  {[r EXCEPT !.version = v] : v \in {"twice", None, "other"}}
    \cup {[r EXCEPT !.meta = m] : m \in {"absent", "not-object", "bare", "no-caps", "other-version"}}
    \cup {[r EXCEPT !.mcpMethod = h] : h \in Header} \cup {[r EXCEPT !.mcpName = h] : h \in Header}
    \cup {[r EXCEPT !.params = [@ EXCEPT ![p] = h]] : p \in Param, h \in Header}
    \cup {[r EXCEPT !.params = [p \in Param |-> "absent"]], [r EXCEPT !.valued = {}]}
    \cup {[r EXCEPT !.method = m] : m \in {"initialize", "ping", "server/discover", "tools/list", "resources/read"}}
    \cup {[r EXCEPT !.method = "tools/list", !.cursor = TRUE], [r EXCEPT !.method = "initialize", !.version = None]}
    \cup {[r EXCEPT !.tool = t] : t \in {None, "refused"}} \cup {[r EXCEPT !.args = "not-object"]}
    \cup {[r EXCEPT !.valid = v] : v \in {"no", "timeout", "error"}}
    \cup {[r EXCEPT !.responses = "not-objects"], [r EXCEPT !.large = TRUE]}
    \cup {[r EXCEPT !.kind = "notification", !.method = m, !.version = v] :
            m \in {"notifications/initialized", "tools/call"}, v \in {Legacy, Modern, "twice"}}

MCRequest == MCHttp \cup UNION {MCWrong(MCPlain(era)) : era \in {Modern, Legacy}}

MCSymmetry == Permutations(Id)

=============================================================================
