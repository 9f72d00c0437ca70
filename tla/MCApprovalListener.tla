-------------------------- MODULE MCApprovalListener --------------------------
(* Small instances of ApprovalListener for TLC. *)
EXTENDS ApprovalListener

(* bob asks; Operator, the human approver under another spelling, asks too, so
   a decision on its request is self-approval. *)
MCPrincipal == {"bob", "operator", "Operator", "auditor"}
MCIdentityOf == [p \in MCPrincipal |-> IF p = "Operator" THEN "operator" ELSE p]
MCCall ==
  {[principal |-> "bob", tool |-> "deploy", digest |-> "d1"],
   [principal |-> "Operator", tool |-> "deploy", digest |-> "d2"]}

(* Two addresses of one network, a victim's, and the operator's proxy. *)
MCKeyOf == [a \in {"a1", "a2", "victim", "proxy"} |-> IF a \in {"a1", "a2"} THEN "a::/64" ELSE a]
MCForged == {<<>>, <<"victim">>, <<"not-an-address">>}

RequestsAlike == Permutations(Request)

=============================================================================
