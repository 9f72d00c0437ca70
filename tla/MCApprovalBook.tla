---------------------------- MODULE MCApprovalBook ----------------------------
(* Small instances of ApprovalBook for TLC. *)
EXTENDS ApprovalBook

(* bob asks for two tools, one of which only a human may approve; Operator,
   the human approver under another spelling, asks too and is the delegate. *)
MCPrincipal == {"bob", "operator", "Operator"}
MCIdentityOf == [p \in MCPrincipal |-> IF p = "bob" THEN "bob" ELSE "operator"]
MCCall ==
  {[principal |-> "bob", tool |-> "deploy", digest |-> "d1"],
   [principal |-> "bob", tool |-> "publish", digest |-> "d1"],
   [principal |-> "Operator", tool |-> "deploy", digest |-> "d2"]}
MCDelegate == {"Operator"}
MCHumanOnly == {"publish"}

=============================================================================
