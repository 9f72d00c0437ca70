--------------------------- MODULE MCApprovalService ---------------------------
(* Small instances of ApprovalService for TLC. *)
EXTENDS ApprovalService, TLC

(* Two people, one call each that needs approval. *)
MCPrincipal == {"alice", "bob", "operator"}
MCIdentityOf == [p \in MCPrincipal |-> p]
MCCall ==
  {[principal |-> "alice", tool |-> "deploy", digest |-> "d1"],
   [principal |-> "bob", tool |-> "deploy", digest |-> "d2"]}

(* The delegate is the human approver's own bearer. *)
MCDelegate == {"operator"}

MCOneCall == {c \in MCCall : c.principal = "alice"}

MCSymmetry == Permutations(Caller) \cup Permutations(Id)

=============================================================================
