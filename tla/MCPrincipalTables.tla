--------------------------- MODULE MCPrincipalTables ---------------------------
(* A small instance of PrincipalTables for TLC. *)
EXTENDS PrincipalTables, TLC

TablesSymmetry == Permutations(Principal)

=============================================================================
