------------------------------ MODULE MCAuditStore ------------------------------
(***************************************************************************)
(* AuditStore for TLC: two keys that both sign on the first day.           *)
(***************************************************************************)
EXTENDS AuditStore

MCAllowlist ==
  <<[kid |-> "k1", key |-> "key1", notBefore |-> 0, notAfter |-> 0],
    [kid |-> "k2", key |-> "key2", notBefore |-> 0, notAfter |-> 1]>>

=============================================================================
