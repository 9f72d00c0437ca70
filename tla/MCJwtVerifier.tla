----------------------------- MODULE MCJwtVerifier ------------------------------
(* Small instances of JwtVerifier: one kid that names a usable RSA key, a weak one
   and one for encryption, and the tokens each signs. *)
EXTENDS JwtVerifier

MCNever == -10
MCKey == [id |-> "strong", kty |-> "RSA", use |-> Absent, ops |-> Absent, alg |-> Absent, imports |-> TRUE,
          bits |-> 2048, exponent |-> 65537]
MCKeysOf == [k \in Kid |->
  {MCKey, [MCKey EXCEPT !.id = "weak", !.exponent = 1], [MCKey EXCEPT !.id = "sealing", !.use = "enc"]}]

Good == [faults |-> {}, alg |-> "RS256", kid |-> CHOOSE k \in Kid : TRUE, verifies |-> {"strong"},
         exp |-> 5, nbf |-> Absent, iat |-> Absent]
MCToken == {Good, [Good EXCEPT !.exp = 1], [Good EXCEPT !.verifies = {"weak", "sealing"}], [Good EXCEPT !.faults = {"kid"}]}
=============================================================================
