------------------------------ MODULE TokenChecks -------------------------------
(***************************************************************************)
(* One bearer token against the resource server's checks: #check of        *)
(* packages/core/src/auth/verifier.ts and auth/jws.ts, whose ids are those *)
(* of auth/CHECKS.md.                                                      *)
(*                                                                         *)
(* A token is the checks on its form that it fails, its algorithm, its     *)
(* times and the keys its signature verifies under; which bytes make it    *)
(* fail is left out.  A key set names one or more keys by each kid.        *)
(***************************************************************************)
EXTENDS Integers, Sequences

CONSTANTS
  Skew,            \* AUTH_CLOCK_SKEW_S
  MaxLifetime,     \* AUTH_MAX_TOKEN_LIFETIME_S
  Absent           \* a claim or a key's member that is not there

ASSUME TokenAssumption == Skew \in Nat /\ MaxLifetime \in Nat

Alg == {"ES256", "EdDSA", "RS256"}

(* H2 to H10 and C1, in order, all before a key is looked up. *)
FormChecks == <<"missing", "scheme", "malformed-bearer", "malformed", "header", "alg", "crit", "typ",
                "kid", "malformed-signature", "payload">>

(* The first check a token fails, or "passed". *)
FirstOf(faults, checks) ==
  LET failed == {i \in DOMAIN checks : checks[i] \in faults}
  IN  IF failed = {} THEN "passed" ELSE checks[CHOOSE i \in failed : \A k \in failed : i <= k]

Form(t) == FirstOf(t.faults, FormChecks)

(* H2, H3: with no credential of this scheme there is no error code; a malformed
   request is 400; everything else is the token's own fault. *)
Kind(reason) ==
  CASE reason \in {"missing", "scheme"} -> "challenge"
    [] reason = "malformed-bearer" -> "invalid_request"
    [] reason = "passed" -> "ok"
    [] OTHER -> "invalid_token"

-----------------------------------------------------------------------------
(* K2 (jws.ts): only a key that fits the token's algorithm is tried. *)
KeyFits(j, alg) ==
  /\ j.use \in {Absent, "sig"}
  /\ j.ops \in {Absent, "verify"}
  /\ j.alg \in {Absent, alg}
  /\ j.kty = CASE alg = "ES256" -> "EC P-256" [] alg = "EdDSA" -> "OKP Ed25519" [] alg = "RS256" -> "RSA"

(* An RSA modulus of 2048 to 8192 bits and an odd exponent of at least 65537; with
   exponent 1 every digest's encoding is its own signature. *)
RsaKeyUsable(j) ==
  /\ 2048 <= j.bits /\ j.bits <= 8192
  /\ 65537 <= j.exponent /\ j.exponent % 2 = 1

(* Slip: any RSA key is imported. *)
ImportsAny(j, alg) == j.imports
Imports(j, alg) == j.imports /\ (alg = "RS256" => RsaKeyUsable(j))

Tried(t, jwks) == {j \in jwks : KeyFits(j, t.alg) /\ Imports(j, t.alg)}

-----------------------------------------------------------------------------
(* C4 to C6: the times, with the skew in the token's favour. *)
Expired(t, now) == ~(t.exp # Absent /\ now - Skew < t.exp)
BeyondHorizon(t, now) == t.exp # Absent /\ t.exp > now + Skew + MaxLifetime
NotYet(t, now) == t.nbf # Absent /\ ~(t.nbf < now + Skew)
FromTheFuture(t, now) == t.iat # Absent /\ t.iat > now + Skew

(* What a token fails once its keys are found, in the order of the checks. *)
KeyChecks == <<"key-mismatch", "signature", "iss", "aud", "exp", "exp-horizon", "nbf", "iat", "sub">>

Fault == {FormChecks[i] : i \in DOMAIN FormChecks} \cup {KeyChecks[i] : i \in DOMAIN KeyChecks}

Fails(t, jwks, now) ==
  t.faults \cup
  {c \in {"key-mismatch", "signature", "exp", "exp-horizon", "nbf", "iat"} :
     \/ c = "key-mismatch" /\ Tried(t, jwks) = {}
     \/ c = "signature" /\ \A j \in Tried(t, jwks) : j.id \notin t.verifies
     \/ c = "exp" /\ Expired(t, now)
     \/ c = "exp-horizon" /\ BeyondHorizon(t, now)
     \/ c = "nbf" /\ NotYet(t, now)
     \/ c = "iat" /\ FromTheFuture(t, now)}

Judge(t, jwks, now) == FirstOf(Fails(t, jwks, now), KeyChecks)

=============================================================================
