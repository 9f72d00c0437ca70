------------------------------ MODULE JwtVerifier -------------------------------
(***************************************************************************)
(* The token verifier over its key-set client: verify of                   *)
(* packages/core/src/auth/verifier.ts, which stops at the lookup of the    *)
(* token's kid and goes on, with the keys it found and the time it then    *)
(* is, in the step that ends the lookup.                                   *)
(***************************************************************************)
EXTENDS JwksClient, TokenChecks

CONSTANTS
  Token,           \* the tokens that are presented
  KeysOf           \* [Kid -> set of keys]: what the issuer serves under a kid

(* A payload's exp is a number, and so are an RSA key's members. *)
ASSUME JwtAssumption ==
  /\ \A t \in Token : t.faults \subseteq Fault /\ t.kid \in Kid /\ t.exp \in Int \cup {Absent}
  /\ \A k \in Kid : \A j \in KeysOf[k] : j.kty = "RSA" => j.bits \in Nat /\ j.exponent \in Nat
  /\ Absent # "enc"

VARIABLE token   \* per verification under way, the token it is about

jwtVars == <<jwksVars, token>>

JwtInit == JwksInit /\ token = [l \in Lookup |-> Absent]

(* A token whose form is wrong is answered at once, and touches no state. *)
ReachesKeys(t) == Form(t) = "passed"

(* verify, up to the lookup. *)
Look(l, t) ==
  /\ ReachesKeys(t)
  /\ Key(l, t.kid)
  /\ token' = [token EXCEPT ![l] = t]

(* K1 and all that follows it.  An unreachable key set is no judgement: 503. *)
Outcome(l, ans, ks) ==
  CASE ans = "jwks-unavailable" -> "unavailable"
    [] ans = "unknown-kid" -> "invalid_token"
    [] ans = "key" -> Kind(Judge(token[l], ks, wall))

(* The lookup's step goes on to the verdict if it ends the lookup. *)
GoesOn(l) ==
  /\ AfterRefresh(l) \/ AfterRefetch(l)
  /\ token' = [token EXCEPT ![l] = IF pc'[l] = "idle" THEN Absent ELSE @]

Ends(l, verdicts) ==
  pc[l] # "idle" /\ pc'[l] = "idle" /\ Outcome(l, answer'[l], KeysOf[asks[l]]) \in verdicts

JwtNext ==
  \/ \E l \in Lookup : GoesOn(l) \/ \E t \in Token : Look(l, t)
  \/ (FetchLands \/ FetchFails \/ Rotate \/ Tick \/ SetBack) /\ UNCHANGED token

JwtFairness ==
  /\ SF_jwtVars((FetchLands \/ FetchFails) /\ UNCHANGED token)
  /\ \A l \in Lookup : WF_jwtVars(GoesOn(l))

JwtSpec == JwtInit /\ [][JwtNext]_jwtVars /\ JwtFairness

-----------------------------------------------------------------------------
(* Properties *)

(* Whoever is served presented a token that is good now, when it is served, and not
   only when it arrived: not expired by more than the skew, not outliving the
   horizon, signed under a key that is for signatures and strong enough to mean
   something, of a kid in a key set inside its lifetime (CHECKS.md K2, K3, C4, C4a;
   verifier.ts:148-173). *)
ServedIsGoodNow ==
  [][\A l \in Lookup : Ends(l, {"ok"}) =>
       LET t == token[l] IN
         /\ t.faults = {}
         /\ t.exp > wall - Skew /\ t.exp <= wall + Skew + MaxLifetime
         /\ t.kid \in keys.set /\ Valid
         /\ \E j \in KeysOf[t.kid] :
              /\ j.id \in t.verifies
              /\ j.use # "enc" /\ j.alg \in {Absent, t.alg}
              /\ t.alg = "RS256" => j.bits >= 2048 /\ j.exponent > 1]_jwtVars

(* An outage judges nobody: a token is accepted or refused only by a key set inside
   its lifetime, and after a refetch only by one that landed since the lookup asked
   for it, whichever lookup's fetch that was (CHECKS.md J2, J4). *)
OutageIsNoVerdict ==
  [][\A l \in Lookup :
       Ends(l, {"ok", "invalid_token"}) =>
         Valid /\ (pc[l] = "refetched" => fetchedAt >= lastUnknownRefetch \/ setBack > 0)]_jwtVars

(* Every verification ends: each await of key resumes when the shared fetch it
   joined settles, even if that fetch failed. *)
EveryLookupEnds == \A l \in Lookup : pc[l] # "idle" ~> pc[l] = "idle"

=============================================================================
