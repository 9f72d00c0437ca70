------------------------------- MODULE JwksClient -------------------------------
(***************************************************************************)
(* The key-set client of the JWT verifier: packages/core/src/auth/jwks.ts. *)
(*                                                                         *)
(* Many verifications look a kid up at once.  A lookup may stop twice, at  *)
(* a refresh of an expired key set and at the refetch an unknown kid sets  *)
(* off; both share the one fetch in flight.  When a fetch settles, the     *)
(* lookups that waited on it run on one after another, and each may start  *)
(* the next fetch.  The clock is the wall clock, which may be set back.    *)
(***************************************************************************)
EXTENDS Integers, FiniteSets

CONSTANTS
  Lookup,          \* concurrent calls of key
  Kid,             \* key ids tokens name
  Ttl,             \* AUTH_JWKS_TTL_S
  Cooldown,        \* JWKS_FAILURE_COOLDOWN_MS
  MaxTime,         \* bound on the clock, for TLC
  MaxSteps,        \* bound on how often the wall clock is set back
  Never            \* Number.NEGATIVE_INFINITY

ASSUME JwksAssumption ==
  /\ Ttl \in Nat \ {0} /\ Cooldown \in Nat \ {0}
  /\ MaxTime \in Nat /\ MaxSteps \in Nat
  /\ Never \in Int /\ Never + Ttl < 0 /\ Never + Cooldown < 0

VARIABLES
  wall, elapsed,   \* the wall clock, and the time that really passed
  setBack,         \* times the wall clock was set back
  published,       \* the kids the issuer serves now
  keys,            \* #keys: the kids of the cached set; no set is NoKeys
  fetchedAt, failedAt, lastUnknownRefetch,
  landed,          \* #landed
  inflight,        \* #inflight: a fetch is under way
  pc,              \* where each lookup is
  asks,            \* the kid it looks up
  before,          \* previous and landedBefore, held over its refetch
  answer           \* its KeyLookup

clockVars == <<wall, elapsed, setBack>>
cacheVars == <<keys, fetchedAt, failedAt, lastUnknownRefetch, landed, inflight>>
lookupVars == <<pc, asks, before, answer>>
jwksVars == <<clockVars, published, cacheVars, lookupVars>>

NoKeys == [set |-> {}, held |-> FALSE]
NoAnswer == "none"

JwksTypeOK ==
  /\ keys \in [set : SUBSET Kid, held : BOOLEAN]
  /\ inflight \in BOOLEAN /\ landed \in Nat
  /\ {fetchedAt, failedAt, lastUnknownRefetch} \subseteq {Never} \cup Nat
  /\ pc \in [Lookup -> {"idle", "refresh", "refreshed", "refetch", "refetched"}]
  /\ before \in [Lookup -> [previous : {Never} \cup Nat, landed : Nat]]
  /\ answer \in [Lookup -> {NoAnswer, "key", "unknown-kid", "jwks-unavailable"}]

JwksInit ==
  /\ wall = 0 /\ elapsed = 0 /\ setBack = 0
  /\ published \in SUBSET Kid
  /\ keys = NoKeys /\ landed = 0 /\ inflight = FALSE
  /\ fetchedAt = Never /\ failedAt = Never /\ lastUnknownRefetch = Never
  /\ pc = [l \in Lookup |-> "idle"]
  /\ asks \in [Lookup -> Kid]
  /\ before = [l \in Lookup |-> [previous |-> Never, landed |-> 0]]
  /\ answer = [l \in Lookup |-> NoAnswer]

-----------------------------------------------------------------------------
(* #within: a clock set back gives a negative span, which is outside it. *)
Within(t, span) == wall - t >= 0 /\ wall - t < span
Valid == keys.held /\ Within(fetchedAt, Ttl)

(* #refresh: join the fetch in flight, or start one unless it is too soon after
   a failure, when it resolves at once. *)
CoolingDown == ~inflight /\ Within(failedAt, Cooldown)
Refresh == inflight' = (inflight \/ ~CoolingDown)

Answer(l, a) ==
  /\ answer' = [answer EXCEPT ![l] = a]
  /\ pc' = [pc EXCEPT ![l] = "idle"]
  /\ UNCHANGED <<inflight, before, lastUnknownRefetch>>

(* key, once the key set was refreshed if it had to be. *)
Refetches(l) == asks[l] \notin keys.set /\ ~Within(lastUnknownRefetch, Ttl)

Window == [previous |-> lastUnknownRefetch, landed |-> landed]

StartRefetch(l) ==
  /\ before' = [before EXCEPT ![l] = Window]
  /\ Refresh
  /\ pc' = [pc EXCEPT ![l] = IF CoolingDown THEN "refetched" ELSE "refetch"]
  /\ answer' = [answer EXCEPT ![l] = NoAnswer]
  /\ lastUnknownRefetch' = wall

LooksIn(l) ==
  \/ ~Valid /\ Answer(l, "jwks-unavailable")
  \/ Valid /\ Refetches(l) /\ StartRefetch(l)
  \/ Valid /\ ~Refetches(l) /\ Answer(l, IF asks[l] \in keys.set THEN "key" ELSE "unknown-kid")

(* No continuation is queued. *)
Quiet == \A l \in Lookup : pc[l] \notin {"refreshed", "refetched"}

(* key, called: a verification needs a kid. *)
Key(l, kid) ==
  /\ Quiet /\ pc[l] = "idle"
  /\ asks' = [asks EXCEPT ![l] = kid]
  /\ answer' = [answer EXCEPT ![l] = NoAnswer]
  /\ pc' = [pc EXCEPT ![l] = IF Valid \/ CoolingDown THEN "refreshed" ELSE "refresh"]
  /\ IF Valid THEN UNCHANGED inflight ELSE Refresh
  /\ UNCHANGED <<clockVars, published, keys, fetchedAt, failedAt, lastUnknownRefetch, landed, before>>

AfterRefresh(l) ==
  /\ pc[l] = "refreshed"
  /\ LooksIn(l)
  /\ UNCHANGED <<clockVars, published, keys, fetchedAt, failedAt, landed, asks>>

(* Slips: every refetch counts as landed; the window stays spent. *)
LandedAlways(l) == TRUE
Landed(l) == landed # before[l].landed
SpentWindow(l) == lastUnknownRefetch
UnspentWindow(l) == before[l].previous

(* After the refetch: if it did not land, the kid is not judged and the window
   is not spent. *)
AfterRefetch(l) ==
  /\ pc[l] = "refetched"
  /\ pc' = [pc EXCEPT ![l] = "idle"]
  /\ IF ~Landed(l)
       THEN /\ lastUnknownRefetch' = UnspentWindow(l)
            /\ answer' = [answer EXCEPT ![l] = "jwks-unavailable"]
       ELSE /\ UNCHANGED lastUnknownRefetch
            /\ answer' = [answer EXCEPT ![l] =
                 IF Valid /\ asks[l] \in keys.set THEN "key" ELSE "unknown-kid"]
  /\ UNCHANGED <<clockVars, published, keys, fetchedAt, failedAt, landed, inflight, asks, before>>

-----------------------------------------------------------------------------
(* Slip: lookups waiting on their refetch are not woken by a fetch they joined. *)
ResumeRefreshed == pc' = [l \in Lookup |-> IF pc[l] = "refresh" THEN "refreshed" ELSE pc[l]]

(* The fetch settles, and every lookup that waited on it resumes. *)
Resume ==
  pc' = [l \in Lookup |->
           IF pc[l] = "refresh" THEN "refreshed"
           ELSE IF pc[l] = "refetch" THEN "refetched" ELSE pc[l]]

FetchLands ==
  /\ Quiet /\ inflight
  /\ keys' = [set |-> published, held |-> TRUE]
  /\ fetchedAt' = wall
  /\ landed' = landed + 1
  /\ inflight' = FALSE
  /\ Resume
  /\ UNCHANGED <<clockVars, published, failedAt, lastUnknownRefetch, asks, before, answer>>

FetchFails ==
  /\ Quiet /\ inflight
  /\ failedAt' = wall
  /\ inflight' = FALSE
  /\ Resume
  /\ UNCHANGED <<clockVars, published, keys, fetchedAt, lastUnknownRefetch, landed,
                 asks, before, answer>>

(* The issuer rotates its keys; time passes; the wall clock is set back. *)
Rotate ==
  /\ Quiet
  /\ \E ks \in SUBSET Kid : published' = ks /\ ks # published
  /\ UNCHANGED <<clockVars, cacheVars, lookupVars>>

Tick ==
  /\ Quiet /\ elapsed < MaxTime
  /\ elapsed' = elapsed + 1 /\ wall' = wall + 1
  /\ UNCHANGED <<setBack, published, cacheVars, lookupVars>>

SetBack ==
  /\ Quiet /\ setBack < MaxSteps
  /\ \E w \in 0 .. wall - 1 : wall' = w
  /\ setBack' = setBack + 1
  /\ UNCHANGED <<elapsed, published, cacheVars, lookupVars>>

JwksNext ==
  \/ \E l \in Lookup :
       (\E kid \in Kid : Key(l, kid)) \/ AfterRefresh(l) \/ AfterRefetch(l)
  \/ FetchLands \/ FetchFails
  \/ Rotate \/ Tick \/ SetBack

JwksSafety == JwksInit /\ [][JwksNext]_jwksVars

(* A fetch has a deadline over the whole exchange (fetchText), so it settles:
   strongly fair, because other lookups' continuations run in between, forever
   if calls keep coming.  A resolved promise's continuation runs. *)
JwksFairness ==
  /\ SF_jwksVars(FetchLands \/ FetchFails)
  /\ \A l \in Lookup : WF_jwksVars(AfterRefresh(l)) /\ WF_jwksVars(AfterRefetch(l))

JwksSpec == JwksSafety /\ JwksFairness

-----------------------------------------------------------------------------
(* Properties *)

(* A window for unknown kids is spent only on a fetch that landed in it: with
   no refetch under way, a spent window means the key set in hand is no older
   than it, so no forged kid and no outage can hold a new key out for nothing
   (CHECKS.md J3, J4; adversarial A1). *)
WindowBuysAFetch ==
  Quiet /\ ~inflight /\ Within(lastUnknownRefetch, Ttl) /\ setBack = 0
    => fetchedAt >= lastUnknownRefetch

=============================================================================
