---------------------------- MODULE JwtVerifierProofs ----------------------------
(***************************************************************************)
(* The token verifier and its key-set client, for any tokens, keys and     *)
(* lifetimes and any number of concurrent lookups.                         *)
(*                                                                         *)
(* WindowInv says why a window for unknown kids never hides a key: while   *)
(* it is spent on a fetch that has not landed, a lookup still holds the    *)
(* window it replaced, which was over when it was taken (Holders).  It     *)
(* speaks of the wall clock as a measure of time and so only until the     *)
(* clock is set back; what a verdict rests on (LandingInv) does not.       *)
(***************************************************************************)
EXTENDS JwtVerifier, WellFoundedInduction, TLAPS

-----------------------------------------------------------------------------
(* The inductive invariant. *)
TypeInv ==
  /\ JwksTypeOK
  /\ wall \in Nat /\ elapsed \in Nat /\ setBack \in Nat
  /\ published \in SUBSET Kid /\ asks \in [Lookup -> Kid]

(* A lookup waits for its refetch only while a fetch is under way, the one that
   may land next. *)
WaitInv == \A l \in Lookup : pc[l] = "refetch" => inflight /\ before[l].landed = landed

(* A lookup whose refetch landed goes on at the instant it landed. *)
LandingInv ==
  \A l \in Lookup : pc[l] = "refetched" /\ Landed(l) => keys.held /\ fetchedAt = wall

(* No stamp is from the future. *)
StampInv ==
  /\ fetchedAt <= wall /\ lastUnknownRefetch <= wall
  /\ \A l \in Lookup : before[l].previous <= wall

Refetching(l) == pc[l] \in {"refetch", "refetched"}

(* The window a lookup replaced was over. *)
OverInv == \A l \in Lookup : Refetching(l) => ~Within(before[l].previous, Ttl)

(* Those whose refetch has not landed. *)
Holders == {l \in Lookup : Refetching(l) /\ ~Landed(l)}
SpentInv == Within(lastUnknownRefetch, Ttl) /\ fetchedAt < lastUnknownRefetch => Holders # {}

WindowInv == setBack = 0 => StampInv /\ OverInv /\ SpentInv

JwksInv == TypeInv /\ WaitInv /\ LandingInv /\ WindowInv

LEMMA NeverIsOver ==
  ASSUME wall \in Nat
  PROVE  ~Within(Never, Ttl) /\ Never <= wall
BY JwksAssumption DEF Within

LEMMA JwksInvInit == JwksInit => JwksInv
<1> SUFFICES ASSUME JwksInit PROVE JwksInv
  OBVIOUS
<1>1. TypeInv
  BY DEF JwksInit, TypeInv, JwksTypeOK, NoKeys, NoAnswer
<1>2. WaitInv /\ LandingInv
  BY DEF JwksInit, WaitInv, LandingInv
<1>3. StampInv /\ OverInv
  BY <1>1, NeverIsOver DEF JwksInit, StampInv, OverInv, Refetching, TypeInv
<1>4. SpentInv
  BY <1>1, NeverIsOver DEF JwksInit, SpentInv, TypeInv
<1> QED  BY <1>1, <1>2, <1>3, <1>4 DEF JwksInv, WindowInv

-----------------------------------------------------------------------------
(* Types. *)
LEMMA LooksInType ==
  ASSUME TypeInv, NEW l \in Lookup, AfterRefresh(l)
  PROVE  TypeInv'
<1>1. UNCHANGED <<clockVars, published, keys, fetchedAt, failedAt, landed, asks>>
  BY DEF AfterRefresh
<1>2. ASSUME NEW a \in {"key", "unknown-kid", "jwks-unavailable"}, Answer(l, a) PROVE TypeInv'
  BY <1>1, <1>2 DEF TypeInv, JwksTypeOK, Answer, clockVars
<1>3. ASSUME StartRefetch(l) PROVE TypeInv'
  <2>1. Window \in [previous : {Never} \cup Nat, landed : Nat]
    BY DEF Window, TypeInv, JwksTypeOK
  <2>2. before' \in [Lookup -> [previous : {Never} \cup Nat, landed : Nat]]
    BY <1>3, <2>1 DEF StartRefetch, TypeInv, JwksTypeOK
  <2>3. pc' \in [Lookup -> {"idle", "refresh", "refreshed", "refetch", "refetched"}]
    BY <1>3 DEF StartRefetch, TypeInv, JwksTypeOK
  <2>4. answer' \in [Lookup -> {NoAnswer, "key", "unknown-kid", "jwks-unavailable"}]
    BY <1>3 DEF StartRefetch, TypeInv, JwksTypeOK
  <2>5. inflight' \in BOOLEAN /\ lastUnknownRefetch' \in Nat
    BY <1>3 DEF StartRefetch, Refresh, TypeInv, JwksTypeOK
  <2> QED  BY <1>1, <2>2, <2>3, <2>4, <2>5 DEF TypeInv, JwksTypeOK, clockVars
<1> QED  BY <1>2, <1>3 DEF AfterRefresh, LooksIn

LEMMA TypeStep == TypeInv /\ [JwksNext]_jwksVars => TypeInv'
<1> SUFFICES ASSUME TypeInv, [JwksNext]_jwksVars PROVE TypeInv'
  OBVIOUS
<1> USE DEF TypeInv, JwksTypeOK
<1>1. ASSUME NEW l \in Lookup, NEW kid \in Kid, Key(l, kid) PROVE TypeInv'
  BY <1>1 DEF Key, Refresh, clockVars, NoAnswer
<1>2. ASSUME NEW l \in Lookup, AfterRefresh(l) PROVE TypeInv'
  BY <1>2, LooksInType
<1>3. ASSUME NEW l \in Lookup, AfterRefetch(l) PROVE TypeInv'
  <2>1. lastUnknownRefetch' \in {Never} \cup Nat
    BY <1>3 DEF AfterRefetch, UnspentWindow
  <2>2. answer' \in [Lookup -> {NoAnswer, "key", "unknown-kid", "jwks-unavailable"}]
    BY <1>3 DEF AfterRefetch
  <2> QED  BY <1>3, <2>1, <2>2 DEF AfterRefetch, clockVars
<1>10. Resume => pc' \in [Lookup -> {"idle", "refresh", "refreshed", "refetch", "refetched"}]
  BY DEF Resume
<1>4. CASE FetchLands
  <2>1. keys' \in [set : SUBSET Kid, held : BOOLEAN]
    BY <1>4 DEF FetchLands
  <2>2. pc' \in [Lookup -> {"idle", "refresh", "refreshed", "refetch", "refetched"}]
    BY <1>4, <1>10 DEF FetchLands
  <2>3. inflight' \in BOOLEAN /\ landed' \in Nat /\ fetchedAt' \in Nat
    <3>1. inflight' = FALSE /\ landed' = landed + 1 /\ fetchedAt' = wall
      BY <1>4 DEF FetchLands
    <3>2. landed \in Nat /\ wall \in Nat
      OBVIOUS
    <3>3. inflight' \in BOOLEAN
      BY <3>1
    <3>4. landed' \in Nat
      BY <3>1, <3>2
    <3> QED  BY <3>1, <3>2, <3>3, <3>4
  <2>4. /\ failedAt' = failedAt
        /\ lastUnknownRefetch' = lastUnknownRefetch /\ before' = before /\ answer' = answer
        /\ wall' = wall /\ elapsed' = elapsed /\ setBack' = setBack /\ published' = published /\ asks' = asks
    BY <1>4 DEF FetchLands, clockVars
  <2> QED  BY <2>1, <2>2, <2>3, <2>4
<1>5. CASE FetchFails
  <2>1. pc' \in [Lookup -> {"idle", "refresh", "refreshed", "refetch", "refetched"}]
    BY <1>5, <1>10 DEF FetchFails
  <2>2. /\ inflight' \in BOOLEAN /\ landed' = landed /\ failedAt' \in Nat /\ fetchedAt' = fetchedAt
        /\ lastUnknownRefetch' = lastUnknownRefetch /\ before' = before /\ answer' = answer /\ keys' = keys
        /\ wall' = wall /\ elapsed' = elapsed /\ setBack' = setBack /\ published' = published /\ asks' = asks
    BY <1>5 DEF FetchFails, clockVars
  <2> QED  BY <2>1, <2>2
<1>6. CASE Rotate
  BY <1>6 DEF Rotate, clockVars, cacheVars, lookupVars
<1>7. CASE Tick
  BY <1>7 DEF Tick, cacheVars, lookupVars
<1>8. CASE SetBack
  BY <1>8 DEF SetBack, cacheVars, lookupVars
<1>9. CASE UNCHANGED jwksVars
  BY <1>9 DEF jwksVars, clockVars, cacheVars, lookupVars
<1> QED
  BY <1>1, <1>2, <1>3, <1>4, <1>5, <1>6, <1>7, <1>8, <1>9 DEF JwksNext

-----------------------------------------------------------------------------
(* The steps that leave the refetches alone. *)
Calm ==
  /\ wall' = wall /\ setBack' = setBack /\ keys' = keys /\ fetchedAt' = fetchedAt /\ landed' = landed
  /\ lastUnknownRefetch' = lastUnknownRefetch /\ before' = before
  /\ inflight => inflight'
  /\ \A l \in Lookup : \/ pc'[l] = pc[l]
                       \/ pc[l] \notin {"refetch", "refetched"} /\ pc'[l] \notin {"refetch", "refetched"}

LEMMA CalmKeeps == JwksInv /\ Calm => WaitInv' /\ LandingInv' /\ WindowInv'
<1> SUFFICES ASSUME JwksInv, Calm PROVE WaitInv' /\ LandingInv' /\ WindowInv'
  OBVIOUS
<1>1. \A l \in Lookup : Refetching(l)' <=> Refetching(l)
  BY DEF Calm, Refetching
<1>2. \A l \in Lookup : Landed(l)' <=> Landed(l)
  BY DEF Calm, Landed
<1>3. \A t : Within(t, Ttl)' <=> Within(t, Ttl)
  BY DEF Calm, Within
<1>4. WaitInv'
  BY DEF Calm, JwksInv, WaitInv
<1>5. LandingInv'
  BY <1>2 DEF Calm, JwksInv, LandingInv
<1>6. WindowInv'
  <2>1. Holders' = Holders
    BY <1>1, <1>2 DEF Holders
  <2>2. StampInv => StampInv'
    BY DEF Calm, StampInv
  <2>3. OverInv => OverInv'
    BY <1>1 DEF Calm, OverInv, Within
  <2>4. SpentInv => SpentInv'
    BY <2>1 DEF Calm, SpentInv, Within
  <2> QED  BY <2>2, <2>3, <2>4 DEF Calm, JwksInv, WindowInv
<1> QED  BY <1>4, <1>5, <1>6

LEMMA CalmSteps ==
  ASSUME TypeInv
  PROVE  /\ \A l \in Lookup, kid \in Kid : Key(l, kid) => Calm
         /\ \A l \in Lookup : \A a : pc[l] = "refreshed" /\ AfterRefresh(l) /\ Answer(l, a) => Calm
         /\ Rotate \/ UNCHANGED jwksVars => Calm
<1>1. ASSUME NEW l \in Lookup, NEW kid \in Kid, Key(l, kid) PROVE Calm
  <2>1. \A m \in Lookup : \/ pc'[m] = pc[m]
                          \/ pc[m] \notin {"refetch", "refetched"} /\ pc'[m] \notin {"refetch", "refetched"}
    BY <1>1 DEF Key, TypeInv, JwksTypeOK
  <2>2. inflight => inflight'
    BY <1>1 DEF Key, Refresh
  <2> QED  BY <1>1, <2>1, <2>2 DEF Key, Calm, clockVars
<1>2. ASSUME NEW l \in Lookup, NEW a, pc[l] = "refreshed", AfterRefresh(l), Answer(l, a) PROVE Calm
  <2>1. \A m \in Lookup : \/ pc'[m] = pc[m]
                          \/ pc[m] \notin {"refetch", "refetched"} /\ pc'[m] \notin {"refetch", "refetched"}
    BY <1>2 DEF Answer, TypeInv, JwksTypeOK
  <2> QED  BY <1>2, <2>1 DEF AfterRefresh, Answer, Calm, clockVars
<1>3. Rotate \/ UNCHANGED jwksVars => Calm
  BY DEF Rotate, jwksVars, clockVars, cacheVars, lookupVars, Calm
<1> QED  BY <1>1, <1>2, <1>3

-----------------------------------------------------------------------------
(* The steps of a refetch. *)
LEMMA StartKeeps ==
  ASSUME JwksInv, NEW l \in Lookup, AfterRefresh(l), Refetches(l), StartRefetch(l)
  PROVE  WaitInv' /\ LandingInv' /\ WindowInv'
<1>1. /\ wall' = wall /\ setBack' = setBack /\ keys' = keys /\ fetchedAt' = fetchedAt /\ landed' = landed
      /\ lastUnknownRefetch' = wall
  BY DEF AfterRefresh, StartRefetch, clockVars
<1>2. /\ before' = [before EXCEPT ![l] = Window]
      /\ pc' = [pc EXCEPT ![l] = IF CoolingDown THEN "refetched" ELSE "refetch"]
      /\ inflight' = (inflight \/ ~CoolingDown)
  BY DEF StartRefetch, Refresh
<1>3. before'[l] = Window /\ pc'[l] = IF CoolingDown THEN "refetched" ELSE "refetch"
  BY <1>2 DEF JwksInv, TypeInv, JwksTypeOK
<1>4. \A m \in Lookup \ {l} : before'[m] = before[m] /\ pc'[m] = pc[m]
  BY <1>2 DEF JwksInv, TypeInv, JwksTypeOK
<1>5. before'[l].landed = landed /\ before'[l].previous = lastUnknownRefetch
  BY <1>3 DEF Window
<1>6. WaitInv'
  <2>1. \A m \in Lookup \ {l} : pc'[m] = "refetch" => inflight' /\ before'[m].landed = landed'
    BY <1>1, <1>2, <1>4 DEF JwksInv, WaitInv
  <2>2. pc'[l] = "refetch" => inflight' /\ before'[l].landed = landed'
    <3>1. CASE CoolingDown
      BY <1>3, <3>1
    <3>2. CASE ~CoolingDown
      BY <1>1, <1>2, <1>5, <3>2
    <3> QED  BY <3>1, <3>2
  <2> QED  BY <2>1, <2>2 DEF WaitInv
<1>7. LandingInv'
  <2>1. \A m \in Lookup \ {l} : pc'[m] = "refetched" /\ Landed(m)' => keys'.held /\ fetchedAt' = wall'
    BY <1>1, <1>4 DEF JwksInv, LandingInv, Landed
  <2>2. ~Landed(l)'
    BY <1>1, <1>5 DEF Landed
  <2> QED  BY <2>1, <2>2 DEF LandingInv
<1>8. ASSUME setBack = 0 PROVE StampInv' /\ OverInv' /\ SpentInv'
  <2>1. StampInv /\ OverInv
    BY <1>8 DEF JwksInv, WindowInv
  <2>2. fetchedAt <= wall /\ lastUnknownRefetch <= wall
    BY <2>1 DEF StampInv
  <2>3. StampInv'
    <3>1. \A m \in Lookup \ {l} : before'[m].previous <= wall'
      BY <1>1, <1>4, <2>1 DEF StampInv
    <3>2. wall <= wall
      BY DEF JwksInv, TypeInv
    <3> QED  BY <1>1, <1>5, <2>2, <3>1, <3>2 DEF StampInv
  <2>4. OverInv'
    <3>1. \A m \in Lookup \ {l} : Refetching(m)' => ~Within(before[m].previous, Ttl)'
      BY <1>1, <1>4, <2>1 DEF OverInv, Refetching, Within
    <3>2. ~Within(before[l].previous, Ttl)'
      BY <1>1, <1>5 DEF Refetches, Within
    <3> QED  BY <3>1, <3>2 DEF OverInv
  <2>5. l \in Holders'
    BY <1>1, <1>3, <1>5 DEF Holders, Refetching, Landed
  <2> QED  BY <2>3, <2>4, <2>5 DEF SpentInv
<1> QED  BY <1>1, <1>6, <1>7, <1>8 DEF WindowInv

LEMMA RefetchEndKeeps ==
  ASSUME JwksInv, NEW l \in Lookup, AfterRefetch(l)
  PROVE  WaitInv' /\ LandingInv' /\ WindowInv'
<1>1. /\ wall' = wall /\ setBack' = setBack /\ keys' = keys /\ fetchedAt' = fetchedAt /\ landed' = landed
      /\ inflight' = inflight /\ before' = before /\ pc' = [pc EXCEPT ![l] = "idle"]
  BY DEF AfterRefetch, clockVars
<1>2. lastUnknownRefetch' = IF Landed(l) THEN lastUnknownRefetch ELSE before[l].previous
  BY DEF AfterRefetch, UnspentWindow
<1>3. pc'[l] = "idle" /\ \A m \in Lookup \ {l} : pc'[m] = pc[m]
  BY <1>1 DEF JwksInv, TypeInv, JwksTypeOK
<1>4. WaitInv'
  BY <1>1, <1>3 DEF JwksInv, WaitInv
<1>5. LandingInv'
  BY <1>1, <1>3 DEF JwksInv, LandingInv, Landed
<1>6. ASSUME setBack = 0 PROVE StampInv' /\ OverInv' /\ SpentInv'
  <2>1. StampInv /\ OverInv /\ SpentInv
    BY <1>6 DEF JwksInv, WindowInv
  <2>2. StampInv'
    BY <1>1, <1>2, <2>1 DEF StampInv
  <2>3. OverInv'
    BY <1>1, <1>3, <2>1 DEF OverInv, Refetching, Within
  <2>4. SpentInv'
    <3>1. CASE Landed(l)
      <4>1. Holders' = Holders
        BY <1>1, <1>3, <3>1 DEF Holders, Refetching, Landed
      <4> QED  BY <1>1, <1>2, <2>1, <3>1, <4>1 DEF SpentInv, Within
    <3>2. CASE ~Landed(l)
      <4>1. ~Within(before[l].previous, Ttl)
        BY <2>1 DEF OverInv, Refetching, AfterRefetch
      <4> QED  BY <1>1, <1>2, <3>2, <4>1 DEF SpentInv, Within
    <3> QED  BY <3>1, <3>2
  <2> QED  BY <2>2, <2>3, <2>4
<1> QED  BY <1>1, <1>4, <1>5, <1>6 DEF WindowInv

(* A fetch that settles resumes whoever waited on it. *)
LEMMA ResumeIs ==
  ASSUME TypeInv, Resume, Quiet
  PROVE  \A l \in Lookup : /\ pc'[l] # "refetch"
                           /\ pc'[l] = "refetched" <=> pc[l] = "refetch"
                           /\ pc'[l] \in {"refetch", "refetched"} <=> pc[l] \in {"refetch", "refetched"}
<1>1. \A l \in Lookup :
        pc'[l] = IF pc[l] = "refresh" THEN "refreshed" ELSE IF pc[l] = "refetch" THEN "refetched" ELSE pc[l]
  BY DEF Resume
<1>2. \A l \in Lookup : pc[l] \notin {"refreshed", "refetched"}
  BY DEF Quiet
<1> QED  BY <1>1, <1>2

LEMMA LandsKeeps ==
  ASSUME JwksInv, FetchLands
  PROVE  WaitInv' /\ LandingInv' /\ WindowInv'
<1>1. /\ wall' = wall /\ setBack' = setBack /\ keys'.held /\ fetchedAt' = wall /\ before' = before
      /\ lastUnknownRefetch' = lastUnknownRefetch
  BY DEF FetchLands, clockVars
<1>2. \A l \in Lookup : /\ pc'[l] # "refetch"
                        /\ pc'[l] \in {"refetch", "refetched"} <=> pc[l] \in {"refetch", "refetched"}
  BY ResumeIs DEF FetchLands, JwksInv
<1>3. WaitInv'
  BY <1>2 DEF WaitInv
<1>4. LandingInv'
  BY <1>1 DEF LandingInv
<1>5. ASSUME setBack = 0 PROVE StampInv' /\ OverInv' /\ SpentInv'
  <2>1. StampInv /\ OverInv
    BY <1>5 DEF JwksInv, WindowInv
  <2>2. StampInv'
    <3>1. wall <= wall
      BY DEF JwksInv, TypeInv
    <3> QED  BY <1>1, <2>1, <3>1 DEF StampInv
  <2>3. OverInv'
    BY <1>1, <1>2, <2>1 DEF OverInv, Refetching, Within
  <2>4. ~(fetchedAt' < lastUnknownRefetch')
    <3>1. wall \in Int /\ lastUnknownRefetch \in Int
      BY JwksAssumption DEF JwksInv, TypeInv, JwksTypeOK
    <3> QED  BY <1>1, <2>1, <3>1 DEF StampInv
  <2> QED  BY <2>2, <2>3, <2>4 DEF SpentInv
<1> QED  BY <1>1, <1>3, <1>4, <1>5 DEF WindowInv

LEMMA FailsKeeps ==
  ASSUME JwksInv, FetchFails
  PROVE  WaitInv' /\ LandingInv' /\ WindowInv'
<1>1. /\ wall' = wall /\ setBack' = setBack /\ keys' = keys /\ fetchedAt' = fetchedAt /\ before' = before
      /\ lastUnknownRefetch' = lastUnknownRefetch /\ landed' = landed
  BY DEF FetchFails, clockVars
<1>2. \A l \in Lookup : /\ pc'[l] # "refetch"
                        /\ pc'[l] = "refetched" <=> pc[l] = "refetch"
                        /\ pc'[l] \in {"refetch", "refetched"} <=> pc[l] \in {"refetch", "refetched"}
  BY ResumeIs DEF FetchFails, JwksInv
<1>3. WaitInv'
  BY <1>2 DEF WaitInv
<1>4. LandingInv'
  <2>1. \A l \in Lookup : pc'[l] = "refetched" => ~Landed(l)'
    BY <1>1, <1>2 DEF JwksInv, WaitInv, Landed
  <2> QED  BY <2>1 DEF LandingInv
<1>5. ASSUME setBack = 0 PROVE StampInv' /\ OverInv' /\ SpentInv'
  <2>1. StampInv /\ OverInv /\ SpentInv
    BY <1>5 DEF JwksInv, WindowInv
  <2>2. StampInv'
    BY <1>1, <2>1 DEF StampInv
  <2>3. OverInv'
    BY <1>1, <1>2, <2>1 DEF OverInv, Refetching, Within
  <2>4. Holders' = Holders
    BY <1>1, <1>2 DEF Holders, Refetching, Landed
  <2> QED  BY <1>1, <2>1, <2>2, <2>3, <2>4 DEF SpentInv, Within
<1> QED  BY <1>1, <1>3, <1>4, <1>5 DEF WindowInv

-----------------------------------------------------------------------------
(* The clock moves only while no continuation is queued. *)
LEMMA TickKeeps ==
  ASSUME JwksInv, Tick
  PROVE  WaitInv' /\ LandingInv' /\ WindowInv'
<1>1. /\ wall' = wall + 1 /\ setBack' = setBack /\ fetchedAt' = fetchedAt /\ before' = before
      /\ lastUnknownRefetch' = lastUnknownRefetch /\ landed' = landed /\ pc' = pc /\ inflight' = inflight
  BY DEF Tick, cacheVars, lookupVars
<1>2. WaitInv'
  BY <1>1 DEF JwksInv, WaitInv
<1>3. LandingInv'
  <2>1. \A l \in Lookup : pc'[l] # "refetched"
    BY <1>1 DEF Tick, Quiet
  <2> QED  BY <2>1 DEF LandingInv
<1>4. ASSUME setBack = 0 PROVE StampInv' /\ OverInv' /\ SpentInv'
  <2>1. StampInv /\ OverInv /\ SpentInv
    BY <1>4 DEF JwksInv, WindowInv
  <2>2. /\ wall \in Nat /\ fetchedAt \in Int /\ lastUnknownRefetch \in Int /\ Ttl \in Nat
        /\ \A l \in Lookup : before[l].previous \in Int
    BY JwksAssumption DEF JwksInv, TypeInv, JwksTypeOK
  <2>3. StampInv'
    BY <1>1, <2>1, <2>2 DEF StampInv
  <2>5. OverInv'
    <3>1. \A l \in Lookup : Within(before[l].previous, Ttl)' => Within(before[l].previous, Ttl)
      BY <1>1, <2>1, <2>2 DEF StampInv, Within
    <3> QED  BY <1>1, <2>1, <3>1 DEF OverInv, Refetching
  <2>6. SpentInv'
    <3>1. Holders' = Holders
      BY <1>1 DEF Holders, Refetching, Landed
    <3>2. Within(lastUnknownRefetch, Ttl)' => Within(lastUnknownRefetch, Ttl)
      BY <1>1, <2>1, <2>2 DEF StampInv, Within
    <3> QED  BY <1>1, <2>1, <3>1, <3>2 DEF SpentInv
  <2> QED  BY <2>3, <2>5, <2>6
<1> QED  BY <1>1, <1>2, <1>3, <1>4 DEF WindowInv

LEMMA SetBackKeeps ==
  ASSUME JwksInv, SetBack
  PROVE  WaitInv' /\ LandingInv' /\ WindowInv'
<1>1. /\ setBack' = setBack + 1 /\ before' = before /\ landed' = landed /\ pc' = pc /\ inflight' = inflight
  BY DEF SetBack, cacheVars, lookupVars
<1>2. setBack' # 0
  BY <1>1 DEF JwksInv, TypeInv
<1>3. \A l \in Lookup : pc'[l] # "refetched"
  BY <1>1 DEF SetBack, Quiet
<1> QED  BY <1>1, <1>2, <1>3 DEF JwksInv, WaitInv, LandingInv, WindowInv

LEMMA JwksInvStep == JwksInv /\ [JwksNext]_jwksVars => JwksInv'
<1> SUFFICES ASSUME JwksInv, [JwksNext]_jwksVars PROVE JwksInv'
  OBVIOUS
<1>1. TypeInv /\ TypeInv'
  BY TypeStep DEF JwksInv
<1>2. ASSUME NEW l \in Lookup, AfterRefresh(l) PROVE WaitInv' /\ LandingInv' /\ WindowInv'
  <2>1. pc[l] = "refreshed" /\ LooksIn(l)
    BY <1>2 DEF AfterRefresh
  <2>2. ASSUME NEW a, Answer(l, a) PROVE WaitInv' /\ LandingInv' /\ WindowInv'
    BY <1>1, <1>2, <2>1, <2>2, CalmSteps, CalmKeeps
  <2>3. ASSUME Refetches(l), StartRefetch(l) PROVE WaitInv' /\ LandingInv' /\ WindowInv'
    BY <1>2, <2>3, StartKeeps
  <2> QED  BY <2>1, <2>2, <2>3 DEF LooksIn
<1>3. ASSUME NEW l \in Lookup, AfterRefetch(l) PROVE WaitInv' /\ LandingInv' /\ WindowInv'
  BY <1>3, RefetchEndKeeps
<1>4. ASSUME NEW l \in Lookup, NEW kid \in Kid, Key(l, kid) PROVE WaitInv' /\ LandingInv' /\ WindowInv'
  BY <1>1, <1>4, CalmSteps, CalmKeeps
<1>5. Rotate \/ UNCHANGED jwksVars => WaitInv' /\ LandingInv' /\ WindowInv'
  BY <1>1, CalmSteps, CalmKeeps
<1>6. WaitInv' /\ LandingInv' /\ WindowInv'
  BY <1>2, <1>3, <1>4, <1>5, LandsKeeps, FailsKeeps, TickKeeps, SetBackKeeps DEF JwksNext
<1> QED  BY <1>1, <1>6 DEF JwksInv

-----------------------------------------------------------------------------
(* The verifier takes the key-set client's steps. *)
LEMMA VerifierSteps == [JwtNext]_jwtVars => [JwksNext]_jwksVars
<1> SUFFICES ASSUME [JwtNext]_jwtVars PROVE [JwksNext]_jwksVars
  OBVIOUS
<1>1. ASSUME NEW l \in Lookup, GoesOn(l) PROVE JwksNext
  BY <1>1 DEF GoesOn, JwksNext
<1>2. ASSUME NEW l \in Lookup, NEW t \in Token, Look(l, t) PROVE JwksNext
  <2>1. t.kid \in Kid
    BY JwtAssumption
  <2> QED  BY <1>2, <2>1 DEF Look, JwksNext
<1>3. FetchLands \/ FetchFails \/ Rotate \/ Tick \/ SetBack => JwksNext
  BY DEF JwksNext
<1>4. UNCHANGED jwtVars => UNCHANGED jwksVars
  BY DEF jwtVars
<1> QED  BY <1>1, <1>2, <1>3, <1>4 DEF JwtNext

(* The key-set client's invariant holds of the verifier over it: its types, who
   waits on what, what a landed refetch leaves, and the windows (auth/jws.ts,
   auth/jwks.ts). *)
THEOREM JwksInvHolds == JwtSpec => []JwksInv
<1>1. JwtInit => JwksInv
  BY JwksInvInit DEF JwtInit
<1>2. JwksInv /\ [JwtNext]_jwtVars => JwksInv'
  BY JwksInvStep, VerifierSteps
<1> QED  BY <1>1, <1>2, PTL DEF JwtSpec

(* Until the clock is set back, a window for unknown kids that is spent was spent
   on a fetch that landed in it (jwks.ts). *)
THEOREM WindowsBuyAFetch == JwtSpec => []WindowBuysAFetch
<1>1. JwksInv => WindowBuysAFetch
  <2> SUFFICES ASSUME JwksInv, Quiet, ~inflight, Within(lastUnknownRefetch, Ttl), setBack = 0
               PROVE  fetchedAt >= lastUnknownRefetch
    BY DEF WindowBuysAFetch
  <2>1. Holders = {}
    BY DEF Holders, Refetching, Quiet, JwksInv, WaitInv
  <2>2. ~(fetchedAt < lastUnknownRefetch)
    BY <2>1 DEF JwksInv, WindowInv, SpentInv
  <2>3. fetchedAt \in Int /\ lastUnknownRefetch \in Int
    BY JwksAssumption DEF JwksInv, TypeInv, JwksTypeOK
  <2> QED  BY <2>2, <2>3
<1> QED  BY <1>1, JwksInvHolds, PTL

-----------------------------------------------------------------------------
(* The order of the checks. *)
LEMMA Least ==
  ASSUME NEW S \in SUBSET Nat, S # {}
  PROVE  \E i \in S : \A k \in S : i <= k
<1> DEFINE R == {ss \in Nat \X Nat : ss[1] < ss[2]}
<1>1. IsWellFoundedOn(R, Nat)
  BY NatLessThanWellFounded DEF OpToRel
<1>2. PICK i \in S : \A k \in S : <<k, i>> \notin R
  <2> HIDE DEF R
  <2> QED  BY <1>1, WFMin
<1>3. \A k \in S : ~(k < i)
  BY <1>2
<1>4. S \subseteq Nat
  OBVIOUS
<1> QED  BY <1>3, <1>4

(* A token that no check's name is given for fails none of them. *)
LEMMA FirstOfPassed ==
  ASSUME NEW checks, NEW n \in Nat, DOMAIN checks = 1 .. n, \A i \in DOMAIN checks : checks[i] # "passed",
         NEW faults, FirstOf(faults, checks) = "passed"
  PROVE  \A i \in DOMAIN checks : checks[i] \notin faults
<1> DEFINE failed == {i \in DOMAIN checks : checks[i] \in faults}
<1>1. failed \in SUBSET Nat /\ failed \subseteq DOMAIN checks
  OBVIOUS
<1>2. failed # {} => (CHOOSE i \in failed : \A k \in failed : i <= k) \in failed
  <2> HIDE DEF failed
  <2> QED  BY <1>1, Least
<1>3. FirstOf(faults, checks)
        = IF failed = {} THEN "passed" ELSE checks[CHOOSE i \in failed : \A k \in failed : i <= k]
  BY DEF FirstOf
<1>4. failed = {}
  <2> HIDE DEF failed
  <2> QED  BY <1>1, <1>2, <1>3
<1> QED  BY <1>4

LEMMA ChecksAre ==
  /\ DOMAIN FormChecks = 1 .. 11 /\ \A i \in DOMAIN FormChecks : FormChecks[i] # "passed"
  /\ DOMAIN KeyChecks = 1 .. 9 /\ \A i \in DOMAIN KeyChecks : KeyChecks[i] # "passed"
  /\ KeyChecks[1] = "key-mismatch" /\ KeyChecks[2] = "signature"
  /\ KeyChecks[5] = "exp" /\ KeyChecks[6] = "exp-horizon"
<1>1. DOMAIN FormChecks = 1 .. 11
  BY DEF FormChecks
<1>2. \A i \in 1 .. 11 : FormChecks[i] # "passed"
  BY DEF FormChecks
<1>3. DOMAIN KeyChecks = 1 .. 9
  BY DEF KeyChecks
<1>4. \A i \in 1 .. 9 : KeyChecks[i] # "passed"
  BY DEF KeyChecks
<1>5. /\ KeyChecks[1] = "key-mismatch" /\ KeyChecks[2] = "signature"
      /\ KeyChecks[5] = "exp" /\ KeyChecks[6] = "exp-horizon"
  BY DEF KeyChecks
<1> QED  BY <1>1, <1>2, <1>3, <1>4, <1>5

(* What it takes to pass: a form with nothing wrong, and times and a key that are
   good now. *)
LEMMA PassedIsGood ==
  ASSUME NEW t \in Token, NEW kid \in Kid, NEW now \in Nat, Form(t) = "passed",
         Judge(t, KeysOf[kid], now) = "passed"
  PROVE  /\ t.faults = {}
         /\ t.exp > now - Skew /\ t.exp <= now + Skew + MaxLifetime
         /\ \E j \in KeysOf[kid] :
              /\ j.id \in t.verifies
              /\ j.use # "enc" /\ j.alg \in {Absent, t.alg}
              /\ t.alg = "RS256" => j.bits >= 2048 /\ j.exponent > 1
<1> DEFINE fails == Fails(t, KeysOf[kid], now)
<1>1. \A i \in DOMAIN FormChecks : FormChecks[i] \notin t.faults
  BY ChecksAre, FirstOfPassed DEF Form
<1>2. \A i \in DOMAIN KeyChecks : KeyChecks[i] \notin fails
  BY ChecksAre, FirstOfPassed DEF Judge
<1>3. t.faults = {}
  <2>1. t.faults \subseteq fails
    BY DEF Fails
  <2> HIDE DEF fails
  <2> QED  BY <1>1, <1>2, <2>1, JwtAssumption DEF Fault
<1>4. "key-mismatch" \notin fails /\ "signature" \notin fails /\ "exp" \notin fails /\ "exp-horizon" \notin fails
  BY <1>2, ChecksAre
<1>5. ~Expired(t, now) /\ ~BeyondHorizon(t, now)
  BY <1>4 DEF Fails
<1>6. t.exp > now - Skew /\ t.exp <= now + Skew + MaxLifetime
  <2>1. t.exp # Absent /\ t.exp \in Int /\ Skew \in Nat /\ MaxLifetime \in Nat
    BY <1>5, JwtAssumption, TokenAssumption DEF Expired
  <2> QED  BY <1>5, <2>1 DEF Expired, BeyondHorizon
<1>7. ~ \A j \in Tried(t, KeysOf[kid]) : j.id \notin t.verifies
  BY <1>4 DEF Fails
<1>8. PICK j \in KeysOf[kid] : KeyFits(j, t.alg) /\ Imports(j, t.alg) /\ j.id \in t.verifies
  BY <1>7 DEF Tried
<1>9. j.use # "enc" /\ j.alg \in {Absent, t.alg}
  BY <1>8, JwtAssumption DEF KeyFits
<1>10. ASSUME t.alg = "RS256" PROVE j.bits >= 2048 /\ j.exponent > 1
  <2>1. j.kty = "RSA" /\ RsaKeyUsable(j)
    BY <1>8, <1>10 DEF KeyFits, Imports
  <2>2. j.bits \in Nat /\ j.exponent \in Nat
    BY <2>1, JwtAssumption
  <2> QED  BY <2>1, <2>2 DEF RsaKeyUsable
<1> QED  BY <1>3, <1>6, <1>8, <1>9, <1>10

-----------------------------------------------------------------------------
(* The tokens being looked up. *)
TokenInv ==
  /\ token = [l \in Lookup |-> token[l]]
  /\ \A l \in Lookup : pc[l] # "idle" =>
       token[l] \in Token /\ Form(token[l]) = "passed" /\ asks[l] = token[l].kid

VerifierInv == JwksInv /\ TokenInv

LEMMA TokenInvStep == VerifierInv /\ [JwtNext]_jwtVars => TokenInv'
<1> SUFFICES ASSUME VerifierInv, [JwtNext]_jwtVars PROVE TokenInv'
  OBVIOUS
<1>1. ASSUME NEW l \in Lookup, GoesOn(l) PROVE TokenInv'
  <2>1. asks' = asks
    BY <1>1 DEF GoesOn, AfterRefresh, AfterRefetch
  <2>2. \A m \in Lookup \ {l} : pc'[m] = pc[m]
    <3>1. AfterRefetch(l) => \A m \in Lookup \ {l} : pc'[m] = pc[m]
      BY DEF AfterRefetch, VerifierInv, JwksInv, TypeInv, JwksTypeOK
    <3>2. AfterRefresh(l) => \A m \in Lookup \ {l} : pc'[m] = pc[m]
      BY DEF AfterRefresh, LooksIn, Answer, StartRefetch, VerifierInv, JwksInv, TypeInv, JwksTypeOK
    <3> QED  BY <1>1, <3>1, <3>2 DEF GoesOn
  <2>3. pc[l] # "idle"
    BY <1>1 DEF GoesOn, AfterRefresh, AfterRefetch
  <2>4. /\ token' = [m \in Lookup |-> token'[m]] /\ \A m \in Lookup \ {l} : token'[m] = token[m]
        /\ pc'[l] # "idle" => token'[l] = token[l]
    BY <1>1 DEF GoesOn, VerifierInv, TokenInv
  <2> QED  BY <2>1, <2>2, <2>3, <2>4 DEF VerifierInv, TokenInv
<1>2. ASSUME NEW l \in Lookup, NEW t \in Token, Look(l, t) PROVE TokenInv'
  <2>1. /\ asks' = [asks EXCEPT ![l] = t.kid] /\ token' = [token EXCEPT ![l] = t] /\ Form(t) = "passed"
        /\ pc' = [pc EXCEPT ![l] = IF Valid \/ CoolingDown THEN "refreshed" ELSE "refresh"]
    BY <1>2 DEF Look, Key, ReachesKeys
  <2>2. /\ \A m \in Lookup \ {l} : pc'[m] = pc[m] /\ asks'[m] = asks[m] /\ token'[m] = token[m]
        /\ token' = [m \in Lookup |-> token'[m]] /\ token'[l] = t /\ asks'[l] = t.kid
    BY <2>1 DEF VerifierInv, TokenInv, JwksInv, TypeInv, JwksTypeOK
  <2> QED  BY <2>1, <2>2 DEF VerifierInv, TokenInv
<1>3. ASSUME FetchLands \/ FetchFails, UNCHANGED token PROVE TokenInv'
  <2>1. asks' = asks /\ Resume
    BY <1>3 DEF FetchLands, FetchFails
  <2>2. \A m \in Lookup : pc'[m] # "idle" => pc[m] # "idle"
    BY <2>1 DEF Resume
  <2>3. token' = token
    BY <1>3
  <2>4. asks' = asks
    BY <2>1
  <2> QED  BY <2>2, <2>3, <2>4 DEF VerifierInv, TokenInv
<1>4. ASSUME Rotate \/ Tick \/ SetBack, UNCHANGED token PROVE TokenInv'
  <2>1. asks' = asks /\ pc' = pc
    BY <1>4 DEF Rotate, Tick, SetBack, lookupVars
  <2> QED  BY <1>4, <2>1 DEF VerifierInv, TokenInv
<1>5. UNCHANGED jwtVars => TokenInv'
  BY DEF jwtVars, jwksVars, lookupVars, VerifierInv, TokenInv
<1> QED  BY <1>1, <1>2, <1>3, <1>4, <1>5 DEF JwtNext

LEMMA VerifierInvHolds == JwtSpec => []VerifierInv
<1>1. JwtInit => VerifierInv
  <2>1. JwtInit => TokenInv
    BY DEF JwtInit, JwksInit, TokenInv
  <2> QED  BY <2>1, JwksInvInit DEF JwtInit, VerifierInv
<1>2. VerifierInv /\ [JwtNext]_jwtVars => VerifierInv'
  BY JwksInvStep, VerifierSteps, TokenInvStep DEF VerifierInv
<1> QED  BY <1>1, <1>2, PTL DEF JwtSpec

-----------------------------------------------------------------------------
(* What the end of a lookup rests on. *)
LEMMA EndsBy ==
  ASSUME [JwtNext]_jwtVars, VerifierInv, NEW l \in Lookup, pc[l] # "idle", pc'[l] = "idle"
  PROVE  AfterRefresh(l) \/ AfterRefetch(l)
<1>1. ASSUME NEW m \in Lookup, m # l, GoesOn(m) PROVE FALSE
  <2>1. AfterRefetch(m) => pc'[l] = pc[l]
    BY <1>1 DEF AfterRefetch, VerifierInv, JwksInv, TypeInv, JwksTypeOK
  <2>2. AfterRefresh(m) => pc'[l] = pc[l]
    BY <1>1 DEF AfterRefresh, LooksIn, Answer, StartRefetch, VerifierInv, JwksInv, TypeInv, JwksTypeOK
  <2> QED  BY <1>1, <2>1, <2>2 DEF GoesOn
<1>2. ASSUME NEW m \in Lookup, NEW t \in Token, Look(m, t) PROVE FALSE
  <2>1. pc' = [pc EXCEPT ![m] = IF Valid \/ CoolingDown THEN "refreshed" ELSE "refresh"]
    BY <1>2 DEF Look, Key
  <2> QED  BY <2>1 DEF VerifierInv, JwksInv, TypeInv, JwksTypeOK
<1>3. ASSUME FetchLands \/ FetchFails PROVE FALSE
  <2>1. Resume
    BY <1>3 DEF FetchLands, FetchFails
  <2> QED  BY <2>1 DEF Resume
<1>4. ASSUME Rotate \/ Tick \/ SetBack \/ UNCHANGED jwtVars PROVE FALSE
  <2>1. pc' = pc
    BY <1>4 DEF Rotate, Tick, SetBack, lookupVars, jwtVars, jwksVars
  <2> QED  BY <2>1
<1> QED  BY <1>1, <1>2, <1>3, <1>4 DEF JwtNext, GoesOn

LEMMA EndsWith ==
  ASSUME VerifierInv, NEW l \in Lookup, AfterRefresh(l) \/ AfterRefetch(l), pc'[l] = "idle",
         answer'[l] # "jwks-unavailable"
  PROVE  /\ Valid
         /\ answer'[l] = "key" => asks[l] \in keys.set
         /\ pc[l] = "refetched" => fetchedAt = wall
<1>1. ASSUME AfterRefresh(l)
      PROVE  Valid /\ (answer'[l] = "key" => asks[l] \in keys.set) /\ pc[l] # "refetched"
  <2>1. pc[l] = "refreshed" /\ LooksIn(l)
    BY <1>1 DEF AfterRefresh
  <2>2. \A a : Answer(l, a) => answer'[l] = a
    BY DEF Answer, VerifierInv, JwksInv, TypeInv, JwksTypeOK
  <2>3. ~StartRefetch(l)
    BY DEF StartRefetch, VerifierInv, JwksInv, TypeInv, JwksTypeOK
  <2>4. Valid
    BY <2>1, <2>2, <2>3 DEF LooksIn
  <2>5. Answer(l, IF asks[l] \in keys.set THEN "key" ELSE "unknown-kid")
    BY <2>1, <2>3, <2>4 DEF LooksIn
  <2> QED  BY <2>1, <2>2, <2>4, <2>5
<1>2. ASSUME AfterRefetch(l)
      PROVE  Valid /\ (answer'[l] = "key" => asks[l] \in keys.set) /\ fetchedAt = wall
  <2>1. pc[l] = "refetched"
    BY <1>2 DEF AfterRefetch
  <2>2. Landed(l)
    BY <1>2 DEF AfterRefetch, VerifierInv, JwksInv, TypeInv, JwksTypeOK
  <2>3. keys.held /\ fetchedAt = wall
    BY <2>1, <2>2 DEF VerifierInv, JwksInv, LandingInv
  <2>4. Valid
    BY <2>3, JwksAssumption DEF Valid, Within, VerifierInv, JwksInv, TypeInv
  <2>5. answer'[l] = IF Valid /\ asks[l] \in keys.set THEN "key" ELSE "unknown-kid"
    BY <1>2, <2>2 DEF AfterRefetch, VerifierInv, JwksInv, TypeInv, JwksTypeOK
  <2> QED  BY <2>3, <2>4, <2>5
<1> QED  BY <1>1, <1>2

LEMMA EndedAnswered ==
  ASSUME VerifierInv, NEW l \in Lookup, AfterRefresh(l) \/ AfterRefetch(l), pc'[l] = "idle"
  PROVE  answer'[l] # NoAnswer
<1>1. ASSUME AfterRefresh(l) PROVE answer'[l] # NoAnswer
  <2>1. LooksIn(l)
    BY <1>1 DEF AfterRefresh
  <2>2. \A a : Answer(l, a) => answer'[l] = a
    BY DEF Answer, VerifierInv, JwksInv, TypeInv, JwksTypeOK
  <2>3. ~StartRefetch(l)
    BY DEF StartRefetch, VerifierInv, JwksInv, TypeInv, JwksTypeOK
  <2> QED  BY <2>1, <2>2, <2>3 DEF LooksIn, NoAnswer
<1>2. ASSUME AfterRefetch(l) PROVE answer'[l] # NoAnswer
  BY <1>2 DEF AfterRefetch, NoAnswer, VerifierInv, JwksInv, TypeInv, JwksTypeOK
<1> QED  BY <1>1, <1>2

(* A token is accepted or refused only by a key set inside its lifetime, and
   after a refetch by one that landed since the lookup asked for it, whichever
   lookup's fetch that was. *)
THEOREM OutagesJudgeNobody == JwtSpec => OutageIsNoVerdict
<1>1. ASSUME VerifierInv, [JwtNext]_jwtVars, NEW l \in Lookup, Ends(l, {"ok", "invalid_token"})
      PROVE  Valid /\ (pc[l] = "refetched" => fetchedAt >= lastUnknownRefetch \/ setBack > 0)
  <2>1. AfterRefresh(l) \/ AfterRefetch(l)
    BY <1>1, EndsBy DEF Ends
  <2>2. pc'[l] = "idle" /\ answer'[l] # "jwks-unavailable"
    BY <1>1 DEF Ends, Outcome
  <2>3. Valid /\ (pc[l] = "refetched" => fetchedAt = wall)
    BY <1>1, <2>1, <2>2, EndsWith
  <2>4. setBack \in Nat /\ wall \in Int /\ lastUnknownRefetch \in Int
    BY <1>1, JwksAssumption DEF VerifierInv, JwksInv, TypeInv, JwksTypeOK
  <2>5. setBack = 0 => lastUnknownRefetch <= wall
    BY <1>1 DEF VerifierInv, JwksInv, WindowInv, StampInv
  <2> QED  BY <2>3, <2>4, <2>5
<1>2. VerifierInv /\ [JwtNext]_jwtVars =>
        [\A l \in Lookup : Ends(l, {"ok", "invalid_token"}) =>
           Valid /\ (pc[l] = "refetched" => fetchedAt >= lastUnknownRefetch \/ setBack > 0)]_jwtVars
  BY <1>1
<1> QED  BY <1>2, VerifierInvHolds, PTL DEF JwtSpec, OutageIsNoVerdict

(* Whoever is served presented a token that is good when it is served: its times,
   its kid in a key set inside its lifetime, and a key that is for signatures and
   strong enough to mean something. *)
THEOREM TheServedAreGoodNow == JwtSpec => ServedIsGoodNow
<1> DEFINE good(l) ==
      LET t == token[l] IN
        /\ t.faults = {}
        /\ t.exp > wall - Skew /\ t.exp <= wall + Skew + MaxLifetime
        /\ t.kid \in keys.set /\ Valid
        /\ \E j \in KeysOf[t.kid] :
             /\ j.id \in t.verifies
             /\ j.use # "enc" /\ j.alg \in {Absent, t.alg}
             /\ t.alg = "RS256" => j.bits >= 2048 /\ j.exponent > 1
<1>1. ASSUME VerifierInv, [JwtNext]_jwtVars, NEW l \in Lookup, Ends(l, {"ok"})
      PROVE  good(l)
  <2>1. pc[l] # "idle" /\ pc'[l] = "idle" /\ Outcome(l, answer'[l], KeysOf[asks[l]]) = "ok"
    BY <1>1 DEF Ends
  <2>2. token[l] \in Token /\ Form(token[l]) = "passed" /\ asks[l] = token[l].kid /\ asks[l] \in Kid
    BY <1>1, <2>1 DEF VerifierInv, TokenInv, JwksInv, TypeInv
  <2>3. AfterRefresh(l) \/ AfterRefetch(l)
    BY <1>1, <2>1, EndsBy
  <2>4. answer'[l] \in {NoAnswer, "key", "unknown-kid", "jwks-unavailable"}
    <3>1. TypeInv'
      BY <1>1, VerifierSteps, TypeStep DEF VerifierInv, JwksInv
    <3> QED  BY <3>1 DEF TypeInv, JwksTypeOK
  <2>5. answer'[l] = "key" /\ Kind(Judge(token[l], KeysOf[asks[l]], wall)) = "ok"
    <3>1. answer'[l] # NoAnswer
      BY <1>1, <2>1, <2>3, EndedAnswered
    <3> QED  BY <2>1, <2>4, <3>1 DEF Outcome
  <2>6. Judge(token[l], KeysOf[asks[l]], wall) = "passed"
    BY <2>5 DEF Kind
  <2>7. Valid /\ asks[l] \in keys.set
    BY <1>1, <2>1, <2>3, <2>5, EndsWith
  <2>8. wall \in Nat
    BY <1>1 DEF VerifierInv, JwksInv, TypeInv
  <2> QED  BY <2>2, <2>6, <2>7, <2>8, PassedIsGood
<1>2. VerifierInv /\ [JwtNext]_jwtVars => [\A l \in Lookup : Ends(l, {"ok"}) => good(l)]_jwtVars
  BY <1>1
<1> QED  BY <1>2, VerifierInvHolds, PTL DEF JwtSpec, ServedIsGoodNow

=============================================================================
