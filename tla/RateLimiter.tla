------------------------------ MODULE RateLimiter -------------------------------
(***************************************************************************)
(* The per-principal rate limit: packages/core/src/rate-limit/limiter.ts.  *)
(*                                                                         *)
(* A token bucket per principal in a bounded table, in the order of last   *)
(* use.  A bucket that is full again decides as no bucket does, so it is   *)
(* dropped: from the old end at every request (#trim), and anywhere when   *)
(* the table is full (#sweep), but not before the time the last sweep      *)
(* noted.  A newcomer to a full table is served untracked.                 *)
(*                                                                         *)
(* Tokens are counted in the time they take to refill, so that one tick    *)
(* adds one, and exactly: the code's floating point and its EPSILON are    *)
(* not modelled.  The clock is performance.now, which never steps back.    *)
(***************************************************************************)
EXTENDS Integers, FiniteSets

CONSTANTS
  Principal,
  Burst,           \* tokens in a full bucket
  Token,           \* the time one token takes to refill
  Second,          \* a second, in the same unit
  MaxPrincipals,   \* buckets held at once
  MaxTime,         \* bound on the clock, for TLC
  None

ASSUME RateAssumption ==
  /\ Burst \in Nat \ {0} /\ Token \in Nat \ {0} /\ Second \in Nat \ {0}
  /\ MaxPrincipals \in Nat \ {0} /\ MaxTime \in Nat
  /\ None \notin Principal

VARIABLES
  now,           \* the clock
  buckets,       \* #buckets
  order,         \* the table's order: <<p, q>> when p was used before q
  nextSweepAt,   \* #nextSweepAt
  answer,        \* what the last take answered, and to whom
  comeBack       \* per principal, when its last refusal told it to come back

tableVars == <<buckets, order, nextSweepAt>>
rateVars == <<now, tableVars, answer, comeBack>>

Full == Burst * Token
Bucket == [tokens : 0 .. Full, at : Nat]

RateTypeOK ==
  /\ now \in Nat
  /\ DOMAIN buckets \subseteq Principal
  /\ buckets \in [DOMAIN buckets -> Bucket]
  /\ Cardinality(DOMAIN buckets) <= MaxPrincipals
  /\ order \subseteq (DOMAIN buckets) \X (DOMAIN buckets)
  /\ \A p, q \in DOMAIN buckets : p # q => (<<p, q>> \in order <=> <<q, p>> \notin order)
  /\ nextSweepAt \in Nat
  /\ comeBack \in [Principal -> Nat \cup {None}]

RateInit ==
  /\ now = 0
  /\ buckets = [p \in {} |-> None]
  /\ order = {}
  /\ nextSweepAt = 0
  /\ answer = [who |-> None, kind |-> None]
  /\ comeBack = [p \in Principal |-> None]

-----------------------------------------------------------------------------
(* #level *)
Level(b) == IF b.tokens + (now - b.at) > Full THEN Full ELSE b.tokens + (now - b.at)

IsFull(p) == Level(buckets[p]) = Full

UpTo(p) == {q \in DOMAIN buckets : q = p \/ <<q, p>> \in order}

(* Slip: #trim drops whatever would be served, full or not. *)
TrimmedServable ==
  {p \in DOMAIN buckets : \A q \in UpTo(p) : Level(buckets[q]) >= Token}
(* #trim: the full buckets from the old end, up to the first that is not. *)
Trimmed == {p \in DOMAIN buckets : \A q \in UpTo(p) : IsFull(q)}
Kept == DOMAIN buckets \ Trimmed

(* #sweep: at the cap, every full bucket, if one may be full by now. *)
Sweeps(p) ==
  p \notin Kept /\ Cardinality(Kept) >= MaxPrincipals /\ now >= nextSweepAt
Left(p) == IF Sweeps(p) THEN {q \in Kept : ~IsFull(q)} ELSE Kept

(* A sweep always leaves one: the oldest that #trim kept is not full. *)
FullFrom(q) == now + Full - Level(buckets[q])
NextSweep(p) ==
  IF ~Sweeps(p) THEN nextSweepAt
  ELSE CHOOSE t \in {FullFrom(q) : q \in Left(p)} : \A q \in Left(p) : t <= FullFrom(q)

Tracked(p) == p \in Left(p) \/ Cardinality(Left(p)) < MaxPrincipals
Found(p) == IF p \in Left(p) THEN Level(buckets[p]) ELSE Full

(* The bucket is stored with what it holds now, at the table's new end. *)
Store(p, tokens) ==
  /\ buckets' = [q \in Left(p) \cup {p} |->
                   IF q = p THEN [tokens |-> tokens, at |-> now] ELSE buckets[q]]
  /\ LET rest == Left(p) \ {p}
     IN order' = (order \cap (rest \X rest)) \cup (rest \X {p})
  /\ nextSweepAt' = NextSweep(p)

(* Slip: Retry-After rounded down. *)
RetryAfterDown(tokens) ==
  LET s == (Token - tokens) \div Second IN IF s < 1 THEN 1 ELSE s

(* Retry-After, in whole seconds, rounded up, at least 1. *)
RetryAfter(tokens) ==
  LET s == (Token - tokens + Second - 1) \div Second IN IF s < 1 THEN 1 ELSE s

TakeToken(p) ==
  /\ Tracked(p) /\ Found(p) >= Token
  /\ Store(p, Found(p) - Token)
  /\ answer' = [who |-> p, kind |-> "served"]
  /\ comeBack' = [comeBack EXCEPT ![p] = None]
  /\ UNCHANGED now

TakeRefused(p) ==
  /\ Tracked(p) /\ Found(p) < Token
  /\ Store(p, Found(p))
  /\ answer' = [who |-> p, kind |-> "refused"]
  /\ comeBack' = [comeBack EXCEPT ![p] = now + RetryAfter(Found(p)) * Second]
  /\ UNCHANGED now

TakeUntracked(p) ==
  /\ ~Tracked(p)
  /\ buckets' = [q \in Left(p) |-> buckets[q]]
  /\ order' = order \cap (Left(p) \X Left(p))
  /\ nextSweepAt' = NextSweep(p)
  /\ answer' = [who |-> p, kind |-> "untracked"]
  /\ comeBack' = [comeBack EXCEPT ![p] = None]
  /\ UNCHANGED now

(* peek: what take would say, with no trim and no sweep. *)
PeekOk(p) == p \in DOMAIN buckets => Level(buckets[p]) >= Token
PeekRetry(p) == RetryAfter(Level(buckets[p]))

Tick == now < MaxTime /\ now' = now + 1 /\ UNCHANGED <<tableVars, answer, comeBack>>

RateNext ==
  \/ \E p \in Principal : TakeToken(p) \/ TakeRefused(p) \/ TakeUntracked(p)
  \/ Tick

RateSpec == RateInit /\ [][RateNext]_rateVars

-----------------------------------------------------------------------------
(* Properties *)

Ideal == INSTANCE IdealLimiter WITH
  level <- [p \in Principal |-> IF p \in DOMAIN buckets THEN Level(buckets[p]) ELSE Full]

(* The bounded table decides as a table without bound: dropping a bucket hands
   nobody a token, nobody is refused for another's requests or for want of
   room, and only a principal with its whole budget is served untracked
   (RL-2, RL-3, RL-7, RL-8). *)
DecidesAsIdeal == Ideal!IdealSpec

(* A refused principal that comes back when Retry-After said is served, whatever
   it and the others asked for meanwhile (RL-3, RL-4); and peek, which trims and
   sweeps nothing, says what take would (approval/RULES.md APR-26: an address is
   looked at first, charged later). *)
RetryAfterIsTrue ==
  \A p \in Principal :
    /\ p \in DOMAIN buckets /\ comeBack[p] # None /\ now >= comeBack[p] => Level(buckets[p]) >= Token
    /\ PeekOk(p) <=> ~(Tracked(p) /\ Found(p) < Token)
    /\ ~PeekOk(p) => PeekRetry(p) = RetryAfter(Found(p))

=============================================================================
