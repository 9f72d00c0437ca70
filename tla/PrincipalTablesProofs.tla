------------------------- MODULE PrincipalTablesProofs --------------------------
(***************************************************************************)
(* The server's tables by principal, for any principals, budgets and table *)
(* size.  First the rate limit, which implements IdealLimiter: bounding    *)
(* the table changes no decision.  Then the rate limit beside the          *)
(* tripwire.                                                               *)
(*                                                                         *)
(* The argument: a bucket the table drops is full (LeftIsFull), and a full *)
(* bucket reads as no bucket (Budget); so neither #trim nor #sweep changes *)
(* any principal's budget, and what is left of a step is one take.  What a *)
(* refused principal is owed (Owed) no other's take alters.                *)
(*                                                                         *)
(* The tripwire: an armed entry's ring is the end of its principal's calls *)
(* and has lost none that counts (EndsHistory, HoldsCounting), an entry    *)
(* dropped was spent (Forgotten), and the noted time of the next sweep is  *)
(* bounded by what the table holds (RoomOK).                               *)
(***************************************************************************)
EXTENDS PrincipalTables, FiniteSetTheorems, SequenceTheorems, WellFoundedInduction, TLAPS

(* A principal's budget: what the ideal limiter calls its level. *)
Budget == [p \in Principal |-> IF p \in DOMAIN buckets THEN Level(buckets[p]) ELSE Full]

(* The inductive invariant: every bucket is a principal's, holds at most a full
   one's tokens, and was last computed no later than now. *)
TableInv ==
  /\ now \in Nat
  /\ DOMAIN buckets \subseteq Principal
  /\ \A p \in DOMAIN buckets :
       /\ buckets[p].tokens \in Nat /\ buckets[p].tokens <= Full
       /\ buckets[p].at \in Nat /\ buckets[p].at <= now

LEMMA FullIsNat == Full \in Nat
BY RateAssumption DEF Full

(* #level lies between empty and full. *)
LEMMA LevelBounds ==
  ASSUME TableInv, NEW p \in DOMAIN buckets
  PROVE  Level(buckets[p]) \in Nat /\ Level(buckets[p]) <= Full
BY FullIsNat DEF TableInv, Level

(* What #trim and #sweep drop is full. *)
LEMMA LeftIsFull ==
  ASSUME NEW p \in Principal, NEW q \in DOMAIN buckets, q \notin Left(p)
  PROVE  Level(buckets[q]) = Full
<1>1. CASE q \in Trimmed
  BY <1>1 DEF Trimmed, UpTo, IsFull
<1>2. CASE q \notin Trimmed
  BY <1>2 DEF Left, Kept, IsFull
<1> QED BY <1>1, <1>2

LEMMA LeftInTable == \A p : Left(p) \subseteq DOMAIN buckets
BY DEF Left, Kept

(* A full bucket and none read the same: what take finds is the budget. *)
LEMMA FoundIsBudget ==
  ASSUME NEW p \in Principal
  PROVE  Found(p) = Budget[p]
<1>1. CASE p \in Left(p)
  BY <1>1, LeftInTable DEF Found, Budget
<1>2. CASE p \notin Left(p)
  BY <1>2, LeftIsFull DEF Found, Budget
<1> QED BY <1>1, <1>2

(* A principal with no bucket left has its whole budget. *)
LEMMA UntrackedIsFull ==
  ASSUME NEW p \in Principal, ~Tracked(p)
  PROVE  Budget[p] = Full
BY LeftIsFull DEF Tracked, Budget

LEMMA BudgetBounds ==
  ASSUME TableInv, NEW p \in Principal
  PROVE  Budget[p] \in Nat /\ Budget[p] <= Full
BY LevelBounds, FullIsNat DEF Budget

-----------------------------------------------------------------------------
(* What a step does to the table and to the budgets *)

(* Storing a bucket changes only its principal's budget. *)
LEMMA StoreStep ==
  ASSUME TableInv, NEW p \in Principal, NEW tokens \in Nat, tokens <= Full,
         Store(p, tokens), UNCHANGED now
  PROVE  TableInv' /\ Budget' = [Budget EXCEPT ![p] = tokens]
<1> DEFINE new(q) == IF q = p THEN [tokens |-> tokens, at |-> now] ELSE buckets[q]
<1>1. buckets' = [q \in Left(p) \cup {p} |-> new(q)] /\ now' = now /\ now \in Nat
  BY DEF Store, TableInv
<1>2. DOMAIN buckets' = Left(p) \cup {p}
  BY <1>1
<1>3. p \in DOMAIN buckets' /\ buckets'[p] = [tokens |-> tokens, at |-> now]
  BY <1>1, <1>2
<1>4. ASSUME NEW q \in Left(p), q # p
      PROVE  q \in DOMAIN buckets /\ q \in DOMAIN buckets' /\ buckets'[q] = buckets[q]
  BY <1>1, <1>2, <1>4, LeftInTable
<1>5. TableInv'
  <2>1. DOMAIN buckets' \subseteq Principal
    BY <1>2, LeftInTable DEF TableInv
  <2>2. ASSUME NEW q \in DOMAIN buckets'
        PROVE  /\ buckets'[q].tokens \in Nat /\ buckets'[q].tokens <= Full
               /\ buckets'[q].at \in Nat /\ buckets'[q].at <= now
    <3>1. CASE q = p
      BY <1>1, <1>3, <3>1
    <3>2. CASE q # p
      BY <1>2, <1>4, <3>2 DEF TableInv
    <3> QED  BY <3>1, <3>2
  <2> QED  BY <1>1, <2>1, <2>2 DEF TableInv, Full
<1>6. ASSUME NEW q \in Principal
      PROVE  Budget'[q] = IF q = p THEN tokens ELSE Budget[q]
  <2>1. CASE q = p
    <3>1. Level(buckets[p])' = tokens
      BY <1>1, <1>3, FullIsNat DEF Level, Full
    <3> QED  BY <1>3, <2>1, <3>1 DEF Budget
  <2>2. CASE q # p /\ q \in Left(p)
    BY <1>1, <1>4, <2>2 DEF Budget, Level, Full
  <2>3. CASE q # p /\ q \notin Left(p)
    <3>1. Budget'[q] = Full
      BY <1>2, <2>3 DEF Budget, Full
    <3>2. Budget[q] = Full
      BY <2>3, LeftIsFull DEF Budget
    <3> QED  BY <2>3, <3>1, <3>2
  <2> QED  BY <2>1, <2>2, <2>3
<1> QED  BY <1>5, <1>6 DEF Budget

(* Sweeping alone changes no budget. *)
LEMMA SweepStep ==
  ASSUME TableInv, NEW p \in Principal,
         buckets' = [q \in Left(p) |-> buckets[q]], UNCHANGED now
  PROVE  TableInv' /\ Budget' = Budget
<1>1. now' = now /\ DOMAIN buckets' = Left(p)
  OBVIOUS
<1>2. ASSUME NEW q \in Left(p)
      PROVE  q \in DOMAIN buckets /\ buckets'[q] = buckets[q]
  BY LeftInTable
<1>3. TableInv'
  BY <1>1, <1>2 DEF TableInv, Full
<1>4. ASSUME NEW q \in Principal
      PROVE  Budget'[q] = Budget[q]
  <2>1. CASE q \in Left(p)
    BY <1>1, <1>2, <2>1 DEF Budget, Level, Full
  <2>2. CASE q \notin Left(p)
    <3>1. Budget'[q] = Full
      BY <1>1, <2>2 DEF Budget, Full
    <3>2. Budget[q] = Full
      BY <2>2, LeftIsFull DEF Budget
    <3> QED  BY <3>1, <3>2
  <2> QED  BY <2>1, <2>2
<1> QED  BY <1>3, <1>4 DEF Budget

(* A tick adds one to every budget that is not full. *)
LEMMA TickStep ==
  ASSUME TableInv, Tick
  PROVE  /\ TableInv'
         /\ Budget' = [p \in Principal |-> IF Budget[p] = Full THEN Full ELSE Budget[p] + 1]
<1>1. now \in Nat /\ now' = now + 1 /\ buckets' = buckets
  BY DEF Tick, TableInv, tableVars
<1>2. TableInv'
  BY <1>1 DEF TableInv, Full
<1>3. ASSUME NEW p \in Principal
      PROVE  Budget'[p] = IF Budget[p] = Full THEN Full ELSE Budget[p] + 1
  <2>1. CASE p \in DOMAIN buckets
    <3>1. Budget'[p] = Level(buckets[p])' /\ Budget[p] = Level(buckets[p])
      BY <1>1, <2>1 DEF Budget
    <3>2. /\ buckets[p].tokens \in Nat /\ buckets[p].at \in Nat
          /\ buckets[p].at <= now /\ buckets[p].tokens <= Full
      BY <2>1 DEF TableInv
    <3>3. Level(buckets[p])' =
            IF Level(buckets[p]) = Full THEN Full ELSE Level(buckets[p]) + 1
      BY <1>1, <3>2, FullIsNat DEF Level, Full
    <3> QED  BY <3>1, <3>3
  <2>2. CASE p \notin DOMAIN buckets
    BY <1>1, <2>2 DEF Budget, Full
  <2> QED  BY <2>1, <2>2
<1> QED  BY <1>2, <1>3 DEF Budget

-----------------------------------------------------------------------------
(* Each take, with the trim and the sweep it begins with, is one step of the
   ideal limiter for the same principal. *)
LEMMA TakeTokenStep ==
  ASSUME TableInv, NEW p \in Principal, TakeToken(p)
  PROVE  TableInv' /\ Ideal!Serve(p)
<1>1. /\ Found(p) = Budget[p] /\ Budget[p] \in Nat /\ Budget[p] <= Full
      /\ Found(p) >= Token /\ Token \in Nat
  BY FoundIsBudget, BudgetBounds, RateAssumption DEF TakeToken
<1>2. Found(p) - Token \in Nat /\ Found(p) - Token <= Full
  BY <1>1, FullIsNat
<1>3. TableInv' /\ Budget' = [Budget EXCEPT ![p] = Found(p) - Token]
  BY <1>2, StoreStep DEF TakeToken
<1>4. Budget' = [Budget EXCEPT ![p] = @ - Token]
  BY <1>1, <1>3
<1> QED  BY <1>1, <1>3, <1>4 DEF TakeToken, Ideal!Serve, Budget

LEMMA TakeRefusedStep ==
  ASSUME TableInv, NEW p \in Principal, TakeRefused(p)
  PROVE  TableInv' /\ Ideal!Refuse(p)
<1>1. /\ Found(p) = Budget[p] /\ Budget[p] \in Nat /\ Budget[p] <= Full
      /\ Found(p) < Token
  BY FoundIsBudget, BudgetBounds DEF TakeRefused
<1>2. TableInv' /\ Budget' = [Budget EXCEPT ![p] = Found(p)]
  BY <1>1, StoreStep DEF TakeRefused
<1>3. Budget' = Budget
  BY <1>1, <1>2 DEF Budget
<1> QED  BY <1>1, <1>2, <1>3 DEF TakeRefused, Ideal!Refuse, Budget

LEMMA TakeUntrackedStep ==
  ASSUME TableInv, NEW p \in Principal, TakeUntracked(p)
  PROVE  TableInv' /\ Ideal!ServeFree(p)
<1>1. TableInv' /\ Budget' = Budget
  BY SweepStep DEF TakeUntracked
<1>2. Budget[p] = Full
  BY UntrackedIsFull DEF TakeUntracked
<1> QED  BY <1>1, <1>2 DEF TakeUntracked, Ideal!ServeFree, Budget

LEMMA TickIsRefill ==
  ASSUME TableInv, Tick
  PROVE  TableInv' /\ Ideal!Refill
<1>1. /\ TableInv'
      /\ Budget' = [p \in Principal |-> IF Budget[p] = Full THEN Full ELSE Budget[p] + 1]
  BY TickStep
<1> QED  BY <1>1 DEF Tick, Ideal!Refill, Budget

(* Every step keeps the invariant and is a step of the ideal limiter or a stutter. *)
LEMMA StepRefines ==
  ASSUME TableInv, [RateNext]_rateVars
  PROVE  TableInv' /\ [Ideal!IdealNext]_<<Budget, answer>>
<1>1. CASE UNCHANGED rateVars
  BY <1>1 DEF rateVars, tableVars, TableInv, Full, Budget, Level
<1>2. ASSUME NEW p \in Principal, TakeToken(p) \/ TakeRefused(p) \/ TakeUntracked(p)
      PROVE  TableInv' /\ Ideal!IdealNext
  BY <1>2, TakeTokenStep, TakeRefusedStep, TakeUntrackedStep DEF Ideal!IdealNext
<1>3. CASE Tick
  BY <1>3, TickIsRefill DEF Ideal!IdealNext
<1> QED  BY <1>1, <1>2, <1>3 DEF RateNext

LEMMA InitRefines == RateInit => TableInv /\ Ideal!IdealInit
BY FullIsNat DEF RateInit, TableInv, Ideal!IdealInit

(* The bounded table decides as a table without bound (limiter.ts:145): whatever
   it drops, no principal gains a token by it and none is refused for it. *)
THEOREM LimiterDecidesAsIdeal == RateSpec => DecidesAsIdeal
<1>1. RateInit => TableInv /\ Ideal!IdealInit
  BY InitRefines
<1>2. TableInv /\ [RateNext]_rateVars => TableInv' /\ [Ideal!IdealNext]_<<Budget, answer>>
  BY StepRefines
<1>3. [Ideal!IdealNext]_<<Budget, answer>> => [Ideal!IdealNext]_Ideal!idealVars
  BY DEF Ideal!idealVars, Budget
<1>4. TableInv /\ [RateNext]_rateVars => TableInv' /\ [Ideal!IdealNext]_Ideal!idealVars
  BY <1>2, <1>3
<1> QED  BY <1>1, <1>4, PTL DEF RateSpec, DecidesAsIdeal, Ideal!IdealSpec

-----------------------------------------------------------------------------
(* Retry-After.  A refused principal that waits as told is owed its token: what it
   has, and what the wait still adds, is a token's worth.  No request of another
   principal alters the budget, and each tick of the wait adds one to it. *)
Owed(p) ==
  comeBack[p] # None =>
    /\ comeBack[p] \in Int
    /\ Budget[p] >= Token \/ Budget[p] + (comeBack[p] - now) >= Token

RetryInv ==
  /\ TableInv
  /\ DOMAIN comeBack = Principal
  /\ \A p \in Principal : Owed(p)

(* Retry-After is rounded up: waiting that long refills what is missing. *)
LEMMA RetryAfterCovers ==
  ASSUME NEW tokens \in Nat, tokens < Token
  PROVE  /\ RetryAfter(tokens) * Second \in Int
         /\ tokens + RetryAfter(tokens) * Second >= Token
<1> DEFINE lack == Token - tokens
           s == (lack + Second - 1) \div Second
<1>1. lack \in Nat /\ lack >= 1 /\ Second \in Nat /\ Second >= 1
  BY RateAssumption
<1>2. s \in Int /\ s * Second >= lack /\ s >= 1
  <2> HIDE DEF lack
  <2> DEFINE r == (lack + Second - 1) % Second
  <2>1. s \in Int /\ r \in 0 .. Second - 1 /\ lack + Second - 1 = Second * s + r
    BY <1>1
  <2>2. s * Second = Second * s
    BY <1>1, <2>1
  <2> HIDE DEF s, r
  <2>3. Second * s \in Int
    BY <1>1, <2>1
  <2>4. s * Second >= lack
    BY <1>1, <2>1, <2>2, <2>3
  <2>5. s >= 1
    BY <1>1, <2>1, <2>2, <2>4
  <2> QED  BY <2>1, <2>4, <2>5
<1>3. RetryAfter(tokens) = s
  BY <1>2 DEF RetryAfter
<1> HIDE DEF s
<1>4. Token \in Nat /\ s * Second \in Int
  BY <1>1, <1>2, RateAssumption
<1> QED  BY <1>2, <1>3, <1>4 DEF lack

LEMMA FullCoversToken == Token \in Nat /\ Full >= Token
BY RateAssumption DEF Full

(* What a take of p does to the others' claims: nothing. *)
LEMMA OthersStayOwed ==
  ASSUME RetryInv, NEW p \in Principal, NEW q \in Principal, q # p,
         UNCHANGED now, NEW v, comeBack' = [comeBack EXCEPT ![p] = v],
         Budget'[q] = Budget[q]
  PROVE  Owed(q)'
BY DEF RetryInv, Owed

LEMMA RetryTake ==
  ASSUME RetryInv, NEW p \in Principal,
         TakeToken(p) \/ TakeRefused(p) \/ TakeUntracked(p)
  PROVE  RetryInv'
<1>1. TableInv /\ DOMAIN comeBack = Principal /\ DOMAIN Budget = Principal
  BY DEF RetryInv, Budget
<1>2. CASE TakeRefused(p)
  <2>1. TableInv' /\ Budget' = Budget
    BY <1>1, <1>2, TakeRefusedStep DEF Ideal!Refuse, Budget
  <2>2. Found(p) = Budget[p] /\ Budget[p] \in Nat /\ Found(p) < Token
    BY <1>1, <1>2, FoundIsBudget, BudgetBounds DEF TakeRefused
  <2>3. /\ now' = now /\ now \in Nat
        /\ comeBack' = [comeBack EXCEPT ![p] = now + RetryAfter(Found(p)) * Second]
    BY <1>1, <1>2 DEF TakeRefused, TableInv
  <2>4. /\ RetryAfter(Found(p)) * Second \in Int
        /\ Found(p) + RetryAfter(Found(p)) * Second >= Token
    BY <2>2, RetryAfterCovers
  <2>5. Owed(p)'
    <3> DEFINE wait == RetryAfter(Found(p)) * Second
    <3>1. comeBack'[p] = now + wait /\ wait \in Int /\ Budget[p] + wait >= Token
      BY <1>1, <2>2, <2>3, <2>4
    <3> HIDE DEF wait
    <3> QED  BY <2>1, <2>2, <2>3, <3>1, FullCoversToken DEF Owed
  <2>6. ASSUME NEW q \in Principal, q # p PROVE Owed(q)'
    BY <2>1, <2>3, <2>6, OthersStayOwed
  <2> QED  BY <1>1, <2>1, <2>3, <2>5, <2>6 DEF RetryInv
<1>3. CASE TakeToken(p) \/ TakeUntracked(p)
  <2>1. TableInv' /\ \A q \in Principal \ {p} : Budget'[q] = Budget[q]
    <3>1. ASSUME TakeToken(p)
          PROVE  TableInv' /\ Budget' = [Budget EXCEPT ![p] = Budget[p] - Token]
      BY <1>1, <3>1, TakeTokenStep DEF Ideal!Serve, Budget
    <3>2. ASSUME TakeUntracked(p)
          PROVE  TableInv' /\ Budget' = Budget
      BY <1>1, <3>2, TakeUntrackedStep DEF Ideal!ServeFree, Budget
    <3> QED  BY <1>1, <1>3, <3>1, <3>2
  <2>2. now' = now /\ comeBack' = [comeBack EXCEPT ![p] = None]
    BY <1>3 DEF TakeToken, TakeUntracked
  <2>3. Owed(p)'
    BY <1>1, <2>2 DEF Owed
  <2>4. ASSUME NEW q \in Principal, q # p PROVE Owed(q)'
    BY <2>1, <2>2, <2>4, OthersStayOwed
  <2> QED  BY <1>1, <2>1, <2>2, <2>3, <2>4 DEF RetryInv
<1> QED  BY <1>2, <1>3

LEMMA RetryTick ==
  ASSUME RetryInv, Tick
  PROVE  RetryInv'
<1>1. /\ TableInv /\ TableInv' /\ now \in Nat /\ now' = now + 1 /\ comeBack' = comeBack
      /\ Budget' = [p \in Principal |-> IF Budget[p] = Full THEN Full ELSE Budget[p] + 1]
  BY TickStep DEF RetryInv, TableInv, Tick
<1>2. ASSUME NEW p \in Principal PROVE Owed(p)'
  <2>1. Budget[p] \in Nat /\ Owed(p)
    BY <1>1, BudgetBounds DEF RetryInv
  <2>2. Budget'[p] = IF Budget[p] = Full THEN Full ELSE Budget[p] + 1
    BY <1>1
  <2> QED  BY <1>1, <2>1, <2>2, FullIsNat, FullCoversToken DEF Owed
<1> QED  BY <1>1, <1>2 DEF RetryInv

LEMMA RetryStep ==
  ASSUME RetryInv, [RateNext]_rateVars
  PROVE  RetryInv'
<1>1. CASE UNCHANGED rateVars
  BY <1>1 DEF rateVars, tableVars, RetryInv, Owed, TableInv, Full, Budget, Level
<1> QED  BY <1>1, RetryTake, RetryTick DEF RateNext

(* peek, which trims and sweeps nothing, says what take would: a bucket that the
   trim or the sweep drops is full, and has a token. *)
LEMMA PeekIsTake ==
  ASSUME TableInv, NEW p \in Principal
  PROVE  /\ PeekOk(p) <=> ~(Tracked(p) /\ Found(p) < Token)
         /\ ~PeekOk(p) => PeekRetry(p) = RetryAfter(Found(p))
<1>1. PeekOk(p) <=> Budget[p] >= Token
  BY FullCoversToken DEF PeekOk, Budget
<1>2. Found(p) = Budget[p] /\ Budget[p] \in Nat /\ Token \in Nat /\ Full \in Nat
  BY FoundIsBudget, BudgetBounds, FullCoversToken, FullIsNat
<1>3. ~Tracked(p) => Budget[p] >= Token
  BY <1>2, UntrackedIsFull, FullCoversToken
<1>4. ~PeekOk(p) => PeekRetry(p) = RetryAfter(Found(p))
  BY <1>2 DEF PeekOk, PeekRetry, Budget
<1> QED  BY <1>1, <1>2, <1>3, <1>4

(* A refused principal that comes back when Retry-After said is served, whatever
   it and the others asked for meanwhile, and peek says what take would (RL-3,
   RL-4; approval/RULES.md APR-26). *)
THEOREM RetryAfterHolds == RateSpec => []RetryAfterIsTrue
<1>1. RateInit => RetryInv
  BY InitRefines DEF RateInit, RetryInv, Owed
<1>2. RetryInv => RetryAfterIsTrue
  <2> SUFFICES ASSUME RetryInv, NEW p \in Principal
      PROVE  /\ p \in DOMAIN buckets /\ comeBack[p] # None /\ now >= comeBack[p]
                  => Level(buckets[p]) >= Token
             /\ PeekOk(p) <=> ~(Tracked(p) /\ Found(p) < Token)
             /\ ~PeekOk(p) => PeekRetry(p) = RetryAfter(Found(p))
    BY DEF RetryAfterIsTrue
  <2>1. TableInv /\ Owed(p) /\ now \in Nat
    BY DEF RetryInv, TableInv
  <2>2. ASSUME p \in DOMAIN buckets, comeBack[p] # None, now >= comeBack[p]
        PROVE  Level(buckets[p]) >= Token
    <3>1. Budget[p] = Level(buckets[p]) /\ Budget[p] \in Nat
      BY <2>1, <2>2, BudgetBounds DEF Budget
    <3> QED  BY <2>1, <2>2, <3>1, FullCoversToken DEF Owed
  <2> QED  BY <2>1, <2>2, PeekIsTake
<1> QED  BY <1>1, <1>2, RetryStep, PTL DEF RateSpec

-----------------------------------------------------------------------------
(* The rate limit beside the tripwire. *)

(* Every step of the server's two tables is a step of the rate limiter or leaves
   it alone: no observation of the tripwire touches a budget (TW-6). *)
THEOREM TablesRunTheLimiter == TablesSpec => RateSpec
<1>1. TablesInit => RateInit
  BY DEF TablesInit
<1>2. [TablesNext]_tablesVars => [RateNext]_rateVars
  <2> SUFFICES ASSUME [TablesNext]_tablesVars PROVE [RateNext]_rateVars
    OBVIOUS
  <2>1. ASSUME NEW p \in Principal, Take(p) PROVE RateNext
    BY <2>1 DEF Take, Served, RateLimited, RateNext
  <2>2. ASSUME NEW p \in Principal, ToolNamed(p) PROVE UNCHANGED rateVars
    BY <2>2 DEF ToolNamed
  <2>3. ASSUME Tick PROVE RateNext
    BY <2>3 DEF RateNext
  <2>4. ASSUME UNCHANGED tablesVars PROVE UNCHANGED rateVars
    BY <2>4 DEF tablesVars
  <2> QED  BY <2>1, <2>2, <2>3, <2>4 DEF TablesNext
<1> QED  BY <1>1, <1>2, PTL DEF TablesSpec, RateSpec

(* Bounding the table changes no decision of the server's limiter, whatever the
   tripwire counts beside it (RL-2, RL-3, RL-7, RL-8). *)
THEOREM TablesDecideAsIdeal == TablesSpec => DecidesAsIdeal
  BY TablesRunTheLimiter, LimiterDecidesAsIdeal

(* Retry-After is the truth of the server's limiter too, and its peek what its take
   would say. *)
THEOREM TablesTellWhenToRetry == TablesSpec => []RetryAfterIsTrue
  BY TablesRunTheLimiter, RetryAfterHolds

-----------------------------------------------------------------------------
(* The tripwire's invariant. *)

Longer == IF Quiet > Window THEN Quiet ELSE Window
Slack == IF Quiet > Window THEN Quiet - Window ELSE Window - Quiet

(* The calls that count toward the next burst, as Trip!CountsFrom, of the last
   burst's index and the times. *)
Counts(b, ts) ==
  IF b = 0 THEN 1 .. Len(ts)
  ELSE {i \in b + 1 .. Len(ts) : \E g \in b + 1 .. i : ts[g] - ts[g - 1] >= Quiet}

Counting(p) == Counts(burst[p], calls[p])
LastCall(p) == calls[p][Len(calls[p])]

(* The history: times in order, none ahead of the clock. *)
CallsOK(p) ==
  /\ calls[p] \in Seq(Nat)
  /\ burst[p] \in 0 .. Len(calls[p])
  /\ \A i \in 1 .. Len(calls[p]) : calls[p][i] <= now
  /\ \A i, j \in 1 .. Len(calls[p]) : i <= j => calls[p][i] <= calls[p][j]

(* An armed entry's ring is the end of the history, and holds every counting call
   that is in a window with its first, or Threshold of them; a fired entry has
   not been quiet since its burst. *)
EndsHistory(c, ts) ==
  /\ Len(ts) <= Threshold /\ Len(ts) <= Len(c)
  /\ \A i \in 1 .. Len(ts) : ts[i] = c[Len(c) - Len(ts) + i]
HoldsCounting(c, ts, S) ==
  LET first == Len(c) - Len(ts) + 1
  IN /\ first \in S
     /\ Len(ts) < Threshold => \A i \in S : i < first => c[i] + Window < c[first]
EntryOK(p) ==
  /\ Len(calls[p]) >= 1
  /\ entries[p].times \in Seq(Nat) /\ entries[p].times # <<>>
  /\ entries[p].armed \in BOOLEAN
  /\ Trip!Last(entries[p]) = LastCall(p)
  /\ entries[p].armed =>
       EndsHistory(calls[p], entries[p].times) /\ HoldsCounting(calls[p], entries[p].times, Counting(p))
  /\ ~entries[p].armed => burst[p] >= 1 /\ Counting(p) = {}

(* What the table has dropped was spent: the call that comes next starts anew. *)
Forgotten(p) ==
  \/ Len(calls[p]) = 0
  \/ Len(calls[p]) \in Counting(p) /\ now - LastCall(p) > Window
  \/ burst[p] >= 1 /\ Counting(p) = {} /\ now - LastCall(p) >= Quiet

(* The time the last sweep noted is no later than an entry it kept can be spent,
   and ahead of no other by more than the two periods differ. *)
RoomOK(q) ==
  /\ tripSweepAt <= Trip!SpentFrom(q) + Slack
  /\ q \in held => tripSweepAt <= Trip!SpentFrom(q)

TripInv ==
  /\ now \in Nat /\ tripSweepAt \in Int /\ tripSweepAt <= now + Longer
  /\ IsFiniteSet(DOMAIN entries)
  /\ DOMAIN calls = Principal /\ DOMAIN burst = Principal /\ DOMAIN entries \subseteq Principal
  /\ \A p \in Principal :
       /\ CallsOK(p)
       /\ p \in DOMAIN entries => EntryOK(p) /\ RoomOK(p)
       /\ p \notin DOMAIN entries => Forgotten(p)

-----------------------------------------------------------------------------
(* What counts toward a burst, as the history grows *)

LEMMA PeriodFacts ==
  /\ Threshold \in Nat /\ Threshold >= 1 /\ Window \in Nat /\ Quiet \in Nat
  /\ MaxTripPrincipals \in Nat /\ MaxTripPrincipals >= 1
  /\ Slack \in Nat /\ Longer \in Nat
  /\ Window <= Longer /\ Quiet <= Longer
  /\ Longer <= Window + Slack /\ Longer <= Quiet + Slack
<1>1. {Threshold, Window, Quiet, MaxTripPrincipals} \subseteq Nat \ {0}
  BY TripAssumption
<1>2. /\ Threshold \in Nat \ {0} /\ Window \in Nat \ {0} /\ Quiet \in Nat \ {0}
      /\ MaxTripPrincipals \in Nat \ {0}
  BY <1>1
<1> QED  BY <1>2 DEF Slack, Longer

(* Once calls count, all that follow do. *)
LEMMA CountsUpward ==
  ASSUME NEW c \in Seq(Nat), NEW b \in 0 .. Len(c),
         NEW i \in Counts(b, c), NEW j \in i .. Len(c)
  PROVE  j \in Counts(b, c)
<1>1. i \in Nat /\ i >= 1 /\ Len(c) \in Nat /\ j \in Int /\ i <= j /\ j <= Len(c)
  BY DEF Counts
<1>2. CASE b = 0
  BY <1>1, <1>2 DEF Counts
<1>3. CASE b # 0
  <2>1. PICK g \in b + 1 .. i : c[g] - c[g - 1] >= Quiet
    BY <1>3 DEF Counts
  <2>2. g \in b + 1 .. j /\ j \in b + 1 .. Len(c)
    BY <1>1, <2>1
  <2> QED  BY <1>3, <2>1, <2>2 DEF Counts
<1> QED  BY <1>2, <1>3

(* A new call alters the standing of none before it. *)
LEMMA CountsOfBefore ==
  ASSUME NEW c \in Seq(Nat), NEW b \in 0 .. Len(c), NEW t \in Nat, NEW i \in 1 .. Len(c)
  PROVE  i \in Counts(b, Append(c, t)) <=> i \in Counts(b, c)
<1> DEFINE d == Append(c, t)
<1>1. Len(c) \in Nat /\ Len(d) = Len(c) + 1 /\ \A k \in 1 .. Len(c) : d[k] = c[k]
  BY AppendProperties
<1>2. CASE b = 0
  BY <1>1, <1>2 DEF Counts
<1>3. CASE b # 0
  <2>1. ASSUME NEW g \in b + 1 .. i PROVE d[g] = c[g] /\ d[g - 1] = c[g - 1]
    <3>1. g \in 1 .. Len(c) /\ g - 1 \in 1 .. Len(c)
      BY <1>1, <1>3, <2>1
    <3> QED  BY <1>1, <3>1
  <2> HIDE DEF d
  <2>2. i \in b + 1 .. Len(d) <=> i \in b + 1 .. Len(c)
    BY <1>1
  <2>3. i \in Counts(b, d) <=> i \in Counts(b, c)
    BY <1>3, <2>1, <2>2 DEF Counts
  <2> QED  BY <2>3 DEF d
<1> QED  BY <1>2, <1>3

(* It counts itself if the calls before it do, or it follows a quiet gap. *)
LEMMA CountsOfNew ==
  ASSUME NEW c \in Seq(Nat), NEW b \in 0 .. Len(c), NEW t \in Nat
  PROVE  Len(c) + 1 \in Counts(b, Append(c, t))
           <=> b = 0 \/ Len(c) \in Counts(b, c) \/ t - c[Len(c)] >= Quiet
<1> DEFINE d == Append(c, t)
           n == Len(c)
<1>1. /\ n \in Nat /\ Len(d) = n + 1 /\ d[n + 1] = t
      /\ \A k \in 1 .. n : d[k] = c[k]
  BY AppendProperties
<1>2. CASE b = 0
  BY <1>1, <1>2 DEF Counts
<1>3. CASE b # 0
  <2>1. b \in Nat /\ b >= 1 /\ n >= b /\ n \in 1 .. n
    BY <1>1, <1>3
  <2>2. d[n] = c[n] /\ n + 1 \in b + 1 .. Len(d) /\ n + 1 \in b + 1 .. n + 1
        /\ (n + 1) - 1 = n
    BY <1>1, <2>1
  <2>3. ASSUME n \in Counts(b, c) PROVE n + 1 \in Counts(b, d)
    <3>1. n \in Counts(b, d)
      BY <2>1, <2>3, CountsOfBefore
    <3>2. PICK g \in b + 1 .. n : d[g] - d[g - 1] >= Quiet
      BY <1>3, <3>1 DEF Counts
    <3>3. g \in b + 1 .. n + 1
      BY <1>1, <3>2
    <3> QED  BY <1>3, <2>2, <3>2, <3>3 DEF Counts
  <2>4. ASSUME t - c[n] >= Quiet PROVE n + 1 \in Counts(b, d)
    <3>1. d[n + 1] - d[(n + 1) - 1] >= Quiet
      BY <1>1, <2>2, <2>4
    <3> HIDE DEF d, n
    <3> QED  BY <1>3, <2>2, <3>1 DEF Counts
  <2>5. ASSUME n + 1 \in Counts(b, d) PROVE n \in Counts(b, c) \/ t - c[n] >= Quiet
    <3>1. PICK g \in b + 1 .. n + 1 : d[g] - d[g - 1] >= Quiet
      BY <1>3, <2>5 DEF Counts
    <3>2. CASE g = n + 1
      BY <1>1, <2>2, <3>1, <3>2
    <3>3. CASE g # n + 1
      <4>1. g \in b + 1 .. n /\ n \in b + 1 .. Len(d)
        BY <1>1, <2>1, <3>1, <3>3
      <4>2. n \in Counts(b, d)
        BY <1>3, <3>1, <4>1 DEF Counts
      <4> QED  BY <2>1, <4>2, CountsOfBefore
    <3> QED  BY <3>2, <3>3
  <2> QED  BY <1>3, <2>3, <2>4, <2>5
<1> QED  BY <1>2, <1>3

LEMMA CountsRange ==
  ASSUME NEW c \in Seq(Nat), NEW b \in 0 .. Len(c)
  PROVE  Counts(b, c) \subseteq 1 .. Len(c)
<1>1. Len(c) \in Nat
  OBVIOUS
<1> QED  BY <1>1 DEF Counts

(* The call that fires the tripwire leaves none counting. *)
LEMMA NoneCountAfterBurst ==
  ASSUME NEW c \in Seq(Nat)
  PROVE  Len(c) >= 1 => Counts(Len(c), c) = {}
<1>1. Len(c) \in Nat
  OBVIOUS
<1> QED  BY <1>1 DEF Counts

-----------------------------------------------------------------------------
(* The ring *)

Cut(ts) == IF Len(ts) > Threshold THEN Tail(ts) ELSE ts

(* An armed entry's ring with one more call, cut to Threshold. *)
LEMMA RingGrows ==
  ASSUME NEW c \in Seq(Nat), NEW b \in 0 .. Len(c), NEW t \in Nat,
         NEW r \in Seq(Nat), r # <<>>,
         EndsHistory(c, r), HoldsCounting(c, r, Counts(b, c)),
         NEW ring, ring = Cut(Append(r, t))
  PROVE  /\ EndsHistory(Append(c, t), ring)
         /\ HoldsCounting(Append(c, t), ring, Counts(b, Append(c, t)))
<1> DEFINE d == Append(c, t)
           a == Append(r, t)
           n == Len(c)
           m == Len(r)
           f == n - m + 1
<1>1. /\ n \in Nat /\ d \in Seq(Nat) /\ Len(d) = n + 1 /\ d[n + 1] = t
      /\ \A k \in 1 .. n : d[k] = c[k]
  BY AppendProperties
<1>2. /\ m \in Nat /\ m >= 1 /\ a \in Seq(Nat) /\ a # <<>> /\ Len(a) = m + 1 /\ a[m + 1] = t
      /\ \A k \in 1 .. m : a[k] = r[k]
  <2>1. m \in Nat /\ m # 0
    BY EmptySeq
  <2>2. m >= 1
    BY <2>1
  <2>3. /\ a \in Seq(Nat) /\ Len(a) = Len(r) + 1 /\ a[Len(r) + 1] = t
        /\ \A k \in 1 .. Len(r) : a[k] = r[k]
    BY AppendProperties
  <2>4. a # <<>>
    BY <2>1, <2>3, EmptySeq
  <2> QED  BY <2>1, <2>2, <2>3, <2>4
<1>3. m <= Threshold /\ m <= n /\ \A i \in 1 .. m : r[i] = c[n - m + i]
  BY DEF EndsHistory
<1>4. f \in Counts(b, c) /\ f \in 1 .. n
  BY <1>1, <1>2, <1>3 DEF HoldsCounting
<1>5. \A i \in 1 .. m + 1 : a[i] = d[n - m + i]
  <2> SUFFICES ASSUME NEW i \in 1 .. m + 1 PROVE a[i] = d[n - m + i]
    OBVIOUS
  <2>1. CASE i = m + 1
    BY <1>1, <1>2, <2>1
  <2>2. CASE i # m + 1
    <3>1. i \in 1 .. m /\ n - m + i \in 1 .. n
      <4> HIDE DEF d, a, n, m
      <4> QED  BY <1>1, <1>2, <1>3, <2>2
    <3> QED  BY <1>1, <1>2, <1>3, <3>1
  <2> QED  BY <2>1, <2>2
<1>6. b \in 0 .. Len(d) /\ f \in Counts(b, d) /\ f \in Int
  BY <1>1, <1>4, CountsOfBefore
<1>7. CASE m + 1 > Threshold
  <2>1. ring = Tail(a) /\ Len(ring) = m /\ m = Threshold /\ \A i \in 1 .. m : ring[i] = a[i + 1]
    <3>1. m = Threshold
      <4> HIDE DEF d, a, n, m
      <4> QED  BY <1>2, <1>3, <1>7, PeriodFacts
    <3>2. ring = Tail(a)
      BY <1>2, <1>7 DEF Cut
    <3>3. Len(Tail(a)) = (m + 1) - 1 /\ \A i \in 1 .. Len(Tail(a)) : Tail(a)[i] = a[i + 1]
      BY <1>2, HeadTailProperties
    <3>4. (m + 1) - 1 = m
      BY <1>2
    <3> QED  BY <3>1, <3>2, <3>3, <3>4
  <2>2. \A i \in 1 .. m : ring[i] = d[(n + 1) - m + i]
    <3> SUFFICES ASSUME NEW i \in 1 .. m PROVE ring[i] = d[(n + 1) - m + i]
      OBVIOUS
    <3>1. i + 1 \in 1 .. m + 1 /\ n - m + (i + 1) = (n + 1) - m + i
      BY <1>1, <1>2
    <3> HIDE DEF d, a, n, m
    <3> QED  BY <1>5, <2>1, <3>1
  <2>3. (n + 1) - m + 1 \in f .. Len(d)
    BY <1>1, <1>2, <1>3
  <2>4. (n + 1) - m + 1 \in Counts(b, d)
    BY <1>1, <1>6, <2>3, CountsUpward
  <2>5. Len(d) - Len(ring) = (n + 1) - m /\ ~(Len(ring) < Threshold) /\ Len(ring) <= Len(d)
        /\ Len(ring) <= Threshold
    <3>1. Len(d) = n + 1 /\ Len(ring) = m /\ n \in Nat /\ m \in Nat /\ m <= n /\ m = Threshold
      BY <1>1, <1>2, <1>3, <2>1
    <3> HIDE DEF d, a, n, m, f
    <3> QED  BY <3>1, PeriodFacts
  <2> HIDE DEF d, a, n, m, f
  <2>6. EndsHistory(d, ring) /\ HoldsCounting(d, ring, Counts(b, d))
    BY <2>1, <2>2, <2>4, <2>5 DEF EndsHistory, HoldsCounting
  <2> QED  BY <2>6 DEF d
<1>8. CASE ~(m + 1 > Threshold)
  <2>1. ring = a /\ Len(ring) = m + 1 /\ m + 1 <= Threshold
    BY <1>2, <1>8, PeriodFacts DEF Cut
  <2>2. (n + 1) - (m + 1) = n - m /\ (n + 1) - (m + 1) + 1 = f
    BY <1>1, <1>2
  <2>3. EndsHistory(d, ring)
    <3>1. Len(d) - Len(ring) = n - m /\ Len(ring) <= Len(d) /\ Len(ring) <= Threshold
      <4>1. /\ Len(d) = n + 1 /\ Len(ring) = m + 1 /\ n \in Nat /\ m \in Nat /\ m <= n
            /\ m + 1 <= Threshold
        BY <1>1, <1>2, <1>3, <2>1
      <4> HIDE DEF d, a, n, m, f
      <4> QED  BY <4>1, PeriodFacts
    <3> HIDE DEF d, a, n, m, f
    <3> QED  BY <1>5, <2>1, <3>1 DEF EndsHistory
  <2>4. ASSUME m + 1 < Threshold, NEW i \in Counts(b, d), i < f
        PROVE  d[i] + Window < d[f]
    <3>1. i \in 1 .. Len(d)
      BY <1>1, <1>6, CountsRange
    <3>2. i \in 1 .. n
      BY <1>1, <1>4, <2>4, <3>1
    <3>3. i \in Counts(b, c)
      BY <2>4, <3>2, CountsOfBefore
    <3>4. m < Threshold
      BY <1>2, <2>4, PeriodFacts
    <3>5. c[i] + Window < c[f]
      BY <2>4, <3>3, <3>4 DEF HoldsCounting
    <3> QED  BY <1>1, <1>4, <3>2, <3>5
  <2> HIDE DEF d, a, n, m, f
  <2>5. HoldsCounting(d, ring, Counts(b, d))
    BY <1>1, <1>6, <2>1, <2>2, <2>4 DEF HoldsCounting
  <2> QED  BY <2>3, <2>5 DEF d
<1> QED  BY <1>7, <1>8

(* What Forgotten says of a principal, of its history. *)
SpentHistory(b, c, t) ==
  \/ Len(c) = 0
  \/ Len(c) \in Counts(b, c) /\ t - c[Len(c)] > Window
  \/ b >= 1 /\ Counts(b, c) = {} /\ t - c[Len(c)] >= Quiet

(* A ring begun after a spent entry has lost no counting call of the window. *)
LEMMA RingBegins ==
  ASSUME NEW c \in Seq(Nat), NEW b \in 0 .. Len(c), NEW t \in Nat,
         \A i, j \in 1 .. Len(c) : i <= j => c[i] <= c[j],
         SpentHistory(b, c, t)
  PROVE  /\ EndsHistory(Append(c, t), <<t>>)
         /\ HoldsCounting(Append(c, t), <<t>>, Counts(b, Append(c, t)))
<1> DEFINE d == Append(c, t)
           n == Len(c)
           r == <<t>>
<1>1. /\ n \in Nat /\ d \in Seq(Nat) /\ Len(d) = n + 1 /\ d[n + 1] = t
      /\ \A k \in 1 .. n : d[k] = c[k]
  BY AppendProperties
<1>2. Len(r) = 1 /\ r[1] = t
  OBVIOUS
<1>3. EndsHistory(d, r)
  <2>1. ASSUME NEW i \in 1 .. Len(r) PROVE r[i] = d[Len(d) - Len(r) + i]
    <3>1. i = 1 /\ Len(d) - Len(r) + i = n + 1
      BY <1>1, <1>2
    <3> QED  BY <1>1, <1>2, <3>1
  <2> HIDE DEF d, n, r
  <2> QED  BY <1>1, <1>2, <2>1, PeriodFacts DEF EndsHistory
<1>4. n + 1 \in Counts(b, d)
  <2>1. n = 0 => b = 0
    BY <1>1
  <2> QED  BY <2>1, CountsOfNew DEF SpentHistory
<1>5. ASSUME NEW i \in Counts(b, d), i < n + 1 PROVE d[i] + Window < d[n + 1]
  <2>1. i \in 1 .. n
    <3>1. b \in 0 .. Len(d)
      BY <1>1
    <3>2. i \in 1 .. n + 1
      BY <1>1, <1>5, <3>1, CountsRange
    <3> QED  BY <1>1, <1>5, <3>2
  <2>2. i \in Counts(b, c)
    BY <1>5, <2>1, CountsOfBefore
  <2>3. n \in 1 .. n /\ n # 0
    BY <1>1, <2>1
  <2>4. t - c[n] > Window /\ c[i] <= c[n] /\ c[i] \in Nat /\ c[n] \in Nat
    BY <1>1, <2>1, <2>2, <2>3 DEF SpentHistory
  <2> QED  BY <1>1, <2>1, <2>4, PeriodFacts
<1>6. HoldsCounting(d, r, Counts(b, d))
  <2>1. Len(d) - Len(r) + 1 = n + 1
    BY <1>1, <1>2
  <2> HIDE DEF d, n, r
  <2> QED  BY <1>4, <1>5, <2>1 DEF HoldsCounting
<1> QED  BY <1>3, <1>6

(* A fired entry that has not been quiet counts nothing. *)
LEMMA FiredStays ==
  ASSUME NEW c \in Seq(Nat), NEW b \in 0 .. Len(c), NEW t \in Nat,
         b >= 1, Counts(b, c) = {}, ~(t - c[Len(c)] >= Quiet)
  PROVE  Counts(b, Append(c, t)) = {}
<1>1. Len(c) \in Nat /\ Append(c, t) \in Seq(Nat) /\ Len(Append(c, t)) = Len(c) + 1
  BY AppendProperties
<1>2. b \in 0 .. Len(Append(c, t))
  BY <1>1
<1>3. ASSUME NEW i \in Counts(b, Append(c, t)) PROVE FALSE
  <2>1. i \in 1 .. Len(c) + 1
    BY <1>1, <1>2, CountsRange
  <2>2. CASE i = Len(c) + 1
    BY <1>3, <2>2, CountsOfNew
  <2>3. CASE i # Len(c) + 1
    <3>1. i \in 1 .. Len(c)
      BY <1>1, <2>1, <2>3
    <3> QED  BY <1>3, <3>1, CountsOfBefore
  <2> QED  BY <2>2, <2>3
<1> QED  BY <1>3

(* The ring is full and fits in the window exactly when Threshold of the counting
   calls lie in the window that ends with the last. *)
LEMMA RingTellsBurst ==
  ASSUME NEW d \in Seq(Nat), NEW b \in 0 .. Len(d), Len(d) >= 1,
         \A i, j \in 1 .. Len(d) : i <= j => d[i] <= d[j],
         NEW r \in Seq(Nat), r # <<>>,
         EndsHistory(d, r), HoldsCounting(d, r, Counts(b, d))
  PROVE  (Len(r) = Threshold /\ d[Len(d)] - Head(r) <= Window)
           <=> Cardinality({i \in Counts(b, d) : d[i] >= d[Len(d)] - Window}) >= Threshold
<1> DEFINE m == Len(d)
           k == Len(r)
           f == m - k + 1
           recent == {i \in Counts(b, d) : d[i] >= d[m] - Window}
<1>1. /\ m \in Nat /\ m >= 1 /\ k \in Nat /\ k >= 1 /\ k <= Threshold /\ k <= m
      /\ f \in 1 .. m /\ m \in 1 .. m
  BY EmptySeq DEF EndsHistory
<1>2. Head(r) = d[f] /\ d[f] \in Nat /\ d[m] \in Nat
  <2>1. 1 \in 1 .. k /\ Head(r) = r[1]
    BY <1>1
  <2> QED  BY <1>1, <2>1 DEF EndsHistory
<1>3. f \in Counts(b, d) /\ Counts(b, d) \subseteq 1 .. m
  BY CountsRange DEF HoldsCounting
<1>4. \A i \in f .. m : i \in Counts(b, d)
  BY <1>1, <1>3, CountsUpward
<1>5. IsFiniteSet(recent)
  <2>1. recent \subseteq 1 .. m
    BY <1>3
  <2>2. IsFiniteSet(1 .. m)
    BY <1>1, FS_Interval
  <2> QED  BY <2>1, <2>2, FS_Subset
<1>6. \A i \in 1 .. m : d[i] \in Nat
  OBVIOUS
<1>7. ASSUME k = Threshold, d[m] - d[f] <= Window
      PROVE  Cardinality(recent) >= Threshold
  <2>1. f .. m \subseteq recent
    <3> SUFFICES ASSUME NEW i \in f .. m PROVE i \in recent
      OBVIOUS
    <3>1. i \in Counts(b, d) /\ i \in 1 .. m /\ f <= i
      BY <1>1, <1>4
    <3>2. d[f] <= d[i] /\ d[i] \in Nat
      BY <1>1, <1>6, <3>1
    <3>3. d[i] >= d[m] - Window
      <4> HIDE DEF recent, m, k, f
      <4> QED  BY <1>2, <1>7, <3>2, PeriodFacts
    <3> QED  BY <3>1, <3>3
  <2>2. IsFiniteSet(f .. m) /\ Cardinality(f .. m) = k
    <3>1. f \in Int /\ m \in Int /\ f <= m /\ m - f + 1 = k
      BY <1>1
    <3> HIDE DEF recent, m, k, f
    <3> QED  BY <3>1, FS_Interval
  <2>3. Cardinality(f .. m) <= Cardinality(recent)
    BY <1>5, <2>1, FS_Subset
  <2>4. Cardinality(recent) \in Nat
    BY <1>5, FS_CardinalityType
  <2> HIDE DEF recent, m, k, f
  <2> QED  BY <1>1, <1>7, <2>2, <2>3, <2>4
<1>8. ASSUME NEW e \in Int, e >= f, e <= m + 1, recent \subseteq e .. m, m - e + 1 < Threshold
      PROVE  ~(Cardinality(recent) >= Threshold)
  <2>1. IsFiniteSet(e .. m) /\ Cardinality(e .. m) = m - e + 1
    <3>1. CASE e = m + 1
      BY <1>1, <3>1, FS_Interval
    <3>2. CASE e # m + 1
      BY <1>1, <1>8, <3>2, FS_Interval
    <3> QED  BY <3>1, <3>2
  <2>2. Cardinality(recent) <= m - e + 1 /\ Cardinality(recent) \in Nat
    BY <1>5, <1>8, <2>1, FS_Subset, FS_CardinalityType
  <2> HIDE DEF recent, m, k, f
  <2> QED  BY <1>1, <1>8, <2>2, PeriodFacts
<1>9. ASSUME k = Threshold, ~(d[m] - d[f] <= Window)
      PROVE  ~(Cardinality(recent) >= Threshold)
  <2>1. recent \subseteq f + 1 .. m
    <3> SUFFICES ASSUME NEW i \in recent PROVE i \in f + 1 .. m
      OBVIOUS
    <3>1. i \in 1 .. m /\ d[i] >= d[m] - Window /\ d[i] \in Nat
      BY <1>3, <1>6
    <3>2. ~(i <= f)
      <4>1. i <= f => d[i] <= d[f]
        BY <1>1, <3>1
      <4> HIDE DEF recent, m, k, f
      <4> QED  BY <1>2, <1>9, <3>1, <4>1, PeriodFacts
    <3> QED  BY <1>1, <3>1, <3>2
  <2>2. f + 1 \in Int /\ f + 1 >= f /\ f + 1 <= m + 1 /\ m - (f + 1) + 1 < Threshold
    BY <1>1, <1>9, PeriodFacts
  <2> HIDE DEF recent, m, k, f
  <2> QED  BY <1>8, <2>1, <2>2
<1>10. ASSUME k # Threshold
       PROVE  ~(Cardinality(recent) >= Threshold)
  <2>1. k < Threshold
    BY <1>1, <1>10, PeriodFacts
  <2>2. recent \subseteq f .. m
    <3> SUFFICES ASSUME NEW i \in recent PROVE i \in f .. m
      OBVIOUS
    <3>1. i \in 1 .. m /\ d[i] >= d[m] - Window /\ d[i] \in Nat /\ i \in Counts(b, d)
      BY <1>3, <1>6
    <3>2. i < f => d[i] + Window < d[f]
      BY <2>1, <3>1 DEF HoldsCounting
    <3>3. d[f] <= d[m]
      <4>1. f <= m
        BY <1>1
      <4> HIDE DEF f
      <4> QED  BY <1>1, <4>1
    <3>4. ~(i < f)
      <4> DEFINE at == d[i]
                 first == d[f]
                 last == d[m]
      <4>1. at \in Nat /\ first \in Nat /\ last \in Nat /\ Window \in Nat
        BY <1>2, <3>1, PeriodFacts
      <4>2. at >= last - Window /\ first <= last /\ (i < f => at + Window < first)
        BY <3>1, <3>2, <3>3
      <4> HIDE DEF recent, m, k, f, at, first, last
      <4> QED  BY <4>1, <4>2
    <3> QED  BY <1>1, <3>1, <3>4
  <2>3. f \in Int /\ f >= f /\ f <= m + 1 /\ m - f + 1 < Threshold
    BY <1>1, <2>1, PeriodFacts
  <2> HIDE DEF recent, m, k, f
  <2> QED  BY <1>8, <2>2, <2>3
<1> QED  BY <1>2, <1>7, <1>9, <1>10

-----------------------------------------------------------------------------
(* What the trim and the sweep drop, and the time a sweep notes *)

LEMMA SameCardinality == \A S : Trip!Cardinality(S) = Cardinality(S)
BY DEF Trip!Cardinality, Cardinality, Trip!IsFiniteSet, IsFiniteSet

LEMMA TripLeft == \A p : Trip!Left(p) \subseteq DOMAIN entries
BY DEF Trip!Left, Trip!Kept

LEMMA DroppedIsSpent ==
  ASSUME NEW p, NEW q \in DOMAIN entries, q \notin Trip!Left(p)
  PROVE  Trip!Spent(entries[q])
<1>1. CASE q \in Trip!Trimmed
  BY <1>1 DEF Trip!Trimmed, Trip!UpTo
<1>2. CASE q \notin Trip!Trimmed
  BY <1>2 DEF Trip!Left, Trip!Kept
<1> QED  BY <1>1, <1>2

(* A sweep always leaves one: what the trim kept, it kept for an entry that is
   not spent. *)
LEMMA SweepLeavesOne ==
  ASSUME NEW p, Trip!Sweeps(p)
  PROVE  Trip!Left(p) # {}
<1>1. Trip!Kept # {}
  <2>1. Cardinality(Trip!Kept) >= MaxTripPrincipals
    BY SameCardinality DEF Trip!Sweeps
  <2> QED  BY <2>1, FS_EmptySet, PeriodFacts
<1>2. PICK q \in Trip!Kept : TRUE
  BY <1>1
<1>3. PICK r \in DOMAIN entries : ~Trip!Spent(entries[r])
  BY <1>2 DEF Trip!Kept, Trip!Trimmed, Trip!UpTo
<1>4. r \notin Trip!Trimmed
  BY <1>3 DEF Trip!Trimmed, Trip!UpTo
<1> QED  BY <1>3, <1>4 DEF Trip!Left, Trip!Kept

LEMMA LeftIsFinite ==
  ASSUME TripInv, NEW p
  PROVE  IsFiniteSet(Trip!Left(p))
BY TripLeft, FS_Subset DEF TripInv

LEMMA EntryTimes ==
  ASSUME TripInv, NEW q \in DOMAIN entries
  PROVE  /\ q \in Principal /\ CallsOK(q) /\ EntryOK(q) /\ RoomOK(q)
         /\ Trip!Last(entries[q]) = LastCall(q)
         /\ LastCall(q) \in Nat /\ LastCall(q) <= now
         /\ Len(calls[q]) \in 1 .. Len(calls[q])
<1>1. q \in Principal /\ CallsOK(q) /\ EntryOK(q) /\ RoomOK(q)
  BY DEF TripInv
<1>2. Len(calls[q]) \in Nat /\ Len(calls[q]) >= 1
  BY <1>1 DEF CallsOK, EntryOK
<1>3. Len(calls[q]) \in 1 .. Len(calls[q])
  BY <1>2
<1>4. LastCall(q) \in Nat /\ LastCall(q) <= now
  BY <1>1, <1>3 DEF CallsOK, LastCall
<1> QED  BY <1>1, <1>3, <1>4 DEF EntryOK

(* The time an entry is spent from. *)
LEMMA SpentTimes ==
  ASSUME TripInv, NEW q \in DOMAIN entries
  PROVE  /\ Trip!SpentFrom(q) \in Nat /\ Trip!SpentFrom(q) <= now + Longer
         /\ Trip!Spent(entries[q]) => now >= Trip!SpentFrom(q)
         /\ ~Trip!Spent(entries[q]) => now <= Trip!SpentFrom(q)
<1>1. /\ Trip!Last(entries[q]) \in Nat /\ Trip!Last(entries[q]) <= now /\ now \in Nat
  BY EntryTimes DEF TripInv
<1> QED  BY <1>1, PeriodFacts DEF Trip!SpentFrom, Trip!Spent

(* The sweep notes the least of those times. *)
LEMMA SweepNotesLeast ==
  ASSUME TripInv, NEW p, Trip!Sweeps(p)
  PROVE  /\ Trip!NextSweep(p) \in Nat /\ Trip!NextSweep(p) <= now + Longer
         /\ \A q \in Trip!Left(p) : Trip!NextSweep(p) <= Trip!SpentFrom(q)
<1> DEFINE T == {Trip!SpentFrom(q) : q \in Trip!Left(p)}
<1>1. T \subseteq Nat /\ T # {}
  BY TripLeft, SpentTimes, SweepLeavesOne
<1>2. PICK t \in T : \A x \in T : ~(<<x, t>> \in OpToRel(<, Nat))
  BY <1>1, NatLessThanWellFounded, WFMin
<1>3. \A x \in T : t <= x
  <2> SUFFICES ASSUME NEW x \in T PROVE t <= x
    OBVIOUS
  <2>1. x \in Nat /\ t \in Nat
    BY <1>1
  <2>2. ~(x < t)
    BY <1>2, <2>1 DEF OpToRel
  <2> QED  BY <2>1, <2>2
<1>4. t \in T /\ \A q \in Trip!Left(p) : t <= Trip!SpentFrom(q)
  BY <1>3
<1>5. Trip!NextSweep(p) =
        CHOOSE u \in T : \A q \in Trip!Left(p) : u <= Trip!SpentFrom(q)
  BY DEF Trip!NextSweep
<1>6. Trip!NextSweep(p) \in T /\ \A q \in Trip!Left(p) : Trip!NextSweep(p) <= Trip!SpentFrom(q)
  BY <1>4, <1>5
<1>7. PICK q \in Trip!Left(p) : Trip!NextSweep(p) = Trip!SpentFrom(q)
  BY <1>6
<1> QED  BY <1>6, <1>7, TripLeft, SpentTimes

(* What a call makes of the noted time, for the entries it leaves. *)
LEMMA NotedTime ==
  ASSUME TripInv, NEW p
  PROVE  /\ Trip!NextSweep(p) \in Int /\ Trip!NextSweep(p) <= now + Longer
         /\ \A q \in Trip!Left(p) :
              /\ Trip!NextSweep(p) <= Trip!SpentFrom(q) + Slack
              /\ q \in (IF Trip!Sweeps(p) THEN Trip!Left(p) ELSE held)
                   => Trip!NextSweep(p) <= Trip!SpentFrom(q)
<1>1. CASE Trip!Sweeps(p)
  <2>1. /\ Trip!NextSweep(p) \in Nat /\ Trip!NextSweep(p) <= now + Longer
        /\ \A q \in Trip!Left(p) :
             Trip!NextSweep(p) <= Trip!SpentFrom(q) /\ Trip!SpentFrom(q) \in Nat
    BY <1>1, SweepNotesLeast, TripLeft, SpentTimes
  <2> QED  BY <2>1, PeriodFacts
<1>2. CASE ~Trip!Sweeps(p)
  <2>1. Trip!NextSweep(p) = tripSweepAt
    BY <1>2 DEF Trip!NextSweep
  <2>2. \A q \in Trip!Left(p) : RoomOK(q)
    BY TripLeft, EntryTimes
  <2> QED  BY <1>2, <2>1, <2>2 DEF TripInv, RoomOK
<1> QED  BY <1>1, <1>2

(* A spent entry's principal may be forgotten. *)
LEMMA LeftOutIsForgotten ==
  ASSUME TripInv, NEW p \in Principal, NEW q, p \notin Trip!Left(q)
  PROVE  Forgotten(p)
<1>1. CASE p \notin DOMAIN entries
  BY <1>1 DEF TripInv
<1>2. CASE p \in DOMAIN entries
  <2>1. Trip!Spent(entries[p]) /\ EntryOK(p) /\ CallsOK(p)
        /\ Trip!Last(entries[p]) = LastCall(p) /\ Len(calls[p]) \in 1 .. Len(calls[p])
    BY <1>2, DroppedIsSpent, EntryTimes
  <2>2. CASE entries[p].armed
    <3> DEFINE n == Len(calls[p])
               m == Len(entries[p].times)
               f == n - m + 1
    <3>1. EndsHistory(calls[p], entries[p].times) /\ f \in Counting(p)
          /\ entries[p].times \in Seq(Nat) /\ entries[p].times # <<>>
      BY <2>1, <2>2 DEF EntryOK, HoldsCounting
    <3>2. /\ calls[p] \in Seq(Nat) /\ burst[p] \in 0 .. Len(calls[p])
          /\ Len(entries[p].times) \in Nat /\ Len(entries[p].times) >= 1
          /\ Len(entries[p].times) <= Len(calls[p])
      BY <2>1, <3>1, EmptySeq DEF CallsOK, EndsHistory
    <3>3. n \in f .. n
      <4>1. n \in Nat /\ m \in Nat /\ m >= 1
        BY <3>2
      <4> HIDE DEF n, m
      <4> QED  BY <4>1
    <3>4. Len(calls[p]) \in Counting(p)
      BY <3>1, <3>2, <3>3, CountsUpward DEF Counting
    <3> QED  BY <2>1, <2>2, <3>4 DEF Trip!Spent, Forgotten
  <2>3. CASE ~entries[p].armed
    BY <2>1, <2>3 DEF Trip!Spent, EntryOK, Forgotten
  <2> QED  BY <2>2, <2>3
<1> QED  BY <1>1, <1>2

-----------------------------------------------------------------------------
(* What a call leaves of the others *)

LEMMA OthersKept ==
  ASSUME TripInv, NEW p, NEW q \in Principal,
         UNCHANGED now, calls'[q] = calls[q], burst'[q] = burst[q],
         tripSweepAt' = Trip!NextSweep(p),
         held' \subseteq (IF Trip!Sweeps(p) THEN Trip!Left(p) ELSE held),
         q \in DOMAIN entries' <=> q \in Trip!Left(p),
         q \in Trip!Left(p) => entries'[q] = entries[q]
  PROVE  /\ CallsOK(q)'
         /\ q \in DOMAIN entries' => EntryOK(q)' /\ RoomOK(q)'
         /\ q \notin DOMAIN entries' => Forgotten(q)'
<1>1. CallsOK(q)'
  <2>1. CallsOK(q)
    BY DEF TripInv
  <2> QED  BY <2>1 DEF CallsOK
<1>2. ASSUME q \in Trip!Left(p) PROVE EntryOK(q)' /\ RoomOK(q)'
  <2>1. q \in DOMAIN entries /\ EntryOK(q) /\ entries'[q] = entries[q]
    BY <1>2, TripLeft, EntryTimes
  <2>2. EntryOK(q)'
    BY <2>1 DEF EntryOK, LastCall, Counting, Trip!Last
  <2>3. Trip!SpentFrom(q)' = Trip!SpentFrom(q)
    BY <2>1 DEF Trip!SpentFrom, Trip!Last
  <2>4. /\ tripSweepAt' <= Trip!SpentFrom(q) + Slack
        /\ q \in held' => tripSweepAt' <= Trip!SpentFrom(q)
    BY <1>2, NotedTime
  <2> QED  BY <2>2, <2>3, <2>4 DEF RoomOK, Slack
<1>3. ASSUME q \notin Trip!Left(p) PROVE Forgotten(q)'
  <2>1. Forgotten(q)
    BY <1>3, LeftOutIsForgotten
  <2> QED  BY <2>1 DEF Forgotten, LastCall, Counting
<1> QED  BY <1>1, <1>2, <1>3

(* A principal that the full table turns away leaves the rest as the sweep does. *)
LEMMA UncountedKeeps ==
  ASSUME TripInv, NEW p \in Principal, Trip!Uncounted(p), UNCHANGED now
  PROVE  TripInv'
<1>1. /\ calls' = calls /\ burst' = burst /\ now' = now
      /\ tripSweepAt' = Trip!NextSweep(p)
      /\ held' \subseteq (IF Trip!Sweeps(p) THEN Trip!Left(p) ELSE held)
      /\ DOMAIN entries' = Trip!Left(p)
      /\ \A q \in Trip!Left(p) : entries'[q] = entries[q]
  BY DEF Trip!Uncounted
<1>2. ASSUME NEW q \in Principal
      PROVE  /\ CallsOK(q)'
             /\ q \in DOMAIN entries' => EntryOK(q)' /\ RoomOK(q)'
             /\ q \notin DOMAIN entries' => Forgotten(q)'
  BY <1>1, OthersKept
<1>3. /\ tripSweepAt' \in Int /\ tripSweepAt' <= now' + Longer
      /\ DOMAIN entries' \subseteq Principal
  BY <1>1, NotedTime, TripLeft DEF TripInv
<1>4. IsFiniteSet(DOMAIN entries')
  BY <1>1, LeftIsFinite
<1> QED  BY <1>1, <1>2, <1>3, <1>4 DEF TripInv, Longer

-----------------------------------------------------------------------------
(* What a call makes of its own principal *)

LEMMA OwnHistory ==
  ASSUME TripInv, NEW p \in Principal
  PROVE  LET d == Append(calls[p], now)
         IN /\ d \in Seq(Nat) /\ Len(d) = Len(calls[p]) + 1 /\ d[Len(calls[p]) + 1] = now
            /\ Len(calls[p]) \in Nat /\ burst[p] \in Nat /\ burst[p] <= Len(calls[p])
            /\ \A i \in 1 .. Len(d) : d[i] <= now
            /\ \A i, j \in 1 .. Len(d) : i <= j => d[i] <= d[j]
<1> DEFINE d == Append(calls[p], now)
           n == Len(calls[p])
<1>1. /\ calls[p] \in Seq(Nat) /\ now \in Nat /\ burst[p] \in 0 .. n
      /\ \A i \in 1 .. n : calls[p][i] <= now
      /\ \A i, j \in 1 .. n : i <= j => calls[p][i] <= calls[p][j]
  BY DEF TripInv, CallsOK
<1>2. /\ n \in Nat /\ d \in Seq(Nat) /\ Len(d) = n + 1 /\ d[n + 1] = now
      /\ \A i \in 1 .. n : d[i] = calls[p][i]
  BY <1>1, AppendProperties
<1>3. burst[p] \in Nat /\ burst[p] <= n
  BY <1>1, <1>2
<1> HIDE DEF d, n
<1>4. \A i \in 1 .. Len(d) : i = n + 1 \/ i \in 1 .. n
  BY <1>2
<1>5. \A i \in 1 .. Len(d) : d[i] <= now
  BY <1>1, <1>2, <1>4
<1>6. ASSUME NEW i \in 1 .. Len(d), NEW j \in 1 .. Len(d), i <= j
      PROVE  d[i] <= d[j]
  <2>1. CASE j = n + 1
    BY <1>2, <1>5, <2>1
  <2>2. CASE j # n + 1
    <3>1. j \in 1 .. n
      BY <1>4, <2>2
    <3>2. i \in 1 .. n
      BY <1>2, <1>6, <3>1
    <3> QED  BY <1>1, <1>2, <1>6, <3>1, <3>2
  <2> QED  BY <2>1, <2>2
<1> QED  BY <1>2, <1>3, <1>5, <1>6 DEF d, n

LEMMA RingIsCut ==
  ASSUME NEW p
  PROVE  Trip!Ring(p) = Cut(Append(IF Trip!Rearms(p) THEN <<>> ELSE entries[p].times, now))
BY DEF Trip!Ring, Cut

LEMMA CutFacts ==
  ASSUME NEW ts \in Seq(Nat), NEW t \in Nat
  PROVE  /\ Cut(Append(ts, t)) \in Seq(Nat) /\ Cut(Append(ts, t)) # <<>>
         /\ Cut(Append(ts, t))[Len(Cut(Append(ts, t)))] = t
<1> DEFINE a == Append(ts, t)
           m == Len(ts)
<1>1. m \in Nat /\ a \in Seq(Nat) /\ Len(a) = m + 1 /\ a[m + 1] = t
  BY AppendProperties
<1>2. a # <<>>
  BY <1>1, EmptySeq
<1>3. CASE m + 1 > Threshold
  <2>1. Cut(a) = Tail(a) /\ Tail(a) \in Seq(Nat) /\ Len(Tail(a)) = (m + 1) - 1
        /\ \A i \in 1 .. Len(Tail(a)) : Tail(a)[i] = a[i + 1]
    BY <1>1, <1>2, <1>3, HeadTailProperties DEF Cut
  <2>2. m >= 1 /\ (m + 1) - 1 = m /\ m \in 1 .. m
    BY <1>1, <1>3, PeriodFacts
  <2>3. Tail(a)[m] = t /\ Tail(a) # <<>>
    BY <1>1, <2>1, <2>2, EmptySeq
  <2> HIDE DEF a, m
  <2>4. Cut(a) \in Seq(Nat) /\ Cut(a) # <<>> /\ Cut(a)[Len(Cut(a))] = t
    BY <2>1, <2>2, <2>3
  <2> QED  BY <2>4 DEF a
<1>4. CASE ~(m + 1 > Threshold)
  <2>1. Cut(a) = a
    BY <1>1, <1>4 DEF Cut
  <2> HIDE DEF a, m
  <2>2. Cut(a) \in Seq(Nat) /\ Cut(a) # <<>> /\ Cut(a)[Len(Cut(a))] = t
    BY <1>1, <1>2, <2>1
  <2> QED  BY <2>2 DEF a
<1> QED  BY <1>3, <1>4

LEMMA CutOne ==
  ASSUME NEW t \in Nat
  PROVE  Cut(Append(<<>>, t)) = <<t>>
<1>1. Append(<<>>, t) = <<t>> /\ Len(<<t>>) = 1
  OBVIOUS
<1> QED  BY <1>1, PeriodFacts DEF Cut

LEMMA RingOf ==
  ASSUME TripInv, NEW p \in Principal
  PROVE  LET d == Append(calls[p], now)
             S == Counts(burst[p], d)
             r == Trip!Ring(p)
         IN /\ r \in Seq(Nat) /\ r # <<>> /\ r[Len(r)] = now
            /\ Trip!Armed(p) \in BOOLEAN
            /\ Trip!Armed(p) => EndsHistory(d, r) /\ HoldsCounting(d, r, S)
            /\ ~Trip!Armed(p) => burst[p] >= 1 /\ S = {}
<1> DEFINE d == Append(calls[p], now)
           S == Counts(burst[p], d)
           r == Trip!Ring(p)
<1>1. /\ calls[p] \in Seq(Nat) /\ now \in Nat /\ burst[p] \in 0 .. Len(calls[p])
      /\ \A i, j \in 1 .. Len(calls[p]) : i <= j => calls[p][i] <= calls[p][j]
  BY DEF TripInv, CallsOK
<1>2. CASE Trip!Rearms(p)
  <2>1. r = <<now>>
    BY <1>1, <1>2, RingIsCut, CutOne
  <2>2. SpentHistory(burst[p], calls[p], now)
    <3>1. Forgotten(p)
      <4>1. CASE p \notin Trip!Left(p)
        BY <4>1, LeftOutIsForgotten
      <4>2. CASE p \in Trip!Left(p)
        <5>1. ~entries[p].armed /\ now - Trip!Last(entries[p]) >= Quiet /\ p \in DOMAIN entries
          BY <1>2, <4>2, TripLeft DEF Trip!Rearms
        <5> QED  BY <5>1, EntryTimes DEF EntryOK, Forgotten
      <4> QED  BY <4>1, <4>2
    <3> QED  BY <3>1 DEF Forgotten, SpentHistory, LastCall, Counting
  <2>3. EndsHistory(d, <<now>>) /\ HoldsCounting(d, <<now>>, S)
    BY <1>1, <2>2, RingBegins
  <2>4. Trip!Armed(p) = TRUE
    BY <1>2 DEF Trip!Armed
  <2>5. <<now>> \in Seq(Nat) /\ <<now>> # <<>> /\ <<now>>[Len(<<now>>)] = now
    BY <1>1
  <2> HIDE DEF d, S, r
  <2>6. /\ r \in Seq(Nat) /\ r # <<>> /\ r[Len(r)] = now
        /\ EndsHistory(d, r) /\ HoldsCounting(d, r, S)
    BY <2>1, <2>3, <2>5
  <2> QED  BY <2>4, <2>6 DEF d, S, r
<1>3. CASE ~Trip!Rearms(p)
  <2>1. /\ p \in Trip!Left(p) /\ p \in DOMAIN entries
        /\ Trip!Armed(p) = entries[p].armed
        /\ ~(~entries[p].armed /\ now - Trip!Last(entries[p]) >= Quiet)
    BY <1>3, TripLeft DEF Trip!Rearms, Trip!Armed
  <2>2. EntryOK(p) /\ Trip!Last(entries[p]) = LastCall(p)
    BY <2>1, EntryTimes
  <2>3. entries[p].times \in Seq(Nat) /\ entries[p].times # <<>> /\ entries[p].armed \in BOOLEAN
    BY <2>2 DEF EntryOK
  <2>4. r = Cut(Append(entries[p].times, now))
    BY <1>3, RingIsCut
  <2>5. r \in Seq(Nat) /\ r # <<>> /\ r[Len(r)] = now
    <3> HIDE DEF r
    <3> QED  BY <1>1, <2>3, <2>4, CutFacts
  <2>6. ASSUME entries[p].armed
        PROVE  EndsHistory(d, r) /\ HoldsCounting(d, r, S)
    <3>1. EndsHistory(calls[p], entries[p].times)
          /\ HoldsCounting(calls[p], entries[p].times, Counts(burst[p], calls[p]))
      BY <2>2, <2>6 DEF EntryOK, Counting
    <3> QED  BY <1>1, <2>3, <2>4, <3>1, RingGrows
  <2>7. ASSUME ~entries[p].armed
        PROVE  burst[p] >= 1 /\ S = {}
    <3>1. burst[p] >= 1 /\ Counts(burst[p], calls[p]) = {}
          /\ ~(now - calls[p][Len(calls[p])] >= Quiet)
      BY <2>1, <2>2, <2>7 DEF EntryOK, Counting, LastCall
    <3> QED  BY <1>1, <3>1, FiredStays
  <2> HIDE DEF d, S, r
  <2> QED  BY <2>1, <2>3, <2>5, <2>6, <2>7 DEF d, S, r
<1> QED  BY <1>2, <1>3

(* The tripwire fires exactly when Threshold calls that count lie in the window. *)
LEMMA FiresOnBurst ==
  ASSUME TripInv, NEW p \in Principal
  PROVE  LET d == Append(calls[p], now)
         IN Trip!Fires(p) <=>
              Cardinality({i \in Counts(burst[p], d) : d[i] >= now - Window}) >= Threshold
<1> DEFINE d == Append(calls[p], now)
           S == Counts(burst[p], d)
           r == Trip!Ring(p)
           recent == {i \in S : d[i] >= now - Window}
<1>1. /\ d \in Seq(Nat) /\ Len(d) >= 1 /\ d[Len(d)] = now /\ burst[p] \in 0 .. Len(d)
      /\ \A i, j \in 1 .. Len(d) : i <= j => d[i] <= d[j]
  BY OwnHistory
<1>2. /\ r \in Seq(Nat) /\ r # <<>> /\ Trip!Armed(p) \in BOOLEAN
      /\ Trip!Armed(p) => EndsHistory(d, r) /\ HoldsCounting(d, r, S)
      /\ ~Trip!Armed(p) => burst[p] >= 1 /\ S = {}
  BY RingOf
<1>3. Trip!Fires(p) <=> Trip!Armed(p) /\ Len(r) = Threshold /\ now - Head(r) <= Window
  BY DEF Trip!Fires
<1>4. CASE Trip!Armed(p)
  <2>1. (Len(r) = Threshold /\ d[Len(d)] - Head(r) <= Window)
          <=> Cardinality({i \in Counts(burst[p], d) : d[i] >= d[Len(d)] - Window}) >= Threshold
    <3> HIDE DEF d, r
    <3> QED  BY <1>1, <1>2, <1>4, RingTellsBurst
  <2> QED  BY <1>1, <1>3, <1>4, <2>1
<1>5. CASE ~Trip!Armed(p)
  <2>1. recent = {}
    BY <1>2, <1>5
  <2>2. ~(Cardinality(recent) >= Threshold)
    <3> HIDE DEF recent
    <3> QED  BY <2>1, FS_EmptySet, PeriodFacts
  <2> QED  BY <1>3, <1>5, <2>2
<1> QED  BY <1>4, <1>5

LEMMA CountsFromIsCounts ==
  ASSUME NEW p, NEW ts, burst[p] \in Nat, Len(ts) \in Nat
  PROVE  Trip!CountsFrom(p, ts) = Counts(burst[p], ts)
<1> DEFINE b == burst[p]
           n == Len(ts)
           gap == {g \in b + 1 .. n : ts[g] - ts[g - 1] >= Quiet}
<1>1. b \in Nat /\ n \in Nat
  OBVIOUS
<1>2. Trip!CountsFrom(p, ts) =
        IF b = 0 THEN 1 .. n ELSE {i \in b + 1 .. n : \E g \in gap : g <= i}
  BY DEF Trip!CountsFrom
<1>3. ASSUME NEW i \in b + 1 .. n
      PROVE  (\E g \in gap : g <= i) <=> (\E g \in b + 1 .. i : ts[g] - ts[g - 1] >= Quiet)
  <2> HIDE DEF b, n
  <2>1. ASSUME NEW g \in gap, g <= i
        PROVE  g \in b + 1 .. i /\ ts[g] - ts[g - 1] >= Quiet
    BY <1>1, <2>1
  <2>2. ASSUME NEW g \in b + 1 .. i, ts[g] - ts[g - 1] >= Quiet
        PROVE  g \in gap /\ g <= i
    BY <1>1, <2>2
  <2> HIDE DEF gap
  <2> QED  BY <2>1, <2>2
<1> HIDE DEF gap
<1> QED  BY <1>2, <1>3 DEF Counts

LEMMA CountKeeps ==
  ASSUME TripInv, NEW p \in Principal, Trip!Count(p), UNCHANGED now
  PROVE  TripInv'
<1> DEFINE d == Append(calls[p], now)
           n == Len(calls[p])
           r == Trip!Ring(p)
           fires == Trip!Fires(p)
<1>1. /\ DOMAIN entries' = Trip!Left(p) \cup {p} /\ now' = now
      /\ \A q \in Trip!Left(p) : q # p => entries'[q] = entries[q]
      /\ entries'[p] = [times |-> r, armed |-> Trip!Armed(p) /\ ~fires]
      /\ tripSweepAt' = Trip!NextSweep(p)
      /\ calls' = [calls EXCEPT ![p] = d]
      /\ burst' = [burst EXCEPT ![p] = IF fires THEN n + 1 ELSE @]
      /\ held' = (IF Trip!Sweeps(p) THEN Trip!Left(p) ELSE held) \ {p}
  BY DEF Trip!Count
<1>2. DOMAIN calls = Principal /\ DOMAIN burst = Principal /\ now \in Nat
  BY DEF TripInv
<1>3. ASSUME NEW q \in Principal, q # p
      PROVE  /\ CallsOK(q)'
             /\ q \in DOMAIN entries' => EntryOK(q)' /\ RoomOK(q)'
             /\ q \notin DOMAIN entries' => Forgotten(q)'
  <2>1. calls'[q] = calls[q] /\ burst'[q] = burst[q]
    BY <1>1, <1>2, <1>3
  <2>2. /\ q \in DOMAIN entries' <=> q \in Trip!Left(p)
        /\ q \in Trip!Left(p) => entries'[q] = entries[q]
        /\ held' \subseteq (IF Trip!Sweeps(p) THEN Trip!Left(p) ELSE held)
    BY <1>1, <1>3
  <2> QED  BY <1>1, <2>1, <2>2, OthersKept
<1>4. /\ d \in Seq(Nat) /\ Len(d) = n + 1 /\ d[n + 1] = now
      /\ n \in Nat /\ burst[p] \in Nat /\ burst[p] <= n
      /\ \A i \in 1 .. Len(d) : d[i] <= now
      /\ \A i, j \in 1 .. Len(d) : i <= j => d[i] <= d[j]
  BY OwnHistory
<1>5. calls'[p] = d /\ burst'[p] = IF fires THEN n + 1 ELSE burst[p]
  BY <1>1, <1>2
<1>6. CallsOK(p)'
  <2>1. burst'[p] \in 0 .. Len(d)
    <3> HIDE DEF d, n
    <3> QED  BY <1>4, <1>5
  <2> HIDE DEF d, n
  <2> QED  BY <1>1, <1>4, <1>5, <2>1 DEF CallsOK
<1>7. /\ r \in Seq(Nat) /\ r # <<>> /\ r[Len(r)] = now
      /\ Trip!Armed(p) \in BOOLEAN
      /\ Trip!Armed(p) => EndsHistory(d, r) /\ HoldsCounting(d, r, Counts(burst[p], d))
      /\ ~Trip!Armed(p) => burst[p] >= 1 /\ Counts(burst[p], d) = {}
  BY RingOf
<1>8. /\ entries'[p].times = r
      /\ entries'[p].armed = (Trip!Armed(p) /\ ~fires)
      /\ LastCall(p)' = now /\ Trip!Last(entries'[p]) = now
      /\ Counting(p)' = Counts(burst'[p], d)
  BY <1>1, <1>4, <1>5, <1>7 DEF LastCall, Trip!Last, Counting
<1>9. EntryOK(p)'
  <2>1. Len(calls'[p]) >= 1
    BY <1>4, <1>5
  <2>2. ASSUME entries'[p].armed
        PROVE  EndsHistory(d, r) /\ HoldsCounting(d, r, Counting(p)')
    <3>1. Trip!Armed(p) /\ ~fires
      BY <1>8, <2>2
    <3>2. burst'[p] = burst[p]
      BY <1>5, <3>1
    <3> QED  BY <1>7, <1>8, <3>1, <3>2
  <2>3. ASSUME ~entries'[p].armed
        PROVE  burst'[p] >= 1 /\ Counting(p)' = {}
    <3>1. CASE fires
      <4>1. burst'[p] = n + 1 /\ n + 1 >= 1 /\ Len(d) >= 1
        BY <1>4, <1>5, <3>1
      <4>2. Counts(Len(d), d) = {}
        BY <1>4, <4>1, NoneCountAfterBurst
      <4> QED  BY <1>4, <1>8, <4>1, <4>2
    <3>2. CASE ~fires
      <4>1. ~Trip!Armed(p) /\ burst'[p] = burst[p]
        BY <1>5, <1>8, <2>3, <3>2
      <4> QED  BY <1>7, <1>8, <4>1
    <3> QED  BY <3>1, <3>2
  <2>4. entries'[p].armed \in BOOLEAN
    BY <1>8
  <2>5. Trip!Last(entries[p])' = now
    BY <1>8 DEF Trip!Last
  <2> HIDE DEF d, r, fires, n
  <2> QED  BY <1>5, <1>7, <1>8, <2>1, <2>2, <2>3, <2>4, <2>5 DEF EntryOK
<1>10. /\ tripSweepAt' \in Int /\ tripSweepAt' <= now + Longer
       /\ DOMAIN entries' \subseteq Principal /\ p \in DOMAIN entries' /\ p \notin held'
  BY <1>1, NotedTime, TripLeft DEF TripInv
<1>11. RoomOK(p)'
  <2>1. Trip!SpentFrom(p)' = now + (IF entries'[p].armed THEN Window ELSE Quiet)
    BY <1>8 DEF Trip!SpentFrom, Trip!Last
  <2>2. tripSweepAt' <= Trip!SpentFrom(p)' + Slack
    BY <1>2, <1>10, <2>1, PeriodFacts
  <2> QED  BY <1>10, <2>2 DEF RoomOK, Slack
<1>12. DOMAIN calls' = Principal /\ DOMAIN burst' = Principal
  BY <1>1, <1>2
<1>13. ASSUME NEW q \in Principal
       PROVE  /\ CallsOK(q)'
              /\ q \in DOMAIN entries' => EntryOK(q)' /\ RoomOK(q)'
              /\ q \notin DOMAIN entries' => Forgotten(q)'
  BY <1>3, <1>6, <1>9, <1>10, <1>11
<1>14. IsFiniteSet(DOMAIN entries')
  BY <1>1, LeftIsFinite, FS_AddElement
<1> QED  BY <1>1, <1>2, <1>10, <1>12, <1>13, <1>14 DEF TripInv, Longer

LEMMA TripTick ==
  ASSUME TripInv, now' = now + 1, UNCHANGED <<entries, tripSweepAt, calls, burst, held>>
  PROVE  TripInv'
<1>1. now \in Nat /\ tripSweepAt \in Int /\ tripSweepAt <= now + Longer
  BY DEF TripInv
<1>2. tripSweepAt' <= now' + Longer /\ now' \in Nat /\ tripSweepAt' \in Int
  BY <1>1, PeriodFacts
<1>3. ASSUME NEW q \in Principal
      PROVE  /\ CallsOK(q)'
             /\ q \in DOMAIN entries' => EntryOK(q)' /\ RoomOK(q)'
             /\ q \notin DOMAIN entries' => Forgotten(q)'
  <2>1. CallsOK(q) /\ calls[q] \in Seq(Nat)
    BY DEF TripInv, CallsOK
  <2>2. CallsOK(q)'
    <3>1. \A i \in 1 .. Len(calls[q]) : calls[q][i] <= now'
      <4> SUFFICES ASSUME NEW i \in 1 .. Len(calls[q]) PROVE calls[q][i] <= now'
        OBVIOUS
      <4>1. calls[q][i] <= now /\ calls[q][i] \in Nat
        BY <2>1 DEF CallsOK
      <4> QED  BY <1>1, <4>1
    <3> QED  BY <2>1, <3>1 DEF CallsOK
  <2>3. ASSUME q \in DOMAIN entries PROVE EntryOK(q)' /\ RoomOK(q)'
    <3>1. EntryOK(q) /\ RoomOK(q)
      BY <2>3 DEF TripInv
    <3> QED  BY <3>1 DEF EntryOK, RoomOK, LastCall, Counting, Trip!Last, Trip!SpentFrom, Slack
  <2>4. ASSUME q \notin DOMAIN entries PROVE Forgotten(q)'
    <3>1. Forgotten(q)
      BY <2>4 DEF TripInv
    <3>2. CASE Len(calls[q]) = 0
      BY <3>2 DEF Forgotten
    <3>3. CASE Len(calls[q]) # 0
      <4>1. Len(calls[q]) \in 1 .. Len(calls[q])
        BY <2>1, <3>3
      <4>2. LastCall(q) \in Nat /\ LastCall(q)' = LastCall(q) /\ Counting(q)' = Counting(q)
        BY <2>1, <4>1 DEF LastCall, Counting
      <4> QED  BY <1>1, <3>1, <3>3, <4>2, PeriodFacts DEF Forgotten
    <3> QED  BY <3>2, <3>3
  <2> QED  BY <2>2, <2>3, <2>4
<1>4. IsFiniteSet(DOMAIN entries)
  BY DEF TripInv
<1> QED  BY <1>2, <1>3, <1>4 DEF TripInv, Longer

LEMMA TripInvInit == TablesInit => TripInv
<1> SUFFICES ASSUME TablesInit PROVE TripInv
  OBVIOUS
<1>1. /\ now = 0 /\ tripSweepAt = 0 /\ DOMAIN entries = {}
      /\ calls = [p \in Principal |-> <<>>] /\ burst = [p \in Principal |-> 0]
  BY DEF TablesInit, Trip!TripInit
<1>2. \A p \in Principal : CallsOK(p) /\ Forgotten(p)
  BY <1>1 DEF CallsOK, Forgotten
<1> QED  BY <1>1, <1>2, PeriodFacts, FS_EmptySet DEF TripInv

LEMMA TripInvStep ==
  ASSUME TripInv, [TablesNext]_tablesVars
  PROVE  TripInv'
<1>1. ASSUME NEW p \in Principal, ToolNamed(p) PROVE TripInv'
  <2>1. UNCHANGED now
    BY <1>1 DEF ToolNamed, rateVars
  <2>2. Trip!Count(p) \/ Trip!Uncounted(p)
    BY <1>1 DEF ToolNamed, Trip!Observe, Trip!ObserveThrows
  <2> QED  BY <2>1, <2>2, CountKeeps, UncountedKeeps
<1>2. ASSUME UNCHANGED <<now, tripwireVars>> PROVE TripInv'
  BY <1>2 DEF tripwireVars, TripInv, CallsOK, EntryOK, RoomOK, Forgotten, LastCall,
              Counting, Longer, Slack, Trip!Last, Trip!SpentFrom
<1>3. ASSUME NEW p \in Principal, Take(p) PROVE UNCHANGED <<now, tripwireVars>>
  BY <1>3 DEF Take, Served, RateLimited, TakeToken, TakeRefused, TakeUntracked
<1>4. ASSUME Tick, UNCHANGED tripwireVars PROVE TripInv'
  BY <1>4, TripTick DEF Tick, tripwireVars
<1>5. ASSUME UNCHANGED tablesVars PROVE UNCHANGED <<now, tripwireVars>>
  BY <1>5 DEF tablesVars, rateVars
<1> QED  BY <1>1, <1>2, <1>3, <1>4, <1>5 DEF TablesNext

(* The tripwire's table keeps what the next burst needs, and the time it notes is
   no later than what it keeps can be spent (tripwire.ts, observe). *)
THEOREM TripInvHolds == TablesSpec => []TripInv
BY TripInvInit, TripInvStep, PTL DEF TablesSpec

(* A call is reported as a burst exactly when, of all the calls its principal
   ever had counted, Threshold since the last burst went quiet lie in the window
   that ends with it: dropping entries and cutting the ring lose no burst and
   report none twice (tripwire/RULES.md TW-2 to TW-5, TW-8, TW-9). *)
THEOREM EveryBurstIsReported == TablesSpec => ReportsEveryBurst
<1> DEFINE A == \A p \in Principal :
       calls'[p] # calls[p] =>
         LET recent == {i \in Trip!CountsFrom(p, calls'[p]) : calls'[p][i] >= now - Window}
         IN (burst'[p] = Len(calls'[p])) <=> Trip!Cardinality(recent) >= Threshold
<1>1. ASSUME TripInv, [TablesNext]_tablesVars PROVE A
  <2> SUFFICES ASSUME NEW p \in Principal, calls'[p] # calls[p]
      PROVE  LET recent == {i \in Trip!CountsFrom(p, calls'[p]) : calls'[p][i] >= now - Window}
             IN (burst'[p] = Len(calls'[p])) <=> Trip!Cardinality(recent) >= Threshold
    OBVIOUS
  <2> DEFINE d == Append(calls[p], now)
             n == Len(calls[p])
  <2>1. DOMAIN calls = Principal /\ DOMAIN burst = Principal
    BY <1>1 DEF TripInv
  <2>2. Trip!Count(p)
    <3>1. ASSUME NEW q \in Principal, ToolNamed(q) PROVE q = p /\ Trip!Count(q)
      <4>1. Trip!Count(q)
        BY <3>1 DEF ToolNamed, Trip!Observe, Trip!ObserveThrows, Trip!Uncounted
      <4> QED  BY <2>1, <4>1 DEF Trip!Count
    <3>2. ASSUME NEW q \in Principal, Take(q) PROVE calls' = calls
      BY <3>2 DEF Take, tripwireVars
    <3>3. ASSUME UNCHANGED tripwireVars PROVE calls' = calls
      BY <3>3 DEF tripwireVars
    <3> QED  BY <1>1, <3>1, <3>2, <3>3 DEF TablesNext, tablesVars
  <2>3. calls'[p] = d /\ burst'[p] = IF Trip!Fires(p) THEN n + 1 ELSE burst[p]
    BY <2>1, <2>2 DEF Trip!Count
  <2>4. Len(d) = n + 1 /\ n \in Nat /\ burst[p] \in Nat /\ burst[p] <= n
    BY <1>1, OwnHistory
  <2>5. burst'[p] = Len(calls'[p]) <=> Trip!Fires(p)
    <3> HIDE DEF d, n
    <3> QED  BY <2>3, <2>4
  <2>6. Trip!CountsFrom(p, d) = Counts(burst[p], d)
    BY <2>4, CountsFromIsCounts
  <2>7. Trip!Fires(p) <=>
          Cardinality({i \in Counts(burst[p], d) : d[i] >= now - Window}) >= Threshold
    BY <1>1, FiresOnBurst
  <2> HIDE DEF d, n
  <2> QED  BY <2>3, <2>5, <2>6, <2>7, SameCardinality
<1>2. ASSUME TripInv, [TablesNext]_tablesVars PROVE [A]_Trip!tripVars
  BY <1>1, <1>2
<1>3. TripInv /\ [TablesNext]_tablesVars => TripInv' /\ [A]_Trip!tripVars
  BY <1>2, TripInvStep
<1> HIDE DEF A
<1>4. TablesSpec => [][A]_Trip!tripVars
  BY <1>3, TripInvInit, PTL DEF TablesSpec
<1> QED  BY <1>4, PTL DEF A, ReportsEveryBurst, Trip!ReportsEveryBurst

(* A principal without a live burst or a call in the window makes room in a full
   table: at once where the last sweep kept it, and else no later than the two
   periods differ (TW-8, TW-9). *)
THEOREM SpentAlwaysMakeRoom == TablesSpec => []SpentMakeRoom
<1>1. ASSUME TripInv PROVE SpentMakeRoom
  <2> SUFFICES ASSUME NEW p \in Principal, ~Trip!Tracked(p)
      PROVE  /\ \A q \in Trip!Left(p) \cap held : ~Trip!Spent(entries[q])
             /\ \A q \in Trip!Left(p) : now - Trip!SpentFrom(q) <= Slack
    BY DEF SpentMakeRoom, Trip!SpentMakeRoom, Slack
  <2>1. now \in Nat /\ tripSweepAt \in Int
    BY <1>1 DEF TripInv
  <2>2. CASE Trip!Sweeps(p)
    <3>1. \A q \in Trip!Left(p) : ~Trip!Spent(entries[q])
      BY <2>2 DEF Trip!Left
    <3>2. ASSUME NEW q \in Trip!Left(p) PROVE now - Trip!SpentFrom(q) <= Slack
      <4>1. q \in DOMAIN entries /\ now <= Trip!SpentFrom(q) /\ Trip!SpentFrom(q) \in Nat
        BY <1>1, <3>1, <3>2, TripLeft, SpentTimes
      <4> QED  BY <2>1, <4>1, PeriodFacts
    <3> QED  BY <3>1, <3>2
  <2>3. CASE ~Trip!Sweeps(p)
    <3>1. now < tripSweepAt
      <4>1. Trip!Left(p) = Trip!Kept /\ p \notin Trip!Kept
            /\ ~(Trip!Cardinality(Trip!Kept) < MaxTripPrincipals)
        BY <2>3 DEF Trip!Tracked, Trip!Left
      <4>2. Trip!Cardinality(Trip!Kept) \in Nat
        BY <1>1, <4>1, LeftIsFinite, FS_CardinalityType, SameCardinality
      <4>3. Trip!Cardinality(Trip!Kept) >= MaxTripPrincipals
        BY <4>1, <4>2, PeriodFacts
      <4> QED  BY <2>1, <2>3, <4>1, <4>3 DEF Trip!Sweeps
    <3>2. ASSUME NEW q \in Trip!Left(p)
          PROVE  /\ now - Trip!SpentFrom(q) <= Slack
                 /\ q \in held => ~Trip!Spent(entries[q])
      <4>1. q \in DOMAIN entries /\ RoomOK(q) /\ Trip!SpentFrom(q) \in Nat
            /\ (Trip!Spent(entries[q]) => now >= Trip!SpentFrom(q))
        BY <1>1, <3>2, TripLeft, EntryTimes, SpentTimes
      <4> QED  BY <2>1, <3>1, <4>1, PeriodFacts DEF RoomOK
    <3> QED  BY <3>2
  <2> QED  BY <2>2, <2>3
<1> QED  BY <1>1, TripInvHolds, PTL


=============================================================================
