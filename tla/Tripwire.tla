-------------------------------- MODULE Tripwire --------------------------------
(***************************************************************************)
(* The read-burst tripwire: packages/core/src/tripwire/tripwire.ts, and    *)
(* the row the server writes when its table is full (transport/server.ts). *)
(*                                                                         *)
(* Per principal, the last Threshold times of its counted calls since it   *)
(* was armed.  When they fit in the window a burst is reported and the     *)
(* entry is disarmed until a quiet period has passed.  The table is kept   *)
(* as the rate limiter's is: spent entries dropped from the old end at     *)
(* every call, and anywhere when the table is full, though no earlier than *)
(* the time the last sweep noted; no entry is evicted.                     *)
(*                                                                         *)
(* `calls`, `burst` and `held` are history, which the code does not keep.  *)
(***************************************************************************)
EXTENDS Integers, FiniteSets, Sequences

CONSTANTS
  Principal, Threshold, Window, Quiet, MaxPrincipals, None

VARIABLES
  now,           \* the monotonic clock
  entries,       \* #entries
  order,         \* the table's order: <<p, q>> when p was counted before q
  nextSweepAt,   \* #nextSweepAt
  full,          \* server.ts full.trip: the full table has been said
  calls,         \* per principal, the times of all its counted calls
  burst,         \* per principal, the index of the call last reported, or 0
  held           \* the principals the last sweep kept and not counted since

tableVars == <<entries, order, nextSweepAt, full>>
historyVars == <<calls, burst, held>>
tripVars == <<now, tableVars, historyVars>>

TripInit ==
  /\ now = 0 /\ entries = [p \in {} |-> None] /\ order = {} /\ nextSweepAt = 0 /\ full = FALSE
  /\ calls = [p \in Principal |-> <<>>] /\ burst = [p \in Principal |-> 0] /\ held = {}

-----------------------------------------------------------------------------
Last(e) == e.times[Len(e.times)]

(* Slip: a fired entry is dropped after the window, not the quiet period. *)
SpentEarly(e) == now - Last(e) > Window
(* #spent *)
Spent(e) == IF e.armed THEN now - Last(e) > Window ELSE now - Last(e) >= Quiet

UpTo(p) == {q \in DOMAIN entries : q = p \/ <<q, p>> \in order}

(* #trim: the spent entries from the old end, up to the first that is not. *)
Trimmed == {p \in DOMAIN entries : \A q \in UpTo(p) : Spent(entries[q])}
Kept == DOMAIN entries \ Trimmed

Sweeps(p) == p \notin Kept /\ Cardinality(Kept) >= MaxPrincipals /\ now >= nextSweepAt

(* #sweep: it leaves one at least, the oldest that #trim kept. *)
Left(p) == IF Sweeps(p) THEN {q \in Kept : ~Spent(entries[q])} ELSE Kept
SpentFrom(q) == Last(entries[q]) + (IF entries[q].armed THEN Window ELSE Quiet)
(* Slip: the sweep notes the latest time an entry kept can be spent. *)
NextSweepLate(p) ==
  IF ~Sweeps(p) THEN nextSweepAt
  ELSE CHOOSE t \in {SpentFrom(q) : q \in Left(p)} : \A q \in Left(p) : t >= SpentFrom(q)
NextSweep(p) ==
  IF ~Sweeps(p) THEN nextSweepAt
  ELSE CHOOSE t \in {SpentFrom(q) : q \in Left(p)} : \A q \in Left(p) : t <= SpentFrom(q)

Tracked(p) == p \in Left(p) \/ Cardinality(Left(p)) < MaxPrincipals

(* TW-4: a fired entry counts from zero after the quiet period. *)
Rearms(p) ==
  IF p \in Left(p) THEN ~entries[p].armed /\ now - Last(entries[p]) >= Quiet ELSE TRUE
Armed(p) == IF Rearms(p) THEN TRUE ELSE entries[p].armed

(* The ring: the last Threshold times since the entry was armed. *)
Ring(p) ==
  LET ts == Append(IF Rearms(p) THEN <<>> ELSE entries[p].times, now)
  IN IF Len(ts) > Threshold THEN Tail(ts) ELSE ts

Fires(p) == Armed(p) /\ Len(Ring(p)) = Threshold /\ now - Head(Ring(p)) <= Window

(* observe, of a principal that has an entry or gets one *)
Count(p) ==
  /\ Tracked(p)
  /\ entries' = [q \in Left(p) \cup {p} |->
       IF q # p THEN entries[q] ELSE [times |-> Ring(p), armed |-> Armed(p) /\ ~Fires(p)]]
  /\ LET rest == Left(p) \ {p}
     IN order' = (order \cap (rest \X rest)) \cup (rest \X {p})
  /\ nextSweepAt' = NextSweep(p)
  /\ calls' = [calls EXCEPT ![p] = Append(@, now)]
  /\ burst' = [burst EXCEPT ![p] = IF Fires(p) THEN Len(calls[p]) + 1 ELSE @]
  /\ held' = (IF Sweeps(p) THEN Left(p) ELSE held) \ {p}

Observe(p) ==
  /\ Count(p)
  /\ full' = (full /\ Cardinality(DOMAIN entries') >= MaxPrincipals)

(* The burst's row cannot be written: onBurst throws, with the entry disarmed
   already, and the server's catch leaves full.trip as it was (TW-6). *)
ObserveThrows(p) == Fires(p) /\ Count(p) /\ UNCHANGED full

(* TW-9: the table is full, and the newcomer is not counted. *)
Uncounted(p) ==
  /\ ~Tracked(p)
  /\ entries' = [q \in Left(p) |-> entries[q]]
  /\ order' = order \cap (Left(p) \X Left(p))
  /\ nextSweepAt' = NextSweep(p)
  /\ full' = TRUE
  /\ held' = IF Sweeps(p) THEN Left(p) ELSE held
  /\ UNCHANGED <<calls, burst>>

-----------------------------------------------------------------------------
(* Properties *)

(* The calls that count toward the next burst: all of them, or those since the
   first quiet gap after the last burst. *)
CountsFrom(p, ts) ==
  LET gap == {i \in burst[p] + 1 .. Len(ts) : ts[i] - ts[i - 1] >= Quiet}
  IN IF burst[p] = 0 THEN 1 .. Len(ts)
     ELSE {i \in burst[p] + 1 .. Len(ts) : \E g \in gap : g <= i}

(* A call is reported as a burst exactly when, of all the calls the principal
   ever made, Threshold since the last burst went quiet lie in the window that
   ends with it: forgetting entries, the ring and other principals' calls lose
   no burst and report none twice (TW-2 to TW-5, TW-8, TW-9). *)
ReportsEveryBurst ==
  [][\A p \in Principal :
       calls'[p] # calls[p] =>
         LET recent == {i \in CountsFrom(p, calls'[p]) : calls'[p][i] >= now - Window}
         IN (burst'[p] = Len(calls'[p])) <=> Cardinality(recent) >= Threshold]_tripVars

(* At the cap an entry that the last sweep kept makes room as soon as it is
   spent, wherever it is in the order; one made or counted since may keep a
   newcomer out while it is spent, but no longer than the two periods differ
   (TW-8, TW-9; tripwire.ts:132-143). *)
SpentMakeRoom ==
  LET slack == IF Quiet > Window THEN Quiet - Window ELSE Window - Quiet
  IN \A p \in Principal : ~Tracked(p) =>
       /\ \A q \in Left(p) \cap held : ~Spent(entries[q])
       /\ \A q \in Left(p) : now - SpentFrom(q) <= slack

=============================================================================
