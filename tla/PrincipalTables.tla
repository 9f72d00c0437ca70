---------------------------- MODULE PrincipalTables ----------------------------
(***************************************************************************)
(* The two tables the server keeps by principal, as a request meets them:  *)
(* packages/core/src/transport/server.ts (handle, step 4a, and toolNamed). *)
(*                                                                         *)
(* Every authenticated request takes a token; one that is not refused goes *)
(* on, its body is awaited, and if it then names a read_only tool the      *)
(* tripwire counts it, maybe long after and in another order than the      *)
(* requests were taken.  A full table is said once until it has room.      *)
(***************************************************************************)
EXTENDS RateLimiter

CONSTANTS
  Threshold, Window, Quiet,   \* the tripwire's settings
  MaxTripPrincipals,
  MaxTakes                    \* bound on the requests, for TLC

ASSUME TripAssumption ==
  /\ {Threshold, Window, Quiet, MaxTripPrincipals} \subseteq Nat \ {0}
  /\ MaxTakes \in Nat

VARIABLES
  entries, tripOrder, tripSweepAt, tripFull, calls, burst, held,   \* Tripwire's
  rateFull,   \* full.rate
  naming,     \* the principals with a call that has yet to name its tool
  taken       \* the requests so far, bounded

Trip == INSTANCE Tripwire WITH
  order <- tripOrder, nextSweepAt <- tripSweepAt, full <- tripFull, MaxPrincipals <- MaxTripPrincipals

tripwireVars == <<entries, tripOrder, tripSweepAt, tripFull, calls, burst, held>>
tablesVars == <<rateVars, tripwireVars, rateFull, naming, taken>>

TablesInit == RateInit /\ Trip!TripInit /\ rateFull = FALSE /\ naming = {} /\ taken = 0

-----------------------------------------------------------------------------
(* Step 4a; the call may name a read_only tool, or not. *)
Served(p) ==
  /\ \/ TakeToken(p) /\ rateFull' = (rateFull /\ Cardinality(DOMAIN buckets') >= MaxPrincipals)
     \/ TakeUntracked(p) /\ rateFull' = TRUE
  /\ naming' \in {naming, naming \cup {p}}

RateLimited(p) == TakeRefused(p) /\ UNCHANGED <<rateFull, naming>>

Take(p) ==
  /\ taken < MaxTakes /\ taken' = taken + 1
  /\ Served(p) \/ RateLimited(p)
  /\ UNCHANGED tripwireVars

(* toolNamed, of a read_only tool.  Nothing it does alters the call. *)
ToolNamed(p) ==
  /\ p \in naming /\ naming' = naming \ {p}
  /\ Trip!Observe(p) \/ Trip!Uncounted(p) \/ Trip!ObserveThrows(p)
  /\ UNCHANGED <<rateVars, rateFull, taken>>

TablesNext ==
  \/ \E p \in Principal : Take(p) \/ ToolNamed(p)
  \/ Tick /\ UNCHANGED <<tripwireVars, rateFull, naming, taken>>

TablesSpec == TablesInit /\ [][TablesNext]_tablesVars

-----------------------------------------------------------------------------
(* Properties *)

(* A call is reported as a burst exactly when, of all the calls its principal
   ever had counted, Threshold since the last burst went quiet lie in the
   window that ends with it: forgetting entries, the ring and other
   principals' calls lose no burst and report none twice (tripwire/RULES.md
   TW-2 to TW-5, TW-8, TW-9). *)
ReportsEveryBurst == Trip!ReportsEveryBurst

(* A principal without a live burst or a call in the window makes room in a
   full tripwire table (TW-8, TW-9; tripwire.ts:132-143), as Tripwire states. *)
SpentMakeRoom == Trip!SpentMakeRoom

=============================================================================
