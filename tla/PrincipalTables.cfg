SPECIFICATION TablesSpec
CONSTANTS
  Principal = {p1, p2, p3}
  Burst = 3
  Token = 3
  Second = 2
  MaxPrincipals = 2
  Threshold = 2
  Window = 1
  Quiet = 4
  MaxTripPrincipals = 2
  MaxTime = 5
  MaxTakes = 4
  None = None
INVARIANTS RetryAfterIsTrue SpentMakeRoom
PROPERTIES DecidesAsIdeal ReportsEveryBurst
SYMMETRY TablesSymmetry
CHECK_DEADLOCK FALSE
