SPECIFICATION JwtSpec
CONSTANTS
  Lookup = {l1, l2}
  Kid = {k1}
  Ttl = 2
  Cooldown = 1
  MaxTime = 3
  MaxSteps = 1
  Never <- MCNever
  Skew = 0
  MaxLifetime = 5
  Absent = Absent
  Token <- MCToken
  KeysOf <- MCKeysOf
INVARIANTS WindowBuysAFetch
PROPERTIES OutageIsNoVerdict ServedIsGoodNow EveryLookupEnds
