SPECIFICATION PoolSpec
CONSTANTS
  k1 = k1
  Jobs = 3
  Key = {k1}
  KeyOf <- MCKeyOf
  Verdict <- MCVerdict
  Workers = 2
  MaxFailures = 1
  NoJob = NoJob
PROPERTIES SettlesAsPromised EveryJobSettles
CHECK_DEADLOCK FALSE
