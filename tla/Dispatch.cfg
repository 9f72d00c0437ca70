SPECIFICATION DispatchSpec
CONSTANTS
  Modern = "2026-07-28"
  Legacy = "2025-11-25"
  Tool = {"read", "deploy"}
  Elevated = {"deploy"}
  Param = {"x", "y"}
  None = None
  Request <- MCRequest
  Carrying <- MCCalls
  Forged = Forged
  Capability = {"elicitation", "roots"}
  Id = {r1, r2}
  Ttl = 1
  Slot = {s1}
  MaxReaches = 2
  MaxTime = 1
  MaxSealed = 1
  MaxRuns = 2
INVARIANTS StateOpensForItsCall GrantsBuyRuns AnsweredOnce RunsAsRouted
CHECK_DEADLOCK FALSE
SYMMETRY MCSymmetry
