SPECIFICATION ListenerSpec
SYMMETRY RequestsAlike
CONSTANTS
  Id = {r1}
  Principal <- MCPrincipal
  IdentityOf <- MCIdentityOf
  Call <- MCCall
  HumanOnlyTool = {}
  HumanApprover = "operator"
  Delegate = {"auditor"}
  RequestTtl = 2
  GrantTtl = 1
  MaxPending = 2
  MaxPendingPerPrincipal = 1
  MaxWrongCodes = 1
  ReadSkew = 0
  MaxTime = 3
  None = None
  Request = {q1, q2}
  Client = {"a1"}
  Proxy = {"proxy"}
  Forged <- MCForged
  KeyOf <- MCKeyOf
  Burst = 1
  MaxRefills = 1
INVARIANTS DecidedIsRecorded FailuresArePaid
PROPERTIES NeverShutOut CountsReachARow
CHECK_DEADLOCK FALSE
