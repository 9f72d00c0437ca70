SPECIFICATION ServiceSpec
CONSTANTS
  Id = {r1, r2}
  Principal <- MCPrincipal
  IdentityOf <- MCIdentityOf
  Call <- MCOneCall
  HumanOnlyTool = {}
  HumanApprover = "operator"
  Delegate <- MCDelegate
  RequestTtl = 1
  GrantTtl = 1
  MaxPending = 1
  MaxPendingPerPrincipal = 1
  MaxWrongCodes = 1
  ReadSkew = 0
  MaxTime = 1
  None = None
  Caller = {c1, c2, c3}
  WaitSeconds = 1
  MaxWaiting = 2
  MaxWaitingPerPrincipal = 2
INVARIANTS NoLostWakeup OneCallPerGrant
PROPERTIES EveryWaitEnds
