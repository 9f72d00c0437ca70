SPECIFICATION BookSpec
CONSTANTS
  Id = {r1, r2}
  Principal <- MCPrincipal
  IdentityOf <- MCIdentityOf
  Call <- MCCall
  HumanOnlyTool <- MCHumanOnly
  HumanApprover = "operator"
  Delegate <- MCDelegate
  RequestTtl = 2
  GrantTtl = 2
  MaxPending = 2
  MaxPendingPerPrincipal = 1
  MaxWrongCodes = 2
  ReadSkew = 2
  MaxTime = 5
  None = None
INVARIANTS RowsAgree
PROPERTIES DeadLinkDecidesNothing NothingLiveIsDropped LifecycleKept
