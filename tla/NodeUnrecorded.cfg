SPECIFICATION NodeSpec
CONSTANTS
  Env <- MCEnv
  Rewritten <- MCRewritten
  Disk <- MCDisk
  Files <- MCFiles
  Editions <- MCEditions
  Ports = {8001, 8002}
  MaxInFlight = 32
  MaxSchemaDepth = 2
  MaxSchemaNodes = 4
  MaxNesting = 6
  OneForm <- MCOneForm
  Resolves <- MCResolves
  Flaky = {"localhost"}
  Call = {c1, c2}
INVARIANT NeverServesUnrecorded
CHECK_DEADLOCK FALSE
