SPECIFICATION CageSpec
CONSTANTS
  Opening = {o1, o2}
  Name = {"root", "out", "d", "f"}
  Place <- MCPlace
  Fixed <- MCFixed
  Tree <- MCTree
  Target <- MCTarget
  Root <- MCRoot
  Asked <- MCAsked
  Mode = {"r", "w", "wx", "rs"}
  ReadOnly = {o2}
  Hosts <- MCHosts
  LowerCase <- MCLowerCase
  AskedPorts = {0, 443, 65536}
  Declared = {s1}
  AskedNames = {s1, s2}
  MaxSwaps = 2
  None = None
INVARIANTS ServedInside WritesOnlyThroughADirectory AttemptsAreRecorded
CHECK_DEADLOCK FALSE
