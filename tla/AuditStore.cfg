SPECIFICATION AuditSpec
CONSTANTS
  Allowlist <- MCAllowlist
  Strangers = {keyX}
  LastDay = 1
  Genesis = Genesis
  RowsEvery = 2
  MaxRows = 3
  MaxStarts = 3
INVARIANTS HonestFilesVerify AnchoredRowsStand
PROPERTIES AdoptionRecorded 
CHECK_DEADLOCK FALSE
