SPECIFICATION Spec
CONSTANTS
  NumAgents = 4
  CellCount = 4
  Junk <- TwoValues
INVARIANTS
  TypeOK
  NoWriteConflict
  SettledEntriesDelimit
  IndexExact
