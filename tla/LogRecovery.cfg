SPECIFICATION Spec
CONSTANTS
  BlockSize = 6
  HeaderSize = 2
  RecyclableHeaderSize = 4
  Recycle = FALSE
  Size = {0, 3, 7}
  MaxRecords = 3
  LogNumber <- OneLog
  LogNumWidth = 4
  Mode <- AllModes
  Offset = {0, 4, 6}
  IOErrors = TRUE
  Tailing = FALSE
  WholeOnly = FALSE
  Damage = TRUE
INVARIANTS BlocksAreKept ReadRecordsAreWhole RecoversAll TornTailIsToldApart
CHECK_DEADLOCK FALSE
