SPECIFICATION MCSpec
CONSTANTS
  BlockSize = 6
  HeaderSize = 2
  RecyclableHeaderSize = 4
  Recycle = TRUE
  Size = {0, 3}
  MaxRecords = 3
  LogNumber <- TwoLogs
  LogNumWidth = 4
  Mode <- StoppingModes
  Offset = {0}
  IOErrors = FALSE
  Tailing = FALSE
  WholeOnly = FALSE
  Damage = FALSE
INVARIANTS RecycledIsRecovered NoFalseAlarm
  
CHECK_DEADLOCK FALSE
