CONSTANTS
  FirstCapacity = 2
  max_buffer_size_ = 4
  bytes_per_sync_ = 2
  NotSyncRange = 2
  AlignWhenSync = 2
  Sizes = {1, 2, 3, 5}
  MaxBytes = 8
  MaxFailures = 2
  Thread = {t, u}
  File = {f, g, h}
  None = None
SPECIFICATION Spec
INVARIANTS NothingLost SyncIsDurable FilesAreWhole
CHECK_DEADLOCK FALSE
