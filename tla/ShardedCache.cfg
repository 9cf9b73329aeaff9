CONSTANTS
  num_shard_bits_ = 1
  HashWidth = 2
  SizeWidth = 4
  Hash = {0, 3}
  Capacity = {0, 1, 3}
  Caller = {c1, c2}
  MaxUsage = 2
  None = None
SPECIFICATION Spec
INVARIANTS
  SettingsAgree
  ExcessIsPinned
