CONSTANTS
  Thread = {p1, p2, p3}
  Job = {j1, j2}
  Tag = {a, b}
  Num = {0, 1, 3}
  None = None
SPECIFICATION FairSpec
INVARIANTS
  NoLostWakeup
  JoinWaitsForAll
PROPERTIES
  ImplementsJobQueue
  ExcessiveThreadsLeave
  JoinReturns
