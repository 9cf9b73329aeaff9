CONSTANT
  Garbage = Garbage
SPECIFICATION FairSpec
INVARIANTS PreadLoopsAreRight MmapFileIsData
PROPERTIES ReadReturns 
CHECK_DEADLOCK FALSE
