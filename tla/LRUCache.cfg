CONSTANTS
  h1 = h1
  h2 = h2
  h3 = h3
  ChargeOf1 = 1
  ChargeOf2 = 1
  ChargeOf3 = 2
  Handle <- MCHandle
  Charge <- MCCharge
  Key = {k1, k2}
  Capacity = {0, 3}
  Ratio = {1}
  RatioUnit = 2
  MaxHeld = 2
  None = None
SPECIFICATION FairSpec
CHECK_DEADLOCK FALSE
INVARIANT RefsAreCounted
PROPERTIES AccountsAreRight ImplementsCache
