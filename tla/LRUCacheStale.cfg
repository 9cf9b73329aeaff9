CONSTANTS
  h1 = h1
  h2 = h2
  h3 = h3
  ChargeOf1 = 1
  ChargeOf2 = 1
  ChargeOf3 = 2
  Handle <- MCHandle
  Charge <- MCCharge
  Key = {k1, k2}
  Capacity = {0, 3}
  Ratio = {0, 1, 2}
  RatioUnit = 2
  MaxHeld = 2
  None = None
SPECIFICATION Spec
SYMMETRY Symmetry
CHECK_DEADLOCK FALSE
PROPERTIES
  NewestOrNone
