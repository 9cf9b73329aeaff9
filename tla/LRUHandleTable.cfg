CONSTANTS
  a1 = a1
  a2 = a2
  b1 = b1
  c1 = c1
  d1 = d1
  e1 = e1
  Handle <- MCHandle
  Key <- MCKey
  KeyOf <- MCKeyOf
  HashOf <- MCHashOf
  MinLength = 1
  Null = Null
SPECIFICATION Spec
INVARIANT
  ListsAreSound
PROPERTY
  ImplementsMap
