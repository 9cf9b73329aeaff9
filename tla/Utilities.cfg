CONSTANTS
  Thread = {t, u}
  Instance = {a, b}
  HasHandler = {a}
  Ptr = {p, q}
  Vector = {v, w}
  T = {1, 2}
  Default = 1
  kSize = 2
  MaxSize = 4
  P = 32
  A = 12
  Seed = {0, 1, 2, 3, 4, 5, 6, 7, 8, 9, 10, 11, 12, 13, 14, 15, 16, 17, 18, 19, 20, 21, 22, 23, 24, 25, 26, 27, 28, 29, 30, 32, 33, 34, 35, 36, 37, 38, 39, 40, 41, 42, 43, 44, 45, 46, 47, 48, 49, 50, 51, 52, 53, 54, 55, 56, 57, 58, 59, 60, 61, 62}
  N = {1, 2, 3, 4, 5}
  Log = {0, 1, 2, 3}
  Null = Null
SPECIFICATION Spec
SYMMETRY Symmetry
INVARIANTS InstancesAreApart NothingLeaks PutIsGot LocksAreSafe GeneratesByMultiplying
PROPERTIES ActsAsVector
CHECK_DEADLOCK FALSE
