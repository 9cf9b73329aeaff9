CONSTANTS
  Thread = {t, u}
  Null = Null
  Caller = {c}
SPECIFICATION Spec
INVARIANTS NothingForgotten RollingKeepsAll LevelsAreKept
CHECK_DEADLOCK FALSE
