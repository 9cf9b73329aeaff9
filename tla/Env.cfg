CONSTANTS
  Process = {p, q}
  Thread = {t, u}
  Starter = {t1, t2, t3, t4}
  Main = Main
  a = a
  b = b
  c = c
  None = None
SPECIFICATION Spec
SYMMETRY Symmetry
INVARIANTS  OpensAreSound 
 
CHECK_DEADLOCK FALSE
