SPECIFICATION Spec
CONSTANTS
  Thread = {t1, t2}
  Drive = {d1, d2}
  Context = {c1, c2}
  Null = Null
  MaxCalls = 4
SYMMETRY Symmetry
INVARIANT GlobalIsStatic
CHECK_DEADLOCK FALSE
