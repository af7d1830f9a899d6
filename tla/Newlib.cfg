SPECIFICATION Spec
CONSTANTS
  Thread = {t1, t2, t3}
  Drive = {d1, d2, d3}
  Context = {c1, c2, c3, c4}
  Null = Null
  MaxCalls = 7
SYMMETRY Symmetry
INVARIANT TypeOK
INVARIANT EntryIsOpened
INVARIANT HeldIsOpened
PROPERTY LostOnlyInTable
CHECK_DEADLOCK FALSE
