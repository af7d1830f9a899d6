SPECIFICATION FairSpec
CONSTANTS
  Caller = {c1, c2}
  Path = {p, q}
  Name = {f, g}
  None = None
  MaxId = 1
  MaxChanges = 3
  MaxFaults = 1
INVARIANT TypeOK
INVARIANT RepeatsNeedCreate
INVARIANT EndMeansAllRead
PROPERTY ScanEnds
CHECK_DEADLOCK FALSE
