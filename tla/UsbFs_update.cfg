SPECIFICATION FairSpec
CONSTANTS
  Thread = {t1, t2}
  Drive = {d1}
  Null = Null
  Calls = {"Initialize", "Update"}
  MaxCalls = 2
PROPERTY UpdateReturns
CHECK_DEADLOCK FALSE
