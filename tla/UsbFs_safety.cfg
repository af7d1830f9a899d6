SPECIFICATION Spec
CONSTANTS
  Thread = {t1, t2, t3}
  Drive = {d1, d2}
  Null = Null
  Calls = {"Initialize", "Exit", "Update", "Path", "StatPath", "Handle", "StatFilesystem"}
  MaxCalls = 5
SYMMETRY Symmetry
INVARIANT TypeOK
INVARIANT NoUseAfterFree
INVARIANT OverlapOnlyWithStatFilesystem
INVARIANT PublishedTogether
INVARIANT DeadlockNeedsInitialize
PROPERTY LostOnlyByOverwrite
CHECK_DEADLOCK FALSE
