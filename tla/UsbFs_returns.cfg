SPECIFICATION FairSpec
CONSTANTS
  Thread = {t1, t2}
  Drive = {d1}
  Null = Null
  Calls = {"IsInitialized", "Initialize", "Exit", "Update", "MountStatus", "Path", "StatPath", "Handle", "StatFilesystem"}
  MaxCalls = 4
PROPERTY ReturnsOrDeadlock
CHECK_DEADLOCK FALSE
