SPECIFICATION Spec
CONSTANTS
  None = None
  Empty = Empty
  Procs = {p1, p2}
  durationMs = 2
  MaxTime = 4
  MaxOwners = 3
  MaxCrashes = 1
CHECK_DEADLOCK FALSE
INVARIANT CrashLeavesReadableLock
