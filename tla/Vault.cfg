SPECIFICATION SharedSpec
CONSTANTS
  None = None
  Empty = Empty
  p1 = p1
  p2 = p2
  Procs <- MCProcs
  durationMs = 2
  MaxTime = 3
  MaxOwners = 3
  MaxCrashes = 1
  NAttempts = 2
  NDigests = 1
  NReaders = 1
  DigestOf <- OneDigest
  MaxStores = 2
  MaxCalls = 2
  MaxBlobs = 2
  MaxFaults = 1
  MaxRuns = 1
CHECK_DEADLOCK FALSE
SYMMETRY MCSymmetry
INVARIANTS
  LeaseSafe
  
  TerminalMeansClean

  
