SPECIFICATION ClustersSpec
CONSTANTS
  r1 = r1
  r2 = r2
  Runners = {r1, r2}
  FirstOptional = "preparedRemarks"
  Bindings <- NoMarket
  Members <- MCMembers
  Absent = {"transcript"}
  SettlementEnd = 1
  MaxAmendments = 1
  MaxTime = 1
  MaxRevision = 7
  MaxLog = 3
  mirrorDebounceMs = 1
  lifecycleMs = 2
  maxSourcesPerCluster = 3
  maxAnalysisBranches = 3
  MaxStateSize = 8
  MaxSafe = 3
  Null = Null
  a1 = a1
  a2 = a2
  a3 = a3
  Artifacts <- MCArtifacts
  Kinds = {"fmp_release", "call"}
  MaxEvents = 5
  MaxToken = 2
  MaxAt = 3
CHECK_DEADLOCK FALSE
SYMMETRY Symmetry
INVARIANTS
  
  IntentsSound
  
  
  FreshWritersContinue
PROPERTIES
  BranchesFrozen
