SPECIFICATION FairLoopSpec
CONSTANTS
  mirrorDebounceMs = 1
  lifecycleMs = 2
  maxSourcesPerCluster = 1
  maxAnalysisBranches = 3
  MaxStateSize = 8
  MaxSafe = 10
  Null = Null
  Artifacts = {a1}
  NoWorker = NoWorker
  a1 = a1
  w1 = w1
  w2 = w2
  MaxEventId = 20
  Intents <- MCIntents
  Workers <- MCWorkers
  Offers <- MCOffers
  MaxTime = 3
  MaxAttempts = 5
  Results = {"succeeded", "failed"}
  LeaseMs = 2
  MaxSkewed = 1
  MaxLag = 1
  MaxCrashes = 1
CHECK_DEADLOCK FALSE
INVARIANTS
  NothingLost
PROPERTIES
  EverythingSettles
