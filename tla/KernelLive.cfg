SPECIFICATION FairProcessors
CONSTANTS
  Keys <- MCKeys
  Artifacts <- MCArtifacts
  Subjects <- MCSubjects
  Payloads <- MCPayloads
  RunIds <- MCRunIds
  Behaviors <- MCBehaviors
  Manifests <- MCManifests
  AggregateIds <- MCAggregateIds
  States <- MCStates
  Bodies <- MCStates
  DedupeKeys <- MCDedupeKeys
  NoKey = NoKey
  None = None
  Route <- MCRoute
  InitialState <- MCInitialState
  Apply <- MCApply
  p1 = p1
  p2 = p2
  p3 = p3
  p4 = p4
  p5 = p5
  k1 = k1
  k2 = k2
  k3 = k3
  a1 = a1
  s1 = s1
  s2 = s2
  Drafts <- MCDraftsClean
  MaxClock = 0
  Procs = {p1, p2}
  ManifestOf <- MCCompete
  Direct = {}
  ForeignEvents <- MCNoForeign
  PageSize = 1
  MaxCrashes = 1
  Reader = p1
  AggregateOrder <- MCAggregateOrder
  SnapshotPage = 1
PROPERTIES
  EverythingProcessed
