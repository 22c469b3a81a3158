SPECIFICATION SharedSpec
CONSTANTS
  Keys <- MCKeys
  Artifacts <- MCArtifacts
  Subjects <- MCSubjects
  Payloads <- MCPayloads
  RunIds <- MCRunIds
  Behaviors <- MCBehaviors
  Manifests <- MCManifests
  AggregateIds <- MCAggregateIds
  States <- MCStates
  Bodies <- MCStates
  DedupeKeys <- MCDedupeKeys
  NoKey = NoKey
  None = None
  Route <- MCRoute
  InitialState <- MCInitialState
  Apply <- MCApply
  p1 = p1
  p2 = p2
  p3 = p3
  p4 = p4
  p5 = p5
  k1 = k1
  k2 = k2
  k3 = k3
  a1 = a1
  s1 = s1
  s2 = s2
  Drafts <- MCDrafts
  MaxClock = 0
  Procs = {p1, p2, p3, p4, p5}
  ManifestOf <- MCMixed
  Direct = {p4}
  ForeignEvents <- MCForeign
  PageSize = 2
  MaxCrashes = 0
  Reader = p4
  AggregateOrder <- MCAggregateOrder
  SnapshotPage = 1
SYMMETRY Twins
INVARIANTS
  RunsReplay
  LedgerMatchesDecisions
  ReadsSafe
  SnapshotOrdered
PROPERTIES
  SerialSpec
  HistoryImmutable
