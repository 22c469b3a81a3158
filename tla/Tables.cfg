SPECIFICATION TablesSpec
CONSTANTS
  Keys <- MCKeys
  Artifacts <- MCArtifacts
  Subjects <- MCSubjects
  Payloads <- MCPayloads
  Drafts <- MCDrafts
  Producers <- MCProducers
  MaxClock = 1
  MaxOffers = 4
  NoDraft = NoDraft
  k1 = k1
  k2 = k2
  k3 = k3
  a1 = a1
  a2 = a2
  s1 = s1
  s2 = s2
  x = x
  y = y
  p1 = p1
  p2 = p2
  i1 = i1
  i2 = i2
  w1 = w1
  w2 = w2
  h1 = h1
  h2 = h2
  m1 = m1
  m2 = m2
  m3 = m3
  Intents <- MCIntents
  Workers <- MCWorkers
  NoWorker = NoWorker
  MaxTime = 1
  MaxAttempts = 3
  Hosts = {h1, h2}
  Build <- MCBuild
  Manifests = {m1, m2, m3}
  EpochOf <- MCEpochOf
  MaxStarts = 2
SYMMETRY Symmetry
INVARIANTS
  LogIntact
  AcksAgree
  HoldersSound
  ResultsFrozen
PROPERTIES
  AppendOnly
  SettledForGood
