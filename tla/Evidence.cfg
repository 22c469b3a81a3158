SPECIFICATION Spec
CHECK_DEADLOCK FALSE
CONSTANTS
  Absent = Absent
  SourceScale = 2
  CoefficientDigits = 3
  RegularQuoteAge = 2
  ExtendedQuoteAge = 3
  CompletedBarAge = 1
  MinuteBar = 1
  SevenDays = 2
  RegularTradeAge = 1
  ExtendedTradeAge = 2
  TrustedPrecision = 1
  RevisionDepth = 3
  DeliveriesPerObservation = 3
  CandidatesPerSelection = 6
  MaxProviders = 2
  PrimarySource <- MCPrimarySource
  OtherSource <- MCOtherSource
  Instrument <- MCInstrument
  Tokens <- MCTokens
  NativeEvents <- MCNativeEvents
  TimelineEvents <- MCTimelineEvents
  CloseFacts <- MCCloseFacts
  TradeEvents <- MCTradeEvents
  Records <- MCRecords
  Requests <- MCRequests
  ClockBasis <- Basis
  Digests = {d1, d2}
  PageTokens = {t1, t2}
  PageMax = 2
  AttemptsPerPage = 2
  AttemptsMax = 3
  BytesMax = 2
  ArtifactBytesMax = 1
  RecordsPerPageMax = 1
  Minute = 2
  WeightScale = 100
  Minutes = {2, 4}
  VariantsMax = 3
  UniverseMax = 1
  CohortMax = 2
  Studies <- MCStudies
  StudyItems <- MCStudyItems
  LedgerPools <- MCLedgerPools
  MaxInput <- MCMaxInput
  MaxEntries = 20
  MaxEdges = 45
  MaxDepth = 14
  MaxParents = 3
  MaxSymbols = 2
  MaxClockBases = 1
  MaxPerAcquisition = 7
  MaxProjectionsPerSubject = 2
  MaxLinks = 2
INVARIANTS
  TapeSound
  
  LateRevisionsInvisible
  
  ObservationNamesEvidence
  
  
  NoLookAhead
