SPECIFICATION SharedSpec
CONSTANTS
  None = None
  NoToken = NoToken
  Terminal = Terminal
  c1 = c1
  c2 = c2
  t1 = t1
  Callers <- MCCallers
  Tokens <- MCTokens
  successfulPages = 3
  attemptsPerLogicalPage = 2
  attemptsPerAcquisition = 3
  normalizedFacts = 1
  rateAttempts = 2
  rateWindowMs = 2
  attemptDeadlineMs = 2
  acquisitionDeadlineMs = 4
  RetryDelays <- MCDelays
  RetryAfters <- MCRetryAfters
  MaxTime = 3
  MaxSkew = 1
  MaxCrashes = 1
  Reasons = {"lane-disabled", "request-failed"}
  LastTime = 3
  MaxLosses = 1
SYMMETRY MCSymmetry
CHECK_DEADLOCK FALSE
INVARIANTS
  RequestsBounded
  JournalSound
  
