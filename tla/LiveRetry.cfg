SPECIFICATION SharedSpec
CONSTANTS
  None = None
  NoToken = NoToken
  Terminal = Terminal
  c1 = c1
  c2 = c2
  t1 = t1
  Callers <- MCOneCaller
  Tokens <- MCTokens
  successfulPages = 2
  attemptsPerLogicalPage = 2
  attemptsPerAcquisition = 3
  normalizedFacts = 1
  rateAttempts = 2
  rateWindowMs = 2
  attemptDeadlineMs = 2
  acquisitionDeadlineMs = 4
  RetryDelays <- MCDelays
  RetryAfters <- MCRetryAfters
  MaxTime = 3
  MaxSkew = 0
  MaxCrashes = 0
  Reasons = {"lane-disabled", "request-failed"}
  LastTime = 3
  MaxLosses = 1
CHECK_DEADLOCK FALSE
INVARIANT VerifiedPageEnters
