SPECIFICATION FairSpec
CONSTANTS
  NDigests = 2
  NReaders = 1
  NStops = 2
  MaxFaults = 2
  MaxDerived = 1
INVARIANTS
  UseStops
  ReceiptsTrue
PROPERTIES
  ScopeFrozen
  StopsAnswer
