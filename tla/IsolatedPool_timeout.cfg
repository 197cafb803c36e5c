CONSTANTS
  NumCases = 2
  Workers = 0
  Hardware = 2
  Timeout = 2
  MaxFaults = 1

SPECIFICATION WatchedSpec

INVARIANTS
  OneOwner
  ClassifiedByOwnChild

PROPERTIES
  LedgerSpec
  RunEnds
