CONSTANTS
  NumCases = 3
  Workers = 2
  ResultCount <- TwoThenOne
  MaxNoise = 1

SPECIFICATION FairSpec

INVARIANTS
  VerdictsAreEarned
  BlameIsExact

PROPERTIES
  LedgerSpec
  ResumesAtFirstOpenCase
  RunEnds
