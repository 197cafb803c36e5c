CONSTANTS
  NumCases = 3
  Workers = 2
  Hardware = 4
  Timeout = 0
  MaxFaults = 0

SPECIFICATION PatientSpec

INVARIANTS
  NoStrays
  NoIdleSlot

PROPERTIES
  RunEnds
