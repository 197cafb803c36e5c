CONSTANTS
  NumCases = 3
  MaxBlamed = 1
  Builds <- SmallBuilds
  Commands <- SmallCommands
  Paths = {"old"}
  NoPath = "no path"

SPECIFICATION Spec

INVARIANTS
  StatusIsVerdict
  RegressionsAreReported
  ReportIsHonest
  CrashListSuffices
