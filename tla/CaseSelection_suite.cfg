CONSTANTS
  Registries <- SmallRegistries
  QuerySets <- SmallQuerySets
  Workers = 2
  Threshold = 1
  FormatKeys = {"format"}
  Formats <- SmallFormats
  Representatives <- SmallRepresentatives

SPECIFICATION Spec

INVARIANTS
  ExpansionIsComplete
  SamplingSparesTheRest
  SelectionIsAFilter
  ChildrenSelectTheParentsCases

CHECK_DEADLOCK FALSE
