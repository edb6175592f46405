SPECIFICATION Spec
CONSTANTS
  Formats <- BothFormats
CHECK_DEADLOCK FALSE
INVARIANTS
  PassMeansRead
PROPERTIES
  BothEnd
