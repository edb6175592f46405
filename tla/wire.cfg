SPECIFICATION Spec
CONSTANTS
  BindVersions <- TurningVersions
  MaxGlobals = 1
  MaxObjects = 3
  MaxQueue = 2
CHECK_DEADLOCK FALSE
INVARIANTS
  Routed
  Allowed
  EventsUnderstood
  ObjectsAgree
