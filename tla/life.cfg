SPECIFICATION LiveSpec
CONSTANTS
  HadParentDisplay = TRUE
  Signals = {2, 15}
  Waits = 2
  WorldMay = {}
INVARIANTS
  NoOrphan
  CrashReported
  DisplayRestored
  CloseReported
  LossExitsTwo
PROPERTIES
  Stops
  ChordDelivered
CHECK_DEADLOCK FALSE
