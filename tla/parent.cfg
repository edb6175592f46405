SPECIFICATION Spec
CONSTANTS
  Parents <- OldAndNewParents
  Seats = {"seat0", "seat1"}
  WorldMay = {}
  MaxQueue = 2
CHECK_DEADLOCK FALSE
INVARIANTS
  EventsTaken
  RequestsTaken
  SeatsHeard
  InputHeard
