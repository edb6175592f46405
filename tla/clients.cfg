SPECIFICATION Spec
CONSTANTS
  hypr = hypr  tool = tool  k1 = k1  k2 = k2  None = None
  Clients = {hypr, tool}
  Compositor = hypr
  Callbacks = {k1, k2}
  OwnerOf <- Owners
  MayBreak = {"compositor_first", "guests_look_on", "settles_first", "whole_window", "awaits_frame", "ends_in_time"}
  MaxBroken = 1
CHECK_DEADLOCK FALSE
INVARIANTS
  EventsSound
  CompositorEnds
  CallbackKept
  PointerPaired
