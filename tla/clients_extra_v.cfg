SPECIFICATION Spec
CONSTANTS
  hypr = hypr  tool = tool  k1 = k1  k2 = k2  None = None
  Clients = {hypr, tool}
  Compositor = hypr
  Callbacks = {k1, k2}
  OwnerOf <- Owners
  MayBreak = {"guests_look_on"}
  MaxBroken = 1
CHECK_DEADLOCK FALSE
INVARIANTS
  DisconnectKeeps
