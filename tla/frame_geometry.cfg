SPECIFICATION Spec
CONSTANTS
  b1 = b1  b2 = b2  b3 = b3  s1 = s1  s2 = s2
  large = large  small = small  argb = argb  None = None
  Buffers = {b1, b2, b3}
  Surfaces = {s1, s2}
  Geometry <- TwoSizes
  STAGING = 2
  InitSize = large
  ParentSizes = {small}
  ClientObeys = {"one_surface", "awaits_release", "keeps_pending", "keeps_queued_surface", "keeps_toplevel", "acks_first"}
  WorldMay = {"alloc_fail"}
CHECK_DEADLOCK FALSE
VIEW WithoutCallbacks
SYMMETRY ResizeSymmetry
INVARIANTS
  LeaseSound
  ToldIsAsked
  NoFault
PROPERTIES
  NoOverwrite
