SPECIFICATION Spec
CONSTANTS
  b1 = b1  b2 = b2  b3 = b3  s1 = s1  s2 = s2
  large = large  small = small  argb = argb  None = None
  Buffers = {b1, b2, b3}
  Surfaces = {s1}
  Geometry <- TwoSizes
  STAGING = 3
  InitSize = large
  ParentSizes = {small}
  ClientObeys = {"one_surface", "awaits_release", "keeps_pending", "keeps_queued_surface", "keeps_toplevel", "acks_first"}
  WorldMay = {}
CHECK_DEADLOCK FALSE
INVARIANTS
  FrameFits
