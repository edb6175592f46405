SPECIFICATION Spec
CONSTANTS
  b1 = b1  b2 = b2  b3 = b3  s1 = s1  s2 = s2
  large = large  small = small  argb = argb  None = None
  Buffers = {b1, b3}
  Surfaces = {s1, s2}
  Geometry <- TwoSizes
  STAGING = 2
  InitSize = large
  ParentSizes = {}
  ClientObeys = {"acks_first"}
  WorldMay = {"alloc_fail", "sync_fail"}
CHECK_DEADLOCK FALSE
SYMMETRY SurfaceSymmetry
INVARIANTS
  StagingSafe
  QueueSound
  FrameFits
