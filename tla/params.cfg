SPECIFICATION Spec
CONSTANTS
  Params = {p1, p2}
  Surfaces = {s1, s2}
  Fds = {f1, f2, f3}
  Word = 128
  MaxMap = 1000
  STAGING = 3
  Planes <- SomePlanes
  Images <- SomeImages
  MayBreak = {"uses_once", "uses_params", "listed_formats", "sound_requests", "fits_parent",
              "pends_once", "stays", "keeps_size", "ftruncate"}
  None = None
SYMMETRY Alike
CONSTRAINT FewBroken
CHECK_DEADLOCK FALSE
INVARIANTS
  FdsSound
  FeedbackHonest
  SlotsTold
PROPERTIES
  CopyInBounds
