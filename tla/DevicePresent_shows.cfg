\* Two buffers of two bands, one of them moved about by the VMM, presented at two sizes.
SPECIFICATION Spec
CONSTANTS
  Render = Render
  None = None
  Bufs = {b1, b2}
  MaxRows = 2
  Heights = {1, 2}
  Colours = {0, 1}
  Frames <- MCFrames
  HashCap = 1
  Baseline = 2
INVARIANTS TypeOK ElisionSound SurfaceFaithful ReservationFollowsMode
SYMMETRY Symmetric
CHECK_DEADLOCK FALSE
