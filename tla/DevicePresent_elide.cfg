\* The same front-end, asked about 2D presents of buffers that the guest has drawn on.
SPECIFICATION Spec
CONSTANTS
  Render = Render
  None = None
  Bufs = {b1, b2}
  MaxRows = 2
  Heights = {1, 2}
  Colours = {0, 1}
  Frames <- MCFrames
  HashCap = 1
  Baseline = 2
INVARIANT ElisionAfterPresent
SYMMETRY Symmetric
CHECK_DEADLOCK FALSE
