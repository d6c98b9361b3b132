\* Two viewers join, leave and shed while the guest changes, moves and hides its cursor.
SPECIFICATION Spec
CONSTANTS
  v1 = v1
  v2 = v2
  s1 = s1
  s2 = s2
  None = None
  Viewers <- TwoViewers
  Shapes <- TwoShapes
  RingCap = 2
  MaxUpdates = 4
  MaxResets = 1
  MaxSheds = 1
INVARIANTS TypeOK OverlayAgrees CursorShown
CHECK_DEADLOCK FALSE
