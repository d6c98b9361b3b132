\* A guest that presents, repeats or falls idle; viewers ask for keyframes; one backlog is shed; ffmpeg ends once.
SPECIFICATION FairSpec
CONSTANTS
  f1 = f1
  f2 = f2
  None = None
  Frames <- TwoFrames
  PipeCap = 2
  Gop = 3
  MaxJoins = 2
  MaxSheds = 1
  MaxCrashes = 1
INVARIANT TypeOK
PROPERTIES LastFrameReaches KeyframeServed IdleGoesQuiet ShedViewerResyncs
CHECK_DEADLOCK FALSE
