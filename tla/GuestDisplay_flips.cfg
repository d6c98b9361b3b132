\* A compositor cycles more buffers than the cache holds, with partial damage.
SPECIFICATION Spec
CONSTANTS
  f1 = f1
  f2 = f2
  f3 = f3
  Never = Never
  Absent = Absent
  Fbs <- ThreeFbs
  Regions <- Halves
  CacheSize = 2
  Cap = 3
  MaxBlobs = 1024
  MaxFlips = 5
  MaxOthers = 1
  MaxRemaps = 2
INVARIANTS TypeOK FlushesLand HeadKnown NoLeak FlipShown
CHECK_DEADLOCK FALSE
