\* A whole lap of the index words, up to the wrap, on a healthy host and on one that refuses.
SPECIFICATION FairSpec
CONSTANTS
  Cap = 2
  IndexMod = 4
  a1 = a1
  a2 = a2
  Addrs <- MCAddrs
  LinuxSeqno = TRUE
  MaxSubmits = 4
  MaxNudges = 2
INVARIANTS FenceSound NoSlotRace ExecutedInOrder
PROPERTY ServiceFairSpec
CHECK_DEADLOCK FALSE
