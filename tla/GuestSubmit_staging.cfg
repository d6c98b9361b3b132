\* A denied VM: a timed-out forwarded draw is still queued when its buffer is freed.
SPECIFICATION SSpec
CONSTANTS
  Cap = 2
  IndexMod = 16
  c1 = c1
  c2 = c2
  NoCpu = NoCpu
  Gone = Gone
  Cpus <- TwoCpus
  Addrs <- MCAddrs
  LinuxSeqno = TRUE
  MaxSubmits = 2
  MaxNudges = 2
  MayDeny = TRUE
  MaxTries = 2
  MaxRemaps = 0
INVARIANT StagingOutlivesSubmit
CHECK_DEADLOCK FALSE
