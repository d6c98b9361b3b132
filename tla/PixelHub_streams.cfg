\* A viewer joins, sheds and leaves while encoders respawn or fail to; control messages take room.
SPECIFICATION Spec
CONSTANTS
  c1 = c1
  small = small
  large = large
  None = None
  Clients <- OneClient
  Sizes <- TwoSizes
  QueueCap = 2
  SpawnMayFail = TRUE
  MaxAus = 5
  MaxPlaneOps = 2
  MaxRespawns = 1
INVARIANTS TypeOK PrimerFitsSession
PROPERTY SyncLostOnlyAtJoin
CHECK_DEADLOCK FALSE
