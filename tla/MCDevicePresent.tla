--------------------------- MODULE MCDevicePresent ---------------------------
(* The device front-end on small instances, for TLC.                         *)
EXTENDS DevicePresent, TLC

F(o, c) == [op |-> o, colour |-> c]
MCFrames == {F("draw", 1), F("mesh", 0)}
Symmetric == Permutations(Bufs)
=============================================================================
