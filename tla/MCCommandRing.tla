--------------------------- MODULE MCCommandRing ---------------------------
(* The command ring on small instances, for TLC.                             *)
EXTENDS CommandRing

CONSTANTS a1, a2

MCAddrs == {a1, a2}
=============================================================================
