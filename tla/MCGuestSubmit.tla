---------------------------- MODULE MCGuestSubmit ----------------------------
(* The driver's submission paths on small instances, for TLC.                *)
EXTENDS GuestSubmit

CONSTANTS c1, c2

TwoCpus == {c1, c2}
MCAddrs == (0 .. Cap - 1) \cup Cpus
=============================================================================
