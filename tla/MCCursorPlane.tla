---------------------------- MODULE MCCursorPlane ----------------------------
(* The cursor plane on a small instance, for TLC.                            *)
EXTENDS CursorPlane

CONSTANTS v1, v2, s1, s2
TwoViewers == {v1, v2}
TwoShapes == {s1, s2}
=============================================================================
