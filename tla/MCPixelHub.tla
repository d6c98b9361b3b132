----------------------------- MODULE MCPixelHub -----------------------------
(* The fan-out on small instances, for TLC.                                  *)
EXTENDS PixelHub

CONSTANTS c1, small, large

OneClient == {c1}
OneSize == {small}
TwoSizes == {small, large}
=============================================================================
