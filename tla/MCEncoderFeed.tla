---------------------------- MODULE MCEncoderFeed ----------------------------
(* The encoder's feed on a small instance, for TLC.                          *)
EXTENDS EncoderFeed

CONSTANTS f1, f2
TwoFrames == {f1, f2}
=============================================================================
