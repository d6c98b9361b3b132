--------------------------- MODULE MCGuestDisplay ---------------------------
(* The display path on a small instance, for TLC.                            *)
EXTENDS GuestDisplay

CONSTANTS f1, f2, f3

ThreeFbs == {f1, f2, f3}
Halves == {"top", "bottom"}
=============================================================================
