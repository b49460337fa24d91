------------------------------ MODULE MCAlock -------------------------------
(* Alock for TLC.                                                          *)
EXTENDS Alock

CONSTANTS p1, p2

MCTwo == {p1, p2}
=============================================================================
