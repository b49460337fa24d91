--------------------------- MODULE MCConnWriters ---------------------------
(* Small instances of ConnWriters.                                         *)
EXTENDS ConnWriters, TLC

CONSTANTS o1, o2, o3

MCOps3 == {o1, o2, o3}

MCOpSym == Permutations(MCOps3)
=============================================================================
