------------------------------ MODULE MCCtxCsn ------------------------------
(* CtxCsn for TLC: three writes, with and without the big lock.            *)
EXTENDS CtxCsn, TLC

CONSTANTS o1, o2, o3

MCOps == {o1, o2, o3}

Symmetry == Permutations(MCOps)
=============================================================================
