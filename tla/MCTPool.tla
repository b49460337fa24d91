------------------------------- MODULE MCTPool -------------------------------
(* Instances of TPool for TLC: three threads; three or four tasks.         *)
EXTENDS TPool, TLC

CONSTANTS t1, t2, t3, k1, k2, k3, k4

MCThreads == {t1, t2, t3}

MCThreadSym == Permutations(MCThreads)

(* Tasks that pause, check and go idle while threads cannot be created.    *)
MCBusy == {[pausers |-> {k1, k2}, idlers |-> {k3}, checkers |-> {k3},
            close |-> FALSE, fail |-> TRUE, atomic |-> TRUE]}

(* One task pauses; or the pool is closed under an idle one.               *)
MCLone == {[pausers |-> {k1}, idlers |-> {}, checkers |-> {k3},
            close |-> FALSE, fail |-> FALSE, atomic |-> TRUE],
           [pausers |-> {}, idlers |-> {k2}, checkers |-> {},
            close |-> TRUE, fail |-> TRUE, atomic |-> TRUE]}

(* Two tasks that pause.                                                   *)
MCTwo == {[pausers |-> {k1, k2}, idlers |-> {}, checkers |-> {},
           close |-> FALSE, fail |-> FALSE, atomic |-> TRUE]}
=============================================================================
