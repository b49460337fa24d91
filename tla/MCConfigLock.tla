---------------------------- MODULE MCConfigLock ----------------------------
(* ConfigLock for TLC.                                                     *)
EXTENDS ConfigLock

CONSTANTS t1, t2, t3

MCThreads == {t1, t2, t3}

(* Changes with their checkpoints, searches, internal changes and other    *)
(* work; the same with slow clients; the deletion of an overlay.           *)
MCAll ==
  {[biglock |-> b, kinds |-> {"search", "change", "internal", "data"}, slow |-> FALSE] :
     b \in {"none", "local"}}
  \cup {[biglock |-> "local", kinds |-> {"search", "change", "internal"}, slow |-> TRUE],
        [biglock |-> "local", kinds |-> {"search", "remove", "data"}, slow |-> TRUE]}
=============================================================================
