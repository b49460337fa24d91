---------------------------- MODULE MCReplLinks ----------------------------
(* Two links; the providers are servers 1 and 2, this server is 0 or, after*)
(* reconfiguration, one of them.                                           *)
EXTENDS ReplLinks, TLC

CONSTANTS l1, l2

MCLinks == {l1, l2}
MCRid == (l1 :> 1) @@ (l2 :> 2)

Flag(f) == [flag |-> f]
Require(r) == [require |-> r]

Plain == [words |-> {}, persist |-> TRUE, pause |-> FALSE, old |-> FALSE,
          delall |-> FALSE, reconf |-> FALSE, sids |-> {}]

MCCases ==
  {[Plain EXCEPT !.words = {Require(QR_VOTED_SID(1)), Require(QR_VOTED_SID(2))},
                 !.persist = FALSE, !.sids = {1, 2}],
   [Plain EXCEPT !.words = {Flag("AUTO_RIDS"), Require(QR_VOTED_RID(1)),
                            Require(QR_DEMAND_RID(2))}],
   [Plain EXCEPT !.words = {[limit |-> 1], Flag("ALL_LINKS")}],
   [Plain EXCEPT !.words = {[limit |-> 1]}, !.persist = FALSE, !.pause = TRUE,
                 !.delall = TRUE],
   [Plain EXCEPT !.words = {Flag("AUTO_SIDS"), Require(QR_VOTED_SID(1))},
                 !.persist = FALSE, !.sids = {1}],
   [Plain EXCEPT !.words = {Require(QR_DEMAND_SID(1))}, !.persist = FALSE,
                 !.sids = {1}, !.old = TRUE, !.reconf = TRUE]}
=============================================================================
