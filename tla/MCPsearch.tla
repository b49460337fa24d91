----------------------------- MODULE MCPsearch ------------------------------
(* Instances of Psearch for TLC: one search and two changes, of one entry  *)
(* or of two, under every setup; two searches and one change.              *)
EXTENDS Psearch

CONSTANTS s1, s2, w1, w2, e1, e2

Job(k, e, match, from) == [kind |-> k, entry |-> e, match |-> match, from |-> from]

Hit1(k, e) == Job(k, e, {s1}, Nobody)

Two(a, b) == [w \in Changes |-> IF w = w1 THEN a ELSE b]

Twice(k) == {Two(Hit1(k, e1), Hit1(k, e1))}

(* Nothing goes wrong but for Abandons and failing changes.                *)
Plain(jobs) ==
  [actors |-> {s1, w1, w2}, jobs |-> jobs, fails |-> FALSE, lost |-> FALSE,
   early |-> FALSE, cancel |-> FALSE, giveup |-> FALSE, close |-> FALSE]

(* Two changes of one entry, or of two.                                    *)
Seen == Plain({Two(Hit1("modify", e1), Hit1("delete", e)) : e \in {e1, e2}})

(* Out of the search's scope, and from the consumer itself.                *)
Missed == Plain({Two(Job("modify", e1, {}, Nobody), Job("add", e1, {s1}, s1))})

Both ==
  [Plain({Two(Job("modify", e1, {s1, s2}, Nobody), Hit1("add", e1))})
     EXCEPT !.actors = {s1, s2, w1}]

MCSetups ==
  {Seen, Missed, Both,
   [Plain(Twice("add")) EXCEPT !.fails = TRUE, !.cancel = TRUE],
   [Plain(Twice("base")) EXCEPT !.lost = TRUE],
   [Plain(Twice("add")) EXCEPT !.early = TRUE],
   [Plain(Twice("modify")) EXCEPT !.giveup = TRUE],
   [Plain(Twice("modify")) EXCEPT !.close = TRUE]}

MCStranded == {Seen}
=============================================================================
