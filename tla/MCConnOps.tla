----------------------------- MODULE MCConnOps -----------------------------
(* Small instances of ConnOps; the requests are numbered, so there is no   *)
(* symmetry to use.                                                        *)
EXTENDS ConnOps

Client(tags, self, events, lose) ==
  [tags |-> tags, self |-> self, events |-> events, lose |-> lose]

MCClients == {Client({"SEARCH", "BIND"}, FALSE, FALSE, FALSE),
              Client({"SEARCH", "CANCEL"}, FALSE, FALSE, FALSE),
              Client({"UNBIND", "CANCEL"}, TRUE, FALSE, FALSE),
              Client({"SEARCH", "ABANDON"}, FALSE, TRUE, FALSE),
              Client({"SEARCH", "BIND"}, FALSE, FALSE, TRUE)}

MCBinding == {Client({"SEARCH", "BIND"}, FALSE, FALSE, FALSE)}
=============================================================================
