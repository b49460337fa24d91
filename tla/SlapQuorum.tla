----------------------------- MODULE SlapQuorum -----------------------------
(***************************************************************************)
(* The replication quorum of one database (servers/slapd/quorum.c): which  *)
(* syncrepl links exist and how far each has come, what the configuration  *)
(* requires of them, the cached verdict that every client write consults,  *)
(* and the gate that limits concurrent refreshes.                          *)
(*                                                                         *)
(* Every operator takes the quorum record and returns the next one; the    *)
(* code runs each of them under quorum_mutex.                              *)
(***************************************************************************)
EXTENDS Integers, Sequences, FiniteSets, FiniteSetsExt

CONSTANTS Links,   \* the syncrepl links (the code's keys)
          Rid,     \* the replica ID of each link
          SidSet   \* server IDs, natural numbers

ASSUME QuorumAssumption ==
  /\ IsFiniteSet(Links)
  /\ Rid \in [Links -> Nat]
  /\ \A a, b \in Links : Rid[a] = Rid[b] => a = b
  /\ SidSet \subseteq Nat

DIRTY == 0
DEAD == 1
REFRESH == 2
READY == 3
PROCESS == 4
Status == DIRTY..PROCESS

(* A requirement: a RID or a SID, demanded or voted, added by the          *)
(* configuration or automatically.                                         *)
Requirement == [rid : BOOLEAN, demand : BOOLEAN, auto : BOOLEAN, id : Nat]

Type(rid, demand, auto, id) == [rid |-> rid, demand |-> demand, auto |-> auto, id |-> id]
QR_VOTED_SID(id) == Type(FALSE, FALSE, FALSE, id)
QR_VOTED_RID(id) == Type(TRUE, FALSE, FALSE, id)
QR_DEMAND_SID(id) == Type(FALSE, TRUE, FALSE, id)
QR_DEMAND_RID(id) == Type(TRUE, FALSE, TRUE, id)  \* the macro says AUTO, not DEMAND
QR_AUTO_SID(id) == Type(FALSE, FALSE, TRUE, id)
QR_AUTO_RID(id) == Type(TRUE, FALSE, TRUE, id)

(* bd_quorum (absent until init) together with bd_quorum_cache: 0 is       *)
(* unknown, 1 have, -1 lack.  A database without quorum counts as having.  *)
NoQuorum ==
  [init |-> FALSE, cache |-> 0, present |-> <<>>, requirements |-> {}, flags |-> {},
   limit |-> 0, running |-> 0, qt_status |-> [s \in Status |-> 0], qt_left |-> -1]

quorum_be_init(q) ==
  IF q.init THEN q ELSE [NoQuorum EXCEPT !.init = TRUE, !.cache = 1]

quorum_be_destroy(q) == IF q.init THEN [NoQuorum EXCEPT !.cache = 1] ELSE q

quorum_invalidate(q) == [q EXCEPT !.cache = 0]

InvalidateIf(cond, q) == IF cond THEN quorum_invalidate(q) ELSE q

-----------------------------------------------------------------------------
(* The verdict.                                                            *)

quorum(total, wanna, ready) ==
  LET w == Min({total, wanna}) IN w # 0 /\ ready >= (w + 2 - (w % 2)) \div 2

Matching(q, r) ==
  {i \in DOMAIN q.present :
     (IF r.rid THEN q.present[i].rid ELSE q.present[i].sid) = r.id}

(* Only the first link that matches is looked at.                          *)
IsReady(q, r) ==
  \E i \in Matching(q, r) :
    (\A j \in Matching(q, r) : i <= j) /\ q.present[i].status >= READY

ReadyLinks(q) == {i \in DOMAIN q.present : q.present[i].status >= READY}

(* The local server votes for itself by being left out.                    *)
Counted(q, self) == {r \in q.requirements : r.rid \/ r.id # self}

(* lazy_update, as the set of its possible results: a demanded ID without  *)
(* a link is looked up in the terminator of the links array, whose status  *)
(* was never set.                                                          *)
lazy_update(q, self) ==
  LET total    == Len(q.present)
      counted  == Counted(q, self)
      Votes(k) == LET v == {r \in counted : r.rid = k}
                  IN quorum(total, Cardinality(v),
                            Cardinality({r \in v : IsReady(q, r)}))
      unmet    == {r \in counted : r.demand /\ ~IsReady(q, r)}
      sids     == Cardinality({r \in counted : ~r.rid})
      lack     == \/ "ALL_LINKS" \in q.flags /\ Cardinality(ReadyLinks(q)) < total
                  \/ \E r \in unmet : Matching(q, r) # {} \/ total = 0
                  \/ counted # {} /\ ~Votes(FALSE) /\ ~Votes(TRUE)
                  \/ "AUTO_SIDS" \in q.flags /\ total # 0 /\ ~quorum(total, total, sids)
  IN IF lack THEN {-1} ELSE IF unmet # {} THEN {-1, 1} ELSE {1}

(* quorum_query, on a write by a client: the results it may leave cached.  *)
quorum_query(q, self) ==
  IF q.cache # 0 THEN {q}
  ELSE {[q EXCEPT !.cache = v] : v \in IF q.init THEN lazy_update(q, self) ELSE {1}}

-----------------------------------------------------------------------------
(* Requirements.  There is at most one for each ID of a kind.              *)

Same(q, r) == {s \in q.requirements : s.id = r.id /\ s.rid = r.rid}

Appends(q, r) == \A s \in Same(q, r) : s.auto /\ ~r.auto

require_append(q, r) ==
  IF Appends(q, r) THEN [q EXCEPT !.requirements = (@ \ Same(q, r)) \cup {r}] ELSE q

(* Mutant: the mask ignores who added the requirement.                     *)
RemoveAny(q, rid, id) ==
  [q EXCEPT !.requirements = {r \in @ : ~(r.id = id /\ r.rid = rid)}]

(* require_remove with the type QR_FLAG_AUTO and the mask ~QR_FLAG_DEMAND. *)
require_remove(q, rid, id) ==
  [q EXCEPT !.requirements = {r \in @ : ~(r.id = id /\ r.rid = rid /\ r.auto)}]

(* require_auto_rids and require_auto_sids: the flag is set once and every *)
(* present link gets its requirement.                                      *)
AutoFlag(q, flag, reqs) ==
  LET new == {r \in reqs : Appends(q, r)}
  IN IF flag \in q.flags THEN q
     ELSE InvalidateIf(new # {}, [q EXCEPT !.flags = @ \cup {flag},
                                           !.requirements = @ \cup new])

require_auto_rids(q) ==
  AutoFlag(q, "AUTO_RIDS", {QR_AUTO_RID(q.present[i].rid) : i \in DOMAIN q.present})

require_auto_sids(q) ==
  AutoFlag(q, "AUTO_SIDS",
           {QR_AUTO_SID(q.present[i].sid) :
              i \in {j \in DOMAIN q.present : q.present[j].sid > -1}})

-----------------------------------------------------------------------------
(* Links.                                                                  *)

IndexOf(q, l) == {i \in DOMAIN q.present : q.present[i].key = l}

WithStatus(present, i, status) == [present EXCEPT ![i].status = status]
WithSid(present, i, sid) == [present EXCEPT ![i].sid = sid]

(* qt_status when one link more, or one less, has the status s.            *)
Inc(counts, s) == [counts EXCEPT ![s] = @ + 1]
Dec(counts, s) == [counts EXCEPT ![s] = @ - 1]

kick(q) ==
  [q EXCEPT !.qt_left = q.qt_status[DEAD] + q.qt_status[DIRTY]
                        + q.qt_status[REFRESH] + q.qt_status[PROCESS]]

quorum_query_status(q) ==
  LET i == quorum_be_init(q) IN IF i.qt_left = -1 THEN kick(i) ELSE i

(* The cache is invalidated only if the link brought a new requirement.    *)
quorum_add_rid(q, l) ==
  LET b == quorum_be_init(q)
      e == [key |-> l, rid |-> Rid[l], sid |-> -1, status |-> DIRTY]
      k == kick([b EXCEPT !.present = Append(@, e), !.qt_status = Inc(@, DIRTY)])
      r == QR_AUTO_RID(Rid[l])
      auto == "AUTO_RIDS" \in b.flags
  IN IF IndexOf(b, l) # {} THEN b
     ELSE InvalidateIf(auto /\ Appends(k, r), IF auto THEN require_append(k, r) ELSE k)

RemoveAt(s, i) == SubSeq(s, 1, i - 1) \o SubSeq(s, i + 1, Len(s))

quorum_remove_rid(q, l) ==
  IF IndexOf(q, l) = {} THEN q
  ELSE LET i == Min(IndexOf(q, l))
           p == q.present[i]
           a == IF p.sid > -1 /\ "AUTO_SIDS" \in q.flags
                THEN require_remove(q, FALSE, p.sid) ELSE q
           b == IF "AUTO_RIDS" \in q.flags THEN require_remove(a, TRUE, p.rid) ELSE a
       IN quorum_invalidate([kick([b EXCEPT !.qt_status = Dec(@, p.status)])
                               EXCEPT !.present = RemoveAt(@, i)])

quorum_notify_sid(q, l, sid) ==
  IF \A i \in IndexOf(q, l) : q.present[i].sid = sid THEN q
  ELSE LET i == Min(IndexOf(q, l))
           old == q.present[i].sid
           a == IF old > -1 THEN require_remove(q, FALSE, old) ELSE q
           b == IF sid > -1 THEN require_append(a, QR_AUTO_SID(sid)) ELSE a
       IN quorum_invalidate([(IF "AUTO_SIDS" \in q.flags THEN b ELSE q)
                               EXCEPT !.present = WithSid(@, i, sid)])

(* Mutant: the status is stored, its old counter keeps counting.           *)
NotifyUncounted(q, l, status) ==
  IF \A i \in IndexOf(q, l) : q.present[i].status = status THEN q
  ELSE LET i == Min(IndexOf(q, l))
       IN quorum_invalidate(kick([q EXCEPT !.qt_status = Inc(@, status),
                                           !.present = WithStatus(@, i, status)]))

(* Mutant: only becoming ready invalidates, not ceasing to be.             *)
NotifyReadyOnly(q, l, status) ==
  IF \A i \in IndexOf(q, l) : q.present[i].status = status THEN q
  ELSE LET i == Min(IndexOf(q, l))
           old == q.present[i].status
       IN InvalidateIf(old < READY /\ status >= READY,
            kick([q EXCEPT !.qt_status = Inc(Dec(@, old), status),
                           !.present = WithStatus(@, i, status)]))

(* The cache is invalidated only when the link crosses READY.              *)
quorum_notify_status(q, l, status) ==
  IF \A i \in IndexOf(q, l) : q.present[i].status = status THEN q
  ELSE LET i == Min(IndexOf(q, l))
           old == q.present[i].status
       IN InvalidateIf((old < READY) # (status < READY),
            kick([q EXCEPT !.qt_status = Inc(Dec(@, old), status),
                           !.present = WithStatus(@, i, status)]))

(* A CSN of a server not heard of before, from a merged cookie.            *)
quorum_notify_csn(q, sid) ==
  IF q.init /\ "AUTO_SIDS" \in q.flags
  THEN InvalidateIf(Appends(q, QR_AUTO_SID(sid)), require_append(q, QR_AUTO_SID(sid)))
  ELSE q

-----------------------------------------------------------------------------
(* config_quorum, one word or one ID of a list at a time.                  *)

ConfigRequire(q, r) ==
  LET b == quorum_be_init(q)
  IN InvalidateIf(Appends(b, r), require_append(b, r))

ConfigFlag(q, flag) ==
  LET b == quorum_be_init(q)
  IN CASE flag = "AUTO_RIDS" -> require_auto_rids(b)
       [] flag = "AUTO_SIDS" -> require_auto_sids(b)
       [] OTHER -> InvalidateIf(flag \notin b.flags, [b EXCEPT !.flags = @ \cup {flag}])

ConfigLimit(q, n) ==
  LET b == quorum_be_init(q) IN IF b.limit # 0 THEN b ELSE [b EXCEPT !.limit = n]

ConfigDelete(q) ==
  IF ~q.init THEN q
  ELSE [q EXCEPT !.flags = {}, !.requirements = {}, !.limit = 0,
                 !.cache = IF q.requirements # {} THEN 1 ELSE @]

-----------------------------------------------------------------------------
(* quorum_syncrepl_gate.                                                   *)

GateBusy(q) == q.limit # 0 /\ q.running >= q.limit

GateIn(q) == kick([quorum_be_init(q) EXCEPT !.running = @ + 1])

GateOut(q) == kick([quorum_be_init(q) EXCEPT !.running = @ - 1])
=============================================================================
