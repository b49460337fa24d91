----------------------------- MODULE ReplLinks -----------------------------
(***************************************************************************)
(* The syncrepl consumers of one database (servers/slapd/syncrepl.c) and   *)
(* the quorum they report to.  Each link runs do_syncrepl again and again: *)
(* it connects, passes the refresh gate, starts a search, takes messages   *)
(* and reports its status; in between it is rescheduled, and it may be     *)
(* deleted by cn=config at any pause of the thread pool, its own thread    *)
(* being in the middle of a message included.  Clients' writes consult the *)
(* cached verdict at any moment.                                           *)
(***************************************************************************)
EXTENDS SlapQuorum

CONSTANTS Setups  \* what is configured and what may happen, see below

ASSUME ReplLinksAssumption ==
  Setups \subseteq
    [words : SUBSET ([flag : {"ALL_LINKS", "AUTO_RIDS", "AUTO_SIDS"}]
                     \cup [require : Requirement] \cup [limit : 1..15]),
     persist : BOOLEAN,   \* type=refreshAndPersist, else refreshOnly
     pause : BOOLEAN,     \* the pool may be paused while a link is busy
     old : BOOLEAN,       \* a provider may send an entry with a CSN that is too old
     delall : BOOLEAN,    \* cn=config may delete all links with one change
     reconf : BOOLEAN,    \* cn=config may delete the quorum line or change serverID
     sids : SUBSET SidSet]  \* the servers that cookies and CSNs name

VARIABLES
  q,              \* bd_quorum and bd_quorum_cache
  slap_serverID,
  si,             \* the syncinfo of each link
  setup           \* the member of Setups that this behaviour follows

moving == <<q, slap_serverID, si>>
vars == <<moving, setup>>

Pc == {"idle", "start", "gate", "admitted", "process", "message", "end", "leave"}
(* DONE stands for SYNC_NEED_RESTART too, which is treated alike.          *)
Rc == {"SUCCESS", "ERROR", "YIELD", "PAUSED", "DONE"}

(* wbe: registered with the quorum; beg: si_refreshBeg, inside the gate;   *)
(* ld: connected; search: si_search_started; done: si_refreshDone; got:    *)
(* si_got_present_list.                                                    *)
Syncinfo == [ctype : {"none", "configured", "deleted", "leaked"}, wbe : BOOLEAN,
             status : Status, beg : BOOLEAN, ld : BOOLEAN, search : BOOLEAN,
             done : BOOLEAN, got : BOOLEAN, pc : Pc, rc : Rc]

NoLink == [ctype |-> "none", wbe |-> FALSE, status |-> DIRTY, beg |-> FALSE, ld |-> FALSE,
           search |-> FALSE, done |-> FALSE, got |-> FALSE, pc |-> "idle", rc |-> "SUCCESS"]

Init ==
  /\ q = NoQuorum
  /\ slap_serverID = 0
  /\ si = [l \in Links |-> NoLink]
  /\ setup \in Setups

-----------------------------------------------------------------------------
(* syncrepl_notify_quorum decides with the link's own copy of the status.  *)
(* Mutant: a link that is not ready reports that it processes.             *)
NotifiesProcess(s, status) == s.wbe /\ s.status # status

Notifies(s, status) ==
  s.wbe /\ s.status # status /\ (status = PROCESS => s.status = READY)

StatusAfter(s, status) == IF Notifies(s, status) THEN status ELSE s.status

NotifyQuorum(l, status) ==
  IF Notifies(si[l], status) THEN quorum_notify_status(q, l, status) ELSE q

(* do_syncrepl: a link that runs for the first time registers.             *)
do_syncrepl(l) ==
  /\ si[l].pc = "idle"
  /\ si[l].ctype = "configured"
  /\ q' = IF si[l].wbe THEN q ELSE quorum_add_rid(q, l)
  /\ si' = [si EXCEPT ![l].wbe = TRUE,
                      ![l].status = IF si[l].wbe THEN si[l].status ELSE DIRTY,
                      ![l].pc = IF si[l].ld /\ si[l].search THEN "process" ELSE "start"]
  /\ UNCHANGED slap_serverID

(* syncrepl_start cannot connect.                                          *)
ConnectFails(l) ==
  /\ si[l].pc = "start" /\ ~si[l].ld
  /\ q' = NotifyQuorum(l, DEAD)
  /\ si' = [si EXCEPT ![l].status = StatusAfter(si[l], DEAD), ![l].search = FALSE,
                      ![l].got = FALSE, ![l].pc = "end", ![l].rc = "ERROR"]
  /\ UNCHANGED slap_serverID

(* syncrepl_start with a connection, up to the gate in syncrepl_resync_begin. *)
syncrepl_start(l) ==
  /\ si[l].pc = "start"
  /\ q' = NotifyQuorum(l, DIRTY)
  /\ si' = [si EXCEPT ![l].status = StatusAfter(si[l], DIRTY), ![l].ld = TRUE,
                      ![l].got = FALSE, ![l].done = FALSE, ![l].beg = FALSE,
                      ![l].pc = "gate"]
  /\ UNCHANGED slap_serverID

syncrepl_resync_begin(l) ==
  /\ si[l].pc = "gate"
  /\ \/ /\ GateBusy(q)
        /\ si' = [si EXCEPT ![l].pc = "end", ![l].rc = "YIELD"]
        /\ q' = q
     \/ /\ ~GateBusy(q)
        /\ si' = [si EXCEPT ![l].pc = "admitted"]
        /\ q' = GateIn(q)
  /\ UNCHANGED slap_serverID

(* The rest of syncrepl_resync_begin, and syncrepl_process_search.         *)
syncrepl_process_search(l) ==
  /\ si[l].pc = "admitted"
  /\ q' = NotifyQuorum(l, REFRESH)
  /\ \E sent \in BOOLEAN :
       si' = [si EXCEPT ![l].status = StatusAfter(si[l], REFRESH), ![l].beg = TRUE,
                        ![l].search = sent, ![l].rc = IF sent THEN si[l].rc ELSE "ERROR",
                        ![l].pc = IF sent THEN "process" ELSE "end"]
  /\ UNCHANGED slap_serverID

(* syncrepl_process gets a message.                                        *)
TakeMessage(l) ==
  /\ si[l].pc = "process"
  /\ q' = NotifyQuorum(l, PROCESS)
  /\ si' = [si EXCEPT ![l].status = StatusAfter(si[l], PROCESS), ![l].pc = "message"]
  /\ UNCHANGED slap_serverID

(* No message: the session is lost, or it persists and is quiet.  A quiet  *)
(* one fails if a present phase was required and there was none.           *)
NoMessage(l) ==
  /\ si[l].pc = "process"
  /\ \E rc \in {"SUCCESS", "ERROR"} :
       /\ rc = "SUCCESS" => setup.persist /\ si[l].done
       /\ si' = [si EXCEPT ![l].pc = "end", ![l].rc = rc]
  /\ UNCHANGED <<q, slap_serverID>>

(* The message: an entry, an ID set for the present list, the end of a     *)
(* refresh phase (DELETE keeps the present list, PRESENT consumes it), the *)
(* search result, an entry that is too old, or an error.                   *)
MessageEffect(s, kind) ==
  CASE kind = "ID_SET"          -> [s EXCEPT !.got = TRUE]
    [] kind = "REFRESH_DELETE"  -> [s EXCEPT !.done = TRUE]
    [] kind = "REFRESH_PRESENT" -> [s EXCEPT !.done = TRUE, !.got = FALSE]
    [] kind = "RESULT"          -> [s EXCEPT !.done = TRUE, !.got = s.got /\ setup.persist]
    [] OTHER                    -> s

(* syncrepl_process: what is left of the loop for one message.  The cookie *)
(* names the provider's server (syncrepl_eat_cookie).                      *)
syncrepl_process(l) ==
  /\ si[l].pc = "message"
  /\ \E kind \in {"ENTRY", "ID_SET", "REFRESH_DELETE", "REFRESH_PRESENT", "RESULT",
                  "TOO_OLD", "FAILED"},
        rc \in Rc :
       /\ CASE kind = "RESULT"  -> rc = "DONE"
            [] kind = "TOO_OLD" -> setup.old /\ rc = "SUCCESS"
            [] kind = "FAILED"  -> rc = "ERROR"
            [] OTHER            -> rc = "SUCCESS" \/ (setup.pause /\ rc = "PAUSED")
       /\ si' = [si EXCEPT ![l] =
                   [MessageEffect(si[l], kind) EXCEPT
                      !.rc = rc,
                      !.pc = IF rc = "SUCCESS" /\ kind # "TOO_OLD"
                             THEN "process" ELSE "end"]]
  /\ q' = q \/ \E sid \in setup.sids \ {slap_serverID} : q' = quorum_notify_sid(q, l, sid)
  /\ UNCHANGED slap_serverID

(* syncrepl_resync_end: SYNC_DONE is a success.                            *)
EndStatus(s, rc, status) ==
  IF rc \in {"SUCCESS", "DONE"}
  THEN status = IF (s.done \/ ~setup.persist) /\ ~s.got THEN READY ELSE DIRTY
  ELSE IF s.status = DEAD \/ ~s.ld THEN status = DEAD
  ELSE status \in {DIRTY} \cup (IF rc = "ERROR" THEN {DEAD} ELSE {})

syncrepl_resync_end(l) ==
  /\ si[l].pc = "end"
  /\ LET done == si[l].done \/ si[l].rc = "DONE"
     IN \E status \in Status :
          /\ EndStatus([si[l] EXCEPT !.done = done], si[l].rc, status)
          /\ q' = NotifyQuorum(l, status)
          /\ si' = [si EXCEPT ![l].status = StatusAfter(si[l], status),
                              ![l].done = done, ![l].pc = "leave"]
  /\ UNCHANGED slap_serverID

(* syncinfo_free: report death, leave the gate, leave the quorum.          *)
syncinfo_free(r, l) ==
  LET d == IF Notifies(si[l], DEAD) THEN quorum_notify_status(r, l, DEAD) ELSE r
  IN IF si[l].wbe THEN quorum_remove_rid(d, l) ELSE d

(* The rest of do_syncrepl: leave the gate, close the connection unless    *)
(* the session goes on, and free the link if it was deleted meanwhile.     *)
Leave(l) ==
  /\ si[l].pc = "leave"
  /\ LET out  == IF si[l].beg THEN GateOut(q) ELSE q
         stop == /\ si[l].rc \notin {"PAUSED", "YIELD"}
                 /\ setup.persist => si[l].rc # "SUCCESS"
     IN \/ /\ si[l].ctype = "deleted"
           /\ q' = syncinfo_free(out, l)
           /\ si' = [si EXCEPT ![l] = NoLink]
        \/ /\ si[l].ctype = "configured"
           /\ q' = out
           /\ si' = [si EXCEPT ![l].beg = FALSE, ![l].pc = "idle", ![l].rc = "SUCCESS",
                               ![l].ld = si[l].ld /\ ~stop,
                               ![l].search = si[l].search /\ ~stop]
  /\ UNCHANGED slap_serverID

-----------------------------------------------------------------------------
(* cn=config runs while the thread pool is paused: every link is between   *)
(* two runs, or waits inside the backend in the middle of a message.       *)

Paused == \A l \in Links : si[l].pc = "idle" \/ (setup.pause /\ si[l].pc = "message")

add_syncrepl(l) ==
  /\ Paused
  /\ si[l].ctype = "none"
  /\ si' = [si EXCEPT ![l] = [NoLink EXCEPT !.ctype = "configured"]]
  /\ UNCHANGED <<q, slap_serverID>>

(* config_syncrepl deletes one link: at once if its mutex is free, else    *)
(* the thread that holds it will.                                          *)
(* Mutant: the link goes without leaving the quorum.                       *)
DeleteSilently(l) ==
  /\ Paused
  /\ si[l].ctype = "configured"
  /\ si' = [si EXCEPT ![l] = IF si[l].pc = "idle" THEN NoLink
                             ELSE [@ EXCEPT !.ctype = "deleted"]]
  /\ UNCHANGED <<q, slap_serverID>>

DeleteLink(l) ==
  /\ Paused
  /\ si[l].ctype = "configured"
  /\ \/ /\ si[l].pc = "idle"
        /\ q' = syncinfo_free(q, l)
        /\ si' = [si EXCEPT ![l] = NoLink]
     \/ /\ si[l].pc # "idle"
        /\ q' = q
        /\ si' = [si EXCEPT ![l].ctype = "deleted"]
  /\ UNCHANGED slap_serverID

(* config_syncrepl deletes all (two) links: isrunning is set once for the  *)
(* whole loop, so what follows a running link is dropped but not freed.    *)
DeleteLinks ==
  /\ setup.delall /\ Paused
  /\ \E a, b \in Links :
       /\ a # b
       /\ si[a].ctype = "configured" /\ si[b].ctype = "configured"
       /\ \/ /\ si[a].pc = "idle" /\ si[b].pc = "idle"
             /\ q' = syncinfo_free(syncinfo_free(q, a), b)
             /\ si' = [si EXCEPT ![a] = NoLink, ![b] = NoLink]
          \/ /\ si[a].pc = "idle" /\ si[b].pc # "idle"
             /\ q' = syncinfo_free(q, a)
             /\ si' = [si EXCEPT ![a] = NoLink, ![b].ctype = "deleted"]
          \/ /\ si[a].pc # "idle"
             /\ q' = q
             /\ si' = [si EXCEPT ![a].ctype = "deleted",
                                 ![b].ctype = IF si[b].pc = "idle" THEN "leaked"
                                              ELSE "deleted"]
  /\ UNCHANGED slap_serverID

(* A word of the quorum line.                                              *)
config_quorum ==
  /\ Paused
  /\ \/ \E w \in setup.words :
          q' = CASE "flag" \in DOMAIN w    -> ConfigFlag(q, w.flag)
                 [] "require" \in DOMAIN w -> ConfigRequire(q, w.require)
                 [] OTHER                  -> ConfigLimit(q, w.limit)
     \/ setup.reconf /\ q' = ConfigDelete(q)
  /\ UNCHANGED <<slap_serverID, si>>

(* config_generic: a new serverID.                                         *)
quorum_notify_self_sid ==
  /\ Paused
  /\ setup.reconf
  /\ slap_serverID' \in setup.sids \cup {0}
  /\ q' = InvalidateIf(q.init, q)
  /\ UNCHANGED si

(* backend_destroy_one: the database goes when its links are gone.         *)
DestroyDatabase ==
  /\ Paused
  /\ \A l \in Links : si[l].ctype = "none"
  /\ q' = quorum_be_destroy(q)
  /\ UNCHANGED <<slap_serverID, si>>

-----------------------------------------------------------------------------
(* Clients: a write asks for the verdict, a search of the root entry for   *)
(* the status, a merged cookie brings the CSN of some server.              *)
Client ==
  /\ \/ q' \in quorum_query(q, slap_serverID)
     \/ q' = quorum_query_status(q)
     \/ \E sid \in setup.sids : q' = quorum_notify_csn(q, sid)
  /\ UNCHANGED <<slap_serverID, si>>

Next ==
  /\ \/ \E l \in Links :
          \/ do_syncrepl(l)
          \/ ConnectFails(l)
          \/ syncrepl_start(l)
          \/ syncrepl_resync_begin(l)
          \/ syncrepl_process_search(l)
          \/ TakeMessage(l)
          \/ NoMessage(l)
          \/ syncrepl_process(l)
          \/ syncrepl_resync_end(l)
          \/ Leave(l)
          \/ add_syncrepl(l)
          \/ DeleteLink(l)
     \/ DeleteLinks
     \/ config_quorum
     \/ quorum_notify_self_sid
     \/ DestroyDatabase
     \/ Client
  /\ UNCHANGED setup

Spec == Init /\ [][Next]_vars

-----------------------------------------------------------------------------
Present == [key : Links, rid : {Rid[l] : l \in Links}, sid : SidSet \cup {-1, 0},
            status : Status]

TypeOK ==
  /\ q.cache \in {-1, 0, 1}
  /\ q.present \in Seq(Present)
  /\ q.requirements \subseteq Requirement
  /\ q.limit \in 0..15
  /\ q.running \in Nat
  /\ q.qt_status \in [Status -> Nat]
  /\ slap_serverID \in SidSet \cup {0}
  /\ si \in [Links -> Syncinfo]

(* The status counters that the root entry shows, the number of links that *)
(* is left, the quorum's entry for a link and the link's own copy of its   *)
(* status agree through every way a link comes and goes; a link reports    *)
(* only when its own copy changes, so a drift would never be repaired.     *)
(* The gate counts the links that are inside: no place is lost and none is *)
(* given back twice (the assertion of quorum_syncrepl_gate).               *)
CountsMatch ==
  /\ TypeOK
  /\ \A s \in Status :
       q.qt_status[s] = Cardinality({i \in DOMAIN q.present : q.present[i].status = s})
  /\ q.qt_left # -1 =>
       q.qt_left = Cardinality({i \in DOMAIN q.present : q.present[i].status # READY})
  /\ \A i \in DOMAIN q.present :
       si[q.present[i].key].wbe => si[q.present[i].key].status = q.present[i].status
  /\ q.running = Cardinality({l \in Links : si[l].beg \/ si[l].pc = "admitted"})

(* A link is in the quorum exactly from its first run to its end, once,    *)
(* also when it is deleted in the middle of a message: then its thread     *)
(* frees it at the end of its run and leaves none deleted and idle.  Its   *)
(* vote is exact too: one requirement at most for an ID of a kind, and     *)
(* under auto-rids one for every link.                                     *)
RegisteredExactly ==
  /\ \A l \in Links : si[l].wbe <=> IndexOf(q, l) # {}
  /\ \A i, j \in DOMAIN q.present : q.present[i].key = q.present[j].key => i = j
  /\ \A l \in Links : si[l].ctype = "deleted" => si[l].pc # "idle"
  /\ \A r, s \in q.requirements : r.id = s.id /\ r.rid = s.rid => r = s
  /\ "AUTO_RIDS" \in q.flags =>
       \A i \in DOMAIN q.present : \E r \in q.requirements : r.rid /\ r.id = q.present[i].rid

(* A verdict that is right stays right or is invalidated, through every    *)
(* step of a link, a client or the configuration that neither registers a  *)
(* link nor changes a flag; the code does not invalidate at these two.     *)
VerdictKept ==
  [][(/\ <<q', slap_serverID'>> # <<q, slap_serverID>>  \* else it keeps trivially
      /\ q.init /\ q'.init /\ q'.cache # 0
      /\ q'.flags = q.flags
      /\ \A l \in Links : IndexOf(q', l) # {} => IndexOf(q, l) # {}
      /\ q.cache # 0 => q.cache \in lazy_update(q, slap_serverID))
       => q'.cache \in lazy_update(q', slap_serverID')]_vars

(* Under all-links a database has its quorum only while every link is      *)
(* ready.                                                                  *)
AllLinksReady ==
  ("ALL_LINKS" \in q.flags /\ q.cache = 1) => ReadyLinks(q) = DOMAIN q.present

(* What the configuration requires stays required while links come, go and *)
(* change their SID; only deleting the line removes it.  require-rids is   *)
(* stored like an automatic requirement and is not meant here.             *)
ExplicitKept ==
  [][\A r \in q.requirements :
       (~r.auto /\ q'.init /\ q'.requirements # {}) => r \in q'.requirements]_vars

(* A link of type refreshAndPersist counts as ready only when its refresh  *)
(* has ended.                                                              *)
ReadyMeansRefreshed ==
  setup.persist => \A l \in Links : (si[l].wbe /\ si[l].status >= READY) => si[l].done
=============================================================================
