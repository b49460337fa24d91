------------------------------- MODULE CtxCsn -------------------------------
(***************************************************************************)
(* The pending-CSN list of one database (servers/slapd/ctxcsn.c) and the   *)
(* context CSN vector that the sync provider publishes from it             *)
(* (overlays/syncprov.c, syncprov_op_response).                            *)
(*                                                                         *)
(* A change sequence number is a pair: the server ID of the master that    *)
(* made the change and a timestamp.  Every write operation stamps or       *)
(* receives one, queues it on the list, commits the change in the database,*)
(* reports the commit to the provider and is removed from the list.  A     *)
(* consumer that holds the published vector asks only for later changes,   *)
(* so a change that lands at or behind the published value is lost for it. *)
(***************************************************************************)
EXTENDS Naturals, Sequences, FiniteSets

CONSTANTS Ops,       \* operations that may run at the same time
          Sids,      \* server IDs that appear in CSNs
          LocalSid,  \* slap_serverID
          MaxTs,     \* bound on timestamps
          NoOp       \* no operation

ASSUME CtxCsnAssumption ==
  /\ LocalSid \in Sids
  /\ MaxTs \in Nat
  /\ NoOp \notin Ops

VARIABLES
  clock,     \* last timestamp handed out by the local clock
  pc,        \* how far each operation has come
  csn,       \* the CSN of each operation (meaningful from "stamped" on)
  be_pending_csn_list,
  cookie,    \* si_cookie: the published timestamp for each SID, 0 if none
  stored,    \* CSNs of the changes committed in the database
  owner,     \* holder of the database's big lock
  biglock    \* TRUE where the configuration says `biglock local`

vars == <<clock, pc, csn, be_pending_csn_list, cookie, stored, owner, biglock>>

Csn == [sid : Sids, ts : Nat]

NoCsn == [sid |-> LocalSid, ts |-> 0]

Phase == {"idle", "begun", "stamped", "queued", "written", "answered", "failed"}

Entry == [op : Ops, csn : Csn, state : {"PENDING", "COMMIT"}]

List == be_pending_csn_list

-----------------------------------------------------------------------------
(* TAILQ operations, by position.                                          *)

InsertBefore(s, k, e) ==
  [i \in 1..(Len(s) + 1) |-> IF i < k THEN s[i] ELSE IF i = k THEN e ELSE s[i - 1]]

(* Mutant: the entry is freed but stays linked.                            *)
FreeLinked(s, k) == [s EXCEPT ![k].op = NoOp]

RemovePos(s, k) ==
  [i \in 1..(Len(s) - 1) |-> IF i < k THEN s[i] ELSE s[i + 1]]

-----------------------------------------------------------------------------
Init ==
  /\ clock = 0
  /\ pc = [o \in Ops |-> "idle"]
  /\ csn = [o \in Ops |-> NoCsn]
  /\ be_pending_csn_list = <<>>
  /\ cookie = [s \in Sids |-> 0]
  /\ stored = {}
  /\ owner = NoOp
  /\ biglock \in BOOLEAN

(* Mutant: the write does not wait for the big lock.                       *)
BeginUnlocked(o) ==
  /\ pc[o] = "idle"
  /\ owner' = IF biglock THEN o ELSE owner
  /\ pc' = [pc EXCEPT ![o] = "begun"]
  /\ UNCHANGED <<clock, csn, be_pending_csn_list, cookie, stored, biglock>>

(* slap_biglock_call_be: a write enters the backend under the big lock.    *)
Begin(o) ==
  /\ pc[o] = "idle"
  /\ biglock => owner = NoOp
  /\ owner' = IF biglock THEN o ELSE owner
  /\ pc' = [pc EXCEPT ![o] = "begun"]
  /\ UNCHANGED <<clock, csn, be_pending_csn_list, cookie, stored, biglock>>

(* slap_get_csn: the timestamp is taken outside be_pcl_mutex.              *)
Stamp(o) ==
  /\ pc[o] = "begun"
  /\ clock < MaxTs
  /\ clock' = clock + 1
  /\ csn' = [csn EXCEPT ![o] = [sid |-> LocalSid, ts |-> clock + 1]]
  /\ pc' = [pc EXCEPT ![o] = "stamped"]
  /\ UNCHANGED <<be_pending_csn_list, cookie, stored, owner, biglock>>

(* syncrepl: a replicated change keeps the CSN of the master that made it. *)
Receive(o) ==
  /\ pc[o] = "begun"
  /\ \E s \in Sids \ {LocalSid}, t \in 1..MaxTs :
       csn' = [csn EXCEPT ![o] = [sid |-> s, ts |-> t]]
  /\ pc' = [pc EXCEPT ![o] = "stamped"]
  /\ UNCHANGED <<clock, be_pending_csn_list, cookie, stored, owner, biglock>>

(* Where slap_queue_csn inserts: before the first entry of the same SID    *)
(* whose timestamp is larger, else at the tail.                            *)
Later(s, c) == {i \in 1..Len(s) : s[i].csn.sid = c.sid /\ c.ts < s[i].csn.ts}

(* Mutant: always queue at the tail.                                       *)
TailQueuePos(s, c, k) == k = Len(s) + 1

IsQueuePos(s, c, k) ==
  \/ /\ k \in Later(s, c)
     /\ \A i \in Later(s, c) : k <= i
  \/ /\ Later(s, c) = {}
     /\ k = Len(s) + 1

slap_queue_csn(o) ==
  /\ pc[o] = "stamped"
  /\ \E k \in 1..(Len(List) + 1) :
       /\ IsQueuePos(List, csn[o], k)
       /\ be_pending_csn_list' =
            InsertBefore(List, k, [op |-> o, csn |-> csn[o], state |-> "PENDING"])
  /\ pc' = [pc EXCEPT ![o] = "queued"]
  /\ UNCHANGED <<clock, csn, cookie, stored, owner, biglock>>

(* The backend commits the change.                                         *)
Write(o) ==
  /\ pc[o] = "queued"
  /\ stored' = stored \cup {csn[o]}
  /\ pc' = [pc EXCEPT ![o] = "written"]
  /\ UNCHANGED <<clock, csn, be_pending_csn_list, cookie, owner, biglock>>

(* The backend refuses the change, before or after its CSN was queued.     *)
Fail(o) ==
  /\ pc[o] \in {"begun", "queued"}
  /\ pc' = [pc EXCEPT ![o] = "failed"]
  /\ UNCHANGED <<clock, csn, be_pending_csn_list, cookie, stored, owner, biglock>>

(* slap_get_commit_csn: the operation marks its entry; the commit CSN is   *)
(* the last committed entry of its SID that has no pending entry of that   *)
(* SID before it and does not lie behind its own entry.                    *)
MarkCommit(s, o) ==
  [i \in 1..Len(s) |-> IF s[i].op = o THEN [s[i] EXCEPT !.state = "COMMIT"] ELSE s[i]]

(* Mutant: the last entry of the SID is taken, whatever its state.         *)
CommitTail(s, o, sid) == {i \in 1..Len(s) : s[i].csn.sid = sid}

(* Mutant: the scan does not stop at a pending entry.                      *)
CommitPastPending(s, o, sid) ==
  {i \in 1..Len(s) : s[i].csn.sid = sid /\ s[i].state = "COMMIT"}

CommitCandidates(s, o, sid) ==
  {i \in 1..Len(s) :
     /\ s[i].csn.sid = sid
     /\ s[i].state = "COMMIT"
     /\ \A j \in 1..(i - 1) : /\ s[j].csn.sid = sid => s[j].state = "COMMIT"
                              /\ s[j].op # o}

(* slap_cookie_merge_csn: the vector moves forward only.                   *)
slap_cookie_merge_csn(ck, sid, t) ==
  IF t > ck[sid] THEN [ck EXCEPT ![sid] = t] ELSE ck

(* syncprov_op_response for a successful write, under si_resp_mutex.       *)
syncprov_op_response(o) ==
  LET marked == MarkCommit(List, o)
      sid    == csn[o].sid
      cand   == CommitCandidates(marked, o, sid)
  IN /\ pc[o] = "written"
     /\ be_pending_csn_list' = marked
     /\ \/ /\ cand = {}
           /\ cookie' = cookie
        \/ \E k \in cand :
             /\ \A i \in cand : i <= k
             /\ cookie' = slap_cookie_merge_csn(cookie, sid, marked[k].csn.ts)
     /\ pc' = [pc EXCEPT ![o] = "answered"]
     /\ UNCHANGED <<clock, csn, stored, owner, biglock>>

(* slap_graduate_commit_csn, then the big lock is released.                *)
slap_graduate_commit_csn(o) ==
  /\ pc[o] \in {"answered", "failed"}
  /\ \/ \E k \in 1..Len(List) :
          /\ List[k].op = o
          /\ be_pending_csn_list' = RemovePos(List, k)
     \/ /\ \A k \in 1..Len(List) : List[k].op # o
        /\ UNCHANGED be_pending_csn_list
  /\ csn' = [csn EXCEPT ![o] = NoCsn]
  /\ owner' = IF biglock THEN NoOp ELSE owner
  /\ pc' = [pc EXCEPT ![o] = "idle"]
  /\ UNCHANGED <<clock, cookie, stored, biglock>>

Next ==
  \E o \in Ops :
    \/ Begin(o)
    \/ Stamp(o)
    \/ Receive(o)
    \/ slap_queue_csn(o)
    \/ Write(o)
    \/ Fail(o)
    \/ syncprov_op_response(o)
    \/ slap_graduate_commit_csn(o)

Spec == Init /\ [][Next]_vars

-----------------------------------------------------------------------------
TypeOK ==
  /\ clock \in Nat
  /\ pc \in [Ops -> Phase]
  /\ csn \in [Ops -> Csn]
  /\ be_pending_csn_list \in Seq(Entry)
  /\ cookie \in [Sids -> Nat]
  /\ stored \in SUBSET Csn
  /\ owner \in Ops \cup {NoOp}
  /\ biglock \in BOOLEAN

(* The entries of one SID stand in timestamp order: the assert(0) in       *)
(* slap_get_commit_csn is never reached, whatever order operations queue,  *)
(* commit and leave in.                                                    *)
PendingListOrdered ==
  \A i, j \in 1..Len(List) :
    (i < j /\ List[i].csn.sid = List[j].csn.sid) => List[i].csn.ts <= List[j].csn.ts

(* The step that publishes a new value for a SID leaves no queued change   *)
(* of that SID pending at a smaller timestamp: a consumer that takes the   *)
(* vector misses no change that slap_queue_csn had recorded.               *)
PublishOvertakesNoPending ==
  [][\A s \in Sids : cookie'[s] # cookie[s] =>
       \A i \in 1..Len(List') :
         (List'[i].csn.sid = s /\ List'[i].state = "PENDING")
            => List'[i].csn.ts >= cookie'[s]]_vars

(* The provider publishes only timestamps of changes that the database has *)
(* committed, never that of a queued or refused one.                       *)
PublishedIsStored ==
  \A s \in Sids : cookie[s] # 0 => [sid |-> s, ts |-> cookie[s]] \in stored

(* No local change is about to be committed at or behind the published     *)
(* timestamp.                                                              *)
NoWriteBehindCookie ==
  \A o \in Ops : (pc[o] \in {"stamped", "queued"} /\ csn[o].sid = LocalSid)
                    => csn[o].ts > cookie[LocalSid]

(* The vector of an idle database is exact: no stored change is newer than *)
(* what is published.                                                      *)
IdleCookieExact ==
  (\A o \in Ops : pc[o] = "idle") => \A c \in stored : c.ts <= cookie[c.sid]

(* Under the big lock no local change is ever committed at or behind the   *)
(* published timestamp, although slap_get_csn reads the clock before       *)
(* slap_queue_csn takes be_pcl_mutex, and the vector that                  *)
(* syncprov_op_response publishes covers every stored change whenever the  *)
(* database is idle.                                                       *)
LockedCookieExact == biglock => NoWriteBehindCookie /\ IdleCookieExact
=============================================================================
