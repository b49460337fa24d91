--------------------------- MODULE Psearch_proofs ---------------------------
(***************************************************************************)
(* The records of the persistent searches are safe: no user of a record is *)
(* left behind when it is freed (ReferencesHeld), and a consumer that the  *)
(* server ends is disconnected (EndedIsKicked).  Every consumer gets the   *)
(* changes in the order in which they were published, each of them once    *)
(* (NothingLost).  The state of the overlay is destroyed when nobody needs *)
(* it any more (Drained).                                                  *)
(*                                                                         *)
(* TypeOK comes first, one lemma for each group of steps.                  *)
(*                                                                         *)
(* RInv is the inductive invariant of the records.  It says of each search *)
(* which bits of s_flags go with which of its users (RecordAt), of each    *)
(* change that the search it looks at is listed or marked UNLINK           *)
(* (PickedAt) and that it holds si_ops_mutex exactly while it walks over   *)
(* the list (LocksAt), and that s_matchops_inuse is no smaller than the    *)
(* number of changes that refer to the search (Counted).                   *)
(*                                                                         *)
(* OInv adds for the order that si_active counts at least the changes      *)
(* under way, so that none is half published for a search that is being    *)
(* registered; that one change publishes at a time, the holder of          *)
(* si_resp_mutex (RespAt); that before its execution a change remembers    *)
(* every live search that matches (RememberedAt), which is what a deletion *)
(* relies on; and that what was published for a search is what is on its   *)
(* way to the consumer, and the change being published if the change has   *)
(* still to come to that search (PublishedAt).                             *)
(*                                                                         *)
(* DInv adds for the destruction that a change is in the queue of its      *)
(* entry only from its turn to its cleanup, and once (Turns), and what the *)
(* destruction leaves behind (Over).                                       *)
(***************************************************************************)
EXTENDS Psearch, TLAPS

(* The leaves are proved by Zenon, except those that cite another prover.  *)
USE ZenonT(60)

SyncTyped ==
  /\ flags \in [Searches -> SUBSET (Refs \cup Status)]
  /\ si_ops \subseteq Searches /\ freed \subseteq Searches /\ c_ops \subseteq Searches
  /\ kicked \subseteq Searches /\ stray \subseteq Searches

(* syncprov_unlink_syncop keeps the types of a search's record, its lists  *)
(* and its flags.                                                          *)
LEMMA UnlinkTyped ==
  ASSUME TypeOK, NEW s \in Searches, NEW U, NEW l \in BOOLEAN,
         Unlink(s, U, l) \/ UnlinkWaits(s, U) \/ UnlinkResumes(s, U)
  PROVE  SyncTyped'
<1> USE DEF TypeOK, SyncTyped
<1>1. Kept(s, U) \subseteq flags[s]
  BY DEF Kept
<1>2. CASE Unlink(s, U, l)
  <2>1. PICK f \in SUBSET (Refs \cup Status) : flags' = [flags EXCEPT ![s] = f]
    BY <1>1, <1>2 DEF Unlink, Release, Refs
  <2>2. /\ si_ops' \subseteq Searches /\ freed' \subseteq Searches /\ c_ops' \subseteq Searches
        /\ kicked' \subseteq Searches /\ stray' \subseteq Searches
    BY <1>2 DEF Unlink, Release, Unlisted, LeaveConn
  <2> QED BY <2>1, <2>2
<1>3. CASE UnlinkWaits(s, U)
  BY <1>3 DEF UnlinkWaits, Unlisted, Refs
<1>4. CASE UnlinkResumes(s, U)
  BY <1>4 DEF UnlinkResumes, LeaveConn, Release
<1> QED BY <1>2, <1>3, <1>4

SearchPc == {"new", "wait", "prepare", "refresh", "detach", "abort", "done", "undefined"}

TaskPc == {"none", "queued", "sending", "ending", "killing", "unlinking"}

QuitPc == {"none", "abandon", "cancel", "unlink", "cleanup", "done"}

MutexPc == {"free", "search", "abandon"}

(* So does every step of the thread of a search, from syncprov_op_search   *)
(* to the end of its refresh.                                              *)
LEMMA SearchTyped ==
  ASSUME TypeOK, NEW s \in Searches, SearchStep(s) \/ QuitStep(s) \/ MarkAbandoned(s)
  PROVE  TypeOK'
<1> USE DEF sync, conn, play, walk, mods
<1>p. /\ search \in [Searches -> SearchPc] /\ task \in [Searches -> TaskPc]
      /\ quitter \in [Searches -> QuitPc] /\ c_mutex \in [Searches -> MutexPc]
  BY DEF TypeOK, SearchPc, TaskPc, QuitPc, MutexPc
<1>s. SyncTyped
  BY DEF TypeOK, SyncTyped
<1>1. CASE syncprov_op_search(s)
  BY <1>1 DEF syncprov_op_search, TypeOK
<1>2. CASE Register(s)
  BY ZenonT(60), <1>2 DEF Register, TypeOK, Refs, Status
<1>3. CASE Bailout(s)
  <2>1. SyncTyped'
    BY <1>3, UnlinkTyped DEF Bailout
  <2> QED BY <1>3, <2>1 DEF Bailout, TypeOK, SyncTyped
<1>4. CASE Prepared(s)
  <2>1. SyncTyped'
    <3>1. CASE Unlink(s, {"PREPARE"}, FALSE)
      BY <3>1, UnlinkTyped
    <3>2. CASE /\ flags' = [flags EXCEPT ![s] = @ \ {"PREPARE"}]
               /\ UNCHANGED <<si_ops, freed, c_ops, kicked, stray>>
      BY <1>s, <3>2 DEF SyncTyped
    <3> QED BY <1>4, <3>1, <3>2 DEF Prepared
  <2>2. search' \in [Searches -> SearchPc]
    BY <1>4, <1>p DEF Prepared, SearchPc
  <2> QED BY <1>4, <2>1, <2>2 DEF Prepared, TypeOK, SyncTyped, SearchPc
<1>5. CASE RefreshEnds(s)
  <2>1. search' \in [Searches -> SearchPc] /\ c_mutex' \in [Searches -> MutexPc]
    BY <1>5, <1>p DEF RefreshEnds, SearchPc, MutexPc
  <2> QED BY <1>5, <2>1 DEF RefreshEnds, TypeOK, SearchPc, MutexPc
<1>6. CASE Detach(s)
  <2>1. search' \in [Searches -> SearchPc] /\ c_mutex' \in [Searches -> MutexPc]
    BY <1>6, <1>p DEF Detach, SearchPc, MutexPc
  <2>2. task' \in [Searches -> TaskPc]
    BY <1>6, <1>p DEF Detach, Enqueue, TaskPc
  <2>3. SyncTyped'
    <3>1. flags' = flags \/ \E f \in SUBSET (Refs \cup Status) : flags' = [flags EXCEPT ![s] = f]
      BY <1>6, <1>s DEF Detach, Enqueue, Refs, Status, SyncTyped
    <3>2. /\ c_ops' \subseteq Searches /\ UNCHANGED <<si_ops, freed, kicked, stray>>
      BY <1>6, <1>s DEF Detach, SyncTyped
    <3> QED BY <1>s, <3>1, <3>2 DEF SyncTyped
  <2> QED BY ZenonT(60), <1>6, <2>1, <2>2, <2>3 DEF Detach, TypeOK, SyncTyped, SearchPc, TaskPc, MutexPc
<1>7. CASE Abort(s)
  <2>1. SyncTyped'
    BY <1>7, <1>s, UnlinkTyped DEF Abort, SyncTyped
  <2>2. search' \in [Searches -> SearchPc] /\ c_mutex' \in [Searches -> MutexPc]
    BY <1>7, <1>p DEF Abort, SearchPc, MutexPc
  <2>3. s_inuse' = s_inuse
    BY <1>7 DEF Abort
  <2> QED BY <1>7, <2>1, <2>2, <2>3 DEF Abort, TypeOK, SyncTyped, SearchPc, MutexPc
<1>8. CASE RegisterTooLate(s)
  BY <1>8 DEF RegisterTooLate, TypeOK
<1>9. CASE MarkAbandoned(s)
  <2>1. quitter' \in [Searches -> QuitPc] /\ c_mutex' \in [Searches -> MutexPc]
    BY <1>9, <1>p DEF MarkAbandoned, QuitPc, MutexPc
  <2> QED BY ZenonT(60), <1>9, <2>1 DEF MarkAbandoned, TypeOK, QuitPc, MutexPc
<1>10. CASE syncprov_op_abandon(s)
  <2>1. quitter' \in [Searches -> QuitPc] /\ c_mutex' \in [Searches -> MutexPc]
    BY <1>10, <1>p DEF syncprov_op_abandon, Unlocked, QuitPc, MutexPc
  <2>2. SyncTyped'
    BY SMT, <1>10, <1>s DEF syncprov_op_abandon, Refs, Status, SyncTyped
  <2> QED BY <1>10, <2>1, <2>2 DEF syncprov_op_abandon, TypeOK, SyncTyped, QuitPc, MutexPc
<1>11. CASE AbandonUnlinks(s)
  <2>1. SyncTyped'
    BY <1>11, UnlinkTyped DEF AbandonUnlinks
  <2>2. quitter' \in [Searches -> QuitPc] /\ c_mutex' \in [Searches -> MutexPc]
    BY <1>11, <1>p DEF AbandonUnlinks, QuitPc, MutexPc
  <2> QED BY <1>11, <2>1, <2>2 DEF AbandonUnlinks, TypeOK, SyncTyped, QuitPc, MutexPc
<1> QED BY <1>1, <1>2, <1>3, <1>4, <1>5, <1>6, <1>7, <1>8, <1>9, <1>10, <1>11
        DEF SearchStep, QuitStep

(* So does every step of the playback task, of syncprov_op_abandon and of  *)
(* the Cancel cleanup.                                                     *)
LEMMA TaskTyped ==
  ASSUME TypeOK, NEW s \in Searches, TaskStep(s)
  PROVE  TypeOK'
<1> USE DEF sync, conn, play, walk, mods
<1>p. /\ task \in [Searches -> TaskPc] /\ s_rl \in [Searches -> Seq(Changes)]
      /\ flying \in [Searches -> Seq(Changes)] /\ sent \in [Searches -> Seq(Changes)]
  BY DEF TypeOK, TaskPc
<1>s. flags \in [Searches -> SUBSET (Refs \cup Status)]
  BY DEF TypeOK
<1>r. ASSUME NEW f \in SUBSET (Refs \cup Status), Settle(s, f)
      PROVE  /\ flags' \in [Searches -> SUBSET (Refs \cup Status)]
             /\ task' \in [Searches -> TaskPc] /\ s_rl' \in [Searches -> Seq(Changes)]
  <2>1. <<>> \in Seq(Changes)
    BY SMT
  <2> QED BY <1>p, <1>s, <1>r, <2>1 DEF Settle, TaskPc
<1>1. CASE syncprov_playback_dequeue(s)
  <2>1. CASE s_rl[s] = <<>>
    <3>1. Settle(s, flags[s]) /\ flags[s] \in SUBSET (Refs \cup Status)
      BY <1>1, <1>s, <2>1 DEF syncprov_playback_dequeue
    <3>2. /\ flags' \in [Searches -> SUBSET (Refs \cup Status)]
          /\ task' \in [Searches -> TaskPc] /\ s_rl' \in [Searches -> Seq(Changes)]
      BY <1>r, <3>1
    <3> QED BY <1>1, <2>1, <3>2 DEF syncprov_playback_dequeue, TypeOK, TaskPc
  <2>2. CASE s_rl[s] # <<>>
    <3>1. <<Head(s_rl[s])>> \in Seq(Changes) /\ Tail(s_rl[s]) \in Seq(Changes)
      BY SMT, <1>p, <2>2
    <3>2. /\ flying' \in [Searches -> Seq(Changes)] /\ s_rl' \in [Searches -> Seq(Changes)]
          /\ task' \in [Searches -> TaskPc] /\ flags' = flags
      BY <1>1, <1>p, <2>2, <3>1 DEF syncprov_playback_dequeue, TaskPc
    <3> QED BY <1>1, <3>2 DEF syncprov_playback_dequeue, TypeOK, TaskPc
  <2> QED BY <2>1, <2>2
<1>2. CASE syncprov_sendresp(s)
  <2>1. PICK f \in SUBSET (Refs \cup Status) : Settle(s, f)
    BY <1>2, <1>s DEF syncprov_sendresp, Status
  <2>2. /\ flags' \in [Searches -> SUBSET (Refs \cup Status)]
        /\ task' \in [Searches -> TaskPc] /\ s_rl' \in [Searches -> Seq(Changes)]
    BY <1>r, <2>1
  <2>3. /\ sent[s] \o flying[s] \in Seq(Changes) /\ <<>> \in Seq(Changes)
        /\ sent' = [sent EXCEPT ![s] = sent[s] \o flying[s]] \/ sent' = sent
        /\ flying' = [flying EXCEPT ![s] = <<>>]
    BY SMT, <1>2, <1>p DEF syncprov_sendresp
  <2>4. sent' \in [Searches -> Seq(Changes)] /\ flying' \in [Searches -> Seq(Changes)]
    BY <1>p, <2>3
  <2> QED BY <1>2, <2>2, <2>4 DEF syncprov_sendresp, TypeOK, TaskPc
<1>3. CASE PlaybackEnds(s)
  <2>1. SyncTyped'
    BY <1>3, UnlinkTyped DEF PlaybackEnds
  <2>2. task' \in [Searches -> TaskPc]
    BY <1>3, <1>p DEF PlaybackEnds, TaskPc
  <2> QED BY <1>3, <2>1, <2>2 DEF PlaybackEnds, TypeOK, SyncTyped, TaskPc
<1> QED BY <1>1, <1>2, <1>3 DEF TaskStep

ChangePc == {"new", "queue", "turn", "gone", "match", "look", "test", "kill", "killing", "act",
             "forget", "execute", "tell", "clean", "drop", "free", "done"}

(* The label, the searches and the choices of a change.                    *)
WalkTyped ==
  /\ change \in [Changes -> ChangePc] /\ smatches \in [Changes -> SUBSET Searches]
  /\ todo \in [Changes -> SUBSET Searches] /\ at \in [Changes -> Searches \cup {Nobody}]
  /\ found \in [Changes -> BOOLEAN] /\ si_ops_mutex \in Changes \cup {Nobody}

(* So does every step of syncprov_matchops at one search, and what the     *)
(* response and the cleanup do for one remembered search.                  *)
LEMMA WalkStepTyped ==
  ASSUME TypeOK, NEW w \in Changes, NEW s \in Searches,
         \/ Look(w, s) \/ TellDelete(w, s) \/ DropMatch(w, s)
         \/ at[w] = s /\ (Test(w) \/ Kill(w) \/ Act(w) \/ Forget(w))
  PROVE  TypeOK'
<1> USE DEF sync, conn, play, walk, mods
<1>p. WalkTyped /\ s_inuse \in [Searches -> Int]
  BY DEF TypeOK, WalkTyped, ChangePc
<1>s. SyncTyped
  BY DEF TypeOK, SyncTyped
<1>n. ASSUME NextSearch(w), UNCHANGED <<smatches, todo, si_ops_mutex>>
      PROVE  WalkTyped'
  BY <1>p, <1>n DEF NextSearch, WalkTyped, ChangePc
<1>q. ASSUME syncprov_qresp(w, s)
      PROVE  /\ flags' \in [Searches -> SUBSET (Refs \cup Status)] /\ late' \subseteq Searches
             /\ task' \in [Searches -> TaskPc] /\ s_rl' \in [Searches -> Seq(Changes)]
  <2>1. /\ task \in [Searches -> TaskPc] /\ s_rl \in [Searches -> Seq(Changes)]
        /\ late \subseteq Searches /\ flags \in [Searches -> SUBSET (Refs \cup Status)]
    BY DEF TypeOK, TaskPc
  <2>2. Append(s_rl[s], w) \in Seq(Changes)
    BY SMT, <2>1
  <2>3. /\ s_rl' = s_rl \/ s_rl' = [s_rl EXCEPT ![s] = Append(s_rl[s], w)]
        /\ task' = task \/ task' = [task EXCEPT ![s] = "queued"]
        /\ late' = late \/ late' = late \cup {s}
    BY <1>q DEF syncprov_qresp, Enqueue
  <2>4. flags' = flags \/ \E f \in SUBSET (Refs \cup Status) : flags' = [flags EXCEPT ![s] = f]
    BY <1>q, <2>1 DEF syncprov_qresp, Enqueue, Refs, Status
  <2>5. flags' \in [Searches -> SUBSET (Refs \cup Status)]
    BY <2>1, <2>4
  <2>6. task' \in [Searches -> TaskPc] /\ s_rl' \in [Searches -> Seq(Changes)]
    BY ZenonT(60), <2>1, <2>2, <2>3 DEF TaskPc
  <2> QED BY <2>1, <2>3, <2>5, <2>6
<1>m. ASSUME UnlinkMatch(s)
      PROVE  s_inuse' \in [Searches -> Int] /\ SyncTyped'
  <2>1. s_inuse' \in [Searches -> Int]
    BY SMT, <1>p, <1>m DEF UnlinkMatch
  <2>2. freed' \subseteq Searches /\ UNCHANGED <<si_ops, c_ops, kicked, stray>>
    BY <1>s, <1>m DEF UnlinkMatch, Release, SyncTyped
  <2>3. flags' = flags \/ flags' = [flags EXCEPT ![s] = flags[s] \ {"OP_MATCH"}]
    BY <1>m DEF UnlinkMatch, Release
  <2> QED BY <1>s, <2>1, <2>2, <2>3 DEF SyncTyped
<1>1. CASE Look(w, s)
  <2>1. flags' \in [Searches -> SUBSET (Refs \cup Status)]
    <3>1. flags' = flags \/ \E f \in SUBSET (Refs \cup Status) : flags' = [flags EXCEPT ![s] = f]
      BY <1>1, <1>s DEF Look, Refs, Status, SyncTyped
    <3> QED BY <1>s, <3>1 DEF SyncTyped
  <2>2. todo' \in [Changes -> SUBSET Searches] /\ smatches' \in [Changes -> SUBSET Searches]
    BY SMT, <1>1, <1>p DEF Look, WalkTyped
  <2>3. at' \in [Changes -> Searches \cup {Nobody}] /\ change' \in [Changes -> ChangePc]
    BY <1>1, <1>p DEF Look, WalkTyped, ChangePc
  <2>4. found' = found \/ \E b \in BOOLEAN : found' = [found EXCEPT ![w] = b]
    BY <1>1 DEF Look
  <2>5. found' \in [Changes -> BOOLEAN]
    BY <1>p, <2>4 DEF WalkTyped
  <2> QED BY <1>1, <2>1, <2>2, <2>3, <2>5 DEF Look, TypeOK, ChangePc
<1>2. CASE TellDelete(w, s)
  <2>1. todo' \in [Changes -> SUBSET Searches]
    BY <1>2, <1>p DEF TellDelete, WalkTyped
  <2> QED BY <1>2, <1>q, <2>1 DEF TellDelete, TypeOK, TaskPc
<1>3. CASE DropMatch(w, s)
  <2>1. smatches' \in [Changes -> SUBSET Searches]
    BY <1>3, <1>p DEF DropMatch, WalkTyped
  <2> QED BY <1>3, <1>m, <2>1 DEF DropMatch, TypeOK, SyncTyped
<1>4. CASE at[w] = s /\ Test(w)
  <2>1. WalkTyped'
    BY <1>4, <1>n, <1>p DEF Test, WalkTyped, ChangePc
  <2>2. stray' \subseteq Searches
    BY <1>4, <1>s DEF Test, SyncTyped
  <2> QED BY <1>4, <2>1, <2>2 DEF Test, TypeOK, WalkTyped, ChangePc
<1>5. CASE at[w] = s /\ Kill(w)
  <2>1. WalkTyped'
    BY <1>5, <1>n, <1>p DEF Kill, WalkTyped, ChangePc
  <2>2. SyncTyped'
    BY <1>5, UnlinkTyped DEF Kill
  <2> QED BY <1>5, <2>1, <2>2 DEF Kill, TypeOK, WalkTyped, SyncTyped, ChangePc
<1>6. CASE at[w] = s /\ Act(w)
  <2>1. /\ change' \in [Changes -> ChangePc] /\ at' \in [Changes -> Searches \cup {Nobody}]
        /\ found' \in [Changes -> BOOLEAN]
    <3>1. CASE NextSearch(w)
      BY <1>p, <3>1 DEF NextSearch, WalkTyped, ChangePc
    <3>2. CASE change' = [change EXCEPT ![w] = "forget"] /\ UNCHANGED <<at, found>>
      BY <1>p, <3>2 DEF WalkTyped, ChangePc
    <3> QED BY <1>6, <3>1, <3>2 DEF Act
  <2>2. /\ flags' \in [Searches -> SUBSET (Refs \cup Status)] /\ late' \subseteq Searches
        /\ task' \in [Searches -> TaskPc] /\ s_rl' \in [Searches -> Seq(Changes)]
    <3>1. CASE saveit(w)
      <4>1. /\ flags' = flags \/ flags' = [flags EXCEPT ![s] = flags[s] \cup {"OP_MATCH"}]
            /\ UNCHANGED <<s_rl, task, late>>
        BY <1>6, <3>1 DEF Act
      <4>2. flags' \in [Searches -> SUBSET (Refs \cup Status)]
        BY ZenonT(60), <1>s, <4>1 DEF SyncTyped, Refs
      <4> QED BY <4>1, <4>2 DEF TypeOK, TaskPc
    <3>2. CASE ~saveit(w)
      BY <1>6, <1>q, <3>2 DEF Act
    <3> QED BY <3>1, <3>2
  <2>3. s_inuse' \in [Searches -> Int] /\ smatches' \in [Changes -> SUBSET Searches]
    BY SMT, <1>6, <1>p DEF Act, WalkTyped
  <2> QED BY <1>6, <2>1, <2>2, <2>3 DEF Act, TypeOK, ChangePc, TaskPc
<1>7. CASE at[w] = s /\ Forget(w)
  <2>1. WalkTyped'
    BY <1>7, <1>n DEF Forget
  <2> QED BY <1>7, <1>m, <2>1 DEF Forget, TypeOK, WalkTyped, SyncTyped, ChangePc
<1> QED BY <1>1, <1>2, <1>3, <1>4, <1>5, <1>6, <1>7

(* So does every other step of a change, from syncprov_op_mod to the end   *)
(* of syncprov_op_cleanup.                                                 *)
LEMMA QueueStepTyped ==
  ASSUME TypeOK, NEW w \in Changes,
         \/ syncprov_op_mod(w) \/ QueueUp(w) \/ TurnComes(w) \/ GiveUp(w) \/ syncprov_matchops(w)
         \/ Looked(w) \/ Fail(w) \/ syncprov_op_response(w) \/ Told(w)
         \/ syncprov_op_cleanup(w) \/ LeaveQueue(w) \/ FreeTarget(w)
  PROVE  TypeOK'
<1> USE DEF sync, conn, play, walk, mods
<1>c. /\ change \in [Changes -> ChangePc] /\ todo \in [Changes -> SUBSET Searches]
      /\ smatches \in [Changes -> SUBSET Searches] /\ due \in [Searches -> Seq(Changes)]
      /\ smt \in [Changes -> Entries \cup {Nobody}] /\ si_ops \subseteq Searches
  BY DEF TypeOK, ChangePc
<1>e. Entry(w) \in Entries /\ si_mods \in [Entries -> Seq(Changes)]
  BY DEF TypeOK, Entry, Jobs
<1>d. ASSUME NEW e \in Entries, Dequeue(w, e)
      PROVE  si_mods' \in [Entries -> Seq(Changes)]
  <2>1. PICK i \in 1 .. Len(si_mods[e]) :
          si_mods' = [si_mods EXCEPT ![e] = SubSeq(@, 1, i - 1) \o SubSeq(@, i + 1, Len(@))]
    BY <1>d DEF Dequeue
  <2>2. si_mods[e] \in Seq(Changes) /\ i \in 1 .. Len(si_mods[e])
    BY <1>e
  <2>3. SubSeq(si_mods[e], 1, i - 1) \in Seq(Changes)
    BY SMT, <2>2
  <2>4. SubSeq(si_mods[e], i + 1, Len(si_mods[e])) \in Seq(Changes)
    BY SMT, <2>2
  <2>5. SubSeq(si_mods[e], 1, i - 1) \o SubSeq(si_mods[e], i + 1, Len(si_mods[e])) \in Seq(Changes)
    BY SMT, <2>3, <2>4
  <2> QED BY <1>e, <2>1, <2>5
<1>1. CASE syncprov_op_mod(w)
  BY SMTT(60), <1>1 DEF syncprov_op_mod, TypeOK
<1>2. CASE QueueUp(w)
  <2>1. Append(si_mods[Entry(w)], w) \in Seq(Changes)
    BY SMT, <1>e
  <2>2. si_mods' \in [Entries -> Seq(Changes)]
    BY <1>2, <1>e, <2>1 DEF QueueUp
  <2> QED BY <1>2, <1>e, <2>2 DEF QueueUp, TypeOK
<1>3. CASE TurnComes(w)
  BY <1>3, <1>e DEF TurnComes, TypeOK
<1>4. CASE GiveUp(w)
  BY <1>4, <1>d, <1>e DEF GiveUp, TypeOK
<1>5. CASE syncprov_matchops(w)
  BY <1>5 DEF syncprov_matchops, TypeOK
<1>6. CASE Looked(w)
  BY ZenonT(60), <1>6 DEF Looked, TypeOK
<1>7. CASE Fail(w)
  BY <1>7 DEF Fail, TypeOK
<1>8. CASE syncprov_op_response(w)
  <2>1. \A t \in Searches : Append(due[t], w) \in Seq(Changes)
    BY SMT, <1>c
  <2>2. due' \in [Searches -> Seq(Changes)]
    BY <1>8, <1>c, <2>1 DEF syncprov_op_response
  <2>3. change' \in [Changes -> ChangePc] /\ todo' \in [Changes -> SUBSET Searches]
    BY <1>8, <1>c DEF syncprov_op_response, ChangePc
  <2>4. si_resp_mutex' \in Changes \cup {Nobody}
    BY <1>8 DEF syncprov_op_response, TypeOK
  <2> QED BY <1>8, <2>2, <2>3, <2>4 DEF syncprov_op_response, TypeOK, ChangePc
<1>9. CASE Told(w)
  BY <1>9 DEF Told, TypeOK
<1>10. CASE syncprov_op_cleanup(w)
  BY SMT, <1>10 DEF syncprov_op_cleanup, TypeOK
<1>11. CASE LeaveQueue(w)
  <2>1. si_mods' \in [Entries -> Seq(Changes)]
    BY <1>11, <1>c, <1>d, <1>e DEF LeaveQueue
  <2>2. change' \in [Changes -> ChangePc]
    BY <1>11, <1>c DEF LeaveQueue, ChangePc
  <2> QED BY <1>11, <2>1, <2>2 DEF LeaveQueue, TypeOK, ChangePc
<1>12. CASE FreeTarget(w)
  BY <1>12 DEF FreeTarget, TypeOK
<1> QED BY <1>1, <1>2, <1>3, <1>4, <1>5, <1>6, <1>7, <1>8, <1>9, <1>10, <1>11, <1>12

(* So do syncprov_db_close and syncprov_db_destroy.                        *)
LEMMA CloseTyped ==
  ASSUME TypeOK, syncprov_db_close \/ syncprov_db_destroy
  PROVE  TypeOK'
<1> USE DEF sync, conn, play, walk, mods
<1>1. CASE syncprov_db_close
  <2>1. SyncTyped /\ task \in [Searches -> TaskPc]
    BY DEF TypeOK, SyncTyped, TaskPc
  <2>2. flags' \in [Searches -> SUBSET (Refs \cup Status)]
    BY <1>1, <2>1 DEF syncprov_db_close, SyncTyped, Status
  <2>3. task' \in [Searches -> TaskPc]
    BY <1>1, <2>1 DEF syncprov_db_close, TaskPc
  <2>4. /\ si_ops' \subseteq Searches /\ freed' \subseteq Searches /\ c_ops' \subseteq Searches
        /\ kicked' \subseteq Searches
    BY <1>1, <2>1 DEF syncprov_db_close, SyncTyped
  <2> QED BY <1>1, <2>2, <2>3, <2>4 DEF syncprov_db_close, TypeOK, TaskPc
<1>2. CASE syncprov_db_destroy
  BY <1>2 DEF syncprov_db_destroy, TypeOK
<1> QED BY <1>1, <1>2

----------------------------------------------------------------------------

(* Labels at which a change holds si_ops_mutex, and has picked a search.   *)
Busy == {"test", "kill", "killing", "act", "forget"}

Walking == Busy \cup {"look"}

LocksAt(w) ==
  /\ si_ops_mutex = w <=> change[w] \in Walking
  /\ at[w] # Nobody <=> change[w] \in Busy
  /\ found[w] => at[w] # Nobody /\ at[w] \notin smatches[w]
  /\ change[w] = "forget" => found[w]

Locks == \A w \in Changes : LocksAt(w)

(* A search before its registration has no bits.                           *)
UnbornAt(s) == search[s] \in {"new", "wait"} => flags[s] = {} /\ s \notin freed

BitsAt(s) ==
  /\ search[s] = "prepare" => "PREPARE" \in flags[s]
  /\ search[s] \notin {"done", "undefined"} => "DETACHED" \notin flags[s]
  /\ task[s] # "none" => "PLAYBACK" \in flags[s] /\ "DETACHED" \in flags[s]
  /\ task[s] = "unlinking" => "UNLINK" \in flags[s]
  /\ quitter[s] \in {"unlink", "cleanup"} => "ABANDON" \in flags[s]
  /\ s \in si_ops => "OP_SEARCH" \in flags[s]
  /\ "UNLINK" \in flags[s] => s \notin si_ops
  /\ s \in freed => flags[s] \cap Refs = {}
  /\ "OP_MATCH" \in flags[s] <=> s_inuse[s] > 0

ConnectedAt(s) ==
  /\ s \in abandoned => quitter[s] # "none"
  /\ "ABANDON" \in flags[s] => quitter[s] # "none"
  /\ s \in c_ops => "DETACHED" \in flags[s] /\ ("OP_SEARCH" \in flags[s] \/ "UNLINK" \in flags[s])
  /\ "DETACHED" \in flags[s] => s \in c_ops \/ s \in kicked \/ quitter[s] # "none"

RecordAt(s) == UnbornAt(s) /\ BitsAt(s) /\ ConnectedAt(s)

Records == \A s \in Searches : RecordAt(s)

PickedAt(w) ==
  at[w] # Nobody =>
    IF change[w] = "killing" THEN "UNLINK" \in flags[at[w]] /\ task[at[w]] # "unlinking"
                             ELSE at[w] \in si_ops

Picked == \A w \in Changes : PickedAt(w)

Counted == \A s \in Searches : s_inuse[s] >= Cardinality(Users(s))

RInv == TypeOK /\ Locks /\ Records /\ Picked /\ Counted

-----------------------------------------------------------------------------
(* What syncprov_unlink_syncop may do to the record of a search: it takes  *)
(* bits away, no others than it was told to, and frees the record only     *)
(* with the last of them.                                                  *)
Trimmed(s, U) ==
  /\ flags' \in [Searches -> SUBSET (Refs \cup Status)]
  /\ \A t \in Searches : t # s => flags'[t] = flags[t]
  /\ \A b \in flags'[s] : b \in flags[s]
  /\ \A b \in Refs \cup Status : b \in flags[s] /\ b \notin U /\ b # "REFRESHING" => b \in flags'[s]
  /\ \A t \in Searches : t # s => (t \in si_ops' <=> t \in si_ops)
  /\ s \in si_ops' => s \in si_ops /\ "OP_SEARCH" \in flags'[s]
  /\ "OP_SEARCH" \notin U => si_ops' = si_ops
  /\ \A t \in Searches : t # s => (t \in freed' <=> t \in freed)
  /\ s \in freed' => flags'[s] \cap Refs = {}
  /\ \A t \in Searches : t # s => (t \in c_ops' <=> t \in c_ops)
  /\ s \in c_ops' => s \in c_ops /\ ("OP_SEARCH" \in flags'[s] \/ "UNLINK" \in flags'[s])
  /\ \A t \in Searches : t # s => (t \in kicked' <=> t \in kicked)
  /\ s \in kicked => s \in kicked'
  /\ s \in c_ops => s \in c_ops' \/ s \in kicked' \/ "ABANDON" \in flags[s]
  /\ si_ops' \subseteq Searches /\ freed' \subseteq Searches /\ c_ops' \subseteq Searches
  /\ kicked' \subseteq Searches /\ stray' \subseteq Searches

(* syncprov_unlink_syncop, where it does not wait for c_mutex, is such a   *)
(* step.                                                                   *)
LEMMA UnlinkTrims ==
  ASSUME TypeOK, Records, NEW s \in Searches, NEW U \in SUBSET Refs,
         NEW l \in BOOLEAN, "UNLINK" \notin U, Unlink(s, U, l)
  PROVE  Trimmed(s, U)
<1>1. flags' \in [Searches -> SUBSET (Refs \cup Status)]
  <2>1. Kept(s, U) \subseteq flags[s] /\ "OP_SEARCH" \in Refs
    BY DEF Kept, Refs
  <2>2. PICK f \in SUBSET (Refs \cup Status) : flags' = [flags EXCEPT ![s] = f]
    BY ZenonT(60), <2>1 DEF TypeOK, Unlink, Release
  <2> QED BY <2>2 DEF TypeOK
<1>2. CASE ~OnConn(s, U) /\ Release(s, Kept(s, U)) /\ UNCHANGED <<c_ops, kicked, stray>>
  <2>1. /\ flags'[s] = Kept(s, U) /\ si_ops' = Unlisted(s, U) /\ c_ops' = c_ops
        /\ kicked' = kicked /\ stray' = stray /\ \A t \in Searches : t # s => flags'[t] = flags[t]
        /\ freed' = IF Kept(s, U) \cap Refs = {} THEN freed \cup {s} ELSE freed
    BY <1>2 DEF TypeOK, Release, Unlink
  <2>2. CASE Hit(s, U)
    BY ZenonT(60), <1>1, <1>2, <2>1, <2>2
       DEF TypeOK, Records, RecordAt, BitsAt, ConnectedAt, Trimmed, Kept, Hit, Unlisted, OnConn, Refs
  <2>3. CASE ~Hit(s, U)
    <3>1. /\ flags'[s] = flags[s] \ U /\ si_ops' = si_ops
          /\ "OP_SEARCH" \in flags[s] => "OP_SEARCH" \notin U
      BY <2>1, <2>3 DEF Kept, Hit, Unlisted
    <3>2. s \in freed' => flags'[s] \cap Refs = {}
      BY <2>1, <3>1 DEF Records, RecordAt, BitsAt
    <3>3. s \in c_ops' => "OP_SEARCH" \in flags'[s] \/ "UNLINK" \in flags'[s]
      BY <2>1, <3>1 DEF Records, RecordAt, ConnectedAt
    <3> QED BY <1>1, <2>1, <3>1, <3>2, <3>3 DEF Trimmed, Records, RecordAt, BitsAt, TypeOK
  <2> QED BY <2>2, <2>3
<1>3. CASE OnConn(s, U) /\ LeaveConn(s) /\ Release(s, Kept(s, U)) /\ UNCHANGED stray
  BY SMTT(60), <1>1, <1>3
     DEF TypeOK, Records, RecordAt, BitsAt, Unlink, Trimmed, Kept, Release, Hit, Unlisted, OnConn, LeaveConn
<1>4. CASE /\ OnConn(s, U) /\ Release(s, Kept(s, U) \cup {"OP_SEARCH"})
           /\ stray' = (IF s \in si_ops THEN stray \cup {s} ELSE stray)
           /\ UNCHANGED <<c_ops, kicked>>
  BY SMTT(60), <1>1, <1>4
     DEF TypeOK, Records, RecordAt, BitsAt, Unlink, Trimmed, Kept, Release, Hit, Unlisted, OnConn, Refs
<1> QED BY <1>2, <1>3, <1>4 DEF Unlink

(* So is its second half, after the wait for c_mutex, which also takes the *)
(* bit UNLINK back.                                                        *)
LEMMA ResumeTrims ==
  ASSUME TypeOK, Records, NEW s \in Searches, NEW U \in SUBSET Refs, "UNLINK" \in flags[s],
         UnlinkResumes(s, U)
  PROVE  Trimmed(s, U \cup {"UNLINK"}) /\ si_ops' = si_ops /\ s \notin si_ops
<1>1. flags' \in [Searches -> SUBSET (Refs \cup Status)]
  BY DEF TypeOK, UnlinkResumes, Release
<1> QED
  BY ZenonT(60), <1>1 DEF TypeOK, Records, RecordAt, BitsAt, UnlinkResumes, Trimmed, Release, LeaveConn

-----------------------------------------------------------------------------
(* A step that concerns one search and no change.                          *)
Same(t) ==
  /\ flags'[t] = flags[t] /\ task'[t] = task[t] /\ search'[t] = search[t]
  /\ quitter'[t] = quitter[t] /\ s_inuse'[t] = s_inuse[t]
  /\ t \in si_ops' <=> t \in si_ops
  /\ t \in freed' <=> t \in freed
  /\ t \in abandoned' <=> t \in abandoned
  /\ t \in c_ops' <=> t \in c_ops
  /\ t \in kicked' <=> t \in kicked

Side(s) ==
  /\ UNCHANGED <<change, smatches, at, found, si_ops_mutex, s_inuse>>
  /\ \A t \in Searches : t # s => Same(t)
  /\ s \in si_ops /\ s \notin si_ops' => si_ops_mutex = Nobody
  /\ "UNLINK" \in flags[s] /\ "UNLINK" \notin flags'[s] => task[s] = "unlinking"
  /\ task'[s] = "unlinking" => task[s] = "unlinking" \/ "UNLINK" \notin flags[s]

(* The record of a search after some of its bits have been taken away.     *)
LEMMA TrimmedRecord ==
  ASSUME NEW s \in Searches, NEW U \in SUBSET Refs, RecordAt(s), Trimmed(s, U),
         search[s] \notin {"new", "wait"},
         "OP_MATCH" \notin U, UNCHANGED <<s_inuse, abandoned>>,
         search'[s] = search[s] \/ search'[s] = "done",
         task'[s] = task[s] \/ task'[s] = "none",
         quitter'[s] = quitter[s] \/ quitter'[s] = "done",
         "PREPARE" \in U => search'[s] # "prepare", "PLAYBACK" \in U => task'[s] = "none",
         "UNLINK" \in U => task'[s] # "unlinking" /\ s \notin si_ops',
         "ABANDON" \in U => quitter'[s] \notin {"unlink", "cleanup"}
  PROVE  RecordAt(s)'
<1>1. UnbornAt(s)'
  BY DEF RecordAt, UnbornAt
<1>2. BitsAt(s)'
  BY ZenonT(60) DEF RecordAt, BitsAt, Trimmed, Refs, Status
<1>3. ConnectedAt(s)'
  BY DEF RecordAt, ConnectedAt, Trimmed, Refs, Status
<1> QED BY <1>1, <1>2, <1>3 DEF RecordAt

(* The other records stay in order.                                        *)
LEMMA OthersSame ==
  ASSUME Records, NEW s \in Searches, \A t \in Searches : t # s => Same(t), RecordAt(s)'
  PROVE  Records'
  BY SMT DEF Records, RecordAt, UnbornAt, BitsAt, ConnectedAt, Same

(* Such a step keeps the invariant if the record of its search stays in    *)
(* order.                                                                  *)
LEMMA SideInv ==
  ASSUME RInv, NEW s \in Searches, Side(s), TypeOK', RecordAt(s)'
  PROVE  RInv'
<1> USE DEF RInv
<1>1. Locks'
  BY DEF Locks, LocksAt, Side
<1>2. Records'
  BY OthersSame DEF Side
<1>3. Picked'
  <2> SUFFICES ASSUME NEW w \in Changes, at[w] # Nobody
               PROVE  PickedAt(w)'
    BY DEF Picked, PickedAt, Side
  <2>1. at[w] \in Searches /\ si_ops_mutex = w /\ w # Nobody
    BY SMT, PsearchAssumption DEF TypeOK, Locks, LocksAt, Walking
  <2>2. PickedAt(w)
    BY DEF Picked
  <2>3. CASE at[w] # s
    BY <2>1, <2>2, <2>3 DEF PickedAt, Side, Same
  <2>4. CASE at[w] = s
    BY <2>1, <2>2, <2>4 DEF PickedAt, Side
  <2> QED BY <2>3, <2>4
<1>4. Counted'
  BY DEF Counted, Users, Side
<1> QED BY <1>1, <1>2, <1>3, <1>4

(* The thread of a search keeps the records in order (syncprov_op_search,  *)
(* syncprov_search_response, syncprov_detach_op).                          *)
LEMMA SearchInv ==
  ASSUME RInv, NEW s \in Searches, SearchStep(s)
  PROVE  RInv'
<1> USE DEF sync, conn, play, walk, mods
<1>t. TypeOK'
  BY SearchTyped DEF RInv
<1>r. RecordAt(s) /\ s \in Searches /\ Records /\ TypeOK
  BY DEF RInv, Records
<1>f. /\ flags \in [Searches -> SUBSET (Refs \cup Status)] /\ task \in [Searches -> TaskPc]
      /\ search \in [Searches -> SearchPc]
  BY <1>r DEF TypeOK, TaskPc, SearchPc
<1>1. CASE syncprov_op_search(s) \/ RegisterTooLate(s)
  <2>1. /\ UNCHANGED <<flags, s_inuse, si_ops, freed, c_ops, kicked, task, quitter, abandoned>>
        /\ search[s] \in {"new", "wait"} /\ search'[s] \in {"wait", "undefined"}
        /\ \A t \in Searches : t # s => search'[t] = search[t]
    BY <1>1, <1>f DEF syncprov_op_search, RegisterTooLate
  <2>2. RecordAt(s)'
    BY <1>r, <2>1 DEF RecordAt, UnbornAt, BitsAt, ConnectedAt
  <2>3. Side(s)
    BY <1>1, <2>1 DEF Side, Same, syncprov_op_search, RegisterTooLate
  <2> QED BY <1>t, <2>2, <2>3, SideInv
<1>2. CASE Register(s)
  <2>1. /\ flags[s] = {} /\ flags'[s] = {"REFRESHING", "PREPARE", "OP_SEARCH"}
        /\ search'[s] = "prepare" /\ s \in si_ops' /\ s \notin freed
        /\ \A t \in Searches : t # s => flags'[t] = flags[t] /\ search'[t] = search[t]
    BY <1>2, <1>f, <1>r DEF Register, RecordAt, UnbornAt
  <2>2. RecordAt(s)'
    BY <1>2, <1>r, <2>1 DEF Register, RecordAt, UnbornAt, BitsAt, ConnectedAt
  <2>3. Side(s)
    BY <1>2, <2>1 DEF Side, Same, Register
  <2> QED BY SMT, <1>t, <2>2, <2>3, SideInv
<1>3. CASE /\ search[s] = "prepare" /\ search' = [search EXCEPT ![s] = "done"]
           /\ UNCHANGED <<s_inuse, conn, play, walk, mods>>
           /\ \/ Unlink(s, {"PREPARE", "OP_SEARCH"}, FALSE) /\ si_ops_mutex = Nobody
              \/ Unlink(s, {"PREPARE"}, FALSE)
  <2>1. PICK U \in {{"PREPARE", "OP_SEARCH"}, {"PREPARE"}} :
          Trimmed(s, U) /\ ("OP_SEARCH" \in U => si_ops_mutex = Nobody)
    BY <1>3, <1>r, UnlinkTrims DEF Refs
  <2>2. search'[s] = "done" /\ \A t \in Searches : t # s => search'[t] = search[t]
    BY <1>3, <1>f
  <2>3. RecordAt(s)'
    BY <1>3, <1>r, <2>1, <2>2, TrimmedRecord DEF Refs
  <2>4. Side(s)
    BY <1>3, <1>r, <2>1, <2>2 DEF Side, Same, Trimmed, Refs, Status
  <2> QED BY <1>t, <2>3, <2>4, SideInv
<1>4. CASE Prepared(s) /\ "OP_SEARCH" \in flags[s]
  <2>1. /\ flags'[s] = flags[s] \ {"PREPARE"} /\ search'[s] = "refresh"
        /\ UNCHANGED <<s_inuse, si_ops, freed, c_ops, kicked, task, quitter, abandoned>>
        /\ \A t \in Searches : t # s => flags'[t] = flags[t] /\ search'[t] = search[t]
        /\ search[s] = "prepare"
    BY <1>4, <1>f DEF Prepared
  <2>2. RecordAt(s)'
    BY <1>4, <1>r, <2>1 DEF RecordAt, UnbornAt, BitsAt, ConnectedAt, Refs
  <2>3. Side(s)
    BY <1>4, <2>1 DEF Side, Same, Prepared
  <2> QED BY SMT, <1>t, <2>2, <2>3, SideInv
<1>5. CASE RefreshEnds(s) \/ ((Detach(s) \/ Abort(s)) /\ s \in freed) \/ (Detach(s) /\ is_syncops_abandoned(s))
  <2>1. /\ UNCHANGED <<flags, s_inuse, si_ops, freed, c_ops, kicked, task, quitter, abandoned>>
        /\ search[s] \notin {"new", "wait", "prepare"}
        /\ search'[s] \notin {"new", "wait", "prepare"}
        /\ \A t \in Searches : t # s => search'[t] = search[t]
        /\ search[s] \notin {"done", "undefined"}
    BY <1>5, <1>f DEF RefreshEnds, Detach, Abort
  <2>2. RecordAt(s)'
    BY <1>r, <2>1 DEF RecordAt, UnbornAt, BitsAt, ConnectedAt
  <2>3. Side(s)
    BY <1>5, <2>1 DEF Side, Same, RefreshEnds, Detach, Abort
  <2> QED BY SMT, <1>t, <2>2, <2>3, SideInv
<1>6. CASE Detach(s) /\ s \notin freed /\ ~is_syncops_abandoned(s)
  <2> DEFINE f == (flags[s] \ {"REFRESHING"}) \cup {"DETACHED"}
  <2>1. /\ \/ flags' = [flags EXCEPT ![s] = f] /\ task' = task
           \/ flags' = [flags EXCEPT ![s] = f \cup {"PLAYBACK"}] /\ task' = [task EXCEPT ![s] = "queued"]
        /\ c_ops' = c_ops \cup {s} /\ search' = [search EXCEPT ![s] = "done"]
        /\ UNCHANGED <<s_inuse, si_ops, freed, kicked, quitter, abandoned, change, smatches, at,
                       found, si_ops_mutex>>
    BY <1>6 DEF Detach, Enqueue
  <2>2. /\ \A b : b \notin {"REFRESHING", "DETACHED", "PLAYBACK"} => (b \in flags'[s] <=> b \in flags[s])
        /\ "DETACHED" \in flags'[s] /\ search'[s] = "done"
        /\ "PLAYBACK" \in flags[s] => "PLAYBACK" \in flags'[s]
        /\ \/ task'[s] = task[s]
           \/ task'[s] = "queued" /\ "PLAYBACK" \in flags'[s]
        /\ \A t \in Searches : t # s => /\ flags'[t] = flags[t] /\ search'[t] = search[t]
                                        /\ task'[t] = task[t]
    BY SMT, <1>f, <2>1
  <2>3. RecordAt(s)'
    BY <1>6, <1>r, <2>1, <2>2 DEF RecordAt, UnbornAt, BitsAt, ConnectedAt, is_syncops_abandoned
  <2>4. Side(s)
    BY <2>1, <2>2 DEF Side, Same
  <2> QED BY SMT, <1>t, <2>3, <2>4, SideInv
<1>7. CASE Abort(s) /\ s \notin freed
  <2>1. Trimmed(s, {"OP_SEARCH"})
    BY <1>7, <1>r, UnlinkTrims DEF Abort, Refs
  <2>2. /\ search'[s] = "done" /\ \A t \in Searches : t # s => search'[t] = search[t]
        /\ si_ops_mutex = Nobody
        /\ UNCHANGED <<s_inuse, change, smatches, at, found, si_ops_mutex, task, quitter, abandoned>>
    BY <1>7, <1>f DEF Abort
  <2>3. search[s] \notin {"new", "wait"}
    BY <1>7, <1>r DEF Abort
  <2>4. RecordAt(s)'
    BY <1>r, <2>1, <2>2, <2>3, TrimmedRecord DEF Refs
  <2>5. Side(s)
    BY <1>r, <2>1, <2>2 DEF Side, Same, Trimmed, Refs, Status
  <2> QED BY SMT, <1>t, <2>4, <2>5, SideInv
<1> QED BY <1>1, <1>2, <1>3, <1>4, <1>5, <1>6, <1>7 DEF SearchStep, Bailout, Prepared

(* The playback task keeps the records in order                            *)
(* (syncprov_playback_dequeue, syncprov_sendresp).                         *)
LEMMA TaskInv ==
  ASSUME RInv, NEW s \in Searches, TaskStep(s)
  PROVE  RInv'
<1> USE DEF sync, conn, play, walk, mods
<1>t. TypeOK'
  BY TaskTyped DEF RInv
<1>r. RecordAt(s) /\ s \in Searches /\ Records /\ TypeOK
  BY SMT DEF RInv, Records
<1>f. flags \in [Searches -> SUBSET (Refs \cup Status)] /\ task \in [Searches -> TaskPc]
  BY <1>r DEF TypeOK, TaskPc
<1>1. CASE syncprov_playback_dequeue(s) \/ syncprov_sendresp(s)
  <2>1. /\ flags' = flags \/ flags' = [flags EXCEPT ![s] = flags[s]]
                          \/ flags' = [flags EXCEPT ![s] = flags[s] \cup {"DEAD"}]
        /\ \E p \in {"sending", "killing", "ending", "queued"} : task' = [task EXCEPT ![s] = p]
        /\ task[s] \in {"queued", "sending"}
        /\ UNCHANGED <<s_inuse, si_ops, freed, c_ops, kicked, search, quitter, abandoned, change,
                       smatches, at, found, si_ops_mutex>>
    BY <1>1 DEF syncprov_playback_dequeue, syncprov_sendresp, Settle
  <2>2. /\ \A b : b # "DEAD" => (b \in flags'[s] <=> b \in flags[s])
        /\ task'[s] \notin {"none", "unlinking"}
        /\ \A t \in Searches : t # s => flags'[t] = flags[t] /\ task'[t] = task[t]
    BY ZenonT(60), <1>f, <2>1
  <2>3. RecordAt(s)'
    BY <1>r, <2>1, <2>2 DEF RecordAt, UnbornAt, BitsAt, ConnectedAt, Refs
  <2>4. Side(s)
    BY <2>1, <2>2 DEF Side, Same
  <2> QED BY SMT, <1>t, <2>3, <2>4, SideInv
<1>2. CASE PlaybackEnds(s) /\ task'[s] = "none"
  <2>1. /\ \A t \in Searches : t # s => task'[t] = task[t]
        /\ UNCHANGED <<s_inuse, search, quitter, abandoned, change, smatches, at, found, si_ops_mutex>>
    BY <1>2, <1>f DEF PlaybackEnds
  <2>4. search[s] \notin {"new", "wait"}
    BY <1>2, <1>r DEF PlaybackEnds, RecordAt, BitsAt, UnbornAt
  <2>2. CASE \/ Unlink(s, {"PLAYBACK"}, FALSE)
             \/ Unlink(s, {"PLAYBACK", "OP_SEARCH"}, FALSE) /\ si_ops_mutex = Nobody
    <3>1. PICK U \in {{"PLAYBACK", "OP_SEARCH"}, {"PLAYBACK"}} :
            Trimmed(s, U) /\ ("OP_SEARCH" \in U => si_ops_mutex = Nobody)
      BY <1>r, <2>2, UnlinkTrims DEF Refs
    <3>2. RecordAt(s)'
      BY <1>2, <1>r, <2>1, <2>4, <3>1, TrimmedRecord DEF Refs
    <3>3. Side(s)
      BY <1>2, <1>r, <2>1, <3>1 DEF Side, Same, Trimmed, Refs, Status
    <3> QED BY <1>t, <3>2, <3>3, SideInv
  <2>3. CASE task[s] = "unlinking" /\ UnlinkResumes(s, {"PLAYBACK", "OP_SEARCH"})
    <3>1. "UNLINK" \in flags[s]
      BY <1>r, <2>3 DEF RecordAt, BitsAt
    <3>2. Trimmed(s, {"PLAYBACK", "OP_SEARCH"} \cup {"UNLINK"}) /\ si_ops' = si_ops /\ s \notin si_ops
      BY <1>r, <2>3, <3>1, ResumeTrims DEF Refs
    <3>3. RecordAt(s)'
      BY <1>2, <1>r, <2>1, <2>4, <3>2, TrimmedRecord DEF Refs
    <3>4. Side(s)
      BY <1>2, <1>r, <2>1, <2>3, <3>2 DEF Side, Same, Trimmed
    <3> QED BY SMT, <1>t, <3>3, <3>4, SideInv
  <2> QED BY <1>2, <1>f, <2>2, <2>3 DEF PlaybackEnds
<1>3. CASE PlaybackEnds(s) /\ task'[s] # "none"
  <2>1. /\ UnlinkWaits(s, {"PLAYBACK", "OP_SEARCH"}) /\ si_ops_mutex = Nobody
        /\ task[s] = "killing" /\ task'[s] = "unlinking"
        /\ \A t \in Searches : t # s => task'[t] = task[t]
        /\ UNCHANGED <<s_inuse, search, quitter, abandoned, change, smatches, at, found, si_ops_mutex>>
    BY <1>3, <1>f DEF PlaybackEnds
  <2>2. /\ \A b : b \notin {"REFRESHING", "UNLINK"} => (b \in flags'[s] <=> b \in flags[s])
        /\ "UNLINK" \in flags'[s] /\ "UNLINK" \notin flags[s]
        /\ \A t \in Searches : t # s => flags'[t] = flags[t]
        /\ si_ops' = si_ops \ {s} /\ UNCHANGED <<freed, c_ops, kicked>>
    BY <1>f, <2>1 DEF UnlinkWaits, OnConn, Unlisted
  <2>3. RecordAt(s)'
    BY <1>r, <2>1, <2>2 DEF RecordAt, UnbornAt, BitsAt, ConnectedAt, Refs
  <2>4. Side(s)
    BY <2>1, <2>2 DEF Side, Same
  <2> QED BY SMT, <1>t, <2>3, <2>4, SideInv
<1> QED BY <1>1, <1>2, <1>3 DEF TaskStep

(* Abandon and Cancel keep the records in order (syncprov_op_abandon,      *)
(* syncprov_ab_cleanup).                                                   *)
LEMMA QuitInv ==
  ASSUME RInv, NEW s \in Searches, QuitStep(s) \/ MarkAbandoned(s)
  PROVE  RInv'
<1> USE DEF sync, conn, play, walk, mods
<1>t. TypeOK'
  BY SearchTyped DEF RInv
<1>r. RecordAt(s) /\ s \in Searches /\ Records /\ TypeOK
  BY DEF RInv, Records
<1>f. flags \in [Searches -> SUBSET (Refs \cup Status)] /\ quitter \in [Searches -> QuitPc]
  BY <1>r DEF TypeOK, QuitPc
<1>1. CASE MarkAbandoned(s)
  <2>1. /\ quitter'[s] \in {"abandon", "cancel"} /\ abandoned' = abandoned \cup {s}
        /\ \A t \in Searches : t # s => quitter'[t] = quitter[t]
        /\ UNCHANGED <<flags, s_inuse, si_ops, freed, c_ops, kicked, search, task, change, smatches,
                       at, found, si_ops_mutex>>
    BY <1>1, <1>f DEF MarkAbandoned
  <2>2. RecordAt(s)'
    BY <1>r, <2>1 DEF RecordAt, UnbornAt, BitsAt, ConnectedAt
  <2>3. Side(s)
    BY <2>1 DEF Side, Same
  <2> QED BY <1>t, <2>2, <2>3, SideInv
<1>2. CASE syncprov_op_abandon(s)
  <2>1. /\ quitter'[s] \in {"unlink", "cleanup", "done"} /\ si_ops_mutex = Nobody
        /\ \A t \in Searches : t # s => quitter'[t] = quitter[t] /\ flags'[t] = flags[t]
        /\ \/ s \in si_ops /\ flags'[s] = flags[s] \cup {"DEAD", "ABANDON"} /\ si_ops' = si_ops \ {s}
           \/ flags'[s] = flags[s] /\ si_ops' = si_ops /\ quitter'[s] = "done"
        /\ UNCHANGED <<s_inuse, freed, c_ops, kicked, search, task, abandoned, change, smatches, at,
                       found, si_ops_mutex>>
    BY <1>2, <1>f DEF syncprov_op_abandon
  <2>2. RecordAt(s)'
    BY <1>r, <2>1 DEF RecordAt, UnbornAt, BitsAt, ConnectedAt, Refs
  <2>3. Side(s)
    BY <2>1 DEF Side, Same
  <2> QED BY SMT, <1>t, <2>2, <2>3, SideInv
<1>3. CASE AbandonUnlinks(s)
  <2>1. Trimmed(s, {"OP_SEARCH", "ABANDON"})
    BY <1>3, <1>r, UnlinkTrims DEF AbandonUnlinks, Refs
  <2>2. /\ quitter'[s] = "done" /\ \A t \in Searches : t # s => quitter'[t] = quitter[t]
        /\ si_ops_mutex = Nobody
        /\ UNCHANGED <<s_inuse, search, task, abandoned, change, smatches, at, found, si_ops_mutex>>
    BY <1>3, <1>f DEF AbandonUnlinks
  <2>3. search[s] \notin {"new", "wait"}
    BY <1>3, <1>r DEF AbandonUnlinks, RecordAt, BitsAt, UnbornAt
  <2>4. RecordAt(s)'
    BY <1>r, <2>1, <2>2, <2>3, TrimmedRecord DEF Refs
  <2>5. Side(s)
    BY <1>r, <2>1, <2>2 DEF Side, Same, Trimmed, Refs, Status
  <2> QED BY SMT, <1>t, <2>4, <2>5, SideInv
<1> QED BY <1>1, <1>2, <1>3 DEF QuitStep

-----------------------------------------------------------------------------
(* A step of the change w.                                                 *)
Turn(w) ==
  /\ \A v \in Changes : v # w => /\ change'[v] = change[v] /\ at'[v] = at[v]
                                 /\ found'[v] = found[v] /\ smatches'[v] = smatches[v]
                                 /\ si_ops_mutex' = v <=> si_ops_mutex = v
  /\ \/ si_ops_mutex = w
     \/ /\ UNCHANGED si_ops
        /\ \A t \in Searches : /\ "UNLINK" \in flags[t] => "UNLINK" \in flags'[t]
                               /\ task'[t] = "unlinking" => task[t] = "unlinking"

(* Such a step keeps the locks and the picked searches of the other        *)
(* changes.                                                                *)
LEMMA TurnInv ==
  ASSUME RInv, NEW w \in Changes, Turn(w), TypeOK', LocksAt(w)', PickedAt(w)', Records', Counted'
  PROVE  RInv'
<1> USE DEF RInv
<1>1. Locks'
  BY ZenonT(60) DEF Locks, LocksAt, Turn
<1>2. ASSUME NEW v \in Changes, v # w, at[v] # Nobody
      PROVE  PickedAt(v)'
  <2>1. si_ops_mutex = v /\ at[v] \in Searches /\ PickedAt(v)
    BY <1>2 DEF Locks, LocksAt, Walking, Picked, TypeOK
  <2> QED BY <1>2, <2>1 DEF PickedAt, Turn
<1>3. Picked'
  BY <1>2 DEF Picked, PickedAt, Turn
<1> QED BY <1>1, <1>3

(* What counting changes by Cardinality relies on; ChangeSets, at the end, *)
(* proves it of finitely many changes.                                     *)
Counting ==
  /\ Cardinality({}) = 0
  /\ \A S \in SUBSET Changes :
       /\ Cardinality(S) \in Nat /\ (Cardinality(S) = 0 => S = {})
       /\ \A T \in SUBSET S : Cardinality(T) <= Cardinality(S)
       /\ \A w \in Changes \ S : Cardinality(S \cup {w}) = Cardinality(S) + 1
       /\ \A w \in S : Cardinality(S \ {w}) = Cardinality(S) - 1

(* How many changes refer to a search.                                     *)
LEMMA UsersNumber ==
  ASSUME Counting, RInv, NEW s \in Searches
  PROVE  /\ Users(s) \in SUBSET Changes /\ Cardinality(Users(s)) \in Nat
         /\ s_inuse[s] \in Int /\ s_inuse[s] >= Cardinality(Users(s))
<1>1. Users(s) \in SUBSET Changes
  BY DEF Users
<1> QED BY <1>1 DEF Counting, RInv, Counted, TypeOK

(* The number of a set of changes that gets no more than w.                *)
LEMMA OneMore ==
  ASSUME Counting, NEW S \in SUBSET Changes, NEW w \in Changes, NEW T, T \subseteq S \cup {w}
  PROVE  Cardinality(S) \in Nat /\ Cardinality(T) \in Nat /\ Cardinality(T) <= Cardinality(S) + 1
<1>1. S \cup {w} \in SUBSET Changes /\ T \in SUBSET (S \cup {w}) /\ T \in SUBSET Changes
  OBVIOUS
<1>2. /\ Cardinality(T) <= Cardinality(S \cup {w}) /\ Cardinality(S \cup {w}) \in Nat
      /\ Cardinality(T) \in Nat /\ Cardinality(S) \in Nat
  BY <1>1 DEF Counting
<1>3. CASE w \in S
  <2>1. S \cup {w} = S
    BY <1>3
  <2> QED BY SMT, <1>2, <2>1
<1>4. CASE w \notin S
  <2>1. Cardinality(S \cup {w}) = Cardinality(S) + 1
    BY <1>4 DEF Counting
  <2> QED BY SMT, <1>2, <2>1
<1> QED BY <1>3, <1>4

(* The number of a set of changes that loses w, or nothing.                *)
LEMMA OneLess ==
  ASSUME Counting, NEW S \in SUBSET Changes, NEW T
  PROVE  /\ T \subseteq S => /\ Cardinality(S) \in Nat /\ Cardinality(T) \in Nat
                             /\ Cardinality(T) <= Cardinality(S)
         /\ \A w \in S : T \subseteq S \ {w} => /\ Cardinality(S) \in Nat /\ Cardinality(T) \in Nat
                                                /\ Cardinality(T) <= Cardinality(S) - 1
<1>1. ASSUME T \subseteq S
      PROVE  Cardinality(S) \in Nat /\ Cardinality(T) \in Nat /\ Cardinality(T) <= Cardinality(S)
  <2>1. T \in SUBSET S /\ T \in SUBSET Changes
    BY <1>1
  <2> QED BY <2>1 DEF Counting
<1>2. ASSUME NEW w \in S, T \subseteq S \ {w}
      PROVE  Cardinality(S) \in Nat /\ Cardinality(T) \in Nat /\ Cardinality(T) <= Cardinality(S) - 1
  <2>1. S \ {w} \in SUBSET Changes /\ T \in SUBSET (S \ {w}) /\ T \in SUBSET Changes
    BY <1>2
  <2> QED BY <2>1 DEF Counting
<1> QED BY <1>1, <1>2

(* The count of s_matchops_inuse stays large enough if it follows the      *)
(* users.                                                                  *)
LEMMA UsersCounted ==
  ASSUME Counting, RInv, NEW w \in Changes, NEW s \in Searches,
         \A t \in Searches : t # s => s_inuse'[t] = s_inuse[t] /\ Users(t)' \subseteq Users(t),
         \/ s_inuse'[s] = s_inuse[s] /\ Users(s)' \subseteq Users(s)
         \/ s_inuse'[s] = s_inuse[s] + 1 /\ Users(s)' \subseteq Users(s) \cup {w}
         \/ s_inuse'[s] = s_inuse[s] - 1 /\ w \in Users(s) /\ Users(s)' \subseteq Users(s) \ {w}
  PROVE  Counted'
<1>1. ASSUME NEW t \in Searches, s_inuse'[t] = s_inuse[t], Users(t)' \subseteq Users(t)
      PROVE  s_inuse'[t] >= Cardinality(Users(t)')
  <2>1. Cardinality(Users(t)') \in Nat /\ Cardinality(Users(t)') <= Cardinality(Users(t))
    BY <1>1, UsersNumber, OneLess
  <2> QED BY SMT, <1>1, <2>1, UsersNumber
<1>2. ASSUME s_inuse'[s] = s_inuse[s] + 1, Users(s)' \subseteq Users(s) \cup {w}
      PROVE  s_inuse'[s] >= Cardinality(Users(s)')
  <2>1. Cardinality(Users(s)') \in Nat /\ Cardinality(Users(s)') <= Cardinality(Users(s)) + 1
    BY <1>2, UsersNumber, OneMore
  <2> QED BY SMT, <1>2, <2>1, UsersNumber
<1>3. ASSUME s_inuse'[s] = s_inuse[s] - 1, w \in Users(s), Users(s)' \subseteq Users(s) \ {w}
      PROVE  s_inuse'[s] >= Cardinality(Users(s)')
  <2>1. Cardinality(Users(s)') \in Nat /\ Cardinality(Users(s)') <= Cardinality(Users(s)) - 1
    BY <1>3, UsersNumber, OneLess
  <2> QED BY SMT, <1>3, <2>1, UsersNumber
<1> QED BY <1>1, <1>2, <1>3 DEF Counted

(* Steps that leave the records of the searches alone.                     *)
LEMMA QueueInv ==
  ASSUME RInv, NEW w \in Changes,
         \/ syncprov_op_mod(w) \/ QueueUp(w) \/ TurnComes(w) \/ GiveUp(w) \/ syncprov_matchops(w)
         \/ Looked(w) \/ Fail(w) \/ syncprov_op_response(w) \/ Told(w)
         \/ syncprov_op_cleanup(w) \/ LeaveQueue(w) \/ FreeTarget(w)
  PROVE  RInv'
<1> USE DEF sync, conn, play, walk, mods
<1>t. TypeOK'
  BY QueueStepTyped DEF RInv
<1>c. change \in [Changes -> ChangePc] /\ LocksAt(w) /\ PickedAt(w) /\ w # Nobody
  BY PsearchAssumption DEF RInv, TypeOK, ChangePc, Locks, Picked
<1>1. /\ UNCHANGED <<flags, s_inuse, si_ops, freed, c_ops, kicked, abandoned, quitter, task, search,
                     smatches, at, found>>
      /\ \A v \in Changes : v # w => change'[v] = change[v]
      /\ change[w] \notin Busy /\ change'[w] \notin Busy
      /\ \/ UNCHANGED si_ops_mutex /\ change[w] \notin Walking /\ change'[w] \notin Walking
         \/ change[w] = "look" /\ change'[w] \notin Walking /\ si_ops_mutex' = Nobody
         \/ change[w] = "match" /\ change'[w] = "look" /\ si_ops_mutex = Nobody /\ si_ops_mutex' = w
  <2>1. CASE syncprov_op_mod(w) \/ QueueUp(w) \/ TurnComes(w) \/ GiveUp(w)
    BY <1>c, <2>1 DEF syncprov_op_mod, QueueUp, TurnComes, GiveUp, Walking, Busy
  <2>2. CASE syncprov_matchops(w) \/ Looked(w) \/ Fail(w)
    BY <1>c, <2>2 DEF syncprov_matchops, Looked, Fail, Walking, Busy
  <2>3. CASE syncprov_op_response(w) \/ Told(w)
    BY <1>c, <2>3 DEF syncprov_op_response, Told, Walking, Busy
  <2>4. CASE syncprov_op_cleanup(w) \/ LeaveQueue(w) \/ FreeTarget(w)
    BY <1>c, <2>4 DEF syncprov_op_cleanup, LeaveQueue, FreeTarget, Walking, Busy
  <2> QED BY <2>1, <2>2, <2>3, <2>4
<1>2. LocksAt(w)' /\ PickedAt(w)'
  BY <1>c, <1>1 DEF LocksAt, PickedAt, Walking, Busy
<1>3. Turn(w)
  BY <1>c, <1>1, PsearchAssumption DEF Turn, LocksAt, Walking
<1>4. Records' /\ Counted'
  BY ZenonT(60), <1>1 DEF RInv, Records, RecordAt, UnbornAt, BitsAt, ConnectedAt, Counted, Users
<1> QED BY <1>t, <1>2, <1>3, <1>4, TurnInv

(* A step of the change w that concerns the search s.                      *)
LEMMA WalkInv ==
  ASSUME Counting, RInv, NEW w \in Changes, NEW s \in Searches,
         \/ Look(w, s) \/ TellDelete(w, s) \/ DropMatch(w, s)
         \/ at[w] = s /\ (Test(w) \/ Kill(w) \/ Act(w) \/ Forget(w))
  PROVE  RInv'
<1> USE DEF sync, conn, play, walk, mods
<1>t. TypeOK'
  BY WalkStepTyped DEF RInv
<1>c. LocksAt(w) /\ PickedAt(w) /\ w # Nobody /\ s # Nobody
  BY PsearchAssumption DEF RInv, Locks, Picked
<1>r. RecordAt(s) /\ s \in Searches /\ Records /\ TypeOK
  BY DEF RInv, Records
<1>w. WalkTyped
  BY <1>r DEF TypeOK, WalkTyped, ChangePc
<1>f. /\ flags \in [Searches -> SUBSET (Refs \cup Status)] /\ task \in [Searches -> TaskPc]
      /\ s_inuse \in [Searches -> Int]
  BY <1>r DEF TypeOK, TaskPc
<1>n. ASSUME NextSearch(w)
      PROVE  /\ at'[w] = Nobody /\ found'[w] = FALSE /\ change'[w] = "look"
             /\ \A v \in Changes : v # w => change'[v] = change[v] /\ at'[v] = at[v] /\ found'[v] = found[v]
  BY <1>n, <1>w DEF NextSearch, WalkTyped
<1>q. ASSUME syncprov_qresp(w, s)
      PROVE  /\ \A t \in Searches : t # s => flags'[t] = flags[t] /\ task'[t] = task[t]
             /\ \A b : b \notin {"FIND_BASE", "WROTE_BASE", "PLAYBACK"} => (b \in flags'[s] <=> b \in flags[s])
             /\ "PLAYBACK" \in flags[s] => "PLAYBACK" \in flags'[s]
             /\ \/ task'[s] = task[s]
                \/ /\ task'[s] = "queued" /\ "PLAYBACK" \in flags'[s] /\ "DETACHED" \in flags[s]
                   /\ "PLAYBACK" \notin flags[s]
             /\ s \in si_ops \/ (flags'[s] = flags[s] /\ task'[s] = task[s])
  <2> DEFINE f == IF "WROTE_BASE" \in flags[s] THEN (flags[s] \ {"WROTE_BASE"}) \cup {"FIND_BASE"}
                                               ELSE flags[s]
  <2>1. \/ flags' = flags /\ task' = task
        \/ s \in si_ops /\ flags' = [flags EXCEPT ![s] = f] /\ task' = task
        \/ /\ s \in si_ops /\ "DETACHED" \in f /\ "PLAYBACK" \notin f
           /\ flags' = [flags EXCEPT ![s] = f \cup {"PLAYBACK"}] /\ task' = [task EXCEPT ![s] = "queued"]
    BY <1>q DEF syncprov_qresp, Enqueue, Gone, is_syncops_abandoned
  <2>2. \A b : b \notin {"FIND_BASE", "WROTE_BASE"} => (b \in f <=> b \in flags[s])
    OBVIOUS
  <2> HIDE DEF f
  <2> QED BY SMT, <1>f, <2>1, <2>2
<1>m. ASSUME UnlinkMatch(s), w \in Users(s)
      PROVE  /\ s_inuse'[s] = s_inuse[s] - 1 /\ "OP_MATCH" \in flags[s]
             /\ \A t \in Searches : t # s => /\ s_inuse'[t] = s_inuse[t] /\ flags'[t] = flags[t]
                                             /\ t \in freed' <=> t \in freed
             /\ \A b : b # "OP_MATCH" => (b \in flags'[s] <=> b \in flags[s])
             /\ "OP_MATCH" \in flags'[s] <=> s_inuse'[s] > 0
             /\ s \in freed' => flags'[s] \cap Refs = {}
             /\ UNCHANGED <<si_ops, c_ops, kicked>>
  <2>1. Cardinality(Users(s)) # 0
    BY <1>m, UsersNumber DEF Counting
  <2>2. s_inuse[s] \in Int /\ s_inuse[s] > 0
    BY SMT, <2>1, UsersNumber
  <2>3. "OP_MATCH" \in flags[s] /\ s \notin freed
    BY <1>r, <2>2 DEF RecordAt, BitsAt, Refs
  <2>4. /\ s_inuse' = [s_inuse EXCEPT ![s] = s_inuse[s] - 1]
        /\ UNCHANGED <<si_ops, c_ops, kicked>>
        /\ \/ s_inuse[s] > 1 /\ flags' = flags /\ freed' = freed
           \/ /\ ~(s_inuse[s] > 1) /\ flags' = [flags EXCEPT ![s] = flags[s] \ {"OP_MATCH"}]
              /\ freed' = IF (flags[s] \ {"OP_MATCH"}) \cap Refs = {} THEN freed \cup {s} ELSE freed
    BY <1>m DEF UnlinkMatch, Release
  <2> QED BY SMT, <1>f, <2>2, <2>3, <2>4
<1>1. CASE Look(w, s)
  <2>1. /\ change[w] = "look" /\ at[w] = Nobody /\ ~found[w] /\ si_ops_mutex = w
        /\ UNCHANGED <<s_inuse, si_ops, freed, c_ops, kicked, abandoned, quitter, task, search,
                       si_ops_mutex>>
    BY <1>1, <1>c DEF Look, LocksAt, Walking, Busy
  <2>2. /\ \A t \in Searches : t # s => flags'[t] = flags[t]
        /\ \A b : b \notin {"FIND_BASE", "WROTE_BASE", "DEAD", "LOST_BASE"} =>
                    (b \in flags'[s] <=> b \in flags[s])
        /\ flags'[s] = flags[s] \/ s \in si_ops
    BY SMTT(60), <1>1, <1>f DEF Look, Gone, is_syncops_abandoned
  <2>3. /\ \A v \in Changes : v # w => /\ change'[v] = change[v] /\ at'[v] = at[v]
                                       /\ found'[v] = found[v] /\ smatches'[v] = smatches[v]
        /\ \/ change'[w] = "look" /\ at'[w] = Nobody /\ found'[w] = FALSE /\ smatches'[w] = smatches[w]
           \/ /\ change'[w] \in {"test", "act", "kill"} /\ at'[w] = s /\ s \in si_ops
              /\ found'[w] = TRUE => s \in smatches[w] /\ s \notin smatches'[w]
              /\ smatches'[w] \subseteq smatches[w]
    <3>1. CASE UNCHANGED <<smatches, at, found, change>>
      BY SMT, <2>1, <3>1
    <3>2. CASE /\ ~Gone(s) /\ found' = [found EXCEPT ![w] = ~saveit(w) /\ s \in smatches[w]]
               /\ smatches' = [smatches EXCEPT ![w] = IF saveit(w) THEN smatches[w] ELSE smatches[w] \ {s}]
               /\ at' = [at EXCEPT ![w] = s]
               /\ change' = [change EXCEPT ![w] = IF s \in job[w].match THEN "test" ELSE "act"]
      BY <1>w, <3>2 DEF WalkTyped, Gone, is_syncops_abandoned
    <3>3. CASE /\ ~Gone(s) /\ at' = [at EXCEPT ![w] = s] /\ change' = [change EXCEPT ![w] = "kill"]
               /\ UNCHANGED <<smatches, found>>
      BY <1>w, <2>1, <3>3 DEF WalkTyped, Gone, is_syncops_abandoned
    <3> QED BY <1>1, <3>1, <3>2, <3>3 DEF Look
  <2>4. LocksAt(w)' /\ PickedAt(w)'
    BY <1>c, <2>1, <2>3 DEF LocksAt, PickedAt, Walking, Busy
  <2>5. Turn(w)
    BY <2>1, <2>3 DEF Turn
  <2>6. RecordAt(s)'
    BY <1>r, <2>1, <2>2 DEF RecordAt, UnbornAt, BitsAt, ConnectedAt, Refs
  <2>7. \A t \in Searches : s_inuse'[t] = s_inuse[t] /\ Users(t)' \subseteq Users(t)
    BY SMT, <2>1, <2>3 DEF Users
  <2>8. Records' /\ Counted'
    BY <1>r, <2>1, <2>2, <2>6, <2>7, OthersSame, UsersCounted DEF Same
  <2> QED BY <1>t, <2>4, <2>5, <2>8, TurnInv
<1>2. CASE TellDelete(w, s)
  <2>1. /\ change[w] = "tell" /\ syncprov_qresp(w, s)
        /\ UNCHANGED <<s_inuse, si_ops, freed, c_ops, kicked, abandoned, quitter, search, change,
                       smatches, at, found, si_ops_mutex>>
    BY <1>2 DEF TellDelete
  <2>2. LocksAt(w)' /\ PickedAt(w)'
    BY <1>c, <2>1 DEF LocksAt, PickedAt, Busy
  <2>3. Turn(w)
    BY <1>q, <2>1 DEF Turn
  <2>4. RecordAt(s)'
    BY ZenonT(60), <1>q, <1>r, <2>1 DEF RecordAt, UnbornAt, BitsAt, ConnectedAt, Refs
  <2>5. \A t \in Searches : s_inuse'[t] = s_inuse[t] /\ Users(t)' \subseteq Users(t)
    BY <2>1 DEF Users
  <2>6. Records' /\ Counted'
    BY <1>q, <1>r, <2>1, <2>4, <2>5, OthersSame, UsersCounted DEF Same
  <2> QED BY SMT, <1>t, <2>2, <2>3, <2>6, TurnInv
<1>3. CASE DropMatch(w, s)
  <2>1. /\ change[w] = "drop" /\ UnlinkMatch(s) /\ w \in Users(s) /\ at[w] = Nobody /\ ~found[w]
        /\ UNCHANGED <<abandoned, quitter, search, task, change, at, found, si_ops_mutex>>
        /\ smatches'[w] = smatches[w] \ {s}
        /\ \A v \in Changes : v # w => smatches'[v] = smatches[v]
    BY <1>3, <1>c, <1>w DEF DropMatch, Users, LocksAt, Busy, WalkTyped
  <2>2. LocksAt(w)' /\ PickedAt(w)'
    BY <1>c, <2>1 DEF LocksAt, PickedAt, Walking, Busy
  <2>3. Turn(w)
    BY <1>m, <2>1 DEF Turn
  <2>4. RecordAt(s)'
    BY <1>m, <1>r, <2>1 DEF RecordAt, UnbornAt, BitsAt, ConnectedAt
  <2>5. /\ Users(s)' \subseteq Users(s) \ {w}
        /\ \A t \in Searches : t # s => Users(t)' \subseteq Users(t)
    BY <2>1 DEF Users
  <2>6. Records'
    <3>1. \A t \in Searches : t # s => Same(t)
      BY <1>m, <2>1 DEF Same
    <3> QED BY <1>r, <2>4, <3>1, OthersSame
  <2>7. Counted'
    <3>1. s_inuse'[s] = s_inuse[s] - 1 /\ w \in Users(s) /\ Users(s)' \subseteq Users(s) \ {w}
      BY <1>m, <2>1, <2>5
    <3>2. \A t \in Searches : t # s => s_inuse'[t] = s_inuse[t] /\ Users(t)' \subseteq Users(t)
      BY <1>m, <2>1, <2>5
    <3> QED BY <1>r, <3>1, <3>2, UsersCounted
  <2> QED BY <1>t, <2>2, <2>3, <2>6, <2>7, TurnInv
<1>4. CASE at[w] = s /\ Test(w)
  <2>1. /\ UNCHANGED <<flags, s_inuse, si_ops, freed, c_ops, kicked, abandoned, quitter, task, search,
                       si_ops_mutex, smatches>>
        /\ change[w] = "test" /\ si_ops_mutex = w /\ s \in si_ops
    BY <1>4, <1>c DEF Test, LocksAt, PickedAt, Walking, Busy
  <2>2. /\ \A v \in Changes : v # w => change'[v] = change[v] /\ at'[v] = at[v] /\ found'[v] = found[v]
        /\ \/ change'[w] = "look" /\ at'[w] = Nobody /\ found'[w] = FALSE
           \/ change'[w] \in {"act", "kill"} /\ at'[w] = s /\ found'[w] = found[w]
    BY <1>4, <1>n, <1>w DEF Test, WalkTyped
  <2>3. LocksAt(w)' /\ PickedAt(w)'
    BY <1>4, <1>c, <2>1, <2>2 DEF LocksAt, PickedAt, Walking, Busy
  <2>4. Turn(w)
    BY <2>1, <2>2 DEF Turn
  <2>5. \A t \in Searches : s_inuse'[t] = s_inuse[t] /\ Users(t)' \subseteq Users(t)
    BY <1>4, <2>1, <2>2 DEF Users
  <2>6. Records' /\ Counted'
    BY ZenonT(60), <1>r, <2>1, <2>5, UsersCounted DEF Records, RecordAt, UnbornAt, BitsAt, ConnectedAt
  <2> QED BY SMT, <1>t, <2>3, <2>4, <2>6, TurnInv
<1>5. CASE at[w] = s /\ Kill(w)
  <2>1. /\ UNCHANGED <<s_inuse, abandoned, quitter, task, search, si_ops_mutex, smatches>>
        /\ change[w] \in {"kill", "killing"} /\ si_ops_mutex = w
    BY <1>5, <1>c DEF Kill, LocksAt, Walking, Busy
  <2>2. search[s] \notin {"new", "wait"}
    BY <1>5, <1>c, <1>r, <2>1 DEF PickedAt, RecordAt, BitsAt, UnbornAt
  <2>3. ASSUME NextSearch(w), NEW U \in SUBSET Refs, Trimmed(s, U), RecordAt(s)'
        PROVE  RInv'
    <3>1. LocksAt(w)' /\ PickedAt(w)'
      BY <1>n, <2>1, <2>3 DEF LocksAt, PickedAt, Walking, Busy
    <3>2. Turn(w)
      BY <1>n, <2>1, <2>3 DEF Turn
    <3>3. \A t \in Searches : s_inuse'[t] = s_inuse[t] /\ Users(t)' \subseteq Users(t)
      BY <1>n, <2>1, <2>3 DEF Users
    <3>4. \A t \in Searches : t # s => Same(t)
      BY <2>1, <2>3 DEF Same, Trimmed
    <3>5. Records' /\ Counted'
      BY <1>r, <2>3, <3>3, <3>4, OthersSame, UsersCounted
    <3> QED BY <1>t, <3>1, <3>2, <3>5, TurnInv
  <2>4. CASE Unlink(s, {"OP_SEARCH"}, FALSE) /\ NextSearch(w)
    <3>1. Trimmed(s, {"OP_SEARCH"})
      BY <1>r, <2>4, UnlinkTrims DEF Refs
    <3>2. RecordAt(s)'
      BY <1>r, <2>1, <2>2, <3>1, TrimmedRecord DEF Refs
    <3> QED BY <2>3, <2>4, <3>1, <3>2 DEF Refs
  <2>5. CASE change[w] = "killing" /\ UnlinkResumes(s, {"OP_SEARCH"}) /\ NextSearch(w)
    <3>1. "UNLINK" \in flags[s] /\ task[s] # "unlinking"
      BY <1>5, <1>c, <2>5 DEF PickedAt
    <3>2. Trimmed(s, {"OP_SEARCH"} \cup {"UNLINK"}) /\ s \notin si_ops'
      BY <1>r, <2>5, <3>1, ResumeTrims DEF Refs
    <3>3. RecordAt(s)'
      BY ZenonT(60), <1>r, <2>1, <2>2, <3>1, <3>2, TrimmedRecord DEF Refs
    <3> QED BY <2>3, <2>5, <3>2, <3>3 DEF Refs
  <2>6. CASE /\ change[w] = "kill" /\ UnlinkWaits(s, {"OP_SEARCH"}) /\ UNCHANGED <<at, found>>
             /\ change' = [change EXCEPT ![w] = "killing"]
    <3>1. /\ \A b : b \notin {"REFRESHING", "UNLINK"} => (b \in flags'[s] <=> b \in flags[s])
          /\ "UNLINK" \in flags'[s] /\ "UNLINK" \notin flags[s]
          /\ \A t \in Searches : t # s => flags'[t] = flags[t]
          /\ si_ops' = si_ops \ {s} /\ UNCHANGED <<freed, c_ops, kicked>>
      BY <1>f, <2>6 DEF UnlinkWaits, OnConn, Unlisted
    <3>2. /\ change'[w] = "killing" /\ task[s] # "unlinking" /\ s \in si_ops
          /\ \A v \in Changes : v # w => change'[v] = change[v]
      BY <1>5, <1>c, <1>r, <1>w, <2>6, <3>1 DEF WalkTyped, RecordAt, BitsAt, PickedAt
    <3>3. LocksAt(w)' /\ PickedAt(w)'
      BY <1>5, <1>c, <2>1, <2>6, <3>1, <3>2 DEF LocksAt, PickedAt, Walking, Busy
    <3>4. Turn(w)
      BY <2>1, <2>6, <3>2 DEF Turn
    <3>5. RecordAt(s)'
      BY <1>r, <2>1, <2>2, <3>1, <3>2 DEF RecordAt, UnbornAt, BitsAt, ConnectedAt, Refs
    <3>6. \A t \in Searches : s_inuse'[t] = s_inuse[t] /\ Users(t)' \subseteq Users(t)
      BY <2>1, <2>6 DEF Users
    <3>7. Records' /\ Counted'
      BY <1>r, <2>1, <3>1, <3>5, <3>6, OthersSame, UsersCounted DEF Same
    <3> QED BY SMT, <1>t, <3>3, <3>4, <3>7, TurnInv
  <2> QED BY <1>5, <2>4, <2>5, <2>6 DEF Kill
<1>6. CASE at[w] = s /\ Act(w)
  <2>1. /\ UNCHANGED <<si_ops, freed, c_ops, kicked, abandoned, quitter, search, si_ops_mutex>>
        /\ change[w] = "act" /\ si_ops_mutex = w /\ s \in si_ops
    BY <1>6, <1>c DEF Act, LocksAt, PickedAt, Walking, Busy
  <2>2. /\ \A v \in Changes : v # w => change'[v] = change[v] /\ at'[v] = at[v] /\ found'[v] = found[v]
        /\ \/ change'[w] = "look" /\ at'[w] = Nobody /\ found'[w] = FALSE
           \/ /\ change'[w] = "forget" /\ at'[w] = s /\ found'[w] = found[w] /\ found[w]
              /\ smatches' = smatches
    BY <1>6, <1>n, <1>w DEF Act, WalkTyped
  <2>3. \A v \in Changes : v # w => smatches'[v] = smatches[v]
    BY <1>6, <1>w DEF Act, WalkTyped
  <2>4. LocksAt(w)' /\ PickedAt(w)'
    BY <1>6, <1>c, <2>1, <2>2 DEF LocksAt, PickedAt, Walking, Busy
  <2>5. Turn(w)
    BY ZenonT(60), <2>1, <2>2, <2>3 DEF Turn
  <2>6. CASE saveit(w) /\ s \in job[w].match
    <3>1. /\ s_inuse'[s] = s_inuse[s] + 1 /\ flags'[s] = flags[s] \cup {"OP_MATCH"} /\ task' = task
          /\ smatches'[w] = smatches[w] \cup {s}
          /\ \A t \in Searches : t # s => s_inuse'[t] = s_inuse[t] /\ flags'[t] = flags[t]
          /\ s_inuse'[s] > 0
      <4>1. /\ s_inuse' = [s_inuse EXCEPT ![s] = s_inuse[s] + 1] /\ task' = task
            /\ flags' = [flags EXCEPT ![s] = flags[s] \cup {"OP_MATCH"}]
            /\ smatches' = [smatches EXCEPT ![w] = smatches[w] \cup {s}]
        BY <1>6, <2>6 DEF Act
      <4>2. s_inuse[s] + 1 > 0
        BY SMT, UsersNumber
      <4> QED BY <1>f, <1>w, <4>1, <4>2 DEF WalkTyped
    <3>2. RecordAt(s)'
      BY <1>r, <2>1, <3>1 DEF RecordAt, UnbornAt, BitsAt, ConnectedAt, Refs
    <3>3. /\ Users(s)' \subseteq Users(s) \cup {w}
          /\ \A t \in Searches : t # s => Users(t)' \subseteq Users(t)
      BY <1>6, <2>2, <2>3, <3>1 DEF Users
    <3>4. \A t \in Searches : t # s => Same(t)
      BY <2>1, <3>1 DEF Same
    <3>5. Records'
      BY <1>r, <3>2, <3>4, OthersSame
    <3>6. Counted'
      <4>1. s_inuse'[s] = s_inuse[s] + 1 /\ Users(s)' \subseteq Users(s) \cup {w}
        BY <3>1, <3>3
      <4>2. \A t \in Searches : t # s => s_inuse'[t] = s_inuse[t] /\ Users(t)' \subseteq Users(t)
        BY <3>1, <3>3
      <4>3. \/ s_inuse'[s] = s_inuse[s] /\ Users(s)' \subseteq Users(s)
            \/ s_inuse'[s] = s_inuse[s] + 1 /\ Users(s)' \subseteq Users(s) \cup {w}
            \/ s_inuse'[s] = s_inuse[s] - 1 /\ w \in Users(s) /\ Users(s)' \subseteq Users(s) \ {w}
        BY <4>1
      <4> HIDE <4>1
      <4> QED BY <4>2, <4>3, UsersCounted
    <3> QED BY <1>t, <2>4, <2>5, <3>5, <3>6, TurnInv
  <2>7. CASE ~saveit(w) \/ s \notin job[w].match
    <3>1. s_inuse' = s_inuse /\ smatches' = smatches /\ (syncprov_qresp(w, s) \/ UNCHANGED <<flags, task>>)
      BY <1>6, <2>7 DEF Act
    <3>2. RecordAt(s)'
      BY <1>q, <1>r, <2>1, <3>1 DEF RecordAt, UnbornAt, BitsAt, ConnectedAt, Refs
    <3>3. \A t \in Searches : s_inuse'[t] = s_inuse[t] /\ Users(t)' \subseteq Users(t)
      BY <1>6, <2>2, <3>1 DEF Users
    <3>4. Records' /\ Counted'
      BY <1>q, <1>r, <2>1, <3>1, <3>2, <3>3, OthersSame, UsersCounted DEF Same
    <3> QED BY SMT, <1>t, <2>4, <2>5, <3>4, TurnInv
  <2> QED BY <2>6, <2>7
<1>7. CASE at[w] = s /\ Forget(w)
  <2>1. /\ change[w] = "forget" /\ UnlinkMatch(s) /\ w \in Users(s) /\ NextSearch(w)
        /\ s \notin smatches[w] /\ si_ops_mutex = w
        /\ UNCHANGED <<abandoned, quitter, search, task, smatches, si_ops_mutex>>
    BY <1>7, <1>c DEF Forget, Users, LocksAt, Walking, Busy
  <2>2. LocksAt(w)' /\ PickedAt(w)'
    BY <1>n, <2>1 DEF LocksAt, PickedAt, Walking, Busy
  <2>3. Turn(w)
    BY <1>n, <2>1 DEF Turn
  <2>4. RecordAt(s)'
    BY <1>m, <1>r, <2>1 DEF RecordAt, UnbornAt, BitsAt, ConnectedAt
  <2>5. /\ Users(s)' \subseteq Users(s) \ {w}
        /\ \A t \in Searches : t # s => Users(t)' \subseteq Users(t)
    BY <1>n, <2>1 DEF Users
  <2>6. Records' /\ Counted'
    BY ZenonT(60), <1>m, <1>r, <2>1, <2>4, <2>5, OthersSame, UsersCounted DEF Same
  <2> QED BY SMT, <1>t, <2>2, <2>3, <2>6, TurnInv
<1> QED BY <1>1, <1>2, <1>3, <1>4, <1>5, <1>6, <1>7

(* syncprov_db_close keeps the records in order, although it frees many at *)
(* once.                                                                   *)
LEMMA CloseInv ==
  ASSUME RInv, syncprov_db_close
  PROVE  RInv'
<1> USE DEF sync, conn, play, walk, mods
<1>1. TypeOK'
  BY CloseTyped DEF RInv
<1>2. UNCHANGED <<s_inuse, abandoned, quitter, search, change, smatches, at, found, si_ops_mutex>>
  BY DEF syncprov_db_close
<1>3. Locks' /\ Counted'
  BY <1>2 DEF RInv, Locks, LocksAt, Counted, Users
<1>4. Picked'
  BY ZenonT(60), <1>2 DEF RInv, Picked, PickedAt, Locks, LocksAt, Busy, syncprov_db_close, Paused
<1>5. ASSUME NEW s \in Searches PROVE RecordAt(s)'
  <2>1. RecordAt(s) /\ s \in Searches
    BY DEF RInv, Records
  <2>2. task[s] \in {"none", "queued", "sending"}
    BY DEF syncprov_db_close, Paused
  <2>3. CASE s \notin si_ops
    <3>1. Same(s)
      BY <1>2, <2>3 DEF Same, syncprov_db_close
    <3> QED BY ZenonT(60), <2>1, <3>1 DEF Same, RecordAt, UnbornAt, BitsAt, ConnectedAt
  <2>4. CASE s \in si_ops
    <3> DEFINE left == (flags[s] \cup {"DEAD"}) \ ({"OP_SEARCH", "REFRESHING"} \cup
                                                  IF task[s] = "queued" THEN {"PLAYBACK"} ELSE {})
    <3>1. /\ flags'[s] = left /\ s \notin c_ops' /\ s \notin si_ops'
          /\ s \in c_ops \/ s \in kicked => s \in kicked'
          /\ s \in freed' => s \in freed \/ left \cap Refs = {}
          /\ task'[s] = IF task[s] = "queued" THEN "none" ELSE task[s]
      BY <2>4 DEF syncprov_db_close
    <3>2. /\ \A b : b \notin {"DEAD", "OP_SEARCH", "REFRESHING", "PLAYBACK"} => (b \in left <=> b \in flags[s])
          /\ "PLAYBACK" \in flags[s] /\ task[s] # "queued" => "PLAYBACK" \in left
      OBVIOUS
    <3>3. "OP_SEARCH" \in flags[s] /\ s \notin freed /\ search[s] \notin {"new", "wait"}
      BY <2>1, <2>4 DEF RecordAt, BitsAt, UnbornAt, Refs
    <3> HIDE DEF left
    <3>4. UnbornAt(s)' /\ BitsAt(s)'
      BY <1>2, <2>1, <2>2, <3>1, <3>2, <3>3 DEF RecordAt, UnbornAt, BitsAt
    <3>5. ConnectedAt(s)'
      BY <1>2, <2>1, <3>1, <3>2 DEF RecordAt, ConnectedAt
    <3> QED BY <3>4, <3>5 DEF RecordAt
  <2> QED BY <2>3, <2>4
<1> QED BY <1>1, <1>3, <1>4, <1>5 DEF RInv, Records

(* The records are in order before the first search.                       *)
LEMMA InitInv == Counting /\ Init => RInv
<1> SUFFICES ASSUME Counting, Init PROVE RInv
  OBVIOUS
<1>1. \A s \in Searches : Users(s) = {}
  BY PsearchAssumption DEF Init, Users
<1>2. Counted
  <2>1. Cardinality({}) = 0
    BY DEF Counting
  <2>2. \A s \in Searches : s_inuse[s] = 0
    BY DEF Init
  <2> QED BY SMT, <1>1, <2>1, <2>2 DEF Counted
<1>3. job \in [Changes -> Jobs]
  BY PsearchAssumption DEF Init
<1>4. TypeOK
  BY SMT, <1>3 DEF Init, TypeOK
<1>5. Locks /\ Picked
  BY PsearchAssumption DEF Init, Locks, LocksAt, Picked, PickedAt, Walking, Busy
<1>6. Records
  BY SMT DEF Init, Records, RecordAt, UnbornAt, BitsAt, ConnectedAt
<1> QED BY <1>2, <1>4, <1>5, <1>6 DEF RInv

(* Every step of the program keeps the records in order.                   *)
LEMMA NextInv == Counting /\ RInv /\ [Next]_vars => RInv'
<1> SUFFICES ASSUME Counting, RInv, [Next]_vars PROVE RInv'
  OBVIOUS
<1>1. ASSUME NEW s \in Searches, SearchStep(s) \/ TaskStep(s) \/ QuitStep(s) \/ MarkAbandoned(s)
      PROVE  RInv'
  BY <1>1, SearchInv, TaskInv, QuitInv
<1>2. ASSUME NEW w \in Changes, ChangeStep(w) \/ GiveUp(w)
      PROVE  RInv'
  <2>1. CASE \E s \in Searches : Look(w, s) \/ TellDelete(w, s) \/ DropMatch(w, s)
    BY <2>1, WalkInv
  <2>2. CASE Test(w) \/ Kill(w) \/ Act(w) \/ Forget(w)
    <3>1. change[w] \in Busy
      BY <2>2 DEF Busy, Test, Kill, Act, Forget
    <3>2. at[w] \in Searches
      BY <3>1 DEF RInv, TypeOK, Locks, LocksAt
    <3> QED BY <2>2, <3>2, WalkInv
  <2>3. CASE \/ syncprov_op_mod(w) \/ QueueUp(w) \/ TurnComes(w) \/ GiveUp(w) \/ syncprov_matchops(w)
             \/ Looked(w) \/ Fail(w) \/ syncprov_op_response(w) \/ Told(w)
             \/ syncprov_op_cleanup(w) \/ LeaveQueue(w) \/ FreeTarget(w)
    BY <2>3, QueueInv
  <2> QED BY <1>2, <2>1, <2>2, <2>3 DEF ChangeStep
<1>3. CASE syncprov_db_close
  BY <1>3, CloseInv
<1>4. CASE syncprov_db_destroy
  <2>1. TypeOK'
    BY <1>4, CloseTyped DEF RInv
  <2> QED BY SMT, <1>4, <2>1
          DEF syncprov_db_destroy, sync, conn, play, walk, RInv, Locks, LocksAt, Picked, PickedAt,
              Counted, Users, Records, RecordAt, UnbornAt, BitsAt, ConnectedAt
<1>5. CASE UNCHANGED vars
  <2>1. UNCHANGED <<moving, setup>> /\ UNCHANGED <<sync, conn, play, walk, mods, search, overlay>>
    BY <1>5 DEF vars, moving
  <2>2. TypeOK'
    BY <2>1 DEF sync, conn, play, walk, mods, RInv, TypeOK
  <2> QED BY ZenonT(60), <2>1, <2>2
          DEF sync, conn, play, walk, RInv, Locks, LocksAt, Picked, PickedAt, Counted, Users,
              Records, RecordAt, UnbornAt, BitsAt, ConnectedAt
<1> QED BY <1>1, <1>2, <1>3, <1>4, <1>5 DEF Next

(* What RInv says of the records.                                          *)
LEMMA RecordsFollow == RInv => ReferencesHeld
<1> SUFFICES ASSUME RInv PROVE ReferencesHeld
  OBVIOUS
<1>1. ASSUME NEW s \in Searches, NEW w \in Changes, at[w] = s
      PROVE  s \in si_ops \/ (change[w] = "killing" /\ "UNLINK" \in flags[s])
  BY <1>1, PsearchAssumption DEF RInv, Picked, PickedAt
<1> QED BY <1>1 DEF RInv, Records, RecordAt, BitsAt, Counted, ReferencesHeld

(* What RInv says of the consumers.                                        *)
LEMMA KickedFollows == RInv => EndedIsKicked
BY DEF RInv, TypeOK, Records, RecordAt, BitsAt, ConnectedAt, EndedIsKicked, Refs

-----------------------------------------------------------------------------
(* Facts about sequences.                                                  *)

(* The places of two sequences joined.                                     *)
LEMMA JoinPlaces ==
  ASSUME NEW S, NEW q \in Seq(S), NEW r \in Seq(S)
  PROVE  /\ Len(q \o r) = Len(q) + Len(r)
         /\ \A k \in 1 .. (Len(q) + Len(r)) :
              (q \o r)[k] = IF k <= Len(q) THEN q[k] ELSE r[k - Len(q)]
BY SMT

(* Nothing is added to a sequence.                                         *)
LEMMA JoinEmpty ==
  ASSUME NEW S, NEW q \in Seq(S)
  PROVE  q \o <<>> = q
BY SMT

(* One element is added to a sequence.                                     *)
LEMMA JoinOne ==
  ASSUME NEW S, NEW q \in Seq(S), NEW w \in S
  PROVE  Append(q, w) = q \o <<w>> /\ <<w>> \in Seq(S)
BY SMT

(* Three sequences joined.                                                 *)
LEMMA JoinThree ==
  ASSUME NEW S, NEW p \in Seq(S), NEW q \in Seq(S), NEW r \in Seq(S)
  PROVE  (p \o q) \o r = p \o (q \o r)
BY SMTT(60)

-----------------------------------------------------------------------------
(* The order of the changes.                                               *)

(* The changes that si_active counts.                                      *)
Active == {w \in Changes : change[w] \notin {"new", "drop", "free", "done", "gone"}}

ActiveCounted == si_active >= Cardinality(Active)

(* The change that publishes has si_resp_mutex.                            *)
RespAt(w) ==
  /\ change[w] = "tell" => si_resp_mutex = w
  /\ si_resp_mutex = w => change[w] \in Walking \cup {"match", "tell"}
  /\ change[w] \notin Walking \cup {"tell"} => todo[w] = {}
  /\ at[w] \notin todo[w]

Resp == \A w \in Changes : RespAt(w)

(* A search that the change w has still to come to.                        *)
Ahead(w, s) ==
  /\ s # job[w].from
  /\ change[w] = "match" \/ s \in todo[w] \/ (at[w] = s /\ change[w] \in {"test", "act"})

(* Before it is executed a change remembers the searches that match.       *)
Saving(w) ==
  /\ si_resp_mutex # w /\ job[w].kind # "add"
  /\ change[w] \in Walking \cup {"match", "execute"}

RememberedAt(w) ==
  /\ \A s \in smatches[w] : s \in job[w].match /\ s # job[w].from
  /\ Saving(w) => \A s \in job[w].match : ~Gone(s) /\ s # job[w].from =>
                    s \in smatches[w] \/ Ahead(w, s)
  /\ change[w] \in {"kill", "killing"} => Gone(at[w])
  /\ at[w] # Nobody => at[w] # job[w].from
  /\ change[w] = "tell" => todo[w] \subseteq smatches[w]

Remembered == \A w \in Changes : RememberedAt(w)

(* Nothing is published for a search before its registration.              *)
FreshAt(s) ==
  search[s] \in {"new", "wait"} => s_rl[s] = <<>> /\ sent[s] = <<>> /\ due[s] = <<>>

Fresh == \A s \in Searches : FreshAt(s)

Expected(s) ==
  IF si_resp_mutex # Nobody /\ Ahead(si_resp_mutex, s)
  THEN Append(InTransit(s), si_resp_mutex)
  ELSE InTransit(s)

PublishedAt(s) ==
  /\ task[s] # "sending" => flying[s] = <<>>
  /\ ~Gone(s) => due[s] = Expected(s)

Published == \A s \in Searches : PublishedAt(s)

OInv == RInv /\ ActiveCounted /\ Resp /\ Remembered /\ Fresh /\ Published

(* No change is active when si_active is zero.                             *)
LEMMA ActiveNone ==
  ASSUME Counting, OInv, si_active = 0
  PROVE  \A w \in Changes : change[w] \in {"new", "drop", "free", "done", "gone"}
<1>1. Active \in SUBSET Changes /\ Cardinality(Active) \in Nat
  BY DEF Active, Counting
<1>2. Cardinality(Active) = 0
  BY SMT, <1>1 DEF OInv, ActiveCounted
<1>3. Active = {}
  BY <1>1, <1>2 DEF Counting
<1> QED BY <1>3 DEF Active

(* A step that no change takes.                                            *)
Apart ==
  UNCHANGED <<change, smatches, todo, at, job, si_active, si_resp_mutex, due>>

(* What a change knows of the searches stays true while they only die.     *)
LEMMA ApartInv ==
  ASSUME Counting, OInv, RInv', Apart, Fresh', Published',
         \A t \in Searches : Gone(t) => Gone(t)' \/ si_active = 0
  PROVE  OInv'
<1>1. ActiveCounted' /\ Resp'
  BY DEF OInv, Apart, ActiveCounted, Active, Resp, RespAt
<1>2. ASSUME NEW w \in Changes
      PROVE  RememberedAt(w)'
  <2>1. RememberedAt(w) /\ job[w].match \subseteq Searches
    BY DEF OInv, RInv, TypeOK, Jobs, Remembered
  <2>2. change[w] \in {"kill", "killing"} => at[w] \in Searches
    BY DEF OInv, RInv, TypeOK, Locks, LocksAt, Busy
  <2>3. Saving(w)' = Saving(w) /\ \A t : Ahead(w, t)' = Ahead(w, t)
    BY DEF Saving, Ahead, Apart
  <2>4. CASE si_active = 0
    BY <2>1, <2>3, <2>4, ActiveNone DEF RememberedAt, Saving, Apart, Walking, Busy
  <2>5. CASE si_active # 0
    BY <2>1, <2>2, <2>3, <2>5 DEF RememberedAt, Apart
  <2> QED BY <2>4, <2>5
<1> QED BY <1>1, <1>2 DEF OInv, Remembered

(* A step that neither queues nor sends anything, nor revives a search.    *)
Still ==
  /\ Apart /\ UNCHANGED <<s_rl, flying, sent>>
  /\ \A t \in Searches : /\ Gone(t) => Gone(t)'
                         /\ task[t] = "sending" => task'[t] = "sending"
                         /\ search'[t] \in {"new", "wait"} => search[t] \in {"new", "wait"}

(* Such a step keeps the invariant.                                        *)
LEMMA StillInv ==
  ASSUME Counting, OInv, RInv', Still
  PROVE  OInv'
<1>1. Fresh'
  BY DEF OInv, Fresh, FreshAt, Still, Apart
<1>2. \A t \in Searches : Expected(t)' = Expected(t)
  BY DEF Expected, Ahead, InTransit, Still, Apart
<1>3. Published'
  BY <1>2 DEF OInv, Published, PublishedAt, Still, Apart
<1> QED BY <1>1, <1>3, ApartInv DEF Still

(* The thread of a search keeps the order of the changes; a search is      *)
(* registered when si_active says that no change is under way, so none is  *)
(* published for it in part.                                               *)
LEMMA SearchOrder ==
  ASSUME Counting, OInv, RInv', NEW s \in Searches, SearchStep(s)
  PROVE  OInv'
<1> USE DEF sync, conn, play, walk, mods
<1>r. RecordAt(s) /\ Records /\ TypeOK
  BY DEF OInv, RInv, Records
<1>f. /\ flags \in [Searches -> SUBSET (Refs \cup Status)] /\ task \in [Searches -> TaskPc]
      /\ search \in [Searches -> SearchPc]
  BY <1>r DEF TypeOK, TaskPc, SearchPc
<1>u. ASSUME NEW U \in SUBSET Refs, NEW l \in BOOLEAN, "UNLINK" \notin U, Unlink(s, U, l),
             UNCHANGED abandoned
      PROVE  \A t \in Searches : Gone(t) => Gone(t)'
  <2>1. Trimmed(s, U)
    BY <1>r, <1>u, UnlinkTrims
  <2> QED BY <1>u, <2>1 DEF Trimmed, Gone, is_syncops_abandoned, Refs, Status
<1>1. CASE syncprov_op_search(s) \/ RegisterTooLate(s) \/ RefreshEnds(s)
  <2>1. Apart /\ UNCHANGED <<s_rl, flying, sent, task, si_ops, abandoned, flags>>
    BY <1>1 DEF syncprov_op_search, RegisterTooLate, RefreshEnds, Apart
  <2>2. \A t \in Searches : search'[t] \in {"new", "wait"} => search[t] \in {"new", "wait"}
    BY <1>1, <1>f DEF syncprov_op_search, RegisterTooLate, RefreshEnds
  <2> QED BY <2>1, <2>2, StillInv DEF Still, Gone, is_syncops_abandoned
<1>2. CASE Bailout(s) \/ Prepared(s) \/ Abort(s)
  <2>1. Apart /\ UNCHANGED <<s_rl, flying, sent, task, abandoned>>
    BY <1>2 DEF Bailout, Prepared, Abort, Apart
  <2>2. \A t \in Searches : search'[t] \in {"new", "wait"} => search[t] \in {"new", "wait"}
    BY <1>2, <1>f DEF Bailout, Prepared, Abort
  <2>3. \/ Unlink(s, {"PREPARE", "OP_SEARCH"}, FALSE) \/ Unlink(s, {"PREPARE"}, FALSE)
        \/ Unlink(s, {"OP_SEARCH"}, TRUE) \/ UNCHANGED <<flags, si_ops>>
        \/ flags' = [flags EXCEPT ![s] = @ \ {"PREPARE"}] /\ UNCHANGED si_ops
    BY <1>2 DEF Bailout, Prepared, Abort
  <2>4. \A t \in Searches : Gone(t) => Gone(t)'
    <3>1. CASE \/ UNCHANGED <<flags, si_ops>>
               \/ flags' = [flags EXCEPT ![s] = @ \ {"PREPARE"}] /\ UNCHANGED si_ops
      BY <1>f, <2>1, <3>1 DEF Gone, is_syncops_abandoned
    <3>2. CASE /\ ~UNCHANGED <<flags, si_ops>>
               /\ ~(flags' = [flags EXCEPT ![s] = @ \ {"PREPARE"}] /\ UNCHANGED si_ops)
      BY <1>u, <2>1, <2>3, <3>2 DEF Refs
    <3> QED BY <3>1, <3>2
  <2> QED BY <2>1, <2>2, <2>4, StillInv DEF Still
<1>3. CASE Detach(s)
  <2>1. Apart /\ UNCHANGED <<s_rl, flying, sent, abandoned, si_ops>>
    BY <1>3 DEF Detach, Apart
  <2>2. \A t \in Searches : search'[t] \in {"new", "wait"} => search[t] \in {"new", "wait"}
    BY <1>3, <1>f DEF Detach
  <2>3. task[s] = "none" /\ \A t \in Searches : t # s => task'[t] = task[t]
    BY <1>3, <1>f, <1>r DEF Detach, Enqueue, RecordAt, BitsAt
  <2>4. \A t \in Searches : "DEAD" \in flags[t] => "DEAD" \in flags'[t]
    BY SMT, <1>3, <1>f DEF Detach, Enqueue
  <2> QED BY <2>1, <2>2, <2>3, <2>4, StillInv DEF Still, Gone, is_syncops_abandoned
<1>4. CASE Register(s)
  <2>1. /\ Apart /\ UNCHANGED <<s_rl, flying, sent, task, abandoned>>
        /\ si_active = 0 /\ search[s] = "wait" /\ si_ops' = si_ops \cup {s}
        /\ search'[s] = "prepare"
        /\ \A t \in Searches : t # s => flags'[t] = flags[t] /\ search'[t] = search[t]
    BY <1>4, <1>f DEF Register, Apart
  <2>2. Fresh'
    BY <2>1 DEF OInv, Fresh, FreshAt, Apart
  <2>3. si_resp_mutex = Nobody
    <3>1. si_resp_mutex \in Changes \cup {Nobody}
      BY <1>r DEF TypeOK
    <3>2. \A w \in Changes : si_resp_mutex # w
      BY <2>1, ActiveNone DEF OInv, Resp, RespAt, Walking, Busy
    <3> QED BY <3>1, <3>2
  <2>4. \A t \in Searches : Expected(t)' = InTransit(t) /\ Expected(t) = InTransit(t)
    BY <2>1, <2>3 DEF Expected, Apart, InTransit
  <2>5. \A t \in Searches : t # s => (Gone(t)' <=> Gone(t))
    BY <2>1 DEF Gone, is_syncops_abandoned
  <2>6. flying[s] = <<>> /\ s_rl[s] = <<>> /\ sent[s] = <<>> /\ due[s] = <<>>
    BY <1>r, <2>1 DEF OInv, Fresh, FreshAt, Published, PublishedAt, RecordAt, UnbornAt, BitsAt
  <2>7. InTransit(s) = <<>>
    BY SMT, <2>6 DEF InTransit
  <2>8. PublishedAt(s)'
    BY <2>1, <2>4, <2>6, <2>7 DEF PublishedAt, Apart
  <2>9. ASSUME NEW t \in Searches, t # s PROVE PublishedAt(t)'
    BY <2>1, <2>4, <2>5, <2>9 DEF OInv, Published, PublishedAt, Apart
  <2> QED BY <2>1, <2>2, <2>8, <2>9, ApartInv DEF Published
<1> QED BY <1>1, <1>2, <1>3, <1>4 DEF SearchStep

(* The head of a queue moves to the hands of the task, and on to the       *)
(* consumer.                                                               *)
LEMMA QueueMoves ==
  ASSUME NEW p \in Seq(Changes), NEW q \in Seq(Changes), NEW r \in Seq(Changes)
  PROVE  /\ q # <<>> => p \o <<Head(q)>> \o Tail(q) = p \o <<>> \o q
         /\ (p \o q) \o <<>> \o r = p \o q \o r
<1>1. ASSUME q # <<>>
      PROVE  p \o <<Head(q)>> \o Tail(q) = p \o <<>> \o q
  <2>1. /\ Head(q) \in Changes /\ Tail(q) \in Seq(Changes) /\ <<Head(q)>> \in Seq(Changes)
        /\ q = <<Head(q)>> \o Tail(q)
    BY SMT, <1>1
  <2>2. p \o <<Head(q)>> \o Tail(q) = p \o (<<Head(q)>> \o Tail(q))
    BY SMTT(60), <2>1, JoinThree
  <2>3. p \o <<>> = p
    BY JoinEmpty
  <2> QED BY <2>1, <2>2, <2>3
<1>2. p \o q \in Seq(Changes)
  BY SMT
<1>3. (p \o q) \o <<>> = p \o q
  BY <1>2, JoinEmpty
<1> QED BY <1>1, <1>3

(* The playback task moves a response from the queue to the consumer and   *)
(* loses none.                                                             *)
LEMMA TaskOrder ==
  ASSUME Counting, OInv, RInv', NEW s \in Searches, TaskStep(s)
  PROVE  OInv'
<1> USE DEF sync, conn, play, walk, mods
<1>r. RecordAt(s) /\ Records /\ TypeOK /\ PublishedAt(s) /\ FreshAt(s)
  BY DEF OInv, RInv, Records, Published, Fresh
<1>f. /\ flags \in [Searches -> SUBSET (Refs \cup Status)] /\ task \in [Searches -> TaskPc]
      /\ s_rl \in [Searches -> Seq(Changes)] /\ flying \in [Searches -> Seq(Changes)]
      /\ sent \in [Searches -> Seq(Changes)]
  BY <1>r DEF TypeOK, TaskPc
<1>1. CASE PlaybackEnds(s)
  <2>1. Apart /\ UNCHANGED <<s_rl, flying, sent, abandoned, search>>
    BY <1>1 DEF PlaybackEnds, Apart
  <2>2. task[s] # "sending" /\ \A t \in Searches : t # s => task'[t] = task[t]
    BY <1>1, <1>f DEF PlaybackEnds
  <2>3. \A t \in Searches : (t \in si_ops' => t \in si_ops) /\ ("DEAD" \in flags[t] => "DEAD" \in flags'[t])
    <3>1. CASE Unlink(s, {"PLAYBACK"}, FALSE) \/ Unlink(s, {"PLAYBACK", "OP_SEARCH"}, FALSE)
      <4>1. Trimmed(s, {"PLAYBACK"}) \/ Trimmed(s, {"PLAYBACK", "OP_SEARCH"})
        BY <1>r, <3>1, UnlinkTrims DEF Refs
      <4> QED BY <4>1 DEF Trimmed, Refs, Status
    <3>2. CASE task[s] = "unlinking" /\ UnlinkResumes(s, {"PLAYBACK", "OP_SEARCH"})
      BY <1>f, <3>2 DEF UnlinkResumes, Release
    <3>3. CASE UnlinkWaits(s, {"PLAYBACK", "OP_SEARCH"})
      BY <1>f, <3>3 DEF UnlinkWaits, Unlisted
    <3> QED BY <1>1, <3>1, <3>2, <3>3 DEF PlaybackEnds
  <2> QED BY <2>1, <2>2, <2>3, StillInv DEF Still, Gone, is_syncops_abandoned
<1>2. CASE syncprov_playback_dequeue(s) \/ syncprov_sendresp(s)
  <2>1. /\ Apart /\ UNCHANGED <<abandoned, search, si_ops>> /\ task[s] \in {"queued", "sending"}
        /\ \A t \in Searches : t # s => /\ flags'[t] = flags[t] /\ task'[t] = task[t] /\ s_rl'[t] = s_rl[t]
                                        /\ flying'[t] = flying[t] /\ sent'[t] = sent[t]
        /\ "DEAD" \in flags[s] => "DEAD" \in flags'[s]
    <3>1. /\ Apart /\ UNCHANGED <<abandoned, search, si_ops>> /\ task[s] \in {"queued", "sending"}
      BY <1>2 DEF syncprov_playback_dequeue, syncprov_sendresp, Apart
    <3>2. CASE syncprov_playback_dequeue(s)
      BY <1>f, <3>1, <3>2 DEF syncprov_playback_dequeue, Settle
    <3>3. CASE syncprov_sendresp(s)
      BY <1>f, <3>1, <3>3 DEF syncprov_sendresp, Settle
    <3> QED BY <1>2, <3>2, <3>3
  <2>2. search[s] \notin {"new", "wait"}
    BY <1>r, <2>1 DEF RecordAt, BitsAt, UnbornAt
  <2>3. Fresh'
    BY <2>1, <2>2 DEF OInv, Fresh, FreshAt, Apart
  <2>4. \A t \in Searches : (Gone(t) => Gone(t)') /\ (t # s => (Gone(t)' <=> Gone(t)))
    BY <2>1 DEF Gone, is_syncops_abandoned
  <2>5. ASSUME NEW t \in Searches, t # s PROVE PublishedAt(t)'
    <3>1. Expected(t)' = Expected(t)
      BY <2>1, <2>5 DEF Expected, Ahead, InTransit, Apart
    <3> QED BY <2>1, <2>4, <2>5, <3>1 DEF OInv, Published, PublishedAt, Apart
  <2>6. task'[s] # "sending" => flying'[s] = <<>>
    <3>1. CASE syncprov_playback_dequeue(s)
      BY <1>f, <1>r, <3>1 DEF syncprov_playback_dequeue, Settle, PublishedAt
    <3>2. CASE syncprov_sendresp(s)
      BY <1>f, <3>2 DEF syncprov_sendresp
    <3> QED BY <1>2, <3>1, <3>2
  <2>7. ASSUME ~Gone(s)' PROVE InTransit(s)' = InTransit(s)
    <3>1. "DEAD" \notin flags'[s]
      BY <2>7 DEF Gone
    <3>2. CASE syncprov_playback_dequeue(s) /\ s_rl[s] = <<>>
      BY <1>f, <3>1, <3>2 DEF syncprov_playback_dequeue, Settle, InTransit
    <3>3. CASE syncprov_playback_dequeue(s) /\ s_rl[s] # <<>>
      <4>1. /\ flying[s] = <<>> /\ flying'[s] = <<Head(s_rl[s])>> /\ s_rl'[s] = Tail(s_rl[s])
            /\ sent'[s] = sent[s]
        BY <1>f, <1>r, <3>3 DEF syncprov_playback_dequeue, PublishedAt
      <4>2. sent[s] \o <<Head(s_rl[s])>> \o Tail(s_rl[s]) = sent[s] \o <<>> \o s_rl[s]
        BY <1>f, <3>3, QueueMoves
      <4> QED BY <4>1, <4>2 DEF InTransit
    <3>4. CASE syncprov_sendresp(s)
      <4>1. flying'[s] = <<>> /\ sent'[s] = sent[s] \o flying[s] /\ s_rl'[s] = s_rl[s]
        BY <1>f, <3>1, <3>4 DEF syncprov_sendresp, Settle
      <4>2. (sent[s] \o flying[s]) \o <<>> \o s_rl[s] = sent[s] \o flying[s] \o s_rl[s]
        BY SMT, <1>f, QueueMoves
      <4> QED BY <4>1, <4>2 DEF InTransit
    <3> QED BY <1>2, <3>2, <3>3, <3>4
  <2>8. ~Gone(s)' => Expected(s)' = Expected(s)
    BY <2>1, <2>7 DEF Expected, Ahead, Apart
  <2>9. PublishedAt(s)'
    BY <1>r, <2>1, <2>4, <2>6, <2>8 DEF PublishedAt, Apart
  <2> QED BY <2>1, <2>3, <2>4, <2>5, <2>9, ApartInv DEF Published
<1> QED BY <1>1, <1>2 DEF TaskStep

(* Abandon and Cancel only end searches.                                   *)
LEMMA QuitOrder ==
  ASSUME Counting, OInv, RInv', NEW s \in Searches, QuitStep(s) \/ MarkAbandoned(s)
  PROVE  OInv'
<1> USE DEF sync, conn, play, walk, mods
<1>r. Records /\ TypeOK
  BY DEF OInv, RInv
<1>f. flags \in [Searches -> SUBSET (Refs \cup Status)]
  BY <1>r DEF TypeOK
<1>1. Apart /\ UNCHANGED <<s_rl, flying, sent, task, search>>
  BY DEF QuitStep, MarkAbandoned, syncprov_op_abandon, AbandonUnlinks, Apart
<1>2. \A t \in Searches : /\ t \in si_ops' => t \in si_ops
                          /\ t \in abandoned => t \in abandoned'
                          /\ "DEAD" \in flags[t] => "DEAD" \in flags'[t]
  <2>1. CASE MarkAbandoned(s) \/ syncprov_op_abandon(s)
    BY <1>f, <2>1 DEF MarkAbandoned, syncprov_op_abandon
  <2>2. CASE AbandonUnlinks(s)
    <3>1. Trimmed(s, {"OP_SEARCH", "ABANDON"}) /\ abandoned' = abandoned
      BY <1>r, <2>2, UnlinkTrims DEF AbandonUnlinks, Refs
    <3> QED BY <3>1 DEF Trimmed, Refs, Status
  <2> QED BY <2>1, <2>2 DEF QuitStep
<1> QED BY <1>1, <1>2, StillInv DEF Still, Gone, is_syncops_abandoned

(* syncprov_db_close ends all searches; syncprov_db_destroy touches none.  *)
LEMMA CloseOrder ==
  ASSUME Counting, OInv, RInv', syncprov_db_close \/ syncprov_db_destroy \/ UNCHANGED vars
  PROVE  OInv'
<1> USE DEF vars, moving, sync, conn, play, walk, mods
<1>1. Apart /\ UNCHANGED <<s_rl, flying, sent, search, abandoned>>
  BY DEF syncprov_db_close, syncprov_db_destroy, Apart
<1>2. \A t \in Searches : /\ t \in si_ops' => t \in si_ops /\ flags'[t] = flags[t]
                          /\ t \notin si_ops => t \notin si_ops'
                          /\ task[t] = "sending" => task'[t] = "sending"
  BY DEF syncprov_db_close, syncprov_db_destroy
<1> QED BY <1>1, <1>2, StillInv DEF Still, Gone, is_syncops_abandoned

-----------------------------------------------------------------------------
(* A step of the change w leaves the other changes alone and revives no    *)
(* search.                                                                 *)
Step(w) ==
  /\ job' = job
  /\ \A v \in Changes : v # w =>
       /\ change'[v] = change[v] /\ smatches'[v] = smatches[v] /\ todo'[v] = todo[v]
       /\ at'[v] = at[v]
       /\ si_resp_mutex' = v <=> si_resp_mutex = v
  /\ UNCHANGED <<flying, sent, search>>
  /\ \A s \in Searches : Gone(s) => Gone(s)'

(* Such a step keeps the invariant if it keeps what concerns w itself.     *)
LEMMA StepInv ==
  ASSUME OInv, RInv', NEW w \in Changes, Step(w), ActiveCounted', RespAt(w)', RememberedAt(w)',
         Fresh', Published'
  PROVE  OInv'
<1>1. Resp'
  BY DEF OInv, Resp, RespAt, Step
<1>2. ASSUME NEW v \in Changes, v # w
      PROVE  RememberedAt(v)'
  <2>1. RememberedAt(v) /\ job[v].match \subseteq Searches
    BY DEF OInv, RInv, TypeOK, Jobs, Remembered
  <2>2. change[v] \in {"kill", "killing"} => at[v] \in Searches
    BY ZenonT(60) DEF OInv, RInv, TypeOK, Locks, LocksAt, Busy
  <2>3. /\ Saving(v)' <=> Saving(v)
        /\ \A t : Ahead(v, t)' <=> Ahead(v, t)
    BY <1>2 DEF Saving, Ahead, Step
  <2> QED BY <1>2, <2>1, <2>2, <2>3 DEF RememberedAt, Step
<1> QED BY <1>1, <1>2 DEF OInv, Remembered

(* si_active, as changes come and go.                                      *)
LEMMA ActiveChanges ==
  ASSUME Counting, OInv, NEW w \in Changes, Step(w),
         \/ si_active' = si_active /\ (w \in Active' => w \in Active)
         \/ si_active' = si_active + 1
         \/ si_active' = si_active - 1 /\ w \in Active /\ w \notin Active'
  PROVE  ActiveCounted'
<1>1. Active \in SUBSET Changes /\ si_active \in Int /\ si_active >= Cardinality(Active)
  BY DEF Active, OInv, RInv, TypeOK, ActiveCounted
<1>2. CASE si_active' = si_active /\ (w \in Active' => w \in Active)
  <2>1. Active' \subseteq Active
    BY <1>2 DEF Active, Step
  <2>2. Cardinality(Active) \in Nat /\ Cardinality(Active') \in Nat /\ Cardinality(Active') <= Cardinality(Active)
    BY <1>1, <2>1, OneLess
  <2> QED BY SMT, <1>1, <1>2, <2>2 DEF ActiveCounted
<1>3. CASE si_active' = si_active + 1
  <2>1. Active' \subseteq Active \cup {w}
    BY DEF Active, Step
  <2>2. Cardinality(Active) \in Nat /\ Cardinality(Active') \in Nat /\ Cardinality(Active') <= Cardinality(Active) + 1
    BY <1>1, <2>1, OneMore
  <2> QED BY SMT, <1>1, <1>3, <2>2 DEF ActiveCounted
<1>4. CASE si_active' = si_active - 1 /\ w \in Active /\ w \notin Active'
  <2>1. Active' \subseteq Active \ {w} /\ w \in Active
    BY <1>4 DEF Active, Step
  <2>2. Cardinality(Active) \in Nat /\ Cardinality(Active') \in Nat /\ Cardinality(Active') <= Cardinality(Active) - 1
    BY <1>1, <2>1, OneLess
  <2> QED BY SMT, <1>1, <1>4, <2>2 DEF ActiveCounted
<1> QED BY <1>2, <1>3, <1>4

(* A step that publishes and queues nothing.                               *)
LEMMA QuietPublished ==
  ASSUME OInv, NEW w \in Changes, Step(w), UNCHANGED <<due, s_rl, task>>,
         \/ /\ si_resp_mutex' = si_resp_mutex
            /\ si_resp_mutex = w => \A s \in Searches : ~Gone(s)' => (Ahead(w, s)' <=> Ahead(w, s))
         \/ si_resp_mutex = w /\ si_resp_mutex' = Nobody /\ \A s \in Searches : ~Ahead(w, s)
  PROVE  Published'
<1> SUFFICES ASSUME NEW s \in Searches
             PROVE  PublishedAt(s)'
  BY DEF Published
<1>1. PublishedAt(s) /\ (~Gone(s)' => ~Gone(s))
  BY DEF OInv, Published, Step
<1>2. InTransit(s)' = InTransit(s)
  BY DEF InTransit, Step
<1>3. ASSUME ~Gone(s)'
      PROVE  Expected(s)' = Expected(s)
  <2>1. CASE si_resp_mutex = w
    BY <1>2, <1>3, <2>1 DEF Expected
  <2>2. CASE si_resp_mutex = Nobody
    BY <1>2, <2>2, PsearchAssumption DEF Expected
  <2>3. CASE si_resp_mutex \in Changes /\ si_resp_mutex # w
    BY <1>2, <2>3 DEF Expected, Ahead, Step
  <2> QED BY <2>1, <2>2, <2>3 DEF OInv, RInv, TypeOK
<1> QED BY <1>1, <1>3 DEF PublishedAt, Step

(* The queue grows at its end.                                             *)
LEMMA QueueGrows ==
  ASSUME NEW p \in Seq(Changes), NEW q \in Seq(Changes), NEW r \in Seq(Changes), NEW w \in Changes
  PROVE  p \o q \o Append(r, w) = Append(p \o q \o r, w)
<1>1. p \o q \in Seq(Changes) /\ p \o q \o r \in Seq(Changes) /\ <<w>> \in Seq(Changes)
  BY SMT
<1>2. Append(r, w) = r \o <<w>>
  BY JoinOne
<1>3. p \o q \o (r \o <<w>>) = (p \o q \o r) \o <<w>>
  BY SMTT(60), <1>1, JoinThree
<1>4. (p \o q \o r) \o <<w>> = Append(p \o q \o r, w)
  BY <1>1, JoinOne
<1> QED BY <1>2, <1>3, <1>4

(* A search is told of the change that is being published.                 *)
LEMMA Tells ==
  ASSUME OInv, NEW w \in Changes, NEW s \in Searches, Step(w), UNCHANGED due,
         si_resp_mutex = w, si_resp_mutex' = w, ~Gone(s), Ahead(w, s), ~Ahead(w, s)',
         s_rl'[s] = Append(s_rl[s], w), task[s] = "sending" => task'[s] = "sending",
         \A t \in Searches : t # s =>
           /\ s_rl'[t] = s_rl[t] /\ task'[t] = task[t]
           /\ ~Gone(t)' => (Ahead(w, t)' <=> Ahead(w, t))
  PROVE  Published'
<1>1. w # Nobody
  BY PsearchAssumption
<1>2. ASSUME NEW t \in Searches, t # s
      PROVE  PublishedAt(t)'
  <2>1. PublishedAt(t) /\ (~Gone(t)' => ~Gone(t))
    BY DEF OInv, Published, Step
  <2>2. InTransit(t)' = InTransit(t)
    BY <1>2 DEF InTransit, Step
  <2>3. ~Gone(t)' => Expected(t)' = Expected(t)
    BY <1>2, <2>2 DEF Expected
  <2> QED BY <1>2, <2>1, <2>3 DEF PublishedAt, Step
<1>3. PublishedAt(s)'
  <2>1. PublishedAt(s) /\ due[s] = Append(InTransit(s), w)
    BY <1>1 DEF OInv, Published, PublishedAt, Expected
  <2>2. sent[s] \in Seq(Changes) /\ flying[s] \in Seq(Changes) /\ s_rl[s] \in Seq(Changes)
    BY DEF OInv, RInv, TypeOK
  <2>3. InTransit(s)' = Append(InTransit(s), w)
    <3>1. sent[s] \o flying[s] \o Append(s_rl[s], w) = Append(sent[s] \o flying[s] \o s_rl[s], w)
      BY ZenonT(60), <2>2, QueueGrows
    <3> QED BY <3>1 DEF InTransit, Step
  <2>4. Expected(s)' = InTransit(s)'
    BY DEF Expected
  <2> QED BY <2>1, <2>3, <2>4 DEF PublishedAt, Step
<1> QED BY <1>2, <1>3 DEF Published

(* The types that a step of a change leans on.                             *)
LEMMA ChangeTyped ==
  ASSUME OInv, NEW w \in Changes
  PROVE  /\ change \in [Changes -> ChangePc] /\ todo \in [Changes -> SUBSET Searches]
         /\ due \in [Searches -> Seq(Changes)] /\ si_ops \subseteq Searches
         /\ job[w].match \subseteq Searches /\ w # Nobody /\ Nobody \notin Searches
<1>1. /\ change \in [Changes -> ChangePc] /\ todo \in [Changes -> SUBSET Searches]
      /\ due \in [Searches -> Seq(Changes)] /\ si_ops \subseteq Searches
  BY DEF OInv, RInv, TypeOK, ChangePc
<1>2. job[w].match \subseteq Searches
  BY DEF OInv, RInv, TypeOK, Jobs
<1> QED BY <1>1, <1>2, PsearchAssumption

(* The steps of a change outside the walk over the searches keep the order *)
(* of the changes.                                                         *)
LEMMA QueueOrder ==
  ASSUME Counting, OInv, RInv', NEW w \in Changes,
         \/ syncprov_op_mod(w) \/ QueueUp(w) \/ TurnComes(w) \/ GiveUp(w) \/ syncprov_matchops(w)
         \/ Looked(w) \/ Fail(w) \/ Told(w) \/ syncprov_op_cleanup(w) \/ LeaveQueue(w) \/ FreeTarget(w)
  PROVE  OInv'
<1> USE DEF sync, conn, play, walk, mods
<1>c. /\ change \in [Changes -> ChangePc] /\ todo \in [Changes -> SUBSET Searches]
      /\ si_ops \subseteq Searches /\ w # Nobody /\ Nobody \notin Searches
      /\ job[w].match \subseteq Searches
  BY ChangeTyped
<1>r. RespAt(w) /\ RememberedAt(w) /\ (at[w] # Nobody <=> change[w] \in Busy)
  BY DEF OInv, RInv, Resp, Remembered, Locks, LocksAt
<1>1. UNCHANGED <<flags, si_ops, abandoned, search, s_rl, task, flying, sent, due, smatches, at, job>>
  BY DEF syncprov_op_mod, QueueUp, TurnComes, GiveUp, syncprov_matchops, Looked, Fail, Told,
         syncprov_op_cleanup, LeaveQueue, FreeTarget
<1>g. \A t \in Searches : Gone(t)' <=> Gone(t)
  BY <1>1 DEF Gone, is_syncops_abandoned
<1>2. /\ \A v \in Changes : v # w => change'[v] = change[v] /\ todo'[v] = todo[v]
      /\ si_resp_mutex' = si_resp_mutex \/ (si_resp_mutex = w /\ si_resp_mutex' = Nobody)
  <2>1. CASE syncprov_op_mod(w) \/ QueueUp(w) \/ TurnComes(w) \/ GiveUp(w)
    BY <1>c, <2>1 DEF syncprov_op_mod, QueueUp, TurnComes, GiveUp
  <2>2. CASE syncprov_matchops(w) \/ Looked(w) \/ Fail(w) \/ Told(w)
    BY <1>c, <1>r, <2>2 DEF syncprov_matchops, Looked, Fail, Told, saveit, RespAt
  <2>3. CASE syncprov_op_cleanup(w) \/ LeaveQueue(w) \/ FreeTarget(w)
    BY <1>c, <2>3 DEF syncprov_op_cleanup, LeaveQueue, FreeTarget
  <2> QED BY <2>1, <2>2, <2>3
<1>3. Step(w) /\ Fresh'
  BY <1>1, <1>2, <1>g, PsearchAssumption DEF Step, OInv, Fresh, FreshAt
<1>q. ASSUME \/ si_active' = si_active /\ (w \in Active' => w \in Active)
             \/ si_active' = si_active + 1
             \/ si_active' = si_active - 1 /\ w \in Active /\ w \notin Active',
             \/ /\ si_resp_mutex' = si_resp_mutex
                /\ si_resp_mutex = w => \A s \in Searches : ~Gone(s)' => (Ahead(w, s)' <=> Ahead(w, s))
             \/ si_resp_mutex = w /\ si_resp_mutex' = Nobody /\ \A s \in Searches : ~Ahead(w, s),
             RespAt(w)', RememberedAt(w)'
      PROVE  OInv'
  <2>1. ActiveCounted'
    BY <1>3, <1>q, ActiveChanges
  <2>2. Published'
    BY <1>1, <1>3, <1>q, QuietPublished
  <2> QED BY <1>3, <1>q, <2>1, <2>2, StepInv
<1>4. CASE syncprov_op_mod(w)
  <2>1. /\ si_active' = si_active + 1 /\ si_resp_mutex' = si_resp_mutex /\ si_resp_mutex # w
        /\ change[w] = "new" /\ todo'[w] = {} /\ at[w] = Nobody
        /\ change'[w] = "queue" \/ (change'[w] = "execute" /\ si_ops = {})
    BY <1>c, <1>r, <1>4 DEF syncprov_op_mod, RespAt, Walking, Busy
  <2>2. RespAt(w)'
    BY <1>1, <2>1 DEF RespAt, Walking, Busy
  <2>3. RememberedAt(w)'
    BY <1>c, <1>r, <1>1, <2>1 DEF RememberedAt, Saving, Gone, is_syncops_abandoned, Walking, Busy
  <2> QED BY <1>q, <2>1, <2>2, <2>3
<1>5. CASE QueueUp(w) \/ GiveUp(w) \/ Fail(w) \/ LeaveQueue(w) \/ FreeTarget(w) \/ syncprov_op_cleanup(w)
  <2>1. /\ si_resp_mutex' = si_resp_mutex /\ todo' = todo
        /\ change[w] \in {"queue", "turn", "execute", "drop", "free", "clean"}
        /\ change'[w] \in {"turn", "gone", "clean", "drop", "free", "done"}
        /\ \/ si_active' = si_active /\ (w \in Active' => w \in Active)
           \/ si_active' = si_active - 1 /\ w \in Active /\ w \notin Active'
    BY <1>c, <1>5 DEF QueueUp, GiveUp, Fail, LeaveQueue, FreeTarget, syncprov_op_cleanup, Active
  <2>2. si_resp_mutex # w /\ todo[w] = {} /\ at[w] = Nobody
    BY <1>r, <2>1 DEF RespAt, Walking, Busy
  <2>3. RespAt(w)'
    BY <1>1, <2>1, <2>2 DEF RespAt, Walking, Busy
  <2>4. RememberedAt(w)'
    BY <1>r, <1>1, <2>1, <2>2 DEF RememberedAt, Saving, Walking, Busy
  <2> QED BY <1>q, <2>1, <2>2, <2>3, <2>4
<1>6. CASE TurnComes(w)
  <2>1. /\ si_resp_mutex' = si_resp_mutex /\ todo' = todo /\ si_active' = si_active
        /\ change[w] = "turn"
        /\ change'[w] = "match" \/ (change'[w] = "execute" /\ job[w].kind = "add")
    BY <1>c, <1>6 DEF TurnComes
  <2>2. si_resp_mutex # w /\ todo[w] = {} /\ at[w] = Nobody /\ w \in Active
    BY <1>r, <2>1 DEF RespAt, Walking, Busy, Active
  <2>3. RespAt(w)'
    BY <1>1, <2>1, <2>2 DEF RespAt, Walking, Busy
  <2>4. RememberedAt(w)'
    BY <1>r, <1>1, <2>1, <2>2 DEF RememberedAt, Saving, Ahead, Walking, Busy
  <2> QED BY <1>q, <2>1, <2>2, <2>3, <2>4
<1>7. CASE syncprov_matchops(w)
  <2>1. /\ si_resp_mutex' = si_resp_mutex /\ todo'[w] = si_ops /\ si_active' = si_active
        /\ change[w] = "match" /\ change'[w] = "look"
    BY <1>c, <1>7 DEF syncprov_matchops
  <2>2. at[w] = Nobody /\ w \in Active
    BY <1>r, <2>1 DEF Busy, Active
  <2>3. \A s \in Searches : ~Gone(s) => (Ahead(w, s)' <=> Ahead(w, s))
    BY <1>1, <2>1 DEF Ahead, Gone, is_syncops_abandoned
  <2>4. RespAt(w)'
    BY <1>c, <1>r, <1>1, <2>1, <2>2 DEF RespAt, Walking, Busy
  <2>5. RememberedAt(w)'
    BY ZenonT(60), <1>c, <1>r, <1>1, <1>g, <2>1, <2>2, <2>3 DEF RememberedAt, Saving, Walking, Busy
  <2> QED BY ZenonT(60), <1>q, <1>g, <2>1, <2>2, <2>3, <2>4, <2>5
<1>8. CASE Looked(w) \/ Told(w)
  <2>1. /\ todo' = todo /\ si_active' = si_active /\ todo[w] = {}
        /\ \/ /\ change[w] = "look" /\ change'[w] = "execute"
              /\ si_resp_mutex # w /\ si_resp_mutex' = si_resp_mutex
           \/ /\ change[w] \in {"look", "tell"} /\ change'[w] = "clean"
              /\ si_resp_mutex = w /\ si_resp_mutex' = Nobody
    BY <1>c, <1>r, <1>8 DEF Looked, Told, saveit, RespAt
  <2>2. at[w] = Nobody /\ w \in Active
    BY <1>r, <2>1 DEF Busy, Active
  <2>3. \A s \in Searches : ~Ahead(w, s)
    BY <1>c, <2>1, <2>2 DEF Ahead
  <2>4. RespAt(w)'
    BY <1>c, <1>r, <1>1, <2>1, <2>2 DEF RespAt, Walking, Busy
  <2>5. RememberedAt(w)'
    BY ZenonT(60), <1>c, <1>r, <1>1, <1>g, <2>1, <2>2, <2>3 DEF RememberedAt, Saving, Walking, Busy
  <2> QED BY <1>q, <2>1, <2>2, <2>3, <2>4, <2>5
<1> QED BY ZenonT(60), <1>4, <1>5, <1>6, <1>7, <1>8

(* syncprov_op_response publishes the change: it is due to exactly the     *)
(* searches that the change has still to come to.                          *)
LEMMA ResponseOrder ==
  ASSUME Counting, OInv, RInv', NEW w \in Changes, syncprov_op_response(w)
  PROVE  OInv'
<1> USE DEF sync, conn, play, walk, mods
<1>c. /\ change \in [Changes -> ChangePc] /\ todo \in [Changes -> SUBSET Searches]
      /\ due \in [Searches -> Seq(Changes)]
      /\ si_ops \subseteq Searches /\ w # Nobody /\ Nobody \notin Searches
      /\ job[w].match \subseteq Searches
  BY ChangeTyped
<1>r. RespAt(w) /\ RememberedAt(w) /\ (at[w] # Nobody <=> change[w] \in Busy)
  BY DEF OInv, RInv, Resp, Remembered, Locks, LocksAt
<1>1. /\ UNCHANGED <<flags, si_ops, abandoned, search, s_rl, task, flying, sent, smatches, at, job>>
      /\ si_active' = si_active /\ change[w] = "execute" /\ si_resp_mutex = Nobody
      /\ \A t \in Searches : due'[t] = IF t \in Audience(w) THEN Append(due[t], w) ELSE due[t]
      /\ \A v \in Changes : v # w => change'[v] = change[v] /\ todo'[v] = todo[v]
      /\ \/ si_ops = {} /\ change'[w] = "clean" /\ si_resp_mutex' = Nobody /\ todo'[w] = todo[w]
         \/ /\ job[w].kind = "delete" /\ change'[w] = "tell" /\ si_resp_mutex' = w
            /\ todo'[w] = smatches[w]
         \/ /\ job[w].kind # "delete" /\ change'[w] = "match" /\ si_resp_mutex' = w
            /\ todo'[w] = todo[w]
  BY <1>c DEF syncprov_op_response
<1>2. at[w] = Nobody /\ todo[w] = {} /\ w \in Active /\ \A t \in Searches : ~Ahead(w, t)
  BY <1>c, <1>r, <1>1 DEF RespAt, Walking, Busy, Active, Ahead
<1>g. \A t \in Searches : Gone(t)' <=> Gone(t)
  BY <1>1 DEF Gone, is_syncops_abandoned
<1>3. Step(w)
  BY <1>1, <1>g, PsearchAssumption DEF Step
<1>4. \A t \in smatches[w] : t \in Searches
  BY <1>c, <1>r DEF RememberedAt
<1>5. RespAt(w)'
  BY <1>c, <1>1, <1>2, <1>4 DEF RespAt, Walking, Busy
<1>6. RememberedAt(w)'
  BY <1>r, <1>1, <1>2 DEF RememberedAt, Saving, Walking, Busy
<1>7. ActiveCounted'
  BY <1>1, <1>2, <1>3, ActiveChanges
<1>8. \A t \in Searches : search[t] \in {"new", "wait"} => t \notin si_ops
  BY DEF OInv, RInv, Records, RecordAt, UnbornAt, BitsAt
<1>9. Fresh'
  BY <1>1, <1>8 DEF OInv, Fresh, FreshAt, Audience
<1>10. ASSUME NEW t \in Searches
       PROVE  PublishedAt(t)'
  <2>1. PublishedAt(t)
    BY DEF OInv, Published
  <2>2. InTransit(t)' = InTransit(t)
    BY <1>1 DEF InTransit
  <2>3. CASE Gone(t)
    BY <1>1, <1>g, <2>1, <2>3 DEF PublishedAt
  <2>4. CASE ~Gone(t)
    <3>1. t \in si_ops /\ due[t] = InTransit(t)
      BY <1>1, <2>1, <2>4 DEF PublishedAt, Expected, Gone, is_syncops_abandoned
    <3>2. t \in Audience(w) <=> Ahead(w, t)'
      <4>1. CASE job[w].kind # "delete"
        BY <1>1, <3>1, <4>1 DEF Audience, Ahead
      <4>2. CASE job[w].kind = "delete"
        <5>1. t \in job[w].match /\ t # job[w].from <=> t \in smatches[w]
          BY <1>1, <1>2, <1>c, <1>r, <2>4, <4>2 DEF RememberedAt, Saving
        <5> QED BY <1>1, <1>2, <3>1, <4>2, <5>1 DEF Audience, Ahead
      <4> QED BY <4>1, <4>2
    <3>3. due'[t] = Expected(t)'
      BY ZenonT(60), <1>1, <1>c, <2>2, <3>1, <3>2 DEF Expected
    <3> QED BY <1>1, <2>1, <3>3 DEF PublishedAt
  <2> QED BY <2>3, <2>4
<1> QED BY ZenonT(60), <1>3, <1>5, <1>6, <1>7, <1>9, <1>10, StepInv DEF Published

(* A step of a change that goes on without queueing anything.              *)
LEMMA QuietInv ==
  ASSUME Counting, OInv, RInv', NEW w \in Changes, Step(w), w \in Active' => w \in Active,
         UNCHANGED <<due, s_rl, task, si_active, si_resp_mutex>>,
         si_resp_mutex = w => \A t \in Searches : ~Gone(t)' => (Ahead(w, t)' <=> Ahead(w, t)),
         RespAt(w)', RememberedAt(w)'
  PROVE  OInv'
<1>1. Fresh'
  BY DEF OInv, Fresh, FreshAt, Step
<1>2. ActiveCounted'
  BY ActiveChanges
<1>3. Published'
  BY QuietPublished
<1> QED BY <1>1, <1>2, <1>3, StepInv

(* What queueing a response does to a live search.                         *)
LEMMA Queued ==
  ASSUME OInv, NEW w \in Changes, NEW s \in Searches, syncprov_qresp(w, s), ~Gone(s)
  PROVE  /\ s_rl'[s] = Append(s_rl[s], w) /\ (task[s] = "sending" => task'[s] = "sending")
         /\ "DEAD" \notin flags'[s]
         /\ \A t \in Searches : t # s => /\ s_rl'[t] = s_rl[t] /\ task'[t] = task[t]
                                         /\ flags'[t] = flags[t]
<1>f. /\ flags \in [Searches -> SUBSET (Refs \cup Status)] /\ task \in [Searches -> TaskPc]
      /\ s_rl \in [Searches -> Seq(Changes)]
  BY DEF OInv, RInv, TypeOK, TaskPc
<1>b. task[s] # "none" => "PLAYBACK" \in flags[s]
  BY DEF OInv, RInv, Records, RecordAt, BitsAt
<1>d. "DEAD" \notin flags[s]
  BY DEF Gone
<1> DEFINE f == IF "WROTE_BASE" \in flags[s] THEN (flags[s] \ {"WROTE_BASE"}) \cup {"FIND_BASE"}
                                             ELSE flags[s]
<1>1. /\ s_rl' = [s_rl EXCEPT ![s] = Append(s_rl[s], w)]
      /\ \/ flags' = [flags EXCEPT ![s] = f] /\ task' = task
         \/ /\ "PLAYBACK" \notin f /\ flags' = [flags EXCEPT ![s] = f \cup {"PLAYBACK"}]
            /\ task' = [task EXCEPT ![s] = "queued"]
  BY DEF syncprov_qresp, Enqueue
<1>2. "DEAD" \notin f /\ ("PLAYBACK" \in f <=> "PLAYBACK" \in flags[s])
  BY <1>d
<1> HIDE DEF f
<1> QED BY SMTT(60), <1>f, <1>b, <1>1, <1>2

(* The step in which the change w tells the search s.                      *)
LEMMA TellInv ==
  ASSUME Counting, OInv, RInv', NEW w \in Changes, NEW s \in Searches, syncprov_qresp(w, s),
         si_resp_mutex = w, Ahead(w, s), ~Ahead(w, s)', w \in Active,
         \A t \in Searches : t # s => (Ahead(w, t)' <=> Ahead(w, t)),
         UNCHANGED <<due, si_active, si_resp_mutex, si_ops, abandoned, flying, sent, search, job,
                     smatches>>,
         \A v \in Changes : v # w => change'[v] = change[v] /\ todo'[v] = todo[v] /\ at'[v] = at[v],
         RespAt(w)', RememberedAt(w)'
  PROVE  OInv'
<1>1. CASE Gone(s)
  <2>1. UNCHANGED <<flags, s_rl, task>>
    BY <1>1 DEF syncprov_qresp
  <2>2. \A t \in Searches : Gone(t)' <=> Gone(t)
    BY <2>1 DEF Gone, is_syncops_abandoned
  <2>3. Step(w)
    BY <2>1, <2>2 DEF Step
  <2> QED BY <1>1, <2>1, <2>2, <2>3, QuietInv
<1>2. CASE ~Gone(s)
  <2>1. /\ s_rl'[s] = Append(s_rl[s], w) /\ (task[s] = "sending" => task'[s] = "sending")
        /\ "DEAD" \notin flags'[s]
        /\ \A t \in Searches : t # s => /\ s_rl'[t] = s_rl[t] /\ task'[t] = task[t]
                                        /\ flags'[t] = flags[t]
    BY <1>2, Queued
  <2>2. \A t \in Searches : Gone(t) => Gone(t)'
    BY <1>2, <2>1 DEF Gone, is_syncops_abandoned
  <2>3. Step(w)
    BY <2>2 DEF Step
  <2>4. search[s] \notin {"new", "wait"}
    BY <1>2 DEF OInv, RInv, Records, RecordAt, UnbornAt, BitsAt, Gone, is_syncops_abandoned
  <2>5. Fresh'
    BY <2>1, <2>4 DEF OInv, Fresh, FreshAt
  <2>6. ActiveCounted'
    BY <2>3, ActiveChanges
  <2>7. Published'
    BY <1>2, <2>1, <2>3, Tells
  <2> QED BY <2>3, <2>5, <2>6, <2>7, StepInv
<1> QED BY <1>1, <1>2

(* A step of syncprov_matchops at the search s, the telling of a deletion  *)
(* and the dropping of a reference keep the order of the changes.          *)
LEMMA WalkOrder ==
  ASSUME Counting, OInv, RInv', NEW w \in Changes, NEW s \in Searches,
         \/ Look(w, s) \/ TellDelete(w, s) \/ DropMatch(w, s)
         \/ at[w] = s /\ (Test(w) \/ Kill(w) \/ Act(w) \/ Forget(w))
  PROVE  OInv'
<1> USE DEF sync, conn, play, walk, mods
<1>c. /\ s # Nobody /\ w # Nobody /\ (at[w] # Nobody <=> change[w] \in Busy) /\ Nobody \notin Searches
      /\ job[w].match \subseteq Searches
  BY ChangeTyped DEF OInv, RInv, Locks, LocksAt
<1>r. RespAt(w) /\ RememberedAt(w)
  BY DEF OInv, Resp, Remembered
<1>w. WalkTyped
  BY DEF OInv, RInv, TypeOK, WalkTyped, ChangePc
<1>f. flags \in [Searches -> SUBSET (Refs \cup Status)]
  BY DEF OInv, RInv, TypeOK
<1>n. ASSUME NextSearch(w)
      PROVE  /\ at'[w] = Nobody /\ change'[w] = "look"
             /\ \A v \in Changes : v # w => change'[v] = change[v] /\ at'[v] = at[v]
  BY <1>n, <1>w DEF NextSearch, WalkTyped
<1>m. ASSUME UnlinkMatch(s), UNCHANGED abandoned
      PROVE  \A t \in Searches : Gone(t)' <=> Gone(t)
  BY <1>m, <1>f DEF UnlinkMatch, Release, Gone, is_syncops_abandoned
<1>1. CASE Look(w, s)
  <2>1. /\ UNCHANGED <<si_ops, abandoned, s_rl, task, flying, sent, search, job, si_active, si_resp_mutex, due>>
        /\ change[w] = "look" /\ s \in todo[w] /\ todo'[w] = todo[w] \ {s} /\ at[w] = Nobody
        /\ \A v \in Changes : v # w => todo'[v] = todo[v]
    BY <1>1, <1>c, <1>w DEF Look, WalkTyped, Busy
  <2>2. /\ \A v \in Changes : v # w => /\ change'[v] = change[v] /\ at'[v] = at[v]
                                       /\ smatches'[v] = smatches[v]
        /\ \A t \in Searches : t # s => flags'[t] = flags[t]
        /\ "DEAD" \in flags[s] => "DEAD" \in flags'[s]
        /\ \/ /\ Gone(s) \/ job[w].from = s
              /\ change'[w] = "look" /\ at'[w] = Nobody /\ smatches'[w] = smatches[w]
              /\ flags'[s] = flags[s]
           \/ /\ ~Gone(s) /\ job[w].from # s
              /\ change'[w] \in {"test", "act"} /\ at'[w] = s
              /\ smatches'[w] = IF saveit(w) THEN smatches[w] ELSE smatches[w] \ {s}
           \/ /\ ~Gone(s) /\ job[w].from # s /\ "DEAD" \in flags'[s] /\ smatches'[w] = smatches[w]
              /\ \/ change'[w] = "look" /\ at'[w] = Nobody
                 \/ change'[w] = "kill" /\ at'[w] = s
    <3>1. CASE (Gone(s) \/ job[w].from = s) /\ UNCHANGED <<flags, smatches, at, change>>
      BY <2>1, <3>1
    <3>2. CASE /\ ~Gone(s) /\ job[w].from # s
               /\ at' = [at EXCEPT ![w] = s]
               /\ \E wrote \in {{}, {"WROTE_BASE"}} :
                    flags' = [flags EXCEPT ![s] = (flags[s] \ {"FIND_BASE"}) \cup wrote]
               /\ smatches' = [smatches EXCEPT ![w] = IF saveit(w) THEN smatches[w] ELSE smatches[w] \ {s}]
               /\ \E pc \in {"test", "act"} : change' = [change EXCEPT ![w] = pc]
      BY SMTT(60), <1>f, <1>w, <3>2 DEF WalkTyped
    <3>3. CASE /\ ~Gone(s) /\ job[w].from # s
               /\ flags' = [flags EXCEPT ![s] = (flags[s] \ {"FIND_BASE"}) \cup {"DEAD", "LOST_BASE"}]
               /\ smatches' = smatches
               /\ \/ UNCHANGED <<at, change>>
                  \/ at' = [at EXCEPT ![w] = s] /\ change' = [change EXCEPT ![w] = "kill"]
      BY <1>f, <1>w, <2>1, <3>3 DEF WalkTyped
    <3> QED BY ZenonT(60), <1>1, <3>1, <3>2, <3>3 DEF Look
  <2>3. \A t \in Searches : Gone(t) => Gone(t)'
    BY <2>1, <2>2 DEF Gone, is_syncops_abandoned
  <2>4. Step(w) /\ w \in Active
    BY <2>1, <2>2, <2>3 DEF Step, Active
  <2>5. \A t \in Searches : ~Gone(t)' => (Ahead(w, t)' <=> Ahead(w, t))
    BY <2>1, <2>2, <2>3 DEF Ahead, Gone
  <2>6. RespAt(w)'
    BY <1>c, <1>r, <2>1, <2>2 DEF RespAt, Walking, Busy
  <2>7. RememberedAt(w)'
    <3>1. Saving(w)' => Saving(w) /\ smatches'[w] = smatches[w]
      BY <2>1, <2>2 DEF Saving, saveit, Walking, Busy
    <3>2. smatches'[w] \subseteq smatches[w] /\ change'[w] # "tell"
      BY <2>2
    <3>3. change'[w] \in {"kill", "killing"} => Gone(at[w])'
      BY <2>2 DEF Gone
    <3>4. at'[w] # Nobody => at'[w] # job[w].from
      BY <2>2
    <3> QED BY ZenonT(60), <1>c, <1>r, <2>1, <2>3, <2>5, <3>1, <3>2, <3>3, <3>4 DEF RememberedAt
  <2> QED BY <2>1, <2>4, <2>5, <2>6, <2>7, QuietInv
<1>2. CASE TellDelete(w, s)
  <2>1. /\ change[w] = "tell" /\ s \in todo[w] /\ syncprov_qresp(w, s) /\ todo'[w] = todo[w] \ {s}
        /\ \A v \in Changes : v # w => todo'[v] = todo[v]
        /\ UNCHANGED <<si_ops, abandoned, flying, sent, search, change, smatches, at, job, si_active,
                       si_resp_mutex, due>>
    BY <1>2, <1>w DEF TellDelete, WalkTyped
  <2>2. si_resp_mutex = w /\ at[w] = Nobody /\ s \in smatches[w] /\ w \in Active
    BY <1>c, <1>r, <2>1 DEF RespAt, RememberedAt, Busy, Active
  <2>3. Ahead(w, s) /\ ~Ahead(w, s)' /\ \A t \in Searches : t # s => (Ahead(w, t)' <=> Ahead(w, t))
    BY <1>r, <2>1, <2>2 DEF Ahead, RememberedAt
  <2>4. RespAt(w)'
    BY <1>r, <2>1, <2>2 DEF RespAt, Walking, Busy
  <2>5. RememberedAt(w)'
    BY <1>r, <2>1, <2>2 DEF RememberedAt, Saving
  <2> QED BY <2>1, <2>2, <2>3, <2>4, <2>5, TellInv
<1>3. CASE DropMatch(w, s)
  <2>1. /\ change[w] = "drop" /\ UnlinkMatch(s)
        /\ UNCHANGED <<si_ops, abandoned, s_rl, task, flying, sent, search, change, todo, at, job, si_active,
                       si_resp_mutex, due>>
        /\ smatches'[w] = smatches[w] \ {s}
        /\ \A v \in Changes : v # w => smatches'[v] = smatches[v]
    BY <1>3, <1>w DEF DropMatch, UnlinkMatch, WalkTyped
  <2>2. \A t \in Searches : Gone(t)' <=> Gone(t)
    BY <1>m, <2>1
  <2>3. Step(w) /\ (w \in Active' => w \in Active)
    BY <2>1, <2>2 DEF Step, Active
  <2>4. \A t \in Searches : Ahead(w, t)' <=> Ahead(w, t)
    BY <2>1 DEF Ahead
  <2>5. RespAt(w)'
    BY <1>r, <2>1 DEF RespAt
  <2>6. RememberedAt(w)'
    BY <1>r, <2>1 DEF RememberedAt, Saving, Walking, Busy
  <2> QED BY <2>1, <2>3, <2>4, <2>5, <2>6, QuietInv
<1>4. CASE at[w] = s /\ Test(w)
  <2>1. /\ UNCHANGED <<flags, si_ops, abandoned, s_rl, task, flying, sent, search, smatches, todo, job,
                       si_active, si_resp_mutex, due>>
        /\ change[w] = "test"
    BY <1>4 DEF Test
  <2>2. /\ \A v \in Changes : v # w => change'[v] = change[v] /\ at'[v] = at[v]
        /\ \/ change'[w] = "act" /\ at'[w] = s
           \/ change'[w] = "look" /\ at'[w] = Nobody /\ s \in abandoned
           \/ change'[w] = "kill" /\ at'[w] = s /\ s \in abandoned
    BY <1>4, <1>n, <1>w DEF Test, WalkTyped
  <2>3. \A t \in Searches : Gone(t)' <=> Gone(t)
    BY <2>1 DEF Gone, is_syncops_abandoned
  <2>4. Step(w) /\ w \in Active
    BY <2>1, <2>2, <2>3 DEF Step, Active
  <2>5. \A t \in Searches : ~Gone(t)' => (Ahead(w, t)' <=> Ahead(w, t))
    BY <1>4, <2>1, <2>2, <2>3 DEF Ahead, Gone, is_syncops_abandoned
  <2>6. RespAt(w)'
    BY <1>4, <1>c, <1>r, <1>w, <2>1, <2>2 DEF RespAt, Walking, Busy, WalkTyped
  <2>7. RememberedAt(w)'
    <3>1. Saving(w)' => Saving(w)
      BY <2>1, <2>2 DEF Saving, Walking, Busy
    <3>2. change'[w] \in {"kill", "killing"} => Gone(at[w])'
      BY <2>1, <2>2 DEF Gone, is_syncops_abandoned
    <3>3. at'[w] # Nobody => at'[w] # job[w].from
      BY <1>4, <1>c, <1>r, <2>2 DEF RememberedAt
    <3> QED BY ZenonT(60), <1>c, <1>r, <2>1, <2>2, <2>3, <2>5, <3>1, <3>2, <3>3 DEF RememberedAt
  <2> QED BY <2>1, <2>4, <2>5, <2>6, <2>7, QuietInv
<1>5. CASE at[w] = s /\ Kill(w)
  <2>1. /\ UNCHANGED <<abandoned, s_rl, task, flying, sent, search, smatches, todo, job, si_active,
                       si_resp_mutex, due>>
        /\ change[w] \in {"kill", "killing"}
    BY <1>5 DEF Kill
  <2>2. /\ \A v \in Changes : v # w => change'[v] = change[v] /\ at'[v] = at[v]
        /\ \/ change'[w] = "look" /\ at'[w] = Nobody
           \/ change'[w] = "killing" /\ at'[w] = s
    BY <1>5, <1>n, <1>w DEF Kill, WalkTyped
  <2>3. \A t \in Searches : Gone(t) => Gone(t)'
    <3>1. \A t \in Searches : (t \in si_ops' => t \in si_ops) /\ ("DEAD" \in flags[t] => "DEAD" \in flags'[t])
      <4>1. CASE Unlink(s, {"OP_SEARCH"}, FALSE)
        <5>1. Trimmed(s, {"OP_SEARCH"})
          BY <4>1, UnlinkTrims DEF OInv, RInv, Refs
        <5> QED BY <5>1 DEF Trimmed, Refs, Status
      <4>2. CASE UnlinkResumes(s, {"OP_SEARCH"})
        BY <1>f, <4>2 DEF UnlinkResumes, Release
      <4>3. CASE UnlinkWaits(s, {"OP_SEARCH"})
        BY <1>f, <4>3 DEF UnlinkWaits, Unlisted
      <4> QED BY ZenonT(60), <1>5, <4>1, <4>2, <4>3 DEF Kill
    <3> QED BY <2>1, <3>1 DEF Gone, is_syncops_abandoned
  <2>4. Step(w) /\ w \in Active
    BY <2>1, <2>2, <2>3 DEF Step, Active
  <2>5. \A t \in Searches : Ahead(w, t)' <=> Ahead(w, t)
    BY <2>1, <2>2 DEF Ahead
  <2>6. RespAt(w)'
    BY ZenonT(60), <1>5, <1>c, <1>r, <1>w, <2>1, <2>2 DEF RespAt, Walking, Busy, WalkTyped
  <2>7. RememberedAt(w)'
    <3>1. Saving(w)' => Saving(w)
      BY <2>1, <2>2 DEF Saving, Walking, Busy
    <3>2. change'[w] \in {"kill", "killing"} => Gone(at[w])'
      <4>1. Gone(s)'
        BY ZenonT(60), <1>5, <1>r, <2>1, <2>3 DEF RememberedAt
      <4> QED BY <2>2, <4>1
    <3>3. at'[w] # Nobody => at'[w] # job[w].from
      BY ZenonT(60), <1>5, <1>c, <1>r, <2>2 DEF RememberedAt
    <3> QED BY ZenonT(60), <1>c, <1>r, <2>1, <2>2, <2>3, <2>5, <3>1, <3>2, <3>3 DEF RememberedAt
  <2> QED BY ZenonT(60), <2>1, <2>4, <2>5, <2>6, <2>7, QuietInv
<1>6. CASE at[w] = s /\ Act(w)
  <2>1. /\ UNCHANGED <<si_ops, abandoned, flying, sent, search, todo, job, si_active, si_resp_mutex, due>>
        /\ change[w] = "act" /\ w \in Active
    BY <1>6 DEF Act, Active
  <2>2. /\ \A v \in Changes : v # w => change'[v] = change[v] /\ at'[v] = at[v]
        /\ \/ change'[w] = "look" /\ at'[w] = Nobody
           \/ change'[w] = "forget" /\ at'[w] = s
    BY <1>6, <1>n, <1>w DEF Act, WalkTyped
  <2>s. \A v \in Changes : v # w => smatches'[v] = smatches[v]
    BY <1>6, <1>w DEF Act, WalkTyped
  <2>3. s # job[w].from /\ s \notin todo[w]
    BY <1>6, <1>c, <1>r DEF RespAt, RememberedAt
  <2>4. Ahead(w, s) /\ ~Ahead(w, s)' /\ \A t \in Searches : t # s => (Ahead(w, t)' <=> Ahead(w, t))
    BY <1>6, <2>1, <2>2, <2>3 DEF Ahead
  <2>5. RespAt(w)'
    BY ZenonT(60), <1>6, <1>c, <1>r, <1>w, <2>1, <2>2 DEF RespAt, Walking, Busy, WalkTyped
  <2>6. CASE saveit(w)
    <3>1. /\ UNCHANGED <<s_rl, task>> /\ change'[w] = "look" /\ at'[w] = Nobody
          /\ smatches'[w] = IF s \in job[w].match THEN smatches[w] \cup {s} ELSE smatches[w]
          /\ \A t \in Searches : "DEAD" \in flags[t] <=> "DEAD" \in flags'[t]
      <4>1. /\ UNCHANGED <<s_rl, task>> /\ NextSearch(w)
            /\ \/ /\ s \in job[w].match
                  /\ smatches' = [smatches EXCEPT ![w] = smatches[w] \cup {s}]
                  /\ flags' = [flags EXCEPT ![s] = flags[s] \cup {"OP_MATCH"}]
               \/ s \notin job[w].match /\ smatches' = smatches /\ flags' = flags
        BY <1>6, <2>6 DEF Act
      <4>2. \A t \in Searches : "DEAD" \in flags[t] <=> "DEAD" \in flags'[t]
        BY SMT, <1>f, <4>1
      <4> QED BY ZenonT(60), <1>n, <1>w, <4>1, <4>2 DEF WalkTyped
    <3>2. \A t \in Searches : Gone(t)' <=> Gone(t)
      BY <2>1, <3>1 DEF Gone, is_syncops_abandoned
    <3>3. Step(w)
      BY <2>1, <2>2, <2>s, <3>2 DEF Step
    <3>4. Saving(w)' => Saving(w)
      BY <2>1 DEF Saving, Walking, Busy
    <3>5. RememberedAt(w)'
      BY <1>c, <1>r, <2>1, <2>3, <2>4, <3>1, <3>2, <3>4 DEF RememberedAt
    <3> QED BY ZenonT(60), <2>1, <2>5, <2>6, <3>1, <3>3, <3>5, QuietInv DEF saveit
  <2>7. CASE ~saveit(w)
    <3>1. syncprov_qresp(w, s) /\ smatches' = smatches /\ si_resp_mutex = w
      BY <1>6, <2>7 DEF Act, saveit
    <3>2. RememberedAt(w)'
      BY ZenonT(60), <1>c, <1>r, <2>1, <2>2, <2>3, <3>1 DEF RememberedAt, Saving
    <3> QED BY ZenonT(60), <2>1, <2>2, <2>4, <2>5, <3>1, <3>2, TellInv
  <2> QED BY <2>6, <2>7
<1>7. CASE at[w] = s /\ Forget(w)
  <2>1. /\ change[w] = "forget" /\ UnlinkMatch(s) /\ NextSearch(w) /\ w \in Active
        /\ UNCHANGED <<si_ops, abandoned, s_rl, task, flying, sent, search, smatches, todo, job, si_active,
                       si_resp_mutex, due>>
    BY <1>7 DEF Forget, UnlinkMatch, Active
  <2>2. \A t \in Searches : Gone(t)' <=> Gone(t)
    BY <1>m, <2>1
  <2>3. Step(w)
    BY <1>n, <2>1, <2>2 DEF Step
  <2>4. \A t \in Searches : Ahead(w, t)' <=> Ahead(w, t)
    BY <1>n, <2>1 DEF Ahead
  <2>5. RespAt(w)'
    BY ZenonT(60), <1>c, <1>n, <1>r, <1>w, <2>1 DEF RespAt, Walking, Busy, WalkTyped
  <2>6. RememberedAt(w)'
    <3>1. Saving(w)' => Saving(w)
      BY <2>1 DEF Saving, Walking, Busy
    <3> QED BY ZenonT(60), <1>c, <1>n, <1>r, <2>1, <2>2, <2>4, <3>1 DEF RememberedAt
  <2> QED BY ZenonT(60), <2>1, <2>3, <2>4, <2>5, <2>6, QuietInv
<1> QED BY ZenonT(60), <1>1, <1>2, <1>3, <1>4, <1>5, <1>6, <1>7

(* Nothing is published before the first change.                           *)
LEMMA InitOrder == Counting /\ Init => OInv
<1> SUFFICES ASSUME Counting, Init PROVE OInv
  OBVIOUS
<1>1. RInv
  BY InitInv
<1>2. ActiveCounted
  <2>1. Active = {} /\ si_active = 0
    BY DEF Init, Active
  <2> QED BY SMT, <2>1 DEF Counting, ActiveCounted
<1>3. Resp /\ Remembered
  BY PsearchAssumption DEF Init, Resp, RespAt, Remembered, RememberedAt, Saving, Walking, Busy
<1>4. Fresh
  BY DEF Init, Fresh, FreshAt
<1>5. ASSUME NEW s \in Searches PROVE PublishedAt(s)
  <2>1. s \notin si_ops /\ flying[s] = <<>>
    BY DEF Init
  <2> QED BY <2>1 DEF PublishedAt, Gone, is_syncops_abandoned
<1> QED BY ZenonT(60), <1>1, <1>2, <1>3, <1>4, <1>5 DEF OInv, Published

(* Every step of the program keeps the order of the changes.               *)
LEMMA NextOrder == Counting /\ OInv /\ [Next]_vars => OInv'
<1> SUFFICES ASSUME Counting, OInv, [Next]_vars PROVE OInv'
  OBVIOUS
<1>r. RInv'
  BY NextInv DEF OInv
<1>1. ASSUME NEW s \in Searches, SearchStep(s) \/ TaskStep(s) \/ QuitStep(s) \/ MarkAbandoned(s)
      PROVE  OInv'
  BY <1>1, <1>r, SearchOrder, TaskOrder, QuitOrder
<1>2. ASSUME NEW w \in Changes, ChangeStep(w) \/ GiveUp(w)
      PROVE  OInv'
  <2>1. CASE \E s \in Searches : Look(w, s) \/ TellDelete(w, s) \/ DropMatch(w, s)
    BY <1>r, <2>1, WalkOrder
  <2>2. CASE Test(w) \/ Kill(w) \/ Act(w) \/ Forget(w)
    <3>1. change[w] \in Busy
      BY <2>2 DEF Busy, Test, Kill, Act, Forget
    <3>2. at[w] \in Searches
      BY <3>1 DEF OInv, RInv, TypeOK, Locks, LocksAt
    <3> QED BY <1>r, <2>2, <3>2, WalkOrder
  <2>3. CASE \/ syncprov_op_mod(w) \/ QueueUp(w) \/ TurnComes(w) \/ GiveUp(w) \/ syncprov_matchops(w)
             \/ Looked(w) \/ Fail(w) \/ Told(w) \/ syncprov_op_cleanup(w) \/ LeaveQueue(w) \/ FreeTarget(w)
    BY <1>r, <2>3, QueueOrder
  <2>4. CASE syncprov_op_response(w)
    BY <1>r, <2>4, ResponseOrder
  <2> QED BY <1>2, <2>1, <2>2, <2>3, <2>4 DEF ChangeStep
<1>3. CASE syncprov_db_close \/ syncprov_db_destroy \/ UNCHANGED vars
  BY <1>r, <1>3, CloseOrder
<1> QED BY <1>1, <1>2, <1>3 DEF Next

(* What OInv says of the changes on their way.                             *)
LEMMA DeliveredFollows == OInv => NothingLost
<1> SUFFICES ASSUME OInv, NEW s \in Searches, ~Gone(s)
             PROVE  /\ si_resp_mutex = Nobody => InTransit(s) = due[s]
                    /\ si_resp_mutex # Nobody =>
                         InTransit(s) \in {due[s], SubSeq(due[s], 1, Len(due[s]) - 1)}
  BY DEF NothingLost
<1>1. due[s] = Expected(s)
  BY DEF OInv, Published, PublishedAt
<1>2. sent[s] \in Seq(Changes) /\ flying[s] \in Seq(Changes) /\ s_rl[s] \in Seq(Changes)
  BY DEF OInv, RInv, TypeOK
<1>3. InTransit(s) \in Seq(Changes)
  BY SMT, <1>2 DEF InTransit
<1>4. si_resp_mutex \in Changes \cup {Nobody}
  BY DEF OInv, RInv, TypeOK
<1>5. ASSUME NEW q \in Seq(Changes), NEW w \in Changes
      PROVE  SubSeq(Append(q, w), 1, Len(Append(q, w)) - 1) = q
  <2>1. Append(q, w) \in Seq(Changes) /\ Len(Append(q, w)) = Len(q) + 1 /\ Len(q) \in Nat
    BY SMT
  <2>2. \A i \in 1 .. Len(q) : Append(q, w)[i] = q[i]
    BY SMT
  <2> QED BY SMTT(60), <2>1, <2>2
<1> QED BY <1>1, <1>3, <1>4, <1>5 DEF Expected

-----------------------------------------------------------------------------
(* The queues of the entries hold the changes that wait for their turn or  *)
(* have it, each of them once, until syncprov_op_cleanup.                  *)
InQueue == {"turn", "match", "look", "test", "kill", "killing", "act", "forget", "execute",
            "tell", "clean", "drop"}

Ended == {"new", "done", "gone"}

Waits(w, e) == \E i \in 1 .. Len(si_mods[e]) : si_mods[e][i] = w

Unrepeated(q) == \A i, j \in 1 .. Len(q) : q[i] = q[j] => i = j

TurnAt(w, e) ==
  Waits(w, e) =>
    /\ Entry(w) = e /\ change[w] \in InQueue
    /\ change[w] = "turn" \/ smt[w] = e

Turns ==
  \A e \in Entries : Unrepeated(si_mods[e]) /\ \A w \in Changes : TurnAt(w, e)

(* What the destruction of the overlay finds, and nobody changes later.    *)
Over ==
  overlay = "destroyed" =>
    /\ si_ops = {} /\ \A w \in Changes : change[w] \in Ended
    /\ \A s \in Searches : /\ search[s] \in {"new", "wait", "undefined"} \/ s \in freed
                           /\ task[s] = "none" /\ quitter[s] \notin {"unlink", "cleanup"}

DInv == OInv /\ Turns /\ Over

(* r is the queue q with one more change or with one less.                 *)
Longer(r, q, w) ==
  /\ Unrepeated(r)
  /\ \A i \in 1 .. Len(r) : r[i] = w \/ \E j \in 1 .. Len(q) : r[i] = q[j]

Shorter(r, q, w) ==
  /\ Unrepeated(r)
  /\ \A i \in 1 .. Len(r) : r[i] # w /\ \E j \in 1 .. Len(q) : r[i] = q[j]

(* A change goes to the end of a queue that it is not in.                  *)
LEMMA QueueEnd ==
  ASSUME NEW q \in Seq(Changes), NEW w \in Changes, Unrepeated(q),
         \A i \in 1 .. Len(q) : q[i] # w
  PROVE  Longer(Append(q, w), q, w)
<1>1. /\ Append(q, w) \in Seq(Changes) /\ Len(Append(q, w)) = Len(q) + 1 /\ Len(q) \in Nat
      /\ \A i \in 1 .. Len(q) : Append(q, w)[i] = q[i]
      /\ Append(q, w)[Len(q) + 1] = w
  BY SMT
<1>2. \A i \in 1 .. Len(Append(q, w)) : i = Len(q) + 1 \/ i \in 1 .. Len(q)
  BY SMT, <1>1
<1>3. Unrepeated(Append(q, w))
  BY <1>1, <1>2 DEF Unrepeated
<1> QED BY <1>1, <1>2, <1>3 DEF Longer

(* A queue without its i-th change.                                        *)
Cut(q, i) == SubSeq(q, 1, i - 1) \o SubSeq(q, i + 1, Len(q))

(* The places of a queue without its i-th change.                          *)
LEMMA CutPlaces ==
  ASSUME NEW S, NEW q \in Seq(S), NEW i \in 1 .. Len(q)
  PROVE  /\ Len(q) \in Nat /\ Len(Cut(q, i)) = Len(q) - 1
         /\ \A k \in 1 .. (Len(q) - 1) : Cut(q, i)[k] = IF k < i THEN q[k] ELSE q[k + 1]
<1>1. Len(q) \in Nat
  BY SMT
<1> DEFINE a == SubSeq(q, 1, i - 1)
           b == SubSeq(q, i + 1, Len(q))
<1>2. a \in Seq(S) /\ Len(a) = i - 1 /\ \A k \in 1 .. (i - 1) : a[k] = q[k]
  BY SMT, <1>1
<1>3. b \in Seq(S) /\ Len(b) = Len(q) - i /\ \A k \in 1 .. (Len(q) - i) : b[k] = q[k + i]
  BY SMT, <1>1
<1>4. Cut(q, i) = a \o b
  BY DEF Cut
<1> HIDE DEF a, b
<1>5. /\ Len(a \o b) = Len(a) + Len(b)
      /\ \A k \in 1 .. (Len(a) + Len(b)) :
           (a \o b)[k] = IF k <= Len(a) THEN a[k] ELSE b[k - Len(a)]
  BY <1>2, <1>3, JoinPlaces
<1>6. \A k \in 1 .. (Len(q) - 1) : (a \o b)[k] = IF k < i THEN q[k] ELSE q[k + 1]
  BY SMTT(60), <1>1, <1>2, <1>3, <1>5
<1>7. Len(a \o b) = Len(q) - 1
  BY SMT, <1>1, <1>2, <1>3, <1>5
<1> QED BY <1>1, <1>4, <1>6, <1>7

(* A change that leaves the queue is in it no more, and nobody comes in.   *)
LEMMA QueueCut ==
  ASSUME NEW q \in Seq(Changes), Unrepeated(q), NEW i \in 1 .. Len(q)
  PROVE  Shorter(Cut(q, i), q, q[i])
<1> DEFINE f(k) == IF k < i THEN k ELSE k + 1
<1>1. /\ Len(q) \in Nat /\ Len(Cut(q, i)) = Len(q) - 1
      /\ \A k \in 1 .. Len(Cut(q, i)) : Cut(q, i)[k] = q[f(k)]
  BY CutPlaces
<1>2. \A k \in 1 .. (Len(q) - 1) : f(k) \in 1 .. Len(q) /\ f(k) # i
  BY SMT, <1>1
<1>3. \A k, m \in 1 .. (Len(q) - 1) : f(k) = f(m) => k = m
  BY SMT, <1>1
<1> HIDE DEF f
<1>4. Unrepeated(Cut(q, i))
  <2> SUFFICES ASSUME NEW k \in 1 .. Len(Cut(q, i)), NEW m \in 1 .. Len(Cut(q, i)),
                      Cut(q, i)[k] = Cut(q, i)[m]
               PROVE  k = m
    BY DEF Unrepeated
  <2>1. k \in 1 .. (Len(q) - 1) /\ m \in 1 .. (Len(q) - 1) /\ q[f(k)] = q[f(m)]
    BY <1>1
  <2> QED BY <1>2, <1>3, <2>1 DEF Unrepeated
<1>5. ASSUME NEW k \in 1 .. Len(Cut(q, i))
      PROVE  Cut(q, i)[k] # q[i] /\ \E j \in 1 .. Len(q) : Cut(q, i)[k] = q[j]
  BY <1>1, <1>2 DEF Unrepeated
<1> QED BY <1>4, <1>5 DEF Shorter

(* A step that leaves the queues alone, and takes the change w no further  *)
(* than it may go.                                                         *)
LEMMA TurnsKept ==
  ASSUME Turns, NEW w, UNCHANGED <<job, si_mods>>,
         \A v \in Changes : v # w => change'[v] = change[v] /\ smt'[v] = smt[v],
         \A e \in Entries : TurnAt(w, e) => TurnAt(w, e)'
  PROVE  Turns'
<1>1. ASSUME NEW e \in Entries, NEW v \in Changes, v # w
      PROVE  TurnAt(v, e)'
  <2>1. /\ TurnAt(v, e) /\ change'[v] = change[v] /\ smt'[v] = smt[v]
        /\ Entry(v)' = Entry(v) /\ (Waits(v, e)' <=> Waits(v, e))
    BY <1>1 DEF Turns, Waits, Entry
  <2> QED BY <2>1 DEF TurnAt
<1> QED BY <1>1 DEF Turns, Unrepeated

(* A change that leaves the queue of an entry is in no queue.              *)
LEMMA Dequeued ==
  ASSUME OInv, Turns, NEW w \in Changes, NEW e \in Entries, Dequeue(w, e), change[w] = "turn" => Entry(w) = e,
         change[w] # "turn" => smt[w] = e, UNCHANGED <<job, smt>>,
         \A v \in Changes : v # w => change'[v] = change[v]
  PROVE  Turns'
<1>1. PICK i \in 1 .. Len(si_mods[e]) :
        /\ si_mods[e][i] = w
        /\ si_mods' = [si_mods EXCEPT ![e] = Cut(si_mods[e], i)]
  BY DEF Dequeue, Cut
<1>2. /\ si_mods[e] \in Seq(Changes) /\ Unrepeated(si_mods[e])
      /\ si_mods'[e] = Cut(si_mods[e], i)
      /\ \A d \in Entries : d # e => si_mods'[d] = si_mods[d]
  BY <1>1 DEF OInv, RInv, TypeOK, Turns
<1>3. Shorter(si_mods'[e], si_mods[e], w)
  <2>1. Shorter(Cut(si_mods[e], i), si_mods[e], si_mods[e][i])
    BY <1>2, QueueCut
  <2> QED BY <1>1, <1>2, <2>1
<1>4. ASSUME NEW d \in Entries, NEW v \in Changes, Waits(v, d)'
      PROVE  Waits(v, d) /\ v # w
  <2>1. CASE d = e
    BY <1>3, <1>4, <2>1 DEF Waits, Shorter
  <2>2. CASE d # e
    <3>1. Waits(v, d)
      BY <1>2, <1>4, <2>2 DEF Waits
    <3>2. ~Waits(w, d)
      <4>1. TurnAt(w, d)
        BY DEF Turns
      <4>2. CASE change[w] = "turn"
        BY <2>2, <4>1, <4>2 DEF TurnAt
      <4>3. CASE change[w] # "turn"
        BY <2>2, <4>1, <4>3 DEF TurnAt
      <4> QED BY <4>2, <4>3
    <3> QED BY <3>1, <3>2
  <2> QED BY <2>1, <2>2
<1>5. ASSUME NEW d \in Entries
      PROVE  Unrepeated(si_mods'[d]) /\ \A v \in Changes : TurnAt(v, d)'
  <2>1. Unrepeated(si_mods'[d])
    BY <1>2, <1>3 DEF Turns, Shorter
  <2>2. \A v \in Changes : TurnAt(v, d)'
    BY <1>4 DEF Turns, TurnAt, Entry
  <2> QED BY <2>1, <2>2
<1> QED BY <1>5 DEF Turns

(* Every step of a change keeps the queues.                                *)
LEMMA ChangeTurns ==
  ASSUME OInv, Turns, NEW w \in Changes, ChangeStep(w) \/ GiveUp(w)
  PROVE  Turns'
<1> USE DEF sync, conn, play, walk, mods
<1>t. /\ change \in [Changes -> ChangePc] /\ smt \in [Changes -> Entries \cup {Nobody}]
      /\ Entry(w) \in Entries /\ si_mods \in [Entries -> Seq(Changes)]
  BY DEF OInv, RInv, TypeOK, ChangePc, Jobs, Entry
<1>1. CASE syncprov_op_mod(w)
  <2>1. /\ change[w] = "new" /\ UNCHANGED <<job, si_mods, smt>>
        /\ \A v \in Changes : v # w => change'[v] = change[v]
    BY <1>1, <1>t DEF syncprov_op_mod
  <2>2. \A e \in Entries : ~Waits(w, e)
    BY <2>1 DEF Turns, TurnAt, InQueue
  <2> QED BY <2>1, <2>2, TurnsKept DEF TurnAt, Waits
<1>2. CASE QueueUp(w)
  <2>1. /\ change[w] = "queue" /\ change'[w] = "turn" /\ UNCHANGED <<job, smt>>
        /\ \A v \in Changes : v # w => change'[v] = change[v]
        /\ si_mods'[Entry(w)] = Append(si_mods[Entry(w)], w)
        /\ \A e \in Entries : e # Entry(w) => si_mods'[e] = si_mods[e]
    BY <1>2, <1>t DEF QueueUp
  <2>2. \A e \in Entries : ~Waits(w, e)
    BY <2>1 DEF Turns, TurnAt, InQueue
  <2>q. /\ si_mods[Entry(w)] \in Seq(Changes) /\ Unrepeated(si_mods[Entry(w)])
        /\ \A i \in 1 .. Len(si_mods[Entry(w)]) : si_mods[Entry(w)][i] # w
    BY <1>t, <2>2 DEF Turns, Waits
  <2>3. Longer(si_mods'[Entry(w)], si_mods[Entry(w)], w)
    <3>1. Longer(Append(si_mods[Entry(w)], w), si_mods[Entry(w)], w)
      BY <2>q, QueueEnd
    <3> QED BY <2>1, <3>1
  <2>4. ASSUME NEW e \in Entries, NEW v \in Changes, Waits(v, e)'
        PROVE  Waits(v, e) \/ (v = w /\ e = Entry(w))
    <3>1. CASE e = Entry(w)
      BY <2>3, <2>4, <3>1 DEF Waits, Longer
    <3>2. CASE e # Entry(w)
      BY <2>1, <2>4, <3>2 DEF Waits
    <3> QED BY <3>1, <3>2
  <2>5. ASSUME NEW e \in Entries, NEW v \in Changes
        PROVE  TurnAt(v, e)'
    <3>1. CASE v = w
      BY <2>1, <2>2, <2>4, <3>1 DEF TurnAt, InQueue, Entry
    <3>2. CASE v # w
      BY <2>1, <2>4, <3>2 DEF Turns, TurnAt, Entry
    <3> QED BY <3>1, <3>2
  <2>6. ASSUME NEW e \in Entries
        PROVE  Unrepeated(si_mods'[e])
    BY <2>1, <2>3 DEF Turns, Longer
  <2> QED BY <2>5, <2>6 DEF Turns
<1>3. CASE TurnComes(w)
  <2>1. /\ smt'[w] = Entry(w) /\ change'[w] \in InQueue /\ UNCHANGED <<job, si_mods>>
        /\ \A v \in Changes : v # w => change'[v] = change[v] /\ smt'[v] = smt[v]
    BY <1>3, <1>t DEF TurnComes, InQueue
  <2>2. ASSUME NEW e \in Entries, TurnAt(w, e)
        PROVE  TurnAt(w, e)'
    <3>1. Entry(w)' = Entry(w) /\ (Waits(w, e)' <=> Waits(w, e))
      BY <2>1 DEF Entry, Waits
    <3> QED BY <2>1, <2>2, <3>1 DEF TurnAt
  <2> QED BY <2>1, <2>2, TurnsKept
<1>4. CASE GiveUp(w)
  <2>1. /\ change[w] = "turn" /\ Dequeue(w, Entry(w)) /\ UNCHANGED <<job, smt>>
        /\ \A v \in Changes : v # w => change'[v] = change[v]
    BY <1>4, <1>t DEF GiveUp
  <2> QED BY <1>t, <2>1, Dequeued
<1>5. CASE LeaveQueue(w)
  <2>1. /\ change[w] = "drop" /\ UNCHANGED <<job, smt>>
        /\ \A v \in Changes : v # w => change'[v] = change[v]
    BY <1>5, <1>t DEF LeaveQueue
  <2>2. CASE smt[w] = Nobody
    <3>1. \A e \in Entries : ~Waits(w, e)
      BY <2>1, <2>2, PsearchAssumption DEF Turns, TurnAt
    <3>2. si_mods' = si_mods
      BY <1>5, <2>2 DEF LeaveQueue
    <3>3. \A e \in Entries : TurnAt(w, e)'
      BY <3>1, <3>2 DEF TurnAt, Waits
    <3> QED BY <2>1, <3>2, <3>3, TurnsKept
  <2>3. CASE smt[w] # Nobody
    <3>1. smt[w] \in Entries /\ Dequeue(w, smt[w])
      BY <1>5, <1>t, <2>3 DEF LeaveQueue
    <3> QED BY <2>1, <3>1, Dequeued
  <2> QED BY <2>2, <2>3
<1>6. CASE FreeTarget(w)
  <2>1. /\ change[w] = "free" /\ UNCHANGED <<job, si_mods, smt>>
        /\ \A v \in Changes : v # w => change'[v] = change[v]
    BY <1>6, <1>t DEF FreeTarget
  <2>2. \A e \in Entries : ~Waits(w, e)
    BY <2>1 DEF Turns, TurnAt, InQueue
  <2> QED BY <2>1, <2>2, TurnsKept DEF TurnAt, Waits
<1>7. ASSUME /\ change[w] \in InQueue \ {"turn"} /\ change'[w] \in InQueue
             /\ \A v \in Changes : v # w => change'[v] = change[v]
             /\ UNCHANGED <<job, si_mods, smt>>
      PROVE  Turns'
  BY <1>7, TurnsKept DEF TurnAt, Waits, Entry
<1>8. CASE syncprov_matchops(w) \/ Looked(w) \/ Fail(w) \/ syncprov_op_response(w) \/ Told(w)
             \/ syncprov_op_cleanup(w)
  BY <1>7, <1>8, <1>t DEF syncprov_matchops, Looked, Fail, syncprov_op_response, Told,
                          syncprov_op_cleanup, InQueue
<1>9. ASSUME NEW s \in Searches, Look(w, s) \/ TellDelete(w, s) \/ DropMatch(w, s)
      PROVE  Turns'
  BY <1>7, <1>9, <1>t DEF Look, TellDelete, DropMatch, InQueue
<1>10. CASE Test(w) \/ Kill(w) \/ Act(w) \/ Forget(w)
  BY <1>7, <1>10, <1>t DEF Test, Kill, Act, Forget, NextSearch, InQueue
<1> QED BY <1>1, <1>2, <1>3, <1>4, <1>5, <1>6, <1>8, <1>9, <1>10 DEF ChangeStep

(* A step that no change takes leaves the queues alone.                    *)
LEMMA TurnsAlone ==
  ASSUME Turns, UNCHANGED <<change, job, smt, si_mods>>
  PROVE  Turns'
<1>1. ASSUME NEW e \in Entries, NEW v \in Changes
      PROVE  TurnAt(v, e)'
  <2>1. TurnAt(v, e)
    BY DEF Turns
  <2> QED BY <2>1 DEF TurnAt, Waits, Entry
<1> QED BY <1>1 DEF Turns, Unrepeated

(* The steps of a search, of its task and of whoever abandons it are such. *)
LEMMA SearchApart ==
  ASSUME NEW s \in Searches, SearchStep(s) \/ TaskStep(s) \/ QuitStep(s) \/ MarkAbandoned(s)
  PROVE  UNCHANGED <<overlay, change, job, smt, si_mods>>
<1> USE DEF sync, conn, play, walk, mods
<1>1. CASE SearchStep(s)
  BY <1>1 DEF SearchStep, syncprov_op_search, Register, Bailout, Prepared, RefreshEnds, Detach, Abort,
              RegisterTooLate
<1>2. CASE TaskStep(s)
  BY <1>2 DEF TaskStep, syncprov_playback_dequeue, syncprov_sendresp, PlaybackEnds
<1>3. CASE QuitStep(s) \/ MarkAbandoned(s)
  BY <1>3 DEF QuitStep, syncprov_op_abandon, AbandonUnlinks, MarkAbandoned
<1> QED BY <1>1, <1>2, <1>3

(* Once the overlay is destroyed they start nothing: no search is listed,  *)
(* and the record of one that was registered is freed.                     *)
LEMMA SearchOver ==
  ASSUME TypeOK, Over, overlay = "destroyed", NEW s \in Searches,
         SearchStep(s) \/ TaskStep(s) \/ QuitStep(s) \/ MarkAbandoned(s)
  PROVE  Over'
<1> USE DEF sync, conn, play, walk, mods
<1>o. /\ si_ops = {} /\ \A w \in Changes : change[w] \in Ended
      /\ \A t \in Searches : /\ search[t] \in {"new", "wait", "undefined"} \/ t \in freed
                             /\ task[t] = "none" /\ quitter[t] \notin {"unlink", "cleanup"}
  BY DEF Over
<1>c. change' = change
  BY SearchApart
<1>u. ASSUME NEW U, NEW l, Unlink(s, U, l)
      PROVE  si_ops' = {} /\ freed \subseteq freed'
  BY <1>o, <1>u DEF Unlink, Unlisted, Release
<1>t. search \in [Searches -> SearchPc] /\ quitter \in [Searches -> QuitPc]
  BY DEF TypeOK, SearchPc, QuitPc
<1>1. ASSUME /\ si_ops' = {} /\ freed \subseteq freed' /\ UNCHANGED <<task, quitter>>
             /\ \A t \in Searches : t # s => search'[t] = search[t]
             /\ search[s] \in {"new", "wait", "undefined"} => search'[s] \in {"new", "wait", "undefined"}
      PROVE  Over'
  <2>1. ASSUME NEW t \in Searches
        PROVE  search'[t] \in {"new", "wait", "undefined"} \/ t \in freed'
    <3>1. search[t] \in {"new", "wait", "undefined"} \/ t \in freed
      BY <1>o
    <3> QED BY <1>1, <3>1
  <2> QED BY <1>1, <1>c, <1>o, <2>1 DEF Over
<1>2. CASE Bailout(s)
  BY <1>1, <1>2, <1>t, <1>u DEF Bailout
<1>3. CASE Prepared(s)
  <2>1. si_ops' = {} /\ freed \subseteq freed'
    BY <1>3, <1>o, <1>u DEF Prepared
  <2> QED BY <1>1, <1>3, <1>t, <2>1 DEF Prepared
<1>4. CASE RefreshEnds(s)
  BY <1>1, <1>4, <1>o, <1>t DEF RefreshEnds
<1>5. CASE Detach(s)
  <2>1. s \in freed
    BY <1>5, <1>o DEF Detach
  <2> QED BY <1>1, <1>5, <1>o, <1>t, <2>1 DEF Detach
<1>6. CASE Abort(s)
  <2>1. s \in freed
    BY <1>6, <1>o DEF Abort
  <2> QED BY <1>1, <1>6, <1>o, <1>t, <2>1 DEF Abort
<1>7. CASE RegisterTooLate(s)
  BY <1>1, <1>7, <1>o, <1>t DEF RegisterTooLate
<1>8. CASE syncprov_op_search(s) \/ Register(s)
  BY <1>8 DEF syncprov_op_search, Register
<1>9. CASE TaskStep(s)
  BY <1>9, <1>o DEF TaskStep, syncprov_playback_dequeue, syncprov_sendresp, PlaybackEnds
<1>10. CASE QuitStep(s) \/ MarkAbandoned(s)
  <2>1. UNCHANGED <<si_ops, freed, task, search>>
    BY <1>10, <1>o DEF QuitStep, syncprov_op_abandon, AbandonUnlinks, MarkAbandoned
  <2>2. \A t \in Searches : quitter'[t] \notin {"unlink", "cleanup"}
    BY <1>10, <1>o, <1>t DEF QuitStep, syncprov_op_abandon, AbandonUnlinks, MarkAbandoned
  <2> QED BY <1>c, <1>o, <2>1, <2>2 DEF Over
<1> QED BY <1>2, <1>3, <1>4, <1>5, <1>6, <1>7, <1>8, <1>9, <1>10 DEF SearchStep

(* A change that takes a step has begun, or begins while the overlay is    *)
(* open.                                                                   *)
LEMMA ChangeBegun ==
  ASSUME NEW w \in Changes, ChangeStep(w) \/ GiveUp(w)
  PROVE  overlay' = overlay /\ (overlay = "open" \/ change[w] \notin Ended)
<1> USE DEF sync, conn, play, walk, mods, Ended
<1>1. CASE syncprov_op_mod(w) \/ QueueUp(w) \/ TurnComes(w) \/ syncprov_matchops(w) \/ GiveUp(w)
  BY <1>1 DEF syncprov_op_mod, QueueUp, TurnComes, syncprov_matchops, GiveUp
<1>2. CASE \E s \in Searches : Look(w, s) \/ TellDelete(w, s) \/ DropMatch(w, s)
  BY <1>2 DEF Look, TellDelete, DropMatch
<1>3. CASE Test(w) \/ Kill(w) \/ Act(w) \/ Forget(w) \/ Looked(w) \/ Fail(w)
  BY <1>3 DEF Test, Kill, Act, Forget, Looked, Fail
<1>4. CASE \/ syncprov_op_response(w) \/ Told(w) \/ syncprov_op_cleanup(w) \/ LeaveQueue(w)
           \/ FreeTarget(w)
  BY <1>4 DEF syncprov_op_response, Told, syncprov_op_cleanup, LeaveQueue, FreeTarget
<1> QED BY <1>1, <1>2, <1>3, <1>4 DEF ChangeStep

(* The destruction waits for everything that Over speaks of: no change is  *)
(* active, none is between its cleanup and its end during a pause, and     *)
(* every search that was registered is freed.                              *)
LEMMA DestroyOver ==
  ASSUME Counting, OInv, syncprov_db_destroy
  PROVE  Over'
<1> USE DEF sync, conn, play, walk, mods
<1>1. ASSUME NEW w \in Changes PROVE change[w] \in Ended
  <2>1. change[w] \in {"new", "drop", "free", "done", "gone"}
    BY ActiveNone DEF syncprov_db_destroy
  <2>2. change[w] \in {"new", "clean", "done", "gone"} \/ change[w] = "turn"
    BY DEF syncprov_db_destroy, Paused
  <2> QED BY <2>1, <2>2 DEF Ended
<1>2. ASSUME NEW s \in Searches
      PROVE  task[s] = "none" /\ quitter[s] \notin {"unlink", "cleanup"}
  <2>1. search[s] \in {"new", "wait"} \/ s \in freed
    BY DEF syncprov_db_destroy
  <2>2. "PLAYBACK" \notin flags[s] /\ "ABANDON" \notin flags[s]
    BY <2>1 DEF OInv, RInv, Records, RecordAt, UnbornAt, BitsAt, Refs
  <2> QED BY <2>2 DEF OInv, RInv, Records, RecordAt, BitsAt
<1> QED BY <1>1, <1>2 DEF syncprov_db_destroy, Over

(* The queues are empty and nobody is under way once the overlay is        *)
(* destroyed, whatever step is taken.                                      *)
LEMMA NextDrain == Counting /\ DInv /\ [Next]_vars => DInv'
<1> SUFFICES ASSUME Counting, DInv, [Next]_vars PROVE DInv'
  OBVIOUS
<1>o. OInv' /\ TypeOK
  BY NextOrder DEF DInv, OInv, RInv
<1>i. OInv /\ Turns /\ Over
  BY DEF DInv
<1>1. ASSUME NEW s \in Searches, SearchStep(s) \/ TaskStep(s) \/ QuitStep(s) \/ MarkAbandoned(s)
      PROVE  DInv'
  <2>1. UNCHANGED <<overlay, change, job, smt, si_mods>>
    BY <1>1, SearchApart
  <2>2. Over'
    <3>1. CASE overlay = "destroyed"
      BY <1>1, <1>i, <1>o, <3>1, SearchOver
    <3>2. CASE overlay # "destroyed"
      BY <2>1, <3>2 DEF Over
    <3> QED BY <3>1, <3>2
  <2> QED BY <1>i, <1>o, <2>1, <2>2, TurnsAlone DEF DInv
<1>2. ASSUME NEW w \in Changes, ChangeStep(w) \/ GiveUp(w)
      PROVE  DInv'
  <2>1. overlay' = overlay /\ (overlay = "open" \/ change[w] \notin Ended)
    BY <1>2, ChangeBegun
  <2>2. Over'
    BY <1>i, <2>1 DEF Over
  <2> QED BY <1>2, <1>i, <1>o, <2>2, ChangeTurns DEF DInv
<1>3. CASE syncprov_db_close
  <2>1. overlay' = "closed" /\ UNCHANGED <<change, job, smt, si_mods>>
    BY <1>3 DEF syncprov_db_close, walk, mods
  <2> QED BY <1>i, <1>o, <2>1, TurnsAlone DEF DInv, Over
<1>4. CASE syncprov_db_destroy
  <2>1. UNCHANGED <<change, job, smt, si_mods>>
    BY <1>4 DEF syncprov_db_destroy, walk, mods
  <2> QED BY <1>4, <1>i, <1>o, <2>1, DestroyOver, TurnsAlone DEF DInv
<1>5. CASE UNCHANGED vars
  <2>1. UNCHANGED <<overlay, change, job, smt, si_mods, si_ops, freed, search, task, quitter>>
    BY <1>5 DEF vars, moving, sync, conn, play, walk, mods
  <2>2. Over'
    BY <1>i, <2>1 DEF Over
  <2> QED BY <1>i, <1>o, <2>1, <2>2, TurnsAlone DEF DInv
<1> QED BY <1>1, <1>2, <1>3, <1>4, <1>5 DEF Next

(* No change waits and nothing is destroyed at the start.                 *)
LEMMA InitDrain == Counting /\ Init => DInv
<1> SUFFICES ASSUME Counting, Init PROVE DInv
  OBVIOUS
<1>1. OInv
  BY InitOrder
<1>2. \A e \in Entries : si_mods[e] = <<>>
  BY DEF Init
<1>3. Len(<<>>) = 0 /\ 1 .. 0 = {}
  BY SMT
<1>4. Turns
  BY <1>2, <1>3 DEF Turns, TurnAt, Waits, Unrepeated
<1>5. Over
  BY DEF Init, Over
<1> QED BY <1>1, <1>4, <1>5 DEF DInv

(* What DInv says of the overlay that is destroyed.                        *)
LEMMA DrainedFollows == DInv => Drained
<1> SUFFICES ASSUME DInv, overlay = "destroyed"
             PROVE  /\ \A w \in Changes : change[w] \in {"new", "done", "gone"}
                    /\ \A s \in Searches : task[s] = "none" /\ quitter[s] \notin {"unlink", "cleanup"}
                    /\ \A e \in Entries : si_mods[e] = <<>>
  BY DEF Drained
<1>1. \A w \in Changes : change[w] \in Ended
  BY DEF DInv, Over
<1>2. \A s \in Searches : task[s] = "none" /\ quitter[s] \notin {"unlink", "cleanup"}
  BY DEF DInv, Over
<1>3. ASSUME NEW e \in Entries
      PROVE  si_mods[e] = <<>>
  <2>1. si_mods[e] \in Seq(Changes) /\ \A w \in Changes : TurnAt(w, e)
    BY DEF DInv, OInv, RInv, TypeOK, Turns
  <2>2. \A w \in Changes : ~Waits(w, e)
    BY <1>1, <2>1 DEF TurnAt, InQueue, Ended
  <2>3. \A q \in Seq(Changes) : q # <<>> => 1 \in 1 .. Len(q) /\ q[1] \in Changes
    BY SMT
  <2> QED BY <2>1, <2>2, <2>3 DEF Waits
<1> QED BY <1>1, <1>2, <1>3 DEF Ended

-----------------------------------------------------------------------------
(* Counting.  The theorems on finite sets are instantiated only here: what *)
(* they bring into view slows every proof that follows.  The instance has  *)
(* copies of its own of Cardinality and IsFiniteSet.                       *)

Number(S) == Cardinality(S)

(* What the number of a set is.                                            *)
LEMMA NumberIs ==
  \A S : Number(S) = LET CS[T \in SUBSET S] ==
                           IF T = {} THEN 0 ELSE 1 + CS[T \ {CHOOSE x : x \in T}]
                     IN  CS[S]
BY DEF Cardinality, Number

(* The assumption on Changes, spelled out.                                 *)
LEMMA FiniteChanges ==
  \E seq \in Seq(Changes) : \A s \in Changes : \E n \in 1..Len(seq) : seq[n] = s
BY PsearchAssumption, SMT DEF IsFiniteSet

(* Counting, said of Number.                                               *)
LEMMA CountingIs ==
  ASSUME /\ Number({}) = 0
         /\ \A S \in SUBSET Changes :
              /\ Number(S) \in Nat /\ (Number(S) = 0 => S = {})
              /\ \A T \in SUBSET S : Number(T) <= Number(S)
              /\ \A w \in Changes \ S : Number(S \cup {w}) = Number(S) + 1
              /\ \A w \in S : Number(S \ {w}) = Number(S) - 1
  PROVE  Counting
BY DEF Number, Counting

LOCAL INSTANCE FiniteSetTheorems

(* The two copies agree.                                                   *)
LEMMA SameNumber == \A S : Number(S) = Cardinality(S)
BY NumberIs DEF Cardinality

(* The changes are finitely many, so their sets can be counted.            *)
LEMMA ChangeSets == Counting
<1>1. IsFiniteSet(Changes)
  BY FiniteChanges DEF IsFiniteSet
<1>2. ASSUME NEW S \in SUBSET Changes PROVE IsFiniteSet(S) /\ Cardinality(S) \in Nat
  <2>1. S \subseteq Changes
    OBVIOUS
  <2>2. IsFiniteSet(S)
    BY <1>1, <2>1, FS_Subset
  <2> QED BY SMTT(60), <2>2, FS_CardinalityType
<1>3. ASSUME NEW S \in SUBSET Changes, NEW T \in SUBSET S PROVE Cardinality(T) <= Cardinality(S)
  <2>1. IsFiniteSet(S) /\ T \subseteq S
    BY <1>2
  <2> QED BY <2>1, FS_Subset
<1>4. ASSUME NEW S \in SUBSET Changes, NEW w \in Changes \ S PROVE Cardinality(S \cup {w}) = Cardinality(S) + 1
  <2>1. IsFiniteSet(S) /\ w \notin S
    BY <1>2
  <2> QED BY <2>1, FS_AddElement
<1>5. ASSUME NEW S \in SUBSET Changes, NEW w \in S PROVE Cardinality(S \ {w}) = Cardinality(S) - 1
  <2>1. IsFiniteSet(S)
    BY <1>2
  <2> QED BY <2>1, FS_RemoveElement
<1>6. ASSUME NEW S \in SUBSET Changes, Cardinality(S) = 0 PROVE S = {}
  <2>1. IsFiniteSet(S)
    BY <1>2
  <2> QED BY <1>6, <2>1, FS_EmptySet
<1>7. Cardinality({}) = 0
  BY SMT, FS_EmptySet
<1> QED BY <1>2, <1>3, <1>4, <1>5, <1>6, <1>7, SameNumber, CountingIs

-----------------------------------------------------------------------------
(* Nobody refers to a record that syncprov_unlink_syncop has freed: every  *)
(* user of a syncops record holds its own bit of s_flags, the changes that *)
(* remember a search are counted by s_matchops_inuse, and the record goes  *)
(* with the last bit.                                                      *)
THEOREM RecordsKept == Spec => []ReferencesHeld
<1>1. Init => RInv
  BY InitInv, ChangeSets
<1>2. RInv /\ [Next]_vars => RInv'
  BY NextInv, ChangeSets
<1> QED BY <1>1, <1>2, RecordsFollow, PTL DEF Spec

(* A consumer whose persistent search the server has ended on its own is   *)
(* disconnected by syncprov_unlink_syncop or syncprov_db_close, and does   *)
(* not wait for changes that never come.                                   *)
THEOREM ConsumerKicked == Spec => []EndedIsKicked
<1>1. Init => RInv
  BY InitInv, ChangeSets
<1>2. RInv /\ [Next]_vars => RInv'
  BY NextInv, ChangeSets
<1> QED BY <1>1, <1>2, KickedFollows, PTL DEF Spec

(* A consumer misses no change, gets none twice and gets them in the order *)
(* in which syncprov_op_response published them, for any number of         *)
(* searches and changes.                                                   *)
THEOREM ChangesDelivered == Spec => []NothingLost
<1>1. Init => OInv
  BY InitOrder, ChangeSets
<1>2. OInv /\ [Next]_vars => OInv'
  BY NextOrder, ChangeSets
<1> QED BY <1>1, <1>2, DeliveredFollows, PTL DEF Spec

(* When syncprov_db_destroy frees the state of the overlay no change is    *)
(* under way or queued for an entry, no playback task runs and no Cancel   *)
(* has its cleanup still to do, and none begins afterwards.                *)
THEOREM DestroyedWhenDrained == Spec => []Drained
<1>1. Init => DInv
  BY InitDrain, ChangeSets
<1>2. DInv /\ [Next]_vars => DInv'
  BY NextDrain, ChangeSets
<1> QED BY <1>1, <1>2, DrainedFollows, PTL DEF Spec
=============================================================================
