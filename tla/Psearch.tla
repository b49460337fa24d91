------------------------------ MODULE Psearch ------------------------------
(***************************************************************************)
(* The persistent searches of a replication provider: how overlay syncprov *)
(* registers the search of a consumer, queues every change for it, plays   *)
(* the queue back in a task of the thread pool, and frees the record of    *)
(* the search when its last user is gone.                                  *)
(*                                                                         *)
(* A syncops record is shared by the thread of the search, by the changes  *)
(* that match it, by the playback task, and by whoever abandons it.  Each  *)
(* of them holds a reference bit of s_flags; syncprov_unlink_syncop takes  *)
(* bits away and frees the record with the last one.                       *)
(*                                                                         *)
(* A section that holds s_mutex waits for nothing, so it is one step.      *)
(* si_ops_mutex, c_mutex and si_resp_mutex are held across steps and have  *)
(* holders.  Each search comes over a connection of its own.               *)
(***************************************************************************)
EXTENDS Integers, Sequences, FiniteSets

CONSTANTS Searches,   \* persistent searches, each with its connection
          Changes,    \* operations that change the database
          Entries,    \* names of entries
          Nobody,     \* no search, no change, no entry
          Setups      \* what a run lets happen

Kinds == {"add", "modify", "base", "delete"}

Jobs == [kind : Kinds, entry : Entries, match : SUBSET Searches,
         from : Searches \cup {Nobody}]

ASSUME PsearchAssumption ==
  /\ Nobody \notin Searches \cup Changes \cup Entries
  /\ IsFiniteSet(Changes)
  /\ \A u \in Setups : u.jobs \subseteq [Changes -> Jobs]

VARIABLES
  flags,        \* s_flags
  s_inuse,      \* s_matchops_inuse
  s_rl,         \* the queue of responses, each named by its change
  si_ops,       \* the searches on the list si_ops: s_next # so
  freed,        \* searches whose record has been freed
  abandoned,    \* searches whose s_op has o_abandon set
  c_ops,        \* searches whose detached operation is on its connection
  c_mutex,      \* holder of the mutex of each search's connection
  kicked,       \* connections told to close by connection_closing
  search,       \* where the thread of each search is
  task,         \* where the playback task of each search is
  flying,       \* the response the task is sending
  quitter,      \* where the Abandon or Cancel of each search is
  change,       \* where each change is
  job,          \* what the change does
  smatches,     \* opc->smatches
  todo,         \* searches that syncprov_matchops has still to look at
  at,           \* the search it is looking at
  found,        \* its local variable found
  smt,          \* opc->smt
  si_mods,      \* the changes queued for each entry
  targets,      \* entries that have a modtarget in the tree
  si_active,
  si_ops_mutex, si_resp_mutex,
  overlay,      \* the overlay is open, closed or destroyed
  sent,         \* history: the responses each consumer got
  due,          \* history: the changes published for each search
  stray,        \* history: searches with a reference that nobody will drop
  late,         \* history: searches with a response queued behind the back
                \* of a task that had found the queue empty
  setup

sync == <<flags, s_inuse, si_ops, freed, c_ops, kicked, stray>>

conn == <<abandoned, c_mutex, quitter>>

play == <<s_rl, task, flying, sent, late>>

walk == <<change, smatches, todo, at, found, si_ops_mutex>>

mods == <<job, smt, si_mods, targets, si_active, si_resp_mutex, due>>

moving == <<sync, conn, play, walk, mods, search, overlay>>

vars == <<moving, setup>>

Refs == {"PLAYBACK", "OP_SEARCH", "OP_MATCH", "PREPARE", "ABANDON", "UNLINK",
         "CLOSE"}

Status == {"REFRESHING", "DETACHED", "WROTE_BASE", "FIND_BASE", "LOST_BASE",
           "DEAD"}

Init ==
  /\ setup \in Setups
  /\ flags = [s \in Searches |-> {}]
  /\ s_inuse = [s \in Searches |-> 0]
  /\ s_rl = [s \in Searches |-> <<>>]
  /\ si_ops = {} /\ freed = {} /\ abandoned = {} /\ c_ops = {} /\ kicked = {}
  /\ c_mutex = [s \in Searches |-> "free"]
  /\ search = [s \in Searches |-> "new"]
  /\ task = [s \in Searches |-> "none"]
  /\ flying = [s \in Searches |-> <<>>]
  /\ quitter = [s \in Searches |-> "none"]
  /\ change = [w \in Changes |-> "new"]
  /\ job \in setup.jobs
  /\ smatches = [w \in Changes |-> {}]
  /\ todo = [w \in Changes |-> {}]
  /\ at = [w \in Changes |-> Nobody]
  /\ found = [w \in Changes |-> FALSE]
  /\ smt = [w \in Changes |-> Nobody]
  /\ si_mods = [e \in Entries |-> <<>>]
  /\ targets = {}
  /\ si_active = 0
  /\ si_ops_mutex = Nobody /\ si_resp_mutex = Nobody
  /\ overlay = "open"
  /\ sent = [s \in Searches |-> <<>>]
  /\ due = [s \in Searches |-> <<>>]
  /\ stray = {} /\ late = {}

is_syncops_abandoned(s) == s \notin si_ops \/ s \in abandoned

Gone(s) == is_syncops_abandoned(s) \/ "DEAD" \in flags[s]

-----------------------------------------------------------------------------
(* syncprov_unlink_syncop(so, U).                                          *)

Hit(s, U) == "OP_SEARCH" \in flags[s] \cap U

(* The operation of a detached search has to be taken off its connection.  *)
OnConn(s, U) ==
  Hit(s, U) /\ "DETACHED" \in flags[s] /\ s \in c_ops /\ "UNLINK" \notin flags[s]

Unlisted(s, U) == IF Hit(s, U) THEN si_ops \ {s} ELSE si_ops

Kept(s, U) ==
  flags[s] \ (IF Hit(s, U) THEN U \cup {"REFRESHING"} ELSE U)

(* The end of the function: the bits go, and the record with the last one. *)
Release(s, f) ==
  /\ flags' = [flags EXCEPT ![s] = f]
  /\ freed' = IF f \cap Refs = {} THEN freed \cup {s} ELSE freed

(* Mutant: the consumer is not disconnected.                               *)
LeaveQuietly(s) == c_ops' = c_ops \ {s} /\ UNCHANGED kicked

(* The operation leaves c_ops.  Its connection has no other: it is closed, *)
(* unless that is what takes the search away.                              *)
LeaveConn(s) ==
  /\ c_ops' = c_ops \ {s}
  /\ kicked' = IF "ABANDON" \in flags[s] THEN kicked ELSE kicked \cup {s}

(* The whole function, where it need not wait for c_mutex.  The trylock    *)
(* may fail at any time, the mutex is also taken for reading requests.  If *)
(* it fails for an abandoned search the bit OP_SEARCH is left to           *)
(* syncprov_op_abandon, which finds the search only if it is on the list.  *)
Unlink(s, U, locked) ==
  /\ si_ops' = Unlisted(s, U)
  /\ \/ /\ ~OnConn(s, U)
        /\ Release(s, Kept(s, U))
        /\ UNCHANGED <<c_ops, kicked, stray>>
     \/ /\ OnConn(s, U)
        /\ locked \/ c_mutex[s] = "free"
        /\ LeaveConn(s)
        /\ Release(s, Kept(s, U))
        /\ UNCHANGED stray
     \/ /\ OnConn(s, U)
        /\ ~locked /\ s \in abandoned
        /\ Release(s, Kept(s, U) \cup {"OP_SEARCH"})
        /\ stray' = IF s \in si_ops THEN stray \cup {s} ELSE stray
        /\ UNCHANGED <<c_ops, kicked>>

(* The trylock fails: the function marks the record, gives s_mutex up and  *)
(* waits for c_mutex.                                                      *)
UnlinkWaits(s, U) ==
  /\ OnConn(s, U) /\ s \notin abandoned
  /\ si_ops' = Unlisted(s, U)
  /\ flags' = [flags EXCEPT ![s] = (@ \ {"REFRESHING"}) \cup {"UNLINK"}]
  /\ UNCHANGED <<freed, c_ops, kicked, stray>>

UnlinkResumes(s, U) ==
  /\ c_mutex[s] = "free"
  /\ LeaveConn(s)
  /\ Release(s, flags[s] \ (U \cup {"UNLINK"}))
  /\ UNCHANGED <<si_ops, stray>>

(* Mutant: the count is not looked at.                                     *)
UnlinkLast(s) ==
  /\ s_inuse' = [s_inuse EXCEPT ![s] = @ - 1]
  /\ Release(s, flags[s] \ {"OP_MATCH"})
  /\ UNCHANGED <<si_ops, c_ops, kicked, stray>>

(* A change gives up one of the references counted by s_matchops_inuse.    *)
UnlinkMatch(s) ==
  /\ s_inuse' = [s_inuse EXCEPT ![s] = @ - 1]
  /\ IF s_inuse[s] > 1 THEN UNCHANGED <<flags, freed>>
                       ELSE Release(s, flags[s] \ {"OP_MATCH"})
  /\ UNCHANGED <<si_ops, c_ops, kicked, stray>>

-----------------------------------------------------------------------------
(* The thread of a search.                                                 *)

syncprov_op_search(s) ==
  /\ search[s] = "new" /\ s \in setup.actors /\ overlay = "open"
  /\ search' = [search EXCEPT ![s] = "wait"]
  /\ UNCHANGED <<sync, conn, play, walk, mods, overlay, setup>>

(* Mutant: the active changes are not waited for.                          *)
RegisterAtOnce(s) ==
  /\ search[s] = "wait" /\ overlay # "destroyed"
  /\ si_ops_mutex = Nobody
  /\ flags' = [flags EXCEPT ![s] = {"REFRESHING", "PREPARE", "OP_SEARCH"}]
  /\ si_ops' = si_ops \cup {s}
  /\ stray' = IF s \in abandoned THEN stray \cup {s} ELSE stray
  /\ search' = [search EXCEPT ![s] = "prepare"]
  /\ UNCHANGED <<s_inuse, freed, c_ops, kicked, conn, play, walk, mods, overlay, setup>>

(* The search goes on the list when no change is active.                   *)
Register(s) ==
  /\ search[s] = "wait" /\ overlay # "destroyed"
  /\ si_ops_mutex = Nobody /\ si_active = 0
  /\ flags' = [flags EXCEPT ![s] = {"REFRESHING", "PREPARE", "OP_SEARCH"}]
  /\ si_ops' = si_ops \cup {s}
  /\ stray' = IF s \in abandoned THEN stray \cup {s} ELSE stray
  /\ search' = [search EXCEPT ![s] = "prepare"]
  /\ UNCHANGED <<s_inuse, freed, c_ops, kicked, conn, play, walk, mods, overlay, setup>>

(* bailout: the cookie is of no use, or a lookup fails.                    *)
Bailout(s) ==
  /\ search[s] = "prepare"
  /\ si_ops_mutex = Nobody
  /\ Unlink(s, {"PREPARE", "OP_SEARCH"}, FALSE)
  /\ search' = [search EXCEPT ![s] = "done"]
  /\ UNCHANGED <<s_inuse, conn, play, walk, mods, overlay, setup>>

Prepared(s) ==
  /\ search[s] = "prepare"
  /\ IF "OP_SEARCH" \in flags[s]
     THEN /\ flags' = [flags EXCEPT ![s] = @ \ {"PREPARE"}]
          /\ search' = [search EXCEPT ![s] = "refresh"]
          /\ UNCHANGED <<si_ops, freed, c_ops, kicked, stray>>
     ELSE /\ Unlink(s, {"PREPARE"}, FALSE)
          /\ search' = [search EXCEPT ![s] = "done"]
  /\ UNCHANGED <<s_inuse, conn, play, walk, mods, overlay, setup>>

(* syncprov_search_response of the final result, and                       *)
(* syncprov_search_cleanup if the search has failed: under c_mutex the     *)
(* thread sees whether the operation has been abandoned.                   *)
RefreshEnds(s) ==
  /\ search[s] = "refresh"
  /\ c_mutex[s] = "free"
  /\ IF s \in abandoned
     THEN /\ search' = [search EXCEPT ![s] = "done"]
          /\ UNCHANGED c_mutex
     ELSE /\ \E next \in {"detach", "abort"} : search' = [search EXCEPT ![s] = next]
          /\ c_mutex' = [c_mutex EXCEPT ![s] = "search"]
  /\ UNCHANGED <<sync, abandoned, quitter, play, walk, mods, overlay, setup>>

(* syncprov_playback_enqueue, where f are the flags of the search.         *)
Enqueue(s, f) ==
  /\ flags' = [flags EXCEPT ![s] = f \cup {"PLAYBACK"}]
  /\ task' = [task EXCEPT ![s] = "queued"]

(* syncprov_refresh_end and syncprov_detach_op: a copy of the operation    *)
(* goes on the connection in place of the one that ends.  A thread whose   *)
(* record has been freed meanwhile goes astray.                            *)
Detach(s) ==
  /\ search[s] = "detach"
  /\ \/ /\ s \in freed
        /\ search' = [search EXCEPT ![s] = "undefined"]
        /\ UNCHANGED <<sync, c_mutex, task>>
     \/ /\ s \notin freed
        /\ si_ops_mutex = Nobody
        /\ IF is_syncops_abandoned(s)
           THEN UNCHANGED <<flags, c_ops, task>>
           ELSE LET f == (flags[s] \ {"REFRESHING"}) \cup {"DETACHED"}
                IN /\ c_ops' = c_ops \cup {s}
                   /\ IF s_rl[s] # <<>>
                      THEN Enqueue(s, f)
                      ELSE /\ flags' = [flags EXCEPT ![s] = f]
                           /\ UNCHANGED task
        /\ c_mutex' = [c_mutex EXCEPT ![s] = "free"]
        /\ search' = [search EXCEPT ![s] = "done"]
        /\ UNCHANGED <<s_inuse, si_ops, freed, kicked, stray>>
  /\ UNCHANGED <<abandoned, quitter, s_rl, flying, sent, late, walk, mods, overlay, setup>>

Abort(s) ==
  /\ search[s] = "abort"
  /\ \/ /\ s \in freed
        /\ search' = [search EXCEPT ![s] = "undefined"]
        /\ UNCHANGED <<sync, c_mutex>>
     \/ /\ s \notin freed
        /\ si_ops_mutex = Nobody
        /\ Unlink(s, {"OP_SEARCH"}, TRUE)
        /\ c_mutex' = [c_mutex EXCEPT ![s] = "free"]
        /\ search' = [search EXCEPT ![s] = "done"]
        /\ UNCHANGED s_inuse
  /\ UNCHANGED <<abandoned, quitter, play, walk, mods, overlay, setup>>

-----------------------------------------------------------------------------
(* The playback task.                                                      *)

(* What syncprov_playback_locked decides when it has s_mutex: a dead       *)
(* search loses its queue and then its list entry, a live one goes on with *)
(* the queue or ends.                                                      *)
Settle(s, f) ==
  /\ flags' = [flags EXCEPT ![s] = f]
  /\ IF "DEAD" \in f
     THEN /\ s_rl' = [s_rl EXCEPT ![s] = <<>>]
          /\ task' = [task EXCEPT ![s] = "killing"]
     ELSE /\ task' = [task EXCEPT ![s] = IF s_rl[s] = <<>> THEN "ending" ELSE "queued"]
          /\ UNCHANGED s_rl

syncprov_playback_dequeue(s) ==
  /\ task[s] = "queued"
  /\ IF s_rl[s] = <<>>
     THEN Settle(s, flags[s]) /\ UNCHANGED flying
     ELSE /\ flying' = [flying EXCEPT ![s] = <<Head(s_rl[s])>>]
          /\ s_rl' = [s_rl EXCEPT ![s] = Tail(@)]
          /\ task' = [task EXCEPT ![s] = "sending"]
          /\ UNCHANGED flags
  /\ UNCHANGED <<s_inuse, si_ops, freed, c_ops, kicked, stray, conn, sent, late,
                 walk, mods, search, overlay, setup>>

(* The response is written without s_mutex; it may fail.                   *)
syncprov_sendresp(s) ==
  /\ task[s] = "sending"
  /\ \/ /\ ~Gone(s)
        /\ sent' = [sent EXCEPT ![s] = @ \o flying[s]]
        /\ Settle(s, flags[s])
     \/ /\ Gone(s) \/ setup.fails
        /\ Settle(s, flags[s] \cup {"DEAD"})
        /\ UNCHANGED sent
  /\ flying' = [flying EXCEPT ![s] = <<>>]
  /\ UNCHANGED <<s_inuse, si_ops, freed, c_ops, kicked, stray, conn, late, walk,
                 mods, search, overlay, setup>>

(* The task takes s_mutex again to give up its reference, and that of the  *)
(* search if it is dead.                                                   *)
PlaybackEnds(s) ==
  /\ \/ /\ task[s] = "ending"
        /\ Unlink(s, {"PLAYBACK"}, FALSE)
        /\ task' = [task EXCEPT ![s] = "none"]
     \/ /\ task[s] = "killing"
        /\ si_ops_mutex = Nobody
        /\ \/ /\ Unlink(s, {"PLAYBACK", "OP_SEARCH"}, FALSE)
              /\ task' = [task EXCEPT ![s] = "none"]
           \/ /\ UnlinkWaits(s, {"PLAYBACK", "OP_SEARCH"})
              /\ task' = [task EXCEPT ![s] = "unlinking"]
     \/ /\ task[s] = "unlinking"
        /\ UnlinkResumes(s, {"PLAYBACK", "OP_SEARCH"})
        /\ task' = [task EXCEPT ![s] = "none"]
  /\ UNCHANGED <<s_inuse, conn, s_rl, flying, sent, late, walk, mods, search, overlay, setup>>

(* Mutant: the task is not started, as if it always ran.                   *)
QueueOnly(w, s) ==
  IF Gone(s)
  THEN UNCHANGED <<flags, s_rl, task, late>>
  ELSE s_rl' = [s_rl EXCEPT ![s] = Append(@, w)] /\ UNCHANGED <<flags, task, late>>

(* The response is queued, and a task started for a detached search that   *)
(* has none.                                                               *)
syncprov_qresp(w, s) ==
  IF Gone(s)
  THEN UNCHANGED <<flags, s_rl, task, late>>
  ELSE LET f == IF "WROTE_BASE" \in flags[s]
                THEN (flags[s] \ {"WROTE_BASE"}) \cup {"FIND_BASE"}
                ELSE flags[s]
       IN /\ s_rl' = [s_rl EXCEPT ![s] = Append(@, w)]
          /\ late' = IF task[s] = "ending" THEN late \cup {s} ELSE late
          /\ IF "DETACHED" \in f /\ "PLAYBACK" \notin f
             THEN Enqueue(s, f)
             ELSE flags' = [flags EXCEPT ![s] = f] /\ UNCHANGED task

-----------------------------------------------------------------------------
(* Abandon, the end of the connection, and Cancel.                         *)

(* do_abandon and connection_abandon mark the operation and keep c_mutex,  *)
(* cancel_extop gives it up.                                               *)
MarkAbandoned(s) ==
  /\ quitter[s] = "none"
  /\ c_mutex[s] = "free"
  /\ \/ search[s] \in {"new", "wait"} /\ setup.early
     \/ search[s] \in {"prepare", "refresh"}
     \/ s \in c_ops
  /\ abandoned' = abandoned \cup {s}
  /\ \/ /\ quitter' = [quitter EXCEPT ![s] = "abandon"]
        /\ c_mutex' = [c_mutex EXCEPT ![s] = "abandon"]
     \/ /\ setup.cancel /\ search[s] \notin {"new", "wait"}
        /\ quitter' = [quitter EXCEPT ![s] = "cancel"]
        /\ UNCHANGED c_mutex
  /\ UNCHANGED <<sync, play, walk, mods, search, overlay, setup>>

Unlocked(s) ==
  c_mutex' = [c_mutex EXCEPT ![s] = IF quitter[s] = "abandon" THEN "free" ELSE @]

(* The search is found on the list, or there is nothing to do.             *)
syncprov_op_abandon(s) ==
  /\ quitter[s] \in {"abandon", "cancel"}
  /\ si_ops_mutex = Nobody
  /\ IF s \in si_ops
     THEN /\ flags' = [flags EXCEPT ![s] = @ \cup {"DEAD", "ABANDON"}]
          /\ si_ops' = si_ops \ {s}
          /\ quitter' = [quitter EXCEPT ![s] = IF @ = "abandon" THEN "unlink"
                                                                ELSE "cleanup"]
          /\ UNCHANGED c_mutex
     ELSE /\ Unlocked(s)
          /\ quitter' = [quitter EXCEPT ![s] = "done"]
          /\ UNCHANGED <<flags, si_ops>>
  /\ UNCHANGED <<s_inuse, freed, c_ops, kicked, stray, abandoned, play, walk, mods,
                 search, overlay, setup>>

(* Mutant: the bit that syncprov_op_abandon has set stays.                 *)
UnlinkSearchOnly(s) ==
  /\ quitter[s] \in {"unlink", "cleanup"}
  /\ si_ops_mutex = Nobody
  /\ Unlink(s, {"OP_SEARCH"}, TRUE)
  /\ c_mutex' = [c_mutex EXCEPT ![s] = IF quitter[s] = "unlink" THEN "free" ELSE @]
  /\ quitter' = [quitter EXCEPT ![s] = "done"]
  /\ UNCHANGED <<s_inuse, abandoned, play, walk, mods, search, overlay, setup>>

(* Both say that they hold c_mutex, also the cleanup of a Cancel.          *)
AbandonUnlinks(s) ==
  /\ quitter[s] \in {"unlink", "cleanup"}
  /\ si_ops_mutex = Nobody
  /\ Unlink(s, {"OP_SEARCH", "ABANDON"}, TRUE)
  /\ c_mutex' = [c_mutex EXCEPT ![s] = IF quitter[s] = "unlink" THEN "free" ELSE @]
  /\ quitter' = [quitter EXCEPT ![s] = "done"]
  /\ UNCHANGED <<s_inuse, abandoned, play, walk, mods, search, overlay, setup>>

-----------------------------------------------------------------------------
(* A change: syncprov_op_mod, the backend, syncprov_op_response and        *)
(* syncprov_op_cleanup.                                                    *)

Entry(w) == job[w].entry

syncprov_op_mod(w) ==
  /\ change[w] = "new" /\ w \in setup.actors /\ overlay = "open"
  /\ si_ops_mutex = Nobody
  /\ si_active' = si_active + 1
  /\ change' = [change EXCEPT ![w] = IF si_ops = {} THEN "execute" ELSE "queue"]
  /\ UNCHANGED <<sync, conn, play, smatches, todo, at, found, si_ops_mutex, job, smt,
                 si_mods, targets, si_resp_mutex, due, search, overlay, setup>>

(* A modtarget whose list is empty is about to be freed: try again.        *)
QueueUp(w) ==
  /\ change[w] = "queue"
  /\ Entry(w) \in targets => si_mods[Entry(w)] # <<>>
  /\ si_mods' = [si_mods EXCEPT ![Entry(w)] = Append(@, w)]
  /\ targets' = targets \cup {Entry(w)}
  /\ change' = [change EXCEPT ![w] = "turn"]
  /\ UNCHANGED <<sync, conn, play, smatches, todo, at, found, si_ops_mutex, job, smt,
                 si_active, si_resp_mutex, due, search, overlay, setup>>

TurnComes(w) ==
  /\ change[w] = "turn"
  /\ Head(si_mods[Entry(w)]) = w
  /\ smt' = [smt EXCEPT ![w] = Entry(w)]
  /\ change' = [change EXCEPT ![w] = IF job[w].kind = "add" THEN "execute" ELSE "match"]
  /\ UNCHANGED <<sync, conn, play, smatches, todo, at, found, si_ops_mutex, job, si_mods,
                 targets, si_active, si_resp_mutex, due, search, overlay, setup>>

(* A change leaves the queue of an entry.                                  *)
Dequeue(w, e) ==
  \E i \in 1 .. Len(si_mods[e]) :
    /\ si_mods[e][i] = w
    /\ si_mods' = [si_mods EXCEPT ![e] = SubSeq(@, 1, i - 1) \o SubSeq(@, i + 1, Len(@))]

(* The operation is abandoned while it waits for its turn.                 *)
GiveUp(w) ==
  /\ change[w] = "turn" /\ setup.giveup
  /\ Head(si_mods[Entry(w)]) # w
  /\ Dequeue(w, Entry(w))
  /\ change' = [change EXCEPT ![w] = "gone"]
  /\ UNCHANGED <<sync, conn, play, smatches, todo, at, found, si_ops_mutex, job, smt,
                 targets, si_active, si_resp_mutex, due, search, overlay, setup>>

(* syncprov_matchops is called before the backend, saveit, and from the    *)
(* response, where si_resp_mutex is held.                                  *)
saveit(w) == si_resp_mutex # w

syncprov_matchops(w) ==
  /\ change[w] = "match"
  /\ si_ops_mutex = Nobody
  /\ si_ops_mutex' = w
  /\ todo' = [todo EXCEPT ![w] = si_ops]
  /\ change' = [change EXCEPT ![w] = "look"]
  /\ UNCHANGED <<sync, conn, play, smatches, at, found, mods, search, overlay, setup>>

(* The next search.  One that is dead, or that the change came from, is    *)
(* passed over; the others have their base checked if it was written.      *)
Look(w, s) ==
  /\ change[w] = "look" /\ s \in todo[w]
  /\ todo' = [todo EXCEPT ![w] = @ \ {s}]
  /\ \/ /\ Gone(s) \/ job[w].from = s
        /\ UNCHANGED <<flags, smatches, at, found, change>>
     \/ /\ ~Gone(s) /\ job[w].from # s
        /\ LET wrote == IF job[w].kind = "base" /\ ~saveit(w) THEN {"WROTE_BASE"} ELSE {}
           IN flags' = [flags EXCEPT ![s] = (@ \ {"FIND_BASE"}) \cup wrote]
        /\ found' = [found EXCEPT ![w] = ~saveit(w) /\ s \in smatches[w]]
        /\ smatches' = [smatches EXCEPT ![w] = IF saveit(w) THEN @ ELSE @ \ {s}]
        /\ at' = [at EXCEPT ![w] = s]
        /\ change' = [change EXCEPT ![w] = IF s \in job[w].match THEN "test" ELSE "act"]
     \/ /\ ~Gone(s) /\ job[w].from # s
        /\ setup.lost /\ "FIND_BASE" \in flags[s]
        /\ flags' = [flags EXCEPT ![s] = (@ \ {"FIND_BASE"}) \cup {"DEAD", "LOST_BASE"}]
        /\ IF "PLAYBACK" \in flags[s]
           THEN UNCHANGED <<at, change>>
           ELSE /\ at' = [at EXCEPT ![w] = s]
                /\ change' = [change EXCEPT ![w] = "kill"]
        /\ UNCHANGED <<smatches, found>>
  /\ UNCHANGED <<s_inuse, si_ops, freed, c_ops, kicked, stray, conn, play, si_ops_mutex,
                 mods, search, overlay, setup>>

NextSearch(w) ==
  /\ at' = [at EXCEPT ![w] = Nobody]
  /\ found' = [found EXCEPT ![w] = FALSE]
  /\ change' = [change EXCEPT ![w] = "look"]

(* test_filter under s_mutex, unless the search has been abandoned: then   *)
(* it is killed here, or left to its playback task, and the reference that *)
(* was found is forgotten.                                                 *)
Test(w) ==
  LET s == at[w]
  IN /\ change[w] = "test"
     /\ IF s \notin abandoned
        THEN /\ change' = [change EXCEPT ![w] = "act"]
             /\ UNCHANGED <<at, found, stray>>
        ELSE /\ stray' = IF found[w] THEN stray \cup {s} ELSE stray
             /\ IF "PLAYBACK" \in flags[s]
                THEN NextSearch(w)
                ELSE /\ change' = [change EXCEPT ![w] = "kill"]
                     /\ UNCHANGED <<at, found>>
     /\ UNCHANGED <<flags, s_inuse, si_ops, freed, c_ops, kicked, conn, play, smatches,
                    todo, si_ops_mutex, mods, search, overlay, setup>>

Kill(w) ==
  LET s == at[w]
  IN /\ \/ /\ change[w] = "kill"
           /\ Unlink(s, {"OP_SEARCH"}, FALSE)
           /\ NextSearch(w)
        \/ /\ change[w] = "kill"
           /\ UnlinkWaits(s, {"OP_SEARCH"})
           /\ change' = [change EXCEPT ![w] = "killing"]
           /\ UNCHANGED <<at, found>>
        \/ /\ change[w] = "killing"
           /\ UnlinkResumes(s, {"OP_SEARCH"})
           /\ NextSearch(w)
     /\ UNCHANGED <<s_inuse, conn, play, smatches, todo, si_ops_mutex, mods, search, overlay, setup>>

(* The search is remembered, or told of the change.                        *)
Act(w) ==
  LET s == at[w]
  IN /\ change[w] = "act"
     /\ IF saveit(w)
        THEN /\ IF s \in job[w].match
                THEN /\ s_inuse' = [s_inuse EXCEPT ![s] = @ + 1]
                     /\ flags' = [flags EXCEPT ![s] = @ \cup {"OP_MATCH"}]
                     /\ smatches' = [smatches EXCEPT ![w] = @ \cup {s}]
                ELSE UNCHANGED <<s_inuse, flags, smatches>>
             /\ NextSearch(w)
             /\ UNCHANGED <<s_rl, task, late>>
        ELSE /\ syncprov_qresp(w, s)
             /\ IF found[w] THEN /\ change' = [change EXCEPT ![w] = "forget"]
                                 /\ UNCHANGED <<at, found>>
                            ELSE NextSearch(w)
             /\ UNCHANGED <<s_inuse, smatches>>
     /\ UNCHANGED <<si_ops, freed, c_ops, kicked, stray, conn, flying, sent, todo,
                    si_ops_mutex, mods, search, overlay, setup>>

Forget(w) ==
  /\ change[w] = "forget"
  /\ UnlinkMatch(at[w])
  /\ NextSearch(w)
  /\ UNCHANGED <<conn, play, smatches, todo, si_ops_mutex, mods, search, overlay, setup>>

Looked(w) ==
  /\ change[w] = "look" /\ todo[w] = {}
  /\ si_ops_mutex' = Nobody
  /\ IF saveit(w) THEN /\ change' = [change EXCEPT ![w] = "execute"]
                       /\ UNCHANGED si_resp_mutex
                  ELSE /\ change' = [change EXCEPT ![w] = "clean"]
                       /\ si_resp_mutex' = Nobody
  /\ UNCHANGED <<sync, conn, play, smatches, todo, at, found, job, smt, si_mods, targets,
                 si_active, due, search, overlay, setup>>

Fail(w) ==
  /\ change[w] = "execute"
  /\ change' = [change EXCEPT ![w] = "clean"]
  /\ UNCHANGED <<sync, conn, play, smatches, todo, at, found, si_ops_mutex, mods, search,
                 overlay, setup>>

(* The searches that a change is published for.                            *)
Audience(w) ==
  {s \in si_ops : s # job[w].from /\ (job[w].kind = "delete" => s \in job[w].match)}

syncprov_op_response(w) ==
  /\ change[w] = "execute"
  /\ si_resp_mutex = Nobody /\ si_ops_mutex = Nobody
  /\ due' = [s \in Searches |-> IF s \in Audience(w) THEN Append(due[s], w) ELSE due[s]]
  /\ IF si_ops = {}
     THEN /\ change' = [change EXCEPT ![w] = "clean"]
          /\ UNCHANGED <<si_resp_mutex, todo>>
     ELSE /\ si_resp_mutex' = w
          /\ IF job[w].kind = "delete"
             THEN /\ change' = [change EXCEPT ![w] = "tell"]
                  /\ todo' = [todo EXCEPT ![w] = smatches[w]]
             ELSE /\ change' = [change EXCEPT ![w] = "match"]
                  /\ UNCHANGED todo
  /\ UNCHANGED <<sync, conn, play, smatches, at, found, si_ops_mutex, job, smt, si_mods,
                 targets, si_active, search, overlay, setup>>

(* A deletion is told to the searches that were remembered, without the    *)
(* list and its mutex.                                                     *)
TellDelete(w, s) ==
  /\ change[w] = "tell" /\ s \in todo[w]
  /\ syncprov_qresp(w, s)
  /\ todo' = [todo EXCEPT ![w] = @ \ {s}]
  /\ UNCHANGED <<s_inuse, si_ops, freed, c_ops, kicked, stray, conn, flying, sent, change,
                 smatches, at, found, si_ops_mutex, mods, search, overlay, setup>>

Told(w) ==
  /\ change[w] = "tell" /\ todo[w] = {}
  /\ change' = [change EXCEPT ![w] = "clean"]
  /\ si_resp_mutex' = Nobody
  /\ UNCHANGED <<sync, conn, play, smatches, todo, at, found, si_ops_mutex, job, smt,
                 si_mods, targets, si_active, due, search, overlay, setup>>

(* Mutant: the change stays active.                                        *)
CleanupActive(w) ==
  /\ change[w] = "clean"
  /\ change' = [change EXCEPT ![w] = "drop"]
  /\ UNCHANGED <<sync, conn, play, smatches, todo, at, found, si_ops_mutex, mods,
                 search, overlay, setup>>

syncprov_op_cleanup(w) ==
  /\ change[w] = "clean"
  /\ si_active' = si_active - 1
  /\ change' = [change EXCEPT ![w] = "drop"]
  /\ UNCHANGED <<sync, conn, play, smatches, todo, at, found, si_ops_mutex, job, smt,
                 si_mods, targets, si_resp_mutex, due, search, overlay, setup>>

DropMatch(w, s) ==
  /\ change[w] = "drop" /\ s \in smatches[w]
  /\ UnlinkMatch(s)
  /\ smatches' = [smatches EXCEPT ![w] = @ \ {s}]
  /\ UNCHANGED <<conn, play, change, todo, at, found, si_ops_mutex, mods, search, overlay, setup>>

(* The next change of the entry is let in; the last one frees the target   *)
(* in a second step.                                                       *)
LeaveQueue(w) ==
  /\ change[w] = "drop" /\ smatches[w] = {}
  /\ IF smt[w] = Nobody
     THEN /\ change' = [change EXCEPT ![w] = "done"]
          /\ UNCHANGED si_mods
     ELSE /\ Dequeue(w, smt[w])
          /\ change' = [change EXCEPT ![w] = IF si_mods'[smt[w]] = <<>> THEN "free"
                                                                        ELSE "done"]
  /\ UNCHANGED <<sync, conn, play, smatches, todo, at, found, si_ops_mutex, job, smt,
                 targets, si_active, si_resp_mutex, due, search, overlay, setup>>

FreeTarget(w) ==
  /\ change[w] = "free"
  /\ targets' = targets \ {smt[w]}
  /\ change' = [change EXCEPT ![w] = "done"]
  /\ UNCHANGED <<sync, conn, play, smatches, todo, at, found, si_ops_mutex, job, smt,
                 si_mods, si_active, si_resp_mutex, due, search, overlay, setup>>

-----------------------------------------------------------------------------
(* The overlay is removed from the running server.                         *)

(* slap_biglock_pool_pause is granted when every task is idle: waiting in  *)
(* syncprov_op_search or for its turn, or sending something to a client.   *)
Paused ==
  /\ \A s \in Searches :
       /\ search[s] \in {"new", "wait", "prepare", "refresh", "done"}
       /\ task[s] \in {"none", "queued", "sending"}
       /\ quitter[s] \in {"none", "cleanup", "done"}
  /\ \A w \in Changes :
       \/ change[w] \in {"new", "clean", "done", "gone"}
       \/ change[w] = "turn" /\ Head(si_mods[Entry(w)]) # w

(* During the pause every search on the list dies.  Its task is taken back *)
(* if it has not begun.                                                    *)
syncprov_db_close ==
  LET left(s) ==
        (flags[s] \cup {"DEAD"}) \ ({"OP_SEARCH", "REFRESHING"} \cup
                                   IF task[s] = "queued" THEN {"PLAYBACK"} ELSE {})
  IN /\ overlay = "open" /\ setup.close /\ Paused
     /\ overlay' = "closed"
     /\ flags' = [s \in Searches |-> IF s \in si_ops THEN left(s) ELSE flags[s]]
     /\ task' = [s \in Searches |->
                   IF s \in si_ops /\ task[s] = "queued" THEN "none" ELSE task[s]]
     /\ freed' = freed \cup {s \in si_ops : left(s) \cap Refs = {}}
     /\ kicked' = kicked \cup (si_ops \cap c_ops)
     /\ c_ops' = c_ops \ si_ops
     /\ si_ops' = {}
     /\ UNCHANGED <<s_inuse, stray, conn, s_rl, flying, sent, late, walk, mods, search,
                    setup>>

(* Mutant: the active changes are not waited for.                          *)
DestroyAtOnce ==
  /\ overlay = "closed" /\ Paused
  /\ si_ops = {}
  /\ overlay' = "destroyed"
  /\ UNCHANGED <<sync, conn, play, walk, mods, search, setup>>

(* syncprov_db_destroy frees the state of the overlay when it is drained.  *)
syncprov_db_destroy ==
  /\ overlay = "closed" /\ Paused
  /\ si_ops = {} /\ si_active = 0
  /\ \A s \in Searches : search[s] \in {"new", "wait"} \/ s \in freed
  /\ overlay' = "destroyed"
  /\ UNCHANGED <<sync, conn, play, walk, mods, search, setup>>

(* The search waited for the changes to end, and then for the pause.       *)
RegisterTooLate(s) ==
  /\ search[s] = "wait" /\ overlay = "destroyed"
  /\ search' = [search EXCEPT ![s] = "undefined"]
  /\ UNCHANGED <<sync, conn, play, walk, mods, overlay, setup>>

-----------------------------------------------------------------------------
SearchStep(s) ==
  \/ syncprov_op_search(s) \/ Register(s) \/ Bailout(s) \/ Prepared(s)
  \/ RefreshEnds(s) \/ Detach(s) \/ Abort(s) \/ RegisterTooLate(s)

TaskStep(s) ==
  syncprov_playback_dequeue(s) \/ syncprov_sendresp(s) \/ PlaybackEnds(s)

QuitStep(s) == syncprov_op_abandon(s) \/ AbandonUnlinks(s)

ChangeStep(w) ==
  \/ syncprov_op_mod(w) \/ QueueUp(w) \/ TurnComes(w) \/ syncprov_matchops(w)
  \/ \E s \in Searches : Look(w, s) \/ TellDelete(w, s) \/ DropMatch(w, s)
  \/ Test(w) \/ Kill(w) \/ Act(w) \/ Forget(w) \/ Looked(w) \/ Fail(w)
  \/ syncprov_op_response(w) \/ Told(w)
  \/ syncprov_op_cleanup(w) \/ LeaveQueue(w) \/ FreeTarget(w)

Next ==
  \/ \E s \in Searches : SearchStep(s) \/ TaskStep(s) \/ QuitStep(s) \/ MarkAbandoned(s)
  \/ \E w \in Changes : ChangeStep(w) \/ GiveUp(w)
  \/ syncprov_db_close \/ syncprov_db_destroy

(* Every thread runs on while it can; whether a client abandons something  *)
(* is its own affair.                                                      *)
Fairness ==
  /\ \A s \in Searches : /\ WF_moving(SearchStep(s)) /\ WF_moving(TaskStep(s))
                         /\ WF_moving(QuitStep(s))
  /\ \A w \in Changes : WF_moving(ChangeStep(w))

Spec == Init /\ [][Next]_vars

FairSpec == Spec /\ Fairness

-----------------------------------------------------------------------------
(* The types of the variables.                                             *)
TypeOK ==
  /\ flags \in [Searches -> SUBSET (Refs \cup Status)]
  /\ s_inuse \in [Searches -> Int]
  /\ s_rl \in [Searches -> Seq(Changes)]
  /\ si_ops \subseteq Searches /\ freed \subseteq Searches
  /\ abandoned \subseteq Searches /\ c_ops \subseteq Searches
  /\ kicked \subseteq Searches /\ stray \subseteq Searches /\ late \subseteq Searches
  /\ c_mutex \in [Searches -> {"free", "search", "abandon"}]
  /\ search \in [Searches -> {"new", "wait", "prepare", "refresh", "detach", "abort",
                              "done", "undefined"}]
  /\ task \in [Searches -> {"none", "queued", "sending", "ending", "killing",
                            "unlinking"}]
  /\ flying \in [Searches -> Seq(Changes)]
  /\ quitter \in [Searches -> {"none", "abandon", "cancel", "unlink", "cleanup", "done"}]
  /\ change \in [Changes -> {"new", "queue", "turn", "gone", "match", "look", "test",
                             "kill", "killing", "act", "forget", "execute", "tell",
                             "clean", "drop", "free", "done"}]
  /\ job \in [Changes -> Jobs]
  /\ smatches \in [Changes -> SUBSET Searches]
  /\ todo \in [Changes -> SUBSET Searches]
  /\ at \in [Changes -> Searches \cup {Nobody}]
  /\ found \in [Changes -> BOOLEAN]
  /\ smt \in [Changes -> Entries \cup {Nobody}]
  /\ si_mods \in [Entries -> Seq(Changes)]
  /\ targets \subseteq Entries
  /\ si_active \in Int
  /\ overlay \in {"open", "closed", "destroyed"}
  /\ si_ops_mutex \in Changes \cup {Nobody}
  /\ si_resp_mutex \in Changes \cup {Nobody}
  /\ sent \in [Searches -> Seq(Changes)]
  /\ due \in [Searches -> Seq(Changes)]

(* Whoever may still use the record of a search holds one of its bits: its *)
(* thread while it prepares the search, the playback task, the one who     *)
(* abandons it, the list, a change that looks at it or has remembered it.  *)
(* So syncprov_unlink_syncop frees a record that nobody but the thread of  *)
(* a refresh refers to.                                                    *)
Users(s) == {w \in Changes : s \in smatches[w] \/ (at[w] = s /\ found[w])}

ReferencesHeld ==
  TypeOK /\ \A s \in Searches :
    /\ search[s] = "prepare" => "PREPARE" \in flags[s]
    /\ task[s] # "none" => "PLAYBACK" \in flags[s]
    /\ task[s] = "unlinking" => "UNLINK" \in flags[s]
    /\ quitter[s] \in {"unlink", "cleanup"} => "ABANDON" \in flags[s]
    /\ s \in si_ops => "OP_SEARCH" \in flags[s]
    /\ \A w \in Changes :
         at[w] = s => \/ s \in si_ops
                      \/ change[w] = "killing" /\ "UNLINK" \in flags[s]
                      \/ change[w] = "forget" /\ "OP_MATCH" \in flags[s]
    /\ s_inuse[s] >= Cardinality(Users(s))
    /\ ("OP_MATCH" \in flags[s]) <=> (s_inuse[s] > 0)
    /\ s \in freed => flags[s] \cap Refs = {}

(* A consumer misses no change, gets none twice and gets them in the order *)
(* in which syncprov_op_response published them: what it was sent, what is *)
(* being sent and what is queued are together what was published since its *)
(* search was registered, but for the change that is just being told.      *)
InTransit(s) == sent[s] \o flying[s] \o s_rl[s]

NothingLost ==
  \A s \in Searches : ~Gone(s) =>
    /\ si_resp_mutex = Nobody => InTransit(s) = due[s]
    /\ si_resp_mutex # Nobody =>
         InTransit(s) \in {due[s], SubSeq(due[s], 1, Len(due[s]) - 1)}

(* The overlay's state is freed, in syncprov_db_destroy, when no change,   *)
(* no playback task and no Cancel needs it any more.                       *)
Drained ==
  overlay = "destroyed" =>
    /\ \A w \in Changes : change[w] \in {"new", "done", "gone"}
    /\ \A s \in Searches : task[s] = "none" /\ quitter[s] \notin {"unlink", "cleanup"}
    /\ \A e \in Entries : si_mods[e] = <<>>

(* A search that the server ends on its own disconnects the consumer,      *)
(* which would wait for changes that never come (LeaveConn).               *)
EndedIsKicked ==
  \A s \in freed : "DETACHED" \in flags[s] => s \in kicked \/ quitter[s] # "none"

(* Again and again everything queued for the detached searches has been    *)
(* sent, or freed with its search; a response that slips in behind a task  *)
(* that has found the queue empty is excepted.                             *)
Unplayed(s) == s_rl[s] # <<>> /\ "DETACHED" \in flags[s] /\ s \notin freed

QueuedIsPlayed ==
  ~setup.lost => []<>(\A s \in Searches : Unplayed(s) => s \in late)

(* The same without the exception: "If there are queued responses, fire    *)
(* them off" (syncprov.c:2666), "Resubmit this task if there are more      *)
(* responses queued and no errors occurred" (syncprov.c:1099).             *)
QueuedIsAlwaysPlayed == []<>(\A s \in Searches : ~Unplayed(s))

(* Again and again every abandoned search that was registered has been     *)
(* freed by its last user, except where a reference was forgotten: stray.  *)
AbandonedIsFreed ==
  ~setup.lost =>
    []<>(\A s \in abandoned : search[s] \in {"new", "wait"} \/ s \in freed \cup stray)

(* Changes that have begun end, and searches that wait for the active      *)
(* changes are registered: nobody waits for somebody who waits for them.   *)
NobodyWaitsForever ==
  ~setup.lost =>
    []<>/\ \A w \in Changes : change[w] \in {"new", "done", "gone"}
        /\ \A s \in Searches : search[s] = "wait" => setup.giveup
=============================================================================
