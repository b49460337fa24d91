----------------------------- MODULE ConfigLock -----------------------------
(***************************************************************************)
(* Operations on cn=config: the recursive read-write lock cb_lock          *)
(* (rurwl.c, taken in bconfig.c), the big lock of a database (biglock.c)   *)
(* and the pause of the thread pool, as one thread of the pool takes,      *)
(* gives up and takes back all three of them during a change.              *)
(*                                                                         *)
(* A change locks cb_lock, looks its entry up, gives cb_lock and the big   *)
(* lock up, pauses the pool, takes both back, changes the configuration,   *)
(* resumes the pool and answers.  The answer may run a checkpoint of the   *)
(* sync provider, which is a second change inside the first, or close the  *)
(* overlay that was deleted, which pauses the pool again.                  *)
(***************************************************************************)
EXTENDS Integers, FiniteSets

CONSTANTS Threads,  \* threads of the pool, each runs one operation
          Nobody,   \* no thread
          Setups    \* configurations: [biglock, kinds, slow]

ASSUME ConfigLockAssumption ==
  /\ Nobody \notin Threads /\ IsFiniteSet(Threads)
  /\ \A s \in Setups :
       /\ s.biglock \in {"none", "local"}
       /\ s.kinds \subseteq {"search", "change", "internal", "remove", "data"}
       /\ s.slow \in BOOLEAN

VARIABLES
  pc,         \* where each thread is
  op,         \* its operation: kind, whether it is in the checkpoint, what
              \* the answer still has to do, whether a client blocked it
  slot,       \* p->state[]: its entry in cb_lock
  saved,      \* the state that rurw_retreat returned
  cb,         \* rurw_readers and rurw_writer
  bl,         \* the big locks: owner and recursion
  deep,       \* the recursion that slap_biglock_pool_pause saved
  ltp_pause,  \* pause state of the pool
  pauser,     \* the task that wants or has the pause
  setup       \* the configuration, fixed

moving == <<pc, op, slot, saved, cb, bl, deep, ltp_pause, pauser>>

vars == <<moving, setup>>

Dbs == {"config", "data"}

NoSlot == [thr |-> FALSE, r |-> 0, w |-> 0]

NoOp == [kind |-> "none", nested |-> FALSE, todo |-> "none", waited |-> FALSE]

Free == [owner |-> Nobody, recursion |-> 0]

(* The big lock an operation runs under; searches take none.               *)
Db(t) == IF op[t].kind = "data" THEN "data" ELSE "config"

Init ==
  /\ setup \in Setups
  /\ pc = [t \in Threads |-> "ready"]
  /\ op = [t \in Threads |-> NoOp]
  /\ slot = [t \in Threads |-> NoSlot]
  /\ saved = [t \in Threads |-> NoSlot]
  /\ cb = [readers |-> 0, writer |-> FALSE]
  /\ bl = [d \in Dbs |-> Free]
  /\ deep = [t \in Threads |-> 0]
  /\ ltp_pause = "NOT_PAUSED"
  /\ pauser = Nobody

Goto(t, l) == pc' = [pc EXCEPT ![t] = l]

pool == <<ltp_pause, pauser>>

rurw == <<slot, saved, cb>>

biglock == <<bl, deep>>

-----------------------------------------------------------------------------
(* biglock.c                                                               *)

(* slap_biglock_acquire: NULL without a big lock, recursive for its owner. *)
Acquires(t, n) ==
  /\ \/ /\ setup.biglock = "none"
        /\ UNCHANGED bl
     \/ /\ setup.biglock = "local"
        /\ bl[Db(t)].owner \in {Nobody, t}
        /\ bl' = [bl EXCEPT ![Db(t)] = [owner |-> t, recursion |-> @.recursion + n]]

Releases(t, n) ==
  bl' = IF setup.biglock = "none" THEN bl
        ELSE [bl EXCEPT ![Db(t)] = IF @.recursion = n THEN Free
                                   ELSE [owner |-> @.owner, recursion |-> @.recursion - n]]

(* Mutant: one level of the big lock is given up.                          *)
GiveUpOne(t) ==
  /\ deep' = [deep EXCEPT ![t] = 1]
  /\ Releases(t, 1)

(* Before a pause slap_biglock_pool_pause and slap_biglock_pool_pausecheck *)
(* give up every level and remember how many there were.                   *)
GiveUp(t) ==
  LET n == bl[Db(t)].recursion
  IN /\ deep' = [deep EXCEPT ![t] = n]
     /\ Releases(t, n)

TakeBack(t) ==
  /\ Acquires(t, deep[t])
  /\ deep' = [deep EXCEPT ![t] = 0]

-----------------------------------------------------------------------------
(* rurwl.c, as bconfig.c uses it: a thread that reads neither reads again  *)
(* nor writes, a writer may write again.                                   *)

WaitsToWrite(f) == {t \in Threads : f[t] \in {"wait_w", "woken_w", "wait_o", "woken_o"}}

Woken(l) == CASE l = "wait_w" -> "woken_w"
              [] l = "wait_o" -> "woken_o"
              [] l = "wait_r" -> "woken_r"
              [] OTHER -> l

(* Mutant: a writer that leaves wakes readers only.                        *)
LeaveToReaders(c, f) ==
  {[t \in Threads |-> IF f[t] = "wait_r" /\ ~c.writer THEN Woken(f[t]) ELSE f[t]]}

(* rurw_leave wakes one writer if there is one and nobody reads, else all  *)
(* readers.                                                                *)
rurw_leave(c, f) ==
  LET asleep == {t \in Threads : f[t] \in {"wait_w", "wait_o"}}
  IN CASE c.writer -> {f}
       [] ~c.writer /\ c.readers = 0 /\ WaitsToWrite(f) # {} ->
            IF asleep = {} THEN {f} ELSE {[f EXCEPT ![t] = Woken(@)] : t \in asleep}
       [] OTHER ->
            {[t \in Threads |-> IF f[t] = "wait_r" THEN Woken(f[t]) ELSE f[t]]}

rurw_r_lock(t) ==
  /\ \/ /\ cb.writer
        /\ Goto(t, "wait_r")
        /\ slot' = [slot EXCEPT ![t].thr = TRUE]
        /\ UNCHANGED cb
     \/ /\ ~cb.writer
        /\ Goto(t, "reading")
        /\ slot' = [slot EXCEPT ![t] = [thr |-> TRUE, r |-> 1, w |-> 0]]
        /\ cb' = [cb EXCEPT !.readers = @ + 1]
  /\ UNCHANGED saved

rurw_r_unlock(t) ==
  LET c == [cb EXCEPT !.readers = @ - 1]
  IN /\ slot' = [slot EXCEPT ![t] = NoSlot]
     /\ cb' = c
     /\ pc' \in rurw_leave(c, [pc EXCEPT ![t] = "leave"])
     /\ UNCHANGED saved

(* Mutant: readers are not waited for.                                     *)
BusyForWriter == cb.writer

Busy == cb.readers > 0 \/ cb.writer

rurw_w_lock(t) ==
  /\ \/ /\ slot[t].w > 0
        /\ Goto(t, "found")
        /\ slot' = [slot EXCEPT ![t].w = @ + 1]
        /\ UNCHANGED cb
     \/ /\ slot[t].w = 0 /\ Busy
        /\ Goto(t, "wait_w")
        /\ slot' = [slot EXCEPT ![t].thr = TRUE]
        /\ UNCHANGED cb
     \/ /\ slot[t].w = 0 /\ ~Busy
        /\ Goto(t, "found")
        /\ slot' = [slot EXCEPT ![t] = [thr |-> TRUE, r |-> 0, w |-> 1]]
        /\ cb' = [cb EXCEPT !.writer = TRUE]
  /\ UNCHANGED saved

rurw_w_unlock(t) ==
  /\ \/ /\ slot[t].w > 1
        /\ slot' = [slot EXCEPT ![t].w = @ - 1]
        /\ Goto(t, "leave")
        /\ UNCHANGED cb
     \/ /\ slot[t].w = 1
        /\ slot' = [slot EXCEPT ![t] = NoSlot]
        /\ cb' = [cb EXCEPT !.writer = FALSE]
        /\ pc' \in rurw_leave([cb EXCEPT !.writer = FALSE], [pc EXCEPT ![t] = "leave"])
  /\ UNCHANGED saved

rurw_retreat(t) ==
  LET c == [cb EXCEPT !.writer = FALSE]
  IN /\ saved' = [saved EXCEPT ![t] = slot[t]]
     /\ slot' = [slot EXCEPT ![t] = NoSlot]
     /\ cb' = c
     /\ pc' \in rurw_leave(c, [pc EXCEPT ![t] = "retreated"])

(* rurw_obtain writes the state into the slot before it has the lock.      *)
rurw_obtain(t) ==
  /\ slot' = [slot EXCEPT ![t] = saved[t]]
  /\ \/ Busy /\ Goto(t, "wait_o") /\ UNCHANGED cb
     \/ ~Busy /\ Goto(t, "changing") /\ cb' = [cb EXCEPT !.writer = TRUE]
  /\ UNCHANGED saved

-----------------------------------------------------------------------------
(* The operations.                                                         *)

(* A worker takes a task; a pause hides the tasks.                         *)
Begin(t) ==
  /\ pc[t] = "ready" /\ ltp_pause = "NOT_PAUSED"
  /\ \E k \in setup.kinds : op' = [op EXCEPT ![t].kind = k]
  /\ Goto(t, "enter")
  /\ UNCHANGED <<rurw, biglock, pool>>

(* slap_biglock_call_be for writes.                                        *)
Enter(t) ==
  /\ pc[t] = "enter"
  /\ IF op[t].kind = "search" THEN UNCHANGED bl ELSE Acquires(t, 1)
  /\ Goto(t, IF op[t].kind = "data" THEN "working" ELSE "lock")
  /\ UNCHANGED <<op, rurw, deep, pool>>

(* cf_rd_lock of a search, cf_wr_lock of a change.                         *)
Lock(t) ==
  /\ pc[t] \in {"lock", "woken_r", "woken_w"}
  /\ IF op[t].kind = "search" THEN rurw_r_lock(t) ELSE rurw_w_lock(t)
  /\ UNCHANGED <<op, biglock, pool>>

(* __config_back_search has sent everything.                               *)
EndSearch(t) ==
  /\ pc[t] = "reading"
  /\ rurw_r_unlock(t)
  /\ UNCHANGED <<op, biglock, pool>>

(* send_ldap_ber waits for the client: the task counts as idle meanwhile.  *)
(* The response callbacks have run by then, the cleanup has not.  Internal *)
(* changes have no client.                                                 *)
SendBlocks(t) ==
  /\ \/ pc[t] = "reading"
     \/ /\ pc[t] = "answer" /\ op[t].todo # "checkpoint"
        /\ op[t].kind # "internal" /\ ~op[t].nested
  /\ setup.slow /\ ~op[t].waited
  /\ op' = [op EXCEPT ![t].waited = TRUE]
  /\ Goto(t, "sending")
  /\ UNCHANGED <<rurw, biglock, pool>>

SendReturns(t) ==
  /\ pc[t] = "sending" /\ ltp_pause # "PAUSED"
  /\ Goto(t, IF op[t].kind = "search" THEN "reading" ELSE "answer")
  /\ UNCHANGED <<op, rurw, biglock, pool>>

(* No such entry, no access, abandoned, ...                                *)
Refuse(t) ==
  /\ pc[t] = "found"
  /\ Goto(t, "answer")
  /\ UNCHANGED <<op, rurw, biglock, pool>>

(* An internal change of contextCSN does not pause.                        *)
ChangeUnpaused(t) ==
  /\ pc[t] = "found" /\ op[t].kind = "internal"
  /\ Goto(t, "answer")
  /\ UNCHANGED <<op, rurw, biglock, pool>>

Retreat(t) ==
  /\ pc[t] = "found" /\ op[t].kind # "internal"
  /\ rurw_retreat(t)
  /\ UNCHANGED <<op, biglock, pool>>

(* slap_biglock_pool_pause, its first half.                                *)
slap_biglock_pool_pause(t) ==
  /\ pc[t] = "retreated"
  /\ GiveUp(t)
  /\ Goto(t, "want")
  /\ UNCHANGED <<op, rurw, pool>>

(* handle_pause(DO_PAUSE): waits out another pause, then asks for its own. *)
WantPause(t) ==
  /\ pc[t] = "want" /\ ltp_pause = "NOT_PAUSED"
  /\ ltp_pause' = "WANT_PAUSE"
  /\ pauser' = t
  /\ Goto(t, "wanting")
  /\ UNCHANGED <<op, rurw, biglock>>

(* Tasks that do not keep a pause from beginning: none, idle ones and the  *)
(* ones that wait in handle_pause themselves.                              *)
PoolIdle(t) == pc[t] \in {"ready", "finished", "sending", "want", "checking"}

(* Mutant: the pause begins at once.                                       *)
GrantEarly(t) ==
  /\ pc[t] = "wanting"
  /\ ltp_pause' = "PAUSED"
  /\ Goto(t, IF op[t].todo = "close" THEN "closing" ELSE "paused")
  /\ UNCHANGED <<op, rurw, biglock, pauser>>

Grant(t) ==
  /\ pc[t] = "wanting"
  /\ \A u \in Threads \ {t} : PoolIdle(u)
  /\ ltp_pause' = "PAUSED"
  /\ Goto(t, IF op[t].todo = "close" THEN "closing" ELSE "paused")
  /\ UNCHANGED <<op, rurw, biglock, pauser>>

(* slap_biglock_pool_pause, its second half.                               *)
PauseAcquire(t) ==
  /\ pc[t] = "paused"
  /\ TakeBack(t)
  /\ Goto(t, "obtain")
  /\ UNCHANGED <<op, rurw, pool>>

Obtain(t) ==
  /\ pc[t] \in {"obtain", "woken_o"}
  /\ rurw_obtain(t)
  /\ UNCHANGED <<op, biglock, pool>>

Unpause == ltp_pause' = "NOT_PAUSED" /\ pauser' = Nobody

(* The configuration is changed, then slap_biglock_pool_resume.            *)
ChangeAndResume(t) ==
  /\ pc[t] = "changing"
  /\ Unpause
  /\ \E d \in {"none", "checkpoint"} :
       op' = [op EXCEPT ![t].todo = IF op[t].kind = "remove" THEN "close"
                                    ELSE IF op[t].nested THEN "none" ELSE d]
  /\ Goto(t, "answer")
  /\ UNCHANGED <<rurw, biglock>>

(* syncprov_op_response runs syncprov_checkpoint inside send_ldap_result.  *)
syncprov_checkpoint(t) ==
  /\ pc[t] = "answer" /\ op[t].todo = "checkpoint"
  /\ Acquires(t, 1)
  /\ op' = [op EXCEPT ![t].nested = TRUE, ![t].todo = "none"]
  /\ Goto(t, "lock")
  /\ UNCHANGED <<rurw, deep, pool>>

(* overlay_remove_cb closes the overlay at the end of send_ldap_result; the*)
(* big lock of the overlay's database is not held.                         *)
overlay_remove_cb(t) ==
  /\ pc[t] = "answer" /\ op[t].todo = "close"
  /\ Goto(t, "want")
  /\ UNCHANGED <<op, rurw, biglock, pool>>

syncprov_db_close(t) ==
  /\ pc[t] = "closing"
  /\ Unpause
  /\ op' = [op EXCEPT ![t].todo = "none", ![t].waited = TRUE]
  /\ Goto(t, "answer")
  /\ UNCHANGED <<rurw, biglock>>

(* The answer is sent; cf_wr_unlock.                                       *)
EndChange(t) ==
  /\ pc[t] = "answer" /\ op[t].todo = "none"
  /\ rurw_w_unlock(t)
  /\ UNCHANGED <<op, biglock, pool>>

(* slap_biglock_release at the end of the operation or the checkpoint.     *)
Leave(t) ==
  /\ pc[t] = "leave"
  /\ IF op[t].kind = "search" THEN UNCHANGED bl ELSE Releases(t, 1)
  /\ op' = [op EXCEPT ![t].nested = FALSE]
  /\ Goto(t, IF op[t].nested THEN "answer" ELSE "finished")
  /\ UNCHANGED <<rurw, deep, pool>>

(* A long operation on another database comes to its end ...               *)
EndWork(t) ==
  /\ pc[t] = "working"
  /\ Goto(t, "leave")
  /\ UNCHANGED <<op, rurw, biglock, pool>>

(* ... or to slap_biglock_pool_pausecheck while a pause is wanted.         *)
slap_biglock_pool_pausecheck(t) ==
  /\ pc[t] = "working" /\ ltp_pause # "NOT_PAUSED"
  /\ GiveUp(t)
  /\ Goto(t, "checking")
  /\ UNCHANGED <<op, rurw, pool>>

PauseOver(t) ==
  /\ pc[t] = "checking" /\ ltp_pause = "NOT_PAUSED"
  /\ Goto(t, "checked")
  /\ UNCHANGED <<op, rurw, biglock, pool>>

PausecheckAcquire(t) ==
  /\ pc[t] = "checked"
  /\ TakeBack(t)
  /\ Goto(t, "working")
  /\ UNCHANGED <<op, rurw, pool>>

Step(t) ==
  \/ Enter(t) \/ Lock(t) \/ EndSearch(t) \/ SendReturns(t)
  \/ Refuse(t) \/ ChangeUnpaused(t) \/ Retreat(t)
  \/ slap_biglock_pool_pause(t) \/ WantPause(t) \/ Grant(t) \/ PauseAcquire(t)
  \/ Obtain(t) \/ ChangeAndResume(t) \/ syncprov_checkpoint(t)
  \/ overlay_remove_cb(t) \/ syncprov_db_close(t) \/ EndChange(t) \/ Leave(t)
  \/ EndWork(t) \/ slap_biglock_pool_pausecheck(t)
  \/ PauseOver(t) \/ PausecheckAcquire(t)

Next ==
  /\ \E t \in Threads : Begin(t) \/ SendBlocks(t) \/ Step(t)
  /\ UNCHANGED setup

Spec == Init /\ [][Next]_vars

(* The scheduler runs every thread that can run, and clients read on.      *)
FairSpec == Spec /\ \A t \in Threads : WF_moving(Step(t))

-----------------------------------------------------------------------------
Labels ==
  {"ready", "enter", "lock", "wait_r", "woken_r", "reading", "sending", "wait_w",
   "woken_w", "found", "retreated", "want", "wanting", "paused", "obtain", "wait_o",
   "woken_o", "changing", "answer", "closing", "leave", "finished", "working",
   "checking", "checked"}

TypeOK ==
  /\ pc \in [Threads -> Labels]
  /\ op \in [Threads -> [kind : {"none", "search", "change", "internal", "remove", "data"},
                         nested : BOOLEAN, todo : {"none", "checkpoint", "close"},
                         waited : BOOLEAN]]
  /\ slot \in [Threads -> [thr : BOOLEAN, r : 0..1, w : 0..2]]
  /\ saved \in [Threads -> [thr : BOOLEAN, r : 0..1, w : 0..2]]
  /\ cb \in [readers : 0..Cardinality(Threads), writer : BOOLEAN]
  /\ bl \in [Dbs -> [owner : Threads \cup {Nobody}, recursion : 0..2]]
  /\ deep \in [Threads -> 0..2]
  /\ ltp_pause \in {"NOT_PAUSED", "WANT_PAUSE", "PAUSED"}
  /\ pauser \in Threads \cup {Nobody}

Waiting(t) == pc[t] \in {"wait_o", "woken_o"}

Writes(t) == slot[t].w > 0 /\ ~Waiting(t)

(* A thread that changes the configuration has the pool paused for itself, *)
(* cb_lock and its big lock: nobody reads the configuration, also none of  *)
(* the tasks that count as idle because a client keeps them waiting.       *)
ChangeAlone ==
  \A t \in Threads : pc[t] = "changing" =>
    /\ ltp_pause = "PAUSED" /\ pauser = t
    /\ setup.biglock = "local" => bl["config"].owner = t
    /\ \A u \in Threads \ {t} :
         PoolIdle(u) /\ slot[u].r = 0 /\ ~Writes(u)

(* The levels of the big lock that an operation has taken.                 *)
Levels(t) ==
  CASE setup.biglock = "none" \/ op[t].kind \in {"none", "search"} -> 0
    [] pc[t] \in {"ready", "enter", "finished"} -> 0
    [] OTHER -> IF op[t].nested THEN 2 ELSE 1

(* rurw_readers and rurw_writer count the slots that have the lock, also   *)
(* when rurw_obtain has filled a slot before it may; the levels of the big *)
(* lock that are held or saved over a pause are those that were taken.     *)
LocksExact ==
  /\ TypeOK
  /\ cb.readers = Cardinality({t \in Threads : slot[t].r > 0})
  /\ Cardinality({t \in Threads : Writes(t)}) = IF cb.writer THEN 1 ELSE 0
  /\ \A t \in Threads :
       Levels(t) = deep[t] + (IF bl[Db(t)].owner = t THEN bl[Db(t)].recursion ELSE 0)

(* Every operation on cn=config ends, and so does every other one.         *)
ConfigEnds == \A t \in Threads : pc[t] # "ready" ~> pc[t] = "finished"

(* It does where no client keeps an answer waiting and no overlay is       *)
(* deleted, in whatever order changes, checkpoints, searches and other     *)
(* tasks meet: rurw_leave loses no wakeup and the locks are given up       *)
(* before every pause.                                                     *)
PlainConfigEnds ==
  (~setup.slow /\ "remove" \notin setup.kinds) =>
    \A t \in Threads : pc[t] # "ready" ~> pc[t] = "finished"
=============================================================================
