-------------------------------- MODULE TPool --------------------------------
(***************************************************************************)
(* The thread pool of slapd (libraries/libreldap/tpool.c): work queues     *)
(* with their worker threads, submission of tasks, pausing and resuming    *)
(* the pool, idle tasks, resizing and shutdown.                            *)
(*                                                                         *)
(* A step is what a thread does under one hold of a mutex.  The code reads *)
(* ltp_pause, ltq_work_list, ltp_finishing and some counters without the   *)
(* mutex that their writers hold; a thread that keeps a mutex while another*)
(* thread can change such a value therefore keeps it over several steps.   *)
(***************************************************************************)
EXTENDS Integers, Sequences, FiniteSets

CONSTANTS Threads,       \* identities of worker threads
          Tasks,         \* tasks that may be submitted, each once
          NumQs,         \* ltp_numqs
          MaxCounts,     \* values of ltq_max_count: at the start and after a resize
          MaxPending,    \* ltq_max_pending
          Setups,        \* what the tasks do, see Setup
          Nobody, NoTask, Closer

ASSUME TPoolAssumption ==
  /\ IsFiniteSet(Threads)
  /\ NumQs \in Nat \ {0}
  /\ MaxCounts \in SUBSET (Nat \ {0}) /\ MaxCounts # {}
  /\ MaxPending \in Nat \ {0}
  /\ Setups \subseteq
       [idlers : SUBSET Tasks,    \* tasks that call pool_idle/pool_unidle
        pausers : SUBSET Tasks,   \* tasks that call pool_pause/pool_resume
        checkers : SUBSET Tasks,  \* tasks that call pool_pausecheck
        close : BOOLEAN,          \* the pool is shut down
        fail : BOOLEAN,           \* thread creation may fail
        atomic : BOOLEAN]         \* FALSE: counter updates under different mutexes
                                  \* overlap, and one of them may be lost
  /\ Nobody \notin Threads \cup {Closer} /\ Closer \notin Threads
  /\ NoTask \notin Tasks

NOT_PAUSED == 0
WANT_PAUSE == 1
PAUSED     == 2

Queues == 1..NumQs

VARIABLES
  (* struct ldap_int_thread_pool_s *)
  ltp_mutex, ltp_pause, ltp_active_queues, ltp_finishing,
  (* struct ldap_int_thread_poolq_s, one of each per queue *)
  ltq_mutex, ltq_hidden, ltq_pending_list, ltq_pending_count,
  ltq_active_count, ltq_open_count, ltq_max_count, ltq_max_pending,
  (* threads *)
  pc, pq, task, tmp,
  thread_keys,   \* threads that have a slot in thread_keys[]
  (* the thread that calls pool_close *)
  closer,
  (* history of the tasks *)
  submitted, done, acted,
  setup   \* the member of Setups that this behaviour follows

poolVars  == <<ltp_mutex, ltp_pause, ltp_active_queues, ltp_finishing>>
listVars  == <<ltq_hidden, ltq_pending_list, ltq_pending_count>>
sizeVars  == <<ltq_open_count, ltq_max_count, ltq_max_pending>>
threadVars == <<pq, task, tmp, thread_keys>>
taskVars  == <<submitted, done, acted>>
moving == <<poolVars, ltq_mutex, listVars, ltq_active_count, sizeVars, pc, threadVars,
            closer, taskVars>>
vars == <<moving, setup>>

(* Threads that wait on ltp_cond, by what they do when they are woken.     *)
Woken == [wait_start |-> "woken_start", wait_loop |-> "woken_loop",
          wait_unidle |-> "woken_unidle", wait_check |-> "woken_check",
          wait_pause |-> "woken_pause"]

Init ==
  /\ ltp_mutex = Nobody /\ ltp_pause = NOT_PAUSED
  /\ ltp_active_queues = 0 /\ ltp_finishing = FALSE
  /\ ltq_mutex = [q \in Queues |-> Nobody]
  /\ ltq_hidden = [q \in Queues |-> FALSE]
  /\ ltq_pending_list = [q \in Queues |-> <<>>]
  /\ ltq_pending_count = [q \in Queues |-> 0]
  /\ ltq_active_count = [q \in Queues |-> 0]
  /\ ltq_open_count = [q \in Queues |-> 0]
  /\ ltq_max_count \in MaxCounts
  /\ ltq_max_pending = [q \in Queues |-> MaxPending]
  /\ pc = [t \in Threads |-> "none"]
  /\ pq = [t \in Threads |-> 1]
  /\ task = [t \in Threads |-> NoTask]
  /\ tmp = [t \in Threads |-> 0]
  /\ thread_keys = {}
  /\ closer = [at |-> "no", q |-> 1]
  /\ submitted = {} /\ done = {} /\ acted = {}
  /\ setup \in Setups

-----------------------------------------------------------------------------
(* Condition variables.                                                    *)

PoolFree == ltp_mutex = Nobody
QueueFree(q) == ltq_mutex[q] = Nobody

WakePool(p) == [t \in Threads |-> IF p[t] \in DOMAIN Woken THEN Woken[p[t]] ELSE p[t]]

(* pthread_cond_signal(&ltp_pcond): only the pausing task waits there.     *)
SignalPauser(p) == [t \in Threads |-> IF p[t] = "wait_sole" THEN "woken_sole" ELSE p[t]]

WakeQueue(q, p) ==
  [t \in Threads |-> IF p[t] = "wait_queue" /\ pq[t] = q THEN "woken_queue" ELSE p[t]]

(* pthread_cond_signal(&ltq_cond): one worker of the queue, or the closer. *)
SignalQueue(q, p) ==
  LET workers == {t \in Threads : p[t] = "wait_queue" /\ pq[t] = q}
      closing == closer.at = "wait" /\ closer.q = q
  IN \/ /\ workers = {} /\ ~closing
        /\ pc' = p /\ UNCHANGED closer
     \/ /\ \E t \in workers : pc' = [p EXCEPT ![t] = "woken_queue"]
        /\ UNCHANGED closer
     \/ /\ closing
        /\ pc' = p /\ closer' = [closer EXCEPT !.at = "woken"]

-----------------------------------------------------------------------------
(* ldap_pvt_thread_pool_submit2, called by the listener or by a task.      *)

(* The first queue with nothing active, else the least loaded one; the     *)
(* counters are read without a mutex.                                      *)
Load(q) == ltq_active_count[q] + ltq_pending_count[q]

IsFirstChoice(q) ==
  LET resting == {i \in Queues : ltq_active_count[i] = 0}
  IN \/ /\ q \in resting /\ \A i \in resting : q <= i
     \/ /\ resting = {}
        /\ \A i \in Queues : Load(q) < Load(i) \/ (Load(q) = Load(i) /\ q <= i)

(* Then the next one, round and round, that has room.                      *)
Distance(i, q) == IF q >= i THEN q - i ELSE q - i + NumQs

HasRoom(q) == ltq_pending_count[q] < ltq_max_pending[q]

SubmitQueue(q) ==
  /\ HasRoom(q)
  /\ \E i \in Queues :
       /\ IsFirstChoice(i)
       /\ \A j \in Queues : HasRoom(j) => Distance(i, q) <= Distance(i, j)

(* Mutant: the task is counted but the workers are not signalled.          *)
OpenOnly(q, p) == pc' = p /\ UNCHANGED closer

AfterSubmit(q, p) == SignalQueue(q, p)

NeedThread(q) ==
  /\ ltq_open_count[q] < ltq_active_count[q] + ltq_pending_count[q] + 1
  /\ ltq_open_count[q] < ltq_max_count

Enqueue(q, k) ==
  /\ ltq_pending_list' = [ltq_pending_list EXCEPT ![q] = Append(@, k)]
  /\ ltq_pending_count' = [ltq_pending_count EXCEPT ![q] = @ + 1]
  /\ submitted' = submitted \cup {k}

ldap_pvt_thread_pool_submit(k) ==
  /\ k \notin submitted
  /\ \E q \in Queues :
       /\ SubmitQueue(q) /\ QueueFree(q)
       /\ \/ /\ ltp_pause # NOT_PAUSED
             /\ Enqueue(q, k)
             /\ UNCHANGED <<pc, pq, ltq_open_count, closer>>
          \/ /\ ltp_pause = NOT_PAUSED /\ ~NeedThread(q)
             /\ Enqueue(q, k)
             /\ AfterSubmit(q, pc)
             /\ UNCHANGED <<pq, ltq_open_count>>
          \/ /\ ltp_pause = NOT_PAUSED /\ NeedThread(q)
             /\ Enqueue(q, k)
             /\ \E t \in Threads :
                  /\ pc[t] = "none"
                  /\ pq' = [pq EXCEPT ![t] = q]
                  /\ AfterSubmit(q, [pc EXCEPT ![t] = "start"])
             /\ ltq_open_count' = [ltq_open_count EXCEPT ![q] = @ + 1]
          \/ /\ ltp_pause = NOT_PAUSED /\ NeedThread(q)
             /\ setup.fail
             /\ ltq_open_count[q] > 0
             /\ Enqueue(q, k)
             /\ AfterSubmit(q, pc)
             /\ UNCHANGED <<pq, ltq_open_count>>
  /\ UNCHANGED <<poolVars, ltq_mutex, ltq_hidden, ltq_active_count, ltq_max_count,
                 ltq_max_pending, task, tmp, thread_keys, done, acted>>

(* ldap_pvt_thread_pool_maxthreads, without a mutex: cn=config calls it    *)
(* from the task that holds the pause.                                     *)
ldap_pvt_thread_pool_maxthreads(n) ==
  /\ \E t \in Threads : pc[t] = "paused"
  /\ n # ltq_max_count
  /\ ltq_max_count' = n
  /\ UNCHANGED <<poolVars, ltq_mutex, listVars, ltq_active_count, ltq_open_count,
                 ltq_max_pending, pc, threadVars, closer, taskVars>>

-----------------------------------------------------------------------------
(* ldap_int_thread_pool_wrapper: the loop of a worker.                     *)

Goto(t, l) == pc' = [pc EXCEPT ![t] = l]

LockQueue(t, q)   == QueueFree(q) /\ ltq_mutex' = [ltq_mutex EXCEPT ![q] = t]
UnlockQueue(t, q) == ltq_mutex[q] = t /\ ltq_mutex' = [ltq_mutex EXCEPT ![q] = Nobody]

(* A new thread waits while a pause is on ...                              *)
Start(t) ==
  /\ \/ /\ pc[t] = "start" /\ ltp_pause = NOT_PAUSED
        /\ Goto(t, "slot")
     \/ /\ pc[t] = "start" /\ ltp_pause # NOT_PAUSED
        /\ Goto(t, "woken_start")
     \/ /\ pc[t] = "woken_start" /\ PoolFree
        /\ Goto(t, IF ltp_pause = NOT_PAUSED THEN "slot" ELSE "wait_start")
  /\ UNCHANGED <<poolVars, ltq_mutex, listVars, ltq_active_count, sizeVars, threadVars,
                 closer, taskVars>>

(* ... takes a slot of thread_keys[] under the global mutex ...            *)
TakeSlot(t) ==
  /\ pc[t] = "slot"
  /\ thread_keys' = thread_keys \cup {t}
  /\ Goto(t, "enrol")
  /\ UNCHANGED <<poolVars, ltq_mutex, listVars, ltq_active_count, sizeVars, pq, task, tmp,
                 closer, taskVars>>

(* ... and becomes active.                                                 *)
Enrol(t) ==
  LET q == pq[t]
  IN /\ pc[t] = "enrol"
     /\ LockQueue(t, q)
     /\ ltq_active_count' = [ltq_active_count EXCEPT ![q] = @ + 1]
     /\ Goto(t, "look")
     /\ UNCHANGED <<poolVars, listVars, sizeVars, threadVars, closer, taskVars>>

WorkList(q) == IF ltq_hidden[q] THEN <<>> ELSE ltq_pending_list[q]

TakeTask(t, q) ==
  /\ WorkList(q) # <<>>
  /\ task' = [task EXCEPT ![t] = Head(WorkList(q))]
  /\ ltq_pending_list' = [ltq_pending_list EXCEPT ![q] = Tail(@)]
  /\ ltq_pending_count' = [ltq_pending_count EXCEPT ![q] = @ - 1]
  /\ Goto(t, "run")

(* At the head of the loop the thread counts as active.                    *)
Look(t) ==
  LET q == pq[t]
  IN /\ pc[t] = "look"
     /\ \/ /\ TakeTask(t, q)
           /\ UnlockQueue(t, q)
           /\ UNCHANGED ltq_active_count
        \/ /\ WorkList(q) = <<>>
           /\ ltq_active_count' = [ltq_active_count EXCEPT ![q] = @ - 1]
           /\ IF ltq_active_count[q] - 1 < 1 /\ ltp_pause # NOT_PAUSED
                THEN Goto(t, "to_pool") /\ UnlockQueue(t, q)
                ELSE Goto(t, "sleep") /\ UNCHANGED ltq_mutex
           /\ UNCHANGED <<task, ltq_pending_list, ltq_pending_count>>
     /\ UNCHANGED <<poolVars, ltq_hidden, sizeVars, pq, tmp, thread_keys, closer, taskVars>>

(* Mutant: a pool that is exactly full loses threads.                      *)
MustEndFull(q) == ltp_finishing \/ ltq_open_count[q] >= ltq_max_count

(* The thread must end: the pool finishes or has too many threads.         *)
MustEnd(q) == ltp_finishing \/ ltq_open_count[q] > ltq_max_count

(* No task: wait on ltq_cond.  ltq_mutex was held since the list was read, *)
(* but pool_resume changes the list without it.                            *)
Sleep(t) ==
  LET q == pq[t]
  IN /\ pc[t] = "sleep"
     /\ IF MustEnd(q)
          THEN Goto(t, "end_queue") /\ UNCHANGED ltq_mutex
          ELSE Goto(t, "wait_queue") /\ UnlockQueue(t, q)
     /\ UNCHANGED <<poolVars, listVars, ltq_active_count, sizeVars, threadVars, closer, taskVars>>

WakeUp(t) ==
  LET q == pq[t]
  IN /\ pc[t] \in {"woken_queue", "to_queue"}
     /\ \/ /\ QueueFree(q)
           /\ TakeTask(t, q)
           /\ ltq_active_count' = [ltq_active_count EXCEPT ![q] = @ + 1]
           /\ UNCHANGED ltq_mutex
        \/ /\ WorkList(q) = <<>>
           /\ LockQueue(t, q)
           /\ Goto(t, "sleep")
           /\ UNCHANGED <<task, ltq_pending_list, ltq_pending_count, ltq_active_count>>
     /\ UNCHANGED <<poolVars, ltq_hidden, sizeVars, pq, tmp, thread_keys, closer, taskVars>>

(* Mutant: the pausing task is not told.                                   *)
LeaveSilently(p) ==
  /\ ltp_active_queues' = ltp_active_queues - 1
  /\ pc' = p

(* The last active thread of a queue tells the pausing task, then waits    *)
(* for the resume on ltp_cond.                                             *)
LeaveActive(p) ==
  /\ ltp_active_queues' = ltp_active_queues - 1
  /\ pc' = IF ltp_active_queues - 1 < 1 THEN SignalPauser(p) ELSE p

ToPool(t) ==
  /\ pc[t] = "to_pool" /\ PoolFree
  /\ IF MustEnd(pq[t])
       THEN /\ LeaveActive([pc EXCEPT ![t] = "end_pool"])
            /\ ltp_mutex' = t
       ELSE /\ LeaveActive([pc EXCEPT ![t] = "wait_loop"])
            /\ UNCHANGED ltp_mutex
  /\ UNCHANGED <<ltp_pause, ltp_finishing, ltq_mutex, listVars, ltq_active_count, sizeVars,
                 threadVars, closer, taskVars>>

WakeInPool(t) ==
  /\ pc[t] = "woken_loop" /\ PoolFree
  /\ \/ /\ ltp_pause = NOT_PAUSED
        /\ Goto(t, "to_queue") /\ UNCHANGED ltp_mutex
     \/ /\ ltp_pause # NOT_PAUSED /\ ~MustEnd(pq[t])
        /\ Goto(t, "wait_loop") /\ UNCHANGED ltp_mutex
     \/ /\ ltp_pause # NOT_PAUSED /\ MustEnd(pq[t])
        /\ Goto(t, "end_pool") /\ ltp_mutex' = t
  /\ UNCHANGED <<ltp_pause, ltp_active_queues, ltp_finishing, ltq_mutex, listVars,
                 ltq_active_count, sizeVars, threadVars, closer, taskVars>>

(* Label done: give the slot of thread_keys[] back, then uncount.  A       *)
(* thread that comes from ltp_cond holds ltp_mutex instead of ltq_mutex.   *)
EndSlot(t) ==
  /\ pc[t] \in {"end_queue", "end_pool"}
  /\ thread_keys' = thread_keys \ {t}
  /\ tmp' = [tmp EXCEPT ![t] = ltq_open_count[pq[t]]]
  /\ Goto(t, IF pc[t] = "end_queue" THEN "uncount_queue" ELSE "uncount_pool")
  /\ UNCHANGED <<poolVars, ltq_mutex, listVars, ltq_active_count, sizeVars, pq, task, closer,
                 taskVars>>

(* The last thread of a queue signals the closer, or else frees the queue: *)
(* LastThreadStays says that the second never happens here.                *)
EndCount(t) ==
  LET q == pq[t]
      n == (IF setup.atomic THEN ltq_open_count[q] ELSE tmp[t]) - 1
  IN /\ pc[t] \in {"uncount_queue", "uncount_pool"}
     /\ ltq_open_count' = [ltq_open_count EXCEPT ![q] = n]
     /\ IF n = 0 /\ ltp_finishing
          THEN SignalQueue(q, [pc EXCEPT ![t] = "none"])
          ELSE Goto(t, "none") /\ UNCHANGED closer
     /\ IF pc[t] = "uncount_queue"
          THEN UnlockQueue(t, q) /\ UNCHANGED ltp_mutex
          ELSE ltp_mutex' = Nobody /\ UNCHANGED ltq_mutex
     /\ tmp' = [tmp EXCEPT ![t] = 0]
     /\ UNCHANGED <<ltp_pause, ltp_active_queues, ltp_finishing, listVars, ltq_active_count,
                    ltq_max_count, ltq_max_pending, pq, task, thread_keys, taskVars>>

(* The task returns.                                                       *)
Finish(t) ==
  LET q == pq[t]
  IN /\ pc[t] = "run"
     /\ LockQueue(t, q)
     /\ done' = done \cup {task[t]}
     /\ task' = [task EXCEPT ![t] = NoTask]
     /\ Goto(t, "look")
     /\ UNCHANGED <<poolVars, listVars, ltq_active_count, sizeVars, pq, tmp, thread_keys, closer,
                    submitted, acted>>

-----------------------------------------------------------------------------
(* handle_pause, called by tasks.  Each task does it once.                 *)

Acts(t, S) ==
  /\ pc[t] = "run" /\ task[t] \in S \ acted
  /\ PoolFree
  /\ acted' = acted \cup {task[t]}

(* GO_IDLE: the thread is no longer counted as active.                     *)
GoIdle(t, l) ==
  LET q == pq[t]
  IN /\ QueueFree(q)
     /\ ltq_pending_count' = [ltq_pending_count EXCEPT ![q] = @ + 1]
     /\ ltq_active_count' = [ltq_active_count EXCEPT ![q] = @ - 1]
     /\ IF ltp_pause # NOT_PAUSED /\ ltq_active_count[q] - 1 < 1
          THEN LeaveActive([pc EXCEPT ![t] = l])
          ELSE Goto(t, l) /\ UNCHANGED ltp_active_queues

(* Mutant: the task stays counted as pending.                              *)
UnidleKeepPending(t) ==
  LET q == pq[t]
  IN /\ QueueFree(q)
     /\ ltq_active_count' = [ltq_active_count EXCEPT ![q] = @ + 1]
     /\ UNCHANGED ltq_pending_count

(* GO_UNIDLE, after the wait.                                              *)
GoUnidle(t) ==
  LET q == pq[t]
  IN /\ QueueFree(q)
     /\ ltq_pending_count' = [ltq_pending_count EXCEPT ![q] = @ - 1]
     /\ ltq_active_count' = [ltq_active_count EXCEPT ![q] = @ + 1]

ldap_pvt_thread_pool_idle(t) ==
  /\ Acts(t, setup.idlers)
  /\ GoIdle(t, "idle")
  /\ UNCHANGED <<ltp_mutex, ltp_pause, ltp_finishing, ltq_mutex, ltq_hidden, ltq_pending_list,
                 sizeVars, threadVars, closer, submitted, done>>

(* Only an established pause is waited out; a requested one is ignored.    *)
ldap_pvt_thread_pool_unidle(t) ==
  /\ pc[t] \in {"idle", "woken_unidle"} /\ PoolFree
  /\ IF ltp_pause > WANT_PAUSE
       THEN Goto(t, "wait_unidle") /\ UNCHANGED <<ltq_pending_count, ltq_active_count>>
       ELSE Goto(t, "run") /\ GoUnidle(t)
  /\ UNCHANGED <<poolVars, ltq_mutex, ltq_hidden, ltq_pending_list, sizeVars, threadVars,
                 closer, taskVars>>

ldap_pvt_thread_pool_pausecheck(t) ==
  /\ \/ /\ Acts(t, setup.checkers)
        /\ ltp_pause # NOT_PAUSED
        /\ GoIdle(t, "wait_check")
     \/ /\ pc[t] = "woken_check" /\ PoolFree
        /\ IF ltp_pause # NOT_PAUSED
             THEN Goto(t, "wait_check") /\ UNCHANGED <<ltq_pending_count, ltq_active_count>>
             ELSE Goto(t, "run") /\ GoUnidle(t)
        /\ UNCHANGED <<ltp_active_queues, acted>>
  /\ UNCHANGED <<ltp_mutex, ltp_pause, ltp_finishing, ltq_mutex, ltq_hidden, ltq_pending_list,
                 sizeVars, threadVars, closer, submitted, done>>

(* DO_PAUSE: first wait out another pause, then ask for this one.          *)
WantPause(t) ==
  /\ ltp_pause = NOT_PAUSED
  /\ ltp_pause' = WANT_PAUSE
  /\ ltp_active_queues' = 0
  /\ ltp_mutex' = t
  /\ tmp' = [tmp EXCEPT ![t] = pq[t]]
  /\ Goto(t, "scan")

ldap_pvt_thread_pool_pause(t) ==
  /\ \/ /\ Acts(t, setup.pausers)
        /\ \/ /\ WantPause(t)
              /\ UNCHANGED <<ltq_pending_count, ltq_active_count>>
           \/ /\ ltp_pause # NOT_PAUSED
              /\ GoIdle(t, "wait_pause")
              /\ UNCHANGED <<ltp_mutex, ltp_pause, tmp>>
     \/ /\ pc[t] = "woken_pause" /\ PoolFree
        /\ \/ /\ WantPause(t)
              /\ GoUnidle(t)
           \/ /\ ltp_pause # NOT_PAUSED
              /\ Goto(t, "wait_pause")
              /\ UNCHANGED <<ltp_mutex, ltp_pause, ltp_active_queues, tmp, ltq_pending_count,
                             ltq_active_count>>
        /\ UNCHANGED acted
  /\ UNCHANGED <<ltp_finishing, ltq_mutex, ltq_hidden, ltq_pending_list, sizeVars, pq, task,
                 thread_keys, closer, submitted, done>>

(* Hide the work list of each queue, from the task's own queue on, and     *)
(* count the queues where someone else is active.                          *)
NextQueue(q) == IF q = NumQs THEN 1 ELSE q + 1

Scan(t) ==
  LET q == tmp[t]
      n == IF q = pq[t] THEN ltq_active_count[q] - 1 ELSE ltq_active_count[q]
  IN /\ pc[t] = "scan"
     /\ QueueFree(q)
     /\ ltq_active_count' = [ltq_active_count EXCEPT ![q] = n]
     /\ ltq_hidden' = [ltq_hidden EXCEPT ![q] = TRUE]
     /\ ltp_active_queues' = IF n > 0 THEN ltp_active_queues + 1 ELSE ltp_active_queues
     /\ tmp' = [tmp EXCEPT ![t] = NextQueue(q)]
     /\ Goto(t, IF NextQueue(q) = pq[t] THEN "scanned" ELSE "scan")
     /\ UNCHANGED <<ltp_mutex, ltp_pause, ltp_finishing, ltq_mutex, ltq_pending_list,
                    ltq_pending_count, sizeVars, pq, task, thread_keys, closer, taskVars>>

(* Mutant: the request is granted without waiting.                         *)
GrantAtOnce(t) ==
  /\ pc[t] \in {"scanned", "woken_sole"} /\ (pc[t] = "woken_sole" => PoolFree)
  /\ Goto(t, "sole")
  /\ ltp_mutex' = t
  /\ tmp' = [tmp EXCEPT ![t] = ltq_active_count[pq[t]]]
  /\ UNCHANGED <<ltp_pause, ltp_active_queues, ltp_finishing, ltq_mutex, listVars,
                 ltq_active_count, sizeVars, pq, task, thread_keys, closer, taskVars>>

AwaitSole(t) ==
  /\ pc[t] \in {"scanned", "woken_sole"} /\ (pc[t] = "woken_sole" => PoolFree)
  /\ IF ltp_active_queues > 0
       THEN /\ Goto(t, "wait_sole")
            /\ ltp_mutex' = Nobody
            /\ UNCHANGED tmp
       ELSE /\ Goto(t, "sole")
            /\ ltp_mutex' = t
            /\ tmp' = [tmp EXCEPT ![t] = ltq_active_count[pq[t]]]
  /\ UNCHANGED <<ltp_pause, ltp_active_queues, ltp_finishing, ltq_mutex, listVars,
                 ltq_active_count, sizeVars, pq, task, thread_keys, closer, taskVars>>

(* Count the pausing task again, without ltq_mutex.                        *)
Paused(t) ==
  LET q == pq[t]
      n == (IF setup.atomic THEN ltq_active_count[q] ELSE tmp[t]) + 1
  IN /\ pc[t] = "sole"
     /\ ltq_active_count' = [ltq_active_count EXCEPT ![q] = n]
     /\ ltp_pause' = PAUSED
     /\ ltp_mutex' = Nobody
     /\ tmp' = [tmp EXCEPT ![t] = 0]
     /\ Goto(t, "paused")
     /\ UNCHANGED <<ltp_active_queues, ltp_finishing, ltq_mutex, listVars, sizeVars, pq, task,
                    thread_keys, closer, taskVars>>

(* ldap_pvt_thread_pool_resume: show the lists again, without ltq_mutex.   *)
ldap_pvt_thread_pool_resume(t) ==
  /\ pc[t] = "paused" /\ PoolFree
  /\ ltp_mutex' = t
  /\ ltp_pause' = NOT_PAUSED
  /\ tmp' = [tmp EXCEPT ![t] = 1]
  /\ Goto(t, "resume")
  /\ UNCHANGED <<ltp_active_queues, ltp_finishing, ltq_mutex, listVars, ltq_active_count,
                 sizeVars, pq, task, thread_keys, closer, taskVars>>

Show(t) ==
  LET q == tmp[t]
  IN /\ pc[t] = "resume" /\ q <= NumQs
     /\ ltq_hidden' = [ltq_hidden EXCEPT ![q] = FALSE]
     /\ pc' = WakeQueue(q, pc)
     /\ closer' = IF closer.at = "wait" /\ closer.q = q
                    THEN [closer EXCEPT !.at = "woken"] ELSE closer
     /\ tmp' = [tmp EXCEPT ![t] = q + 1]
     /\ UNCHANGED <<poolVars, ltq_mutex, ltq_pending_list, ltq_pending_count, ltq_active_count,
                    sizeVars, pq, task, thread_keys, taskVars>>

Resumed(t) ==
  /\ pc[t] = "resume" /\ tmp[t] > NumQs
  /\ pc' = [WakePool(pc) EXCEPT ![t] = "run"]
  /\ ltp_mutex' = Nobody
  /\ tmp' = [tmp EXCEPT ![t] = 0]
  /\ UNCHANGED <<ltp_pause, ltp_active_queues, ltp_finishing, ltq_mutex, listVars,
                 ltq_active_count, sizeVars, pq, task, thread_keys, closer, taskVars>>

-----------------------------------------------------------------------------
(* ldap_pvt_thread_pool_close(pool, 1), called by the main thread.         *)

CloseBegin ==
  /\ setup.close /\ closer.at = "no" /\ PoolFree
  /\ ltp_finishing' = TRUE
  /\ pc' = WakePool(pc)
  /\ closer' = [at |-> "lock", q |-> 1]
  /\ UNCHANGED <<ltp_mutex, ltp_pause, ltp_active_queues, ltq_mutex, listVars,
                 ltq_active_count, sizeVars, threadVars, taskVars>>

(* Refuse new tasks; while the queue has threads, wait on ltq_cond.        *)
CloseQueue ==
  LET q == closer.q
  IN /\ closer.at \in {"lock", "woken"} /\ QueueFree(q)
     /\ ltq_max_pending' = [ltq_max_pending EXCEPT ![q] = IF @ > 0 THEN -@ ELSE @]
     /\ IF ltq_open_count[q] # 0
          THEN /\ closer' = [closer EXCEPT !.at = "sleep"]
               /\ ltq_mutex' = [ltq_mutex EXCEPT ![q] = Closer]
          ELSE /\ closer' = IF q = NumQs THEN [closer EXCEPT !.at = "closed"]
                                         ELSE [at |-> "lock", q |-> q + 1]
               /\ UNCHANGED ltq_mutex
     /\ UNCHANGED <<poolVars, listVars, ltq_active_count, ltq_open_count, ltq_max_count, pc,
                    threadVars, taskVars>>

(* Mutant: waiting workers are not told to end.                            *)
CloseWaitSilent ==
  LET q == closer.q
  IN /\ closer.at = "sleep"
     /\ ltq_mutex' = [ltq_mutex EXCEPT ![q] = Nobody]
     /\ closer' = [closer EXCEPT !.at = "wait"]
     /\ UNCHANGED <<poolVars, listVars, ltq_active_count, sizeVars, pc, threadVars, taskVars>>

CloseWait ==
  LET q == closer.q
  IN /\ closer.at = "sleep"
     /\ pc' = WakeQueue(q, pc)
     /\ ltq_mutex' = [ltq_mutex EXCEPT ![q] = Nobody]
     /\ closer' = [closer EXCEPT !.at = "wait"]
     /\ UNCHANGED <<poolVars, listVars, ltq_active_count, sizeVars, threadVars, taskVars>>

-----------------------------------------------------------------------------
Worker(t) ==
  \/ Start(t) \/ TakeSlot(t) \/ Enrol(t) \/ Look(t) \/ Sleep(t) \/ WakeUp(t)
  \/ ToPool(t) \/ WakeInPool(t) \/ EndSlot(t) \/ EndCount(t)
  \/ ldap_pvt_thread_pool_unidle(t)
  \/ Scan(t) \/ AwaitSole(t) \/ Paused(t)
  \/ ldap_pvt_thread_pool_resume(t) \/ Show(t) \/ Resumed(t)

TaskCalls(t) ==
  \/ ldap_pvt_thread_pool_idle(t)
  \/ ldap_pvt_thread_pool_pausecheck(t)
  \/ ldap_pvt_thread_pool_pause(t)

Close == CloseBegin \/ CloseQueue \/ CloseWait

Next ==
  /\ \/ \E k \in Tasks : ldap_pvt_thread_pool_submit(k)
     \/ \E n \in MaxCounts : ldap_pvt_thread_pool_maxthreads(n)
     \/ \E t \in Threads : Worker(t) \/ Finish(t) \/ TaskCalls(t)
     \/ Close
  /\ UNCHANGED setup

(* The scheduler runs every thread that can run, tasks return, and a task  *)
(* that was woken in handle_pause goes on.                                 *)
Fairness ==
  /\ \A t \in Threads :
       /\ WF_moving(Worker(t))
       /\ WF_moving(Finish(t))
       /\ WF_moving(ldap_pvt_thread_pool_pausecheck(t) /\ pc[t] = "woken_check")
       /\ WF_moving(ldap_pvt_thread_pool_pause(t) /\ pc[t] = "woken_pause")
  /\ WF_moving(CloseQueue) /\ WF_moving(CloseWait)

Spec == Init /\ [][Next]_vars

FairSpec == Spec /\ Fairness

-----------------------------------------------------------------------------
HandlingPause == {"idle", "wait_unidle", "woken_unidle", "wait_check", "woken_check",
                  "wait_pause", "woken_pause"}

Pausing == {"scan", "scanned", "wait_sole", "woken_sole", "sole", "paused", "resume"}

WorkerLoop == {"none", "start", "wait_start", "woken_start", "slot", "enrol", "look", "sleep",
               "wait_queue", "woken_queue", "to_pool", "wait_loop", "woken_loop", "to_queue",
               "end_queue", "end_pool", "uncount_queue", "uncount_pool", "run"}

TypeOK ==
  /\ ltp_mutex \in Threads \cup {Nobody}
  /\ ltp_pause \in {NOT_PAUSED, WANT_PAUSE, PAUSED}
  /\ ltp_active_queues \in Int
  /\ ltp_finishing \in BOOLEAN
  /\ ltq_mutex \in [Queues -> Threads \cup {Nobody, Closer}]
  /\ ltq_hidden \in [Queues -> BOOLEAN]
  /\ ltq_pending_list \in [Queues -> Seq(Tasks)]
  /\ ltq_pending_count \in [Queues -> Int]
  /\ ltq_active_count \in [Queues -> Int]
  /\ ltq_open_count \in [Queues -> Int]
  /\ ltq_max_count \in MaxCounts
  /\ ltq_max_pending \in [Queues -> Int]
  /\ pc \in [Threads -> WorkerLoop \cup HandlingPause \cup Pausing]
  /\ pq \in [Threads -> Queues]
  /\ task \in [Threads -> Tasks \cup {NoTask}]
  /\ tmp \in [Threads -> Int]
  /\ thread_keys \subseteq Threads
  /\ closer \in [at : {"no", "lock", "sleep", "wait", "woken", "closed"}, q : Queues]
  /\ submitted \subseteq Tasks /\ done \subseteq submitted /\ acted \subseteq submitted
  /\ setup \in Setups

(* What ltq_active_count, ltq_pending_count and ltq_open_count are         *)
(* declared to count: "Active, not paused/idle tasks", "Pending + paused + *)
(* idle tasks", "Number of threads".  The pausing task removes itself from *)
(* the active ones while it waits to be the only one.                      *)
IsActive(t) ==
  \/ pc[t] \in {"look", "run", "paused", "resume"}
  \/ pc[t] = "scan" /\ ~ltq_hidden[pq[t]]

ActiveThreads(q) == {t \in Threads : pq[t] = q /\ IsActive(t)}

IdleThreads(q) == {t \in Threads : pq[t] = q /\ pc[t] \in HandlingPause}

OpenThreads(q) == {t \in Threads : pq[t] = q /\ pc[t] # "none"}

CountsExact ==
  /\ TypeOK
  /\ setup.atomic =>
       \A q \in Queues :
         /\ ltq_active_count[q] = Cardinality(ActiveThreads(q))
         /\ ltq_pending_count[q] = Len(ltq_pending_list[q]) + Cardinality(IdleThreads(q))
         /\ ltq_open_count[q] = Cardinality(OpenThreads(q))

(* "Return when all other tasks are paused or idle": while one task holds  *)
(* the pause no other task runs.                                           *)
SolePause ==
  ltp_pause = PAUSED =>
    /\ Cardinality({t \in Threads : pc[t] = "paused"}) = 1
    /\ \A t \in Threads : pc[t] # "run"

(* It does hold for a task that pauses alone, when no task calls pool_idle *)
(* and the pool has one queue.  With several, a worker that enrols after   *)
(* its queue was scanned counts a queue out that was not counted.          *)
LonePause ==
  (/\ NumQs = 1 /\ setup.idlers = {} /\ setup.atomic
   /\ \E k \in Tasks : setup.pausers = {k})
     => SolePause

(* "always have at least one thread open": unless the pool is finishing,   *)
(* the last thread of a queue does not end.  If it did the wrapper would   *)
(* take the queue for one that was removed and free it.  slapd refuses     *)
(* fewer than two threads; where several queues leave one thread for a     *)
(* queue, two that compared the same count may both end.                   *)
LastThreadStays ==
  [][\A q \in Queues :
       (ltq_open_count[q] > 0 /\ ltq_open_count'[q] = 0)
         => ltp_finishing \/ 1 \in MaxCounts \/ ~setup.atomic]_vars

(* Every accepted task is run, although wakeups may be lost at a resume.   *)
(* The pool has one queue: with several, a task that is submitted during a *)
(* pause to a queue without threads waits for the next submission there.   *)
SubmittedRuns == \A k \in Tasks : (NumQs = 1 /\ k \in submitted) ~> k \in done

(* A task that asked for a pause gets it, one after the other.             *)
PauseGranted ==
  \A t \in Threads : pc[t] \in {"scan", "wait_pause"} ~> pc[t] = "paused"

(* pool_close(pool, 1) returns, no thread keeps it waiting for ever, and   *)
(* then every accepted task was run and every thread has ended and given   *)
(* its slot back.                                                          *)
CloseReturns ==
  closer.at = "lock" ~> /\ closer.at = "closed"
                        /\ done = submitted
                        /\ \A t \in Threads : pc[t] = "none"
                        /\ thread_keys = {}
=============================================================================
