---------------------------- MODULE TPool_proofs -----------------------------
(***************************************************************************)
(* Proofs about the thread pool, for any number of threads, queues and     *)
(* tasks: the counters count what they say (CountsStayExact), the last     *)
(* thread of a queue stays (LastThreadNeverEnds), and in a pool of one     *)
(* queue a task that pauses alone is alone (LonePauseIsSole).              *)
(*                                                                         *)
(* A step moves one thread; the others stay where they are or are woken.   *)
(* OneMoves says so, and what follows for the threads that do not move is  *)
(* proved once.                                                            *)
(***************************************************************************)
EXTENDS TPool, TLAPS

(* The leaves are proved by Zenon, except those that cite another prover.  *)
USE ZenonT(60)

Labels == WorkerLoop \cup HandlingPause \cup Pausing

(* Where a thread has a task, holds ltq_mutex of its queue, holds ltp_mutex, *)
(* and where it ends.                                                      *)
WithTask == {"run"} \cup HandlingPause \cup Pausing

HoldsQueue == {"look", "sleep", "end_queue", "uncount_queue"}

HoldsPool == {"scan", "scanned", "sole", "resume", "end_pool", "uncount_pool"}

EndsInQueue == {"end_queue", "uncount_queue"}

EndsInPool == {"end_pool", "uncount_pool"}

(* A pausing task scans from its own queue on, which it alone hides.       *)
ThreadOK(t) ==
  /\ pc[t] \in WithTask => task[t] \in submitted
  /\ pc[t] \in HoldsQueue => ltq_mutex[pq[t]] = t
  /\ pc[t] \in HoldsPool => ltp_mutex = t
  /\ pc[t] = "scan" => /\ tmp[t] \in Queues
                       /\ ltp_pause # NOT_PAUSED
                       /\ tmp[t] = pq[t] <=> ~ltq_hidden[pq[t]]
  /\ pc[t] = "resume" => tmp[t] \in Nat \ {0}

ThreadsOK == \A t \in Threads : ThreadOK(t)

ListsOK == ltq_pending_list \in [Queues -> Seq(submitted)]

CloserOK == closer.at = "sleep" => ltq_mutex[closer.q] = Closer

(* A list is hidden only by a pause, and until the resume has come to it.  *)
HiddenOK ==
  \A q \in Queues :
    ltq_hidden[q] =>
      ltp_pause # NOT_PAUSED \/ \E t \in Threads : pc[t] = "resume" /\ tmp[t] <= q

(* Of a queue at most two threads end at a time, one under each mutex.     *)
EndingOK ==
  (setup.atomic /\ 1 \notin MaxCounts /\ ~ltp_finishing) =>
    /\ \A t \in Threads : pc[t] \in EndsInQueue => ltq_open_count[pq[t]] >= 2
    /\ \A t \in Threads : pc[t] \in EndsInPool => ltq_open_count[pq[t]] >= 2
    /\ \A t, u \in Threads :
         (pc[t] \in EndsInQueue /\ pc[u] \in EndsInPool /\ pq[u] = pq[t])
           => ltq_open_count[pq[t]] >= 3

ActiveOK == \A q \in Queues : ltq_active_count[q] = Cardinality(ActiveThreads(q))

Spare(q) == ltq_pending_count[q] - Len(ltq_pending_list[q])

IdleOK == \A q \in Queues : Spare(q) = Cardinality(IdleThreads(q))

OpenOK == \A q \in Queues : ltq_open_count[q] = Cardinality(OpenThreads(q))

CountsOK == setup.atomic => ActiveOK /\ IdleOK /\ OpenOK

IInv ==
  /\ TypeOK
  /\ ThreadsOK
  /\ ListsOK
  /\ CloserOK
  /\ HiddenOK
  /\ EndingOK
  /\ CountsOK

(* One task pauses, in a pool of one queue, and none goes idle.            *)
Lone ==
  /\ NumQs = 1 /\ setup.idlers = {} /\ setup.atomic
  /\ \E k \in Tasks : setup.pausers = {k}

Never == {"idle", "wait_unidle", "woken_unidle", "wait_pause", "woken_pause"}

Scanned == {"scanned", "wait_sole", "woken_sole", "sole", "paused"}

Leaving == \E u \in Threads : pc[u] = "to_pool"

Running == \E u \in Threads : pc[u] = "run"

(* Before the pause it is not asked for, and nobody left for it.           *)
PauseToCome ==
  ~(setup.pausers \subseteq acted) =>
    ltp_pause = NOT_PAUSED /\ ~Leaving /\ \A t \in Threads : pc[t] \notin Pausing

OnePauses == \A t, u \in Threads : pc[t] \in Pausing /\ pc[u] \in Pausing => t = u

PauseHeld ==
  /\ ltp_pause # NOT_PAUSED => \E t \in Threads : pc[t] \in Scanned \cup {"scan"}
  /\ ltp_pause = PAUSED => \E t \in Threads : pc[t] = "paused"

(* Once the list is hidden nobody takes a task, and the queue is counted   *)
(* out only when nobody runs one.                                          *)
PauserOK(t) ==
  /\ pc[t] = "scan" => ltp_active_queues = 0 /\ ~Leaving
  /\ pc[t] \in Scanned => ltq_hidden[1] /\ ltp_pause # NOT_PAUSED
  /\ pc[t] \in Scanned /\ (ltp_active_queues < 1 \/ Leaving) => ~Running
  /\ pc[t] \in {"sole", "paused"} => ~Running

LoneInv ==
  /\ \A t \in Threads : pc[t] \notin Never
  /\ PauseToCome
  /\ OnePauses
  /\ PauseHeld
  /\ \A t \in Threads : PauserOK(t)

LInv == IInv /\ (Lone => LoneInv)

-----------------------------------------------------------------------------
(* Counting threads.                                                       *)

(* What counting a set of threads by Cardinality relies on; ThreadSets, at  *)
(* the end, proves it of finitely many threads.                            *)
Counting ==
  /\ Cardinality({}) = 0
  /\ \A S \in SUBSET Threads :
       /\ Cardinality(S) \in Nat
       /\ \A t \in Threads \ S : Cardinality(S \cup {t}) = Cardinality(S) + 1
       /\ \A t \in S : Cardinality(S \ {t}) = Cardinality(S) - 1

(* Two sets that differ in at most one thread.                             *)
Differ(S, R, t) == \A u \in Threads : u # t => (u \in S <=> u \in R)

(* Sets that also agree on that thread are the same.                       *)
LEMMA SameSet ==
  ASSUME NEW S \in SUBSET Threads, NEW R \in SUBSET Threads, NEW t, Differ(S, R, t),
         t \in S <=> t \in R
  PROVE  R = S
BY SMT DEF Differ

(* A thread more.                                                          *)
LEMMA OneMore ==
  ASSUME Counting, NEW S \in SUBSET Threads, NEW R \in SUBSET Threads, NEW t, Differ(S, R, t),
         t \notin S, t \in R
  PROVE  Cardinality(R) = Cardinality(S) + 1
<1>1. R = S \cup {t}  BY DEF Differ
<1>2. Cardinality(S \cup {t}) = Cardinality(S) + 1  BY DEF Counting
<1> QED  BY <1>1, <1>2

(* A thread less.                                                          *)
LEMMA OneLess ==
  ASSUME Counting, NEW S \in SUBSET Threads, NEW R \in SUBSET Threads, NEW t, Differ(S, R, t),
         t \in S, t \notin R
  PROVE  Cardinality(R) = Cardinality(S) - 1
<1>1. R = S \ {t}  BY DEF Differ
<1>2. Cardinality(S \ {t}) = Cardinality(S) - 1  BY DEF Counting
<1> QED  BY <1>1, <1>2

(* A thread that is counted alone is alone.                                *)
LEMMA CountedAlone ==
  ASSUME Counting, NEW S \in SUBSET Threads, NEW t \in S, Cardinality(S) - 1 < 1
  PROVE  S = {t}
<1>1. SUFFICES ASSUME NEW u \in S \ {t} PROVE FALSE  OBVIOUS
<1>2. S \ {t} \in SUBSET Threads /\ (S \ {t}) \ {u} \in SUBSET Threads  OBVIOUS
<1>3. Cardinality(S \ {t}) = Cardinality(S) - 1  BY DEF Counting
<1>4. Cardinality((S \ {t}) \ {u}) = Cardinality(S \ {t}) - 1  BY <1>1, <1>2 DEF Counting
<1>5. Cardinality(S) \in Nat /\ Cardinality((S \ {t}) \ {u}) \in Nat  BY <1>2 DEF Counting
<1> QED  BY <1>3, <1>4, <1>5, SMT

(* Zenon does not know these.                                              *)
LEMMA SmallInts == 0 \in Int /\ 1 \in Int
BY SMT

(* A counter of one queue goes up or down.                                 *)
LEMMA Recounted ==
  ASSUME NEW c \in [Queues -> Int], NEW q \in Queues
  PROVE  /\ [c EXCEPT ![q] = c[q] + 1] \in [Queues -> Int]
         /\ [c EXCEPT ![q] = c[q] - 1] \in [Queues -> Int]
<1>1. c[q] + 1 \in Int /\ c[q] - 1 \in Int  BY SMT
<1> QED  BY <1>1

-----------------------------------------------------------------------------
(* Wakeups.                                                                *)

(* A thread stays or is woken.                                             *)
Alike(a, b) ==
  \/ a = b
  \/ a = "wait_start" /\ b = "woken_start"
  \/ a = "wait_loop" /\ b = "woken_loop"
  \/ a = "wait_unidle" /\ b = "woken_unidle"
  \/ a = "wait_check" /\ b = "woken_check"
  \/ a = "wait_pause" /\ b = "woken_pause"
  \/ a = "wait_sole" /\ b = "woken_sole"
  \/ a = "wait_queue" /\ b = "woken_queue"

(* The places that a wakeup cannot change.                                 *)
Plain == {"none", "look", "run", "to_pool", "scan", "scanned", "sole", "paused", "resume",
          "end_queue", "end_pool", "uncount_queue", "uncount_pool", "sleep"}

SameKind(a, b) ==
  /\ \A l \in Plain : a = l <=> b = l
  /\ a \in WithTask <=> b \in WithTask
  /\ a \in HoldsQueue <=> b \in HoldsQueue
  /\ a \in HoldsPool <=> b \in HoldsPool
  /\ a \in EndsInQueue <=> b \in EndsInQueue
  /\ a \in EndsInPool <=> b \in EndsInPool
  /\ a \in HandlingPause <=> b \in HandlingPause
  /\ a \in Pausing <=> b \in Pausing
  /\ a \in Never <=> b \in Never
  /\ a \in Scanned <=> b \in Scanned
  /\ a \in Labels <=> b \in Labels

(* A wakeup changes nothing of what the invariant asks of a thread.        *)
LEMMA AlikeKind ==
  ASSUME NEW a, NEW b, Alike(a, b)
  PROVE  SameKind(a, b)
<1>1. CASE a = b  BY <1>1 DEF SameKind
<1>2. CASE a = "wait_start" /\ b = "woken_start"
  BY <1>2, SMT DEF SameKind, Plain, WithTask, HoldsQueue, HoldsPool, EndsInQueue, EndsInPool,
                   HandlingPause, Pausing, Never, Scanned, Labels, WorkerLoop
<1>3. CASE a = "wait_loop" /\ b = "woken_loop"
  BY <1>3, SMT DEF SameKind, Plain, WithTask, HoldsQueue, HoldsPool, EndsInQueue, EndsInPool,
                   HandlingPause, Pausing, Never, Scanned, Labels, WorkerLoop
<1>4. CASE a = "wait_unidle" /\ b = "woken_unidle"
  BY <1>4, SMT DEF SameKind, Plain, WithTask, HoldsQueue, HoldsPool, EndsInQueue, EndsInPool,
                   HandlingPause, Pausing, Never, Scanned, Labels, WorkerLoop
<1>5. CASE a = "wait_check" /\ b = "woken_check"
  BY <1>5, SMT DEF SameKind, Plain, WithTask, HoldsQueue, HoldsPool, EndsInQueue, EndsInPool,
                   HandlingPause, Pausing, Never, Scanned, Labels, WorkerLoop
<1>6. CASE a = "wait_pause" /\ b = "woken_pause"
  BY <1>6, SMT DEF SameKind, Plain, WithTask, HoldsQueue, HoldsPool, EndsInQueue, EndsInPool,
                   HandlingPause, Pausing, Never, Scanned, Labels, WorkerLoop
<1>7. CASE a = "wait_sole" /\ b = "woken_sole"
  BY <1>7, SMT DEF SameKind, Plain, WithTask, HoldsQueue, HoldsPool, EndsInQueue, EndsInPool,
                   HandlingPause, Pausing, Never, Scanned, Labels, WorkerLoop
<1>8. CASE a = "wait_queue" /\ b = "woken_queue"
  BY <1>8, SMT DEF SameKind, Plain, WithTask, HoldsQueue, HoldsPool, EndsInQueue, EndsInPool,
                   HandlingPause, Pausing, Never, Scanned, Labels, WorkerLoop
<1> QED  BY <1>1, <1>2, <1>3, <1>4, <1>5, <1>6, <1>7, <1>8 DEF Alike

(* All threads but t stay where they are in p or are woken.                *)
Wakes(p, r, t) ==
  /\ r \in [Threads -> Labels]
  /\ \A u \in Threads : u # t => Alike(p[u], r[u])

(* pthread_cond_broadcast(&ltp_cond) wakes threads and does nothing else.  *)
LEMMA PoolWakes ==
  ASSUME NEW p \in [Threads -> Labels], NEW t
  PROVE  Wakes(p, WakePool(p), t)
<1>1. ASSUME NEW u \in Threads
      PROVE  WakePool(p)[u] \in Labels /\ Alike(p[u], WakePool(p)[u])
  <2>1. WakePool(p)[u] = IF p[u] \in DOMAIN Woken THEN Woken[p[u]] ELSE p[u]  BY DEF WakePool
  <2>2. CASE p[u] \notin DOMAIN Woken  BY <2>1, <2>2 DEF Alike
  <2>3. CASE p[u] \in DOMAIN Woken
    <3>1. DOMAIN Woken = {"wait_start", "wait_loop", "wait_unidle", "wait_check", "wait_pause"}
      BY SMT DEF Woken
    <3>2. WakePool(p)[u] = Woken[p[u]]  BY <2>1, <2>3
    <3>3. Woken["wait_start"] = "woken_start" /\ Woken["wait_loop"] = "woken_loop"
      BY SMT DEF Woken
    <3>4. Woken["wait_unidle"] = "woken_unidle" /\ Woken["wait_check"] = "woken_check"
      BY SMT DEF Woken
    <3>5. Woken["wait_pause"] = "woken_pause"  BY SMT DEF Woken
    <3>6. Alike(p[u], WakePool(p)[u])  BY <2>3, <3>1, <3>2, <3>3, <3>4, <3>5 DEF Alike
    <3>7. p[u] \in Labels  OBVIOUS
    <3>8. WakePool(p)[u] \in Labels  BY <3>6, <3>7, AlikeKind DEF SameKind
    <3> QED  BY <3>6, <3>8
  <2> QED  BY <2>2, <2>3
<1>2. WakePool(p) = [u \in Threads |-> WakePool(p)[u]]  BY DEF WakePool
<1>3. WakePool(p) \in [Threads -> Labels]  BY <1>1, <1>2
<1> QED  BY <1>1, <1>3 DEF Wakes

(* So does pthread_cond_signal(&ltp_pcond).                                *)
LEMMA PauserWakes ==
  ASSUME NEW p \in [Threads -> Labels], NEW t
  PROVE  Wakes(p, SignalPauser(p), t)
<1>1. ASSUME NEW u \in Threads
      PROVE  SignalPauser(p)[u] \in Labels /\ Alike(p[u], SignalPauser(p)[u])
  <2>1. SignalPauser(p)[u] = IF p[u] = "wait_sole" THEN "woken_sole" ELSE p[u]
    BY DEF SignalPauser
  <2>2. Alike(p[u], SignalPauser(p)[u])  BY <2>1 DEF Alike
  <2>3. SignalPauser(p)[u] \in Labels  BY <2>2, AlikeKind DEF SameKind
  <2> QED  BY <2>2, <2>3
<1>2. SignalPauser(p) = [u \in Threads |-> SignalPauser(p)[u]]  BY DEF SignalPauser
<1>3. SignalPauser(p) \in [Threads -> Labels]  BY <1>1, <1>2
<1> QED  BY <1>1, <1>3 DEF Wakes

(* So does pthread_cond_broadcast(&ltq_cond).                              *)
LEMMA QueueWakes ==
  ASSUME NEW p \in [Threads -> Labels], NEW q, NEW t
  PROVE  Wakes(p, WakeQueue(q, p), t)
<1>1. ASSUME NEW u \in Threads
      PROVE  WakeQueue(q, p)[u] \in Labels /\ Alike(p[u], WakeQueue(q, p)[u])
  <2>1. WakeQueue(q, p)[u]
          = IF p[u] = "wait_queue" /\ pq[u] = q THEN "woken_queue" ELSE p[u]
    BY DEF WakeQueue
  <2>2. Alike(p[u], WakeQueue(q, p)[u])  BY <2>1 DEF Alike
  <2>3. WakeQueue(q, p)[u] \in Labels  BY <2>2, AlikeKind DEF SameKind
  <2> QED  BY <2>2, <2>3
<1>2. WakeQueue(q, p) = [u \in Threads |-> WakeQueue(q, p)[u]]  BY DEF WakeQueue
<1>3. WakeQueue(q, p) \in [Threads -> Labels]  BY <1>1, <1>2
<1> QED  BY <1>1, <1>3 DEF Wakes

(* pthread_cond_signal(&ltq_cond) wakes one worker, the closer or nobody.  *)
LEMMA SignalWakes ==
  ASSUME NEW p \in [Threads -> Labels], NEW q, NEW t, SignalQueue(q, p),
         closer \in [at : {"no", "lock", "sleep", "wait", "woken", "closed"}, q : Queues]
  PROVE  /\ Wakes(p, pc', t)
         /\ t \in Threads /\ p[t] # "wait_queue" => pc'[t] = p[t]
         /\ closer' \in [at : {"no", "lock", "sleep", "wait", "woken", "closed"}, q : Queues]
         /\ closer'.at = "sleep" => closer' = closer
<1>0. Wakes(p, p, t)  BY DEF Wakes, Alike
<1>1. CASE pc' = p /\ UNCHANGED closer  BY <1>0, <1>1
<1>2. CASE closer.at = "wait" /\ pc' = p /\ closer' = [closer EXCEPT !.at = "woken"]
  <2>1. /\ closer' \in [at : {"no", "lock", "sleep", "wait", "woken", "closed"}, q : Queues]
        /\ closer'.at = "woken"
    BY <1>2, SMT
  <2> QED  BY <1>0, <1>2, <2>1
<1>3. ASSUME NEW w \in Threads, p[w] = "wait_queue", pc' = [p EXCEPT ![w] = "woken_queue"],
             UNCHANGED closer
      PROVE  /\ Wakes(p, pc', t)
             /\ t \in Threads /\ p[t] # "wait_queue" => pc'[t] = p[t]
  <2>1. "woken_queue" \in Labels  BY DEF Labels, WorkerLoop
  <2>2. pc' \in [Threads -> Labels]  BY <1>3, <2>1
  <2>3. ASSUME NEW u \in Threads PROVE Alike(p[u], pc'[u])  BY <1>3 DEF Alike
  <2>4. t \in Threads /\ p[t] # "wait_queue" => pc'[t] = p[t]  BY <1>3
  <2> QED  BY <2>2, <2>3, <2>4 DEF Wakes
<1> QED  BY <1>1, <1>2, <1>3 DEF SignalQueue

-----------------------------------------------------------------------------
(* What a step of thread t leaves alone.                                   *)

OneMoves(t) ==
  /\ Wakes(pc, pc', t)
  /\ \A u \in Threads : u # t => pq'[u] = pq[u] /\ task'[u] = task[u] /\ tmp'[u] = tmp[u]
  /\ \A q \in Queues : ltq_mutex'[q] = ltq_mutex[q] \/ ltq_mutex[q] = t \/ ltq_mutex[q] = Nobody
  /\ ltp_mutex' = ltp_mutex \/ ltp_mutex = t \/ ltp_mutex = Nobody
  /\ \/ ltq_hidden' = ltq_hidden /\ ltp_pause' = ltp_pause
     \/ ltp_mutex = t \/ ltp_mutex = Nobody
  /\ submitted \subseteq submitted'
  /\ setup' = setup

(* The other threads keep what the invariant says of them: nobody takes a  *)
(* mutex that they hold, and who scans or shows the lists holds ltp_mutex. *)
LEMMA OthersOK ==
  ASSUME TypeOK, NEW t, OneMoves(t), NEW u \in Threads, u # t, ThreadOK(u)
  PROVE  ThreadOK(u)'
<1>1. SameKind(pc[u], pc'[u])  BY AlikeKind DEF OneMoves, Wakes
<1>2. pq'[u] = pq[u] /\ task'[u] = task[u] /\ tmp'[u] = tmp[u]  BY DEF OneMoves
<1>3. u # Nobody /\ pq[u] \in Queues  BY TPoolAssumption DEF TypeOK
<1>4. (pc'[u] \in WithTask => task'[u] \in submitted')
  BY <1>1, <1>2 DEF OneMoves, SameKind, ThreadOK
<1>5. (pc'[u] \in HoldsQueue => ltq_mutex'[pq'[u]] = u)
  <2>1. ltq_mutex[pq[u]] = u => ltq_mutex'[pq[u]] = u  BY <1>3 DEF OneMoves
  <2> QED  BY <1>1, <1>2, <2>1 DEF SameKind, ThreadOK
<1>6. (pc'[u] \in HoldsPool => ltp_mutex' = u)
  <2>1. ltp_mutex = u => ltp_mutex' = u  BY <1>3 DEF OneMoves
  <2> QED  BY <1>1, <2>1 DEF SameKind, ThreadOK
<1>7. pc[u] \in HoldsPool => ltq_hidden' = ltq_hidden /\ ltp_pause' = ltp_pause
  BY <1>3 DEF OneMoves, ThreadOK
<1>8. (pc'[u] = "scan" <=> pc[u] = "scan") /\ (pc'[u] = "resume" <=> pc[u] = "resume")
  BY <1>1 DEF SameKind, Plain
<1>9. (pc'[u] = "scan" => /\ tmp'[u] \in Queues
                          /\ ltp_pause' # NOT_PAUSED
                          /\ (tmp'[u] = pq'[u] <=> ~ltq_hidden'[pq'[u]]))
  <2>1. pc[u] = "scan" => pc[u] \in HoldsPool  BY DEF HoldsPool
  <2> QED  BY <1>2, <1>7, <1>8, <2>1 DEF ThreadOK
<1>10. (pc'[u] = "resume" => tmp'[u] \in Nat \ {0})  BY <1>2, <1>8 DEF ThreadOK
<1> QED  BY <1>4, <1>5, <1>6, <1>9, <1>10 DEF ThreadOK

CountedAlike(u) ==
  /\ IsActive(u)' <=> IsActive(u)
  /\ pc'[u] \in HandlingPause <=> pc[u] \in HandlingPause
  /\ pc'[u] = "none" <=> pc[u] = "none"

(* They are counted as before.                                             *)
LEMMA OthersCounted ==
  ASSUME TypeOK, NEW t, OneMoves(t), NEW u \in Threads, u # t, ThreadOK(u)
  PROVE  CountedAlike(u)
<1>1. SameKind(pc[u], pc'[u])  BY AlikeKind DEF OneMoves, Wakes
<1>2. pq'[u] = pq[u]  BY DEF OneMoves
<1>3. u # Nobody  BY TPoolAssumption
<1>4. pc[u] = "scan" => ltq_hidden' = ltq_hidden  BY <1>3 DEF OneMoves, ThreadOK, HoldsPool
<1>5. \A l \in Plain : pc[u] = l <=> pc'[u] = l  BY <1>1 DEF SameKind
<1>6. /\ "look" \in Plain /\ "run" \in Plain /\ "paused" \in Plain
      /\ "resume" \in Plain /\ "scan" \in Plain /\ "none" \in Plain
  BY DEF Plain
<1>7. IsActive(u)' <=> IsActive(u)  BY <1>2, <1>4, <1>5, <1>6 DEF IsActive
<1> QED  BY <1>1, <1>5, <1>6, <1>7 DEF SameKind, CountedAlike

(* The sets that the counters count differ at most in the thread that moves. *)
LEMMA SetsDiffer ==
  ASSUME TypeOK, ThreadsOK, NEW t, OneMoves(t), NEW q \in Queues
  PROVE  /\ ActiveThreads(q) \in SUBSET Threads /\ ActiveThreads(q)' \in SUBSET Threads
         /\ IdleThreads(q) \in SUBSET Threads /\ IdleThreads(q)' \in SUBSET Threads
         /\ OpenThreads(q) \in SUBSET Threads /\ OpenThreads(q)' \in SUBSET Threads
         /\ Differ(ActiveThreads(q), ActiveThreads(q)', t)
         /\ Differ(IdleThreads(q), IdleThreads(q)', t)
         /\ Differ(OpenThreads(q), OpenThreads(q)', t)
<1>1. /\ ActiveThreads(q) \in SUBSET Threads /\ ActiveThreads(q)' \in SUBSET Threads
      /\ IdleThreads(q) \in SUBSET Threads /\ IdleThreads(q)' \in SUBSET Threads
      /\ OpenThreads(q) \in SUBSET Threads /\ OpenThreads(q)' \in SUBSET Threads
  BY DEF ActiveThreads, IdleThreads, OpenThreads
<1>2. ASSUME NEW u \in Threads, u # t
      PROVE  /\ u \in ActiveThreads(q) <=> u \in ActiveThreads(q)'
             /\ u \in IdleThreads(q) <=> u \in IdleThreads(q)'
             /\ u \in OpenThreads(q) <=> u \in OpenThreads(q)'
  <2>1. pq'[u] = pq[u]  BY <1>2 DEF OneMoves
  <2>2. CountedAlike(u)  BY <1>2, OthersCounted DEF ThreadsOK
  <2>3. u \in ActiveThreads(q) <=> u \in ActiveThreads(q)'  BY <2>1, <2>2 DEF ActiveThreads, CountedAlike
  <2>4. u \in IdleThreads(q) <=> u \in IdleThreads(q)'  BY <2>1, <2>2 DEF IdleThreads, CountedAlike
  <2>5. u \in OpenThreads(q) <=> u \in OpenThreads(q)'  BY <2>1, <2>2 DEF OpenThreads, CountedAlike
  <2> QED  BY <2>3, <2>4, <2>5
<1> QED  BY <1>1, <1>2 DEF Differ

-----------------------------------------------------------------------------
(* The counters after a step of thread t.                                  *)

(* ltq_active_count: thread t is counted as before, ...                    *)
LEMMA ActiveStill ==
  ASSUME TypeOK, ThreadsOK, NEW t, OneMoves(t), ActiveOK, ltq_active_count' = ltq_active_count,
         \/ t \notin Threads
         \/ ~IsActive(t) /\ ~IsActive(t)'
         \/ pq'[t] = pq[t] /\ (IsActive(t)' <=> IsActive(t))
  PROVE  ActiveOK'
<1>1. ASSUME NEW q \in Queues
      PROVE  ltq_active_count[q]' = Cardinality(ActiveThreads(q)')
  <2>1. /\ ActiveThreads(q) \in SUBSET Threads /\ ActiveThreads(q)' \in SUBSET Threads
        /\ Differ(ActiveThreads(q), ActiveThreads(q)', t)
    BY SetsDiffer
  <2>2. t \in ActiveThreads(q) <=> t \in ActiveThreads(q)'  BY DEF ActiveThreads
  <2>3. ActiveThreads(q)' = ActiveThreads(q)  BY <2>1, <2>2, SameSet
  <2> QED  BY <2>3 DEF ActiveOK
<1> QED  BY <1>1 DEF ActiveOK

(* ... it is counted from now on, ...                                      *)
LEMMA ActiveMore ==
  ASSUME Counting, TypeOK, ThreadsOK, NEW t \in Threads, OneMoves(t), ActiveOK,
         ~IsActive(t), IsActive(t)', pq'[t] = pq[t],
         ltq_active_count' = [ltq_active_count EXCEPT ![pq[t]] = ltq_active_count[pq[t]] + 1]
  PROVE  ActiveOK'
<1>1. ASSUME NEW q \in Queues
      PROVE  ltq_active_count[q]' = Cardinality(ActiveThreads(q)')
  <2>1. /\ ActiveThreads(q) \in SUBSET Threads /\ ActiveThreads(q)' \in SUBSET Threads
        /\ Differ(ActiveThreads(q), ActiveThreads(q)', t)
    BY SetsDiffer
  <2>2. ltq_active_count[q] = Cardinality(ActiveThreads(q))  BY DEF ActiveOK
  <2>3. CASE q = pq'[t]
    <3>1. t \notin ActiveThreads(q) /\ t \in ActiveThreads(q)'  BY <2>3 DEF ActiveThreads
    <3>2. Cardinality(ActiveThreads(q)') = Cardinality(ActiveThreads(q)) + 1  BY <2>1, <3>1, OneMore
    <3>3. ltq_active_count[q]' = ltq_active_count[q] + 1  BY <2>3 DEF TypeOK
    <3> QED  BY <2>2, <3>2, <3>3
  <2>4. CASE q # pq'[t]
    <3>1. t \in ActiveThreads(q) <=> t \in ActiveThreads(q)'  BY <2>4 DEF ActiveThreads
    <3>2. ActiveThreads(q)' = ActiveThreads(q)  BY <2>1, <3>1, SameSet
    <3>3. ltq_active_count[q]' = ltq_active_count[q]  BY <2>4 DEF TypeOK
    <3> QED  BY <2>2, <3>2, <3>3
  <2> QED  BY <2>3, <2>4
<1> QED  BY <1>1 DEF ActiveOK

(* ... or it no longer is.                                                 *)
LEMMA ActiveFewer ==
  ASSUME Counting, TypeOK, ThreadsOK, NEW t \in Threads, OneMoves(t), ActiveOK, pq'[t] = pq[t],
         IsActive(t), ~IsActive(t)',
         ltq_active_count' = [ltq_active_count EXCEPT ![pq[t]] = ltq_active_count[pq[t]] - 1]
  PROVE  ActiveOK'
<1>1. ASSUME NEW q \in Queues
      PROVE  ltq_active_count[q]' = Cardinality(ActiveThreads(q)')
  <2>1. /\ ActiveThreads(q) \in SUBSET Threads /\ ActiveThreads(q)' \in SUBSET Threads
        /\ Differ(ActiveThreads(q), ActiveThreads(q)', t)
    BY SetsDiffer
  <2>2. ltq_active_count[q] = Cardinality(ActiveThreads(q))  BY DEF ActiveOK
  <2>3. CASE q = pq[t]
    <3>1. t \in ActiveThreads(q) /\ t \notin ActiveThreads(q)'  BY <2>3 DEF ActiveThreads
    <3>2. Cardinality(ActiveThreads(q)') = Cardinality(ActiveThreads(q)) - 1  BY <2>1, <3>1, OneLess
    <3>3. ltq_active_count[q]' = ltq_active_count[q] - 1  BY <2>3 DEF TypeOK
    <3> QED  BY <2>2, <3>2, <3>3
  <2>4. CASE q # pq[t]
    <3>1. t \in ActiveThreads(q) <=> t \in ActiveThreads(q)'  BY <2>4 DEF ActiveThreads
    <3>2. ActiveThreads(q)' = ActiveThreads(q)  BY <2>1, <3>1, SameSet
    <3>3. ltq_active_count[q]' = ltq_active_count[q]  BY <2>4 DEF TypeOK
    <3> QED  BY <2>2, <3>2, <3>3
  <2> QED  BY <2>3, <2>4
<1> QED  BY <1>1 DEF ActiveOK

(* ltq_pending_count, without the tasks in the list: thread t is counted as before, ... *)
LEMMA IdleStill ==
  ASSUME TypeOK, ThreadsOK, NEW t, OneMoves(t), IdleOK, \A q \in Queues : Spare(q)' = Spare(q),
         \/ t \notin Threads
         \/ pc[t] \notin HandlingPause /\ pc'[t] \notin HandlingPause
         \/ pq'[t] = pq[t] /\ (pc'[t] \in HandlingPause <=> pc[t] \in HandlingPause)
  PROVE  IdleOK'
<1>1. ASSUME NEW q \in Queues
      PROVE  Spare(q)' = Cardinality(IdleThreads(q)')
  <2>1. /\ IdleThreads(q) \in SUBSET Threads /\ IdleThreads(q)' \in SUBSET Threads
        /\ Differ(IdleThreads(q), IdleThreads(q)', t)
    BY SetsDiffer
  <2>2. t \in IdleThreads(q) <=> t \in IdleThreads(q)'  BY DEF IdleThreads
  <2>3. IdleThreads(q)' = IdleThreads(q)  BY <2>1, <2>2, SameSet
  <2> QED  BY <2>3 DEF IdleOK
<1> QED  BY <1>1 DEF IdleOK

(* ... it is counted from now on, ...                                      *)
LEMMA IdleMore ==
  ASSUME Counting, TypeOK, ThreadsOK, NEW t \in Threads, OneMoves(t), IdleOK,
         pc[t] \notin HandlingPause, pc'[t] \in HandlingPause,
         \A q \in Queues : Spare(q)' = IF q = pq'[t] THEN Spare(q) + 1 ELSE Spare(q)
  PROVE  IdleOK'
<1>1. ASSUME NEW q \in Queues
      PROVE  Spare(q)' = Cardinality(IdleThreads(q)')
  <2>1. /\ IdleThreads(q) \in SUBSET Threads /\ IdleThreads(q)' \in SUBSET Threads
        /\ Differ(IdleThreads(q), IdleThreads(q)', t)
    BY SetsDiffer
  <2>2. Spare(q) = Cardinality(IdleThreads(q))  BY DEF IdleOK
  <2>3. CASE q = pq'[t]
    <3>1. t \notin IdleThreads(q) /\ t \in IdleThreads(q)'  BY <2>3 DEF IdleThreads
    <3>2. Cardinality(IdleThreads(q)') = Cardinality(IdleThreads(q)) + 1  BY <2>1, <3>1, OneMore
    <3>3. Spare(q)' = Spare(q) + 1  BY <2>3
    <3> QED  BY <2>2, <3>2, <3>3
  <2>4. CASE q # pq'[t]
    <3>1. t \in IdleThreads(q) <=> t \in IdleThreads(q)'  BY <2>4 DEF IdleThreads
    <3>2. IdleThreads(q)' = IdleThreads(q)  BY <2>1, <3>1, SameSet
    <3>3. Spare(q)' = Spare(q)  BY <2>4
    <3> QED  BY <2>2, <3>2, <3>3
  <2> QED  BY <2>3, <2>4
<1> QED  BY <1>1 DEF IdleOK

(* ... or it no longer is.                                                 *)
LEMMA IdleFewer ==
  ASSUME Counting, TypeOK, ThreadsOK, NEW t \in Threads, OneMoves(t), IdleOK, pq'[t] = pq[t],
         pc[t] \in HandlingPause, pc'[t] \notin HandlingPause,
         \A q \in Queues : Spare(q)' = IF q = pq[t] THEN Spare(q) - 1 ELSE Spare(q)
  PROVE  IdleOK'
<1>1. ASSUME NEW q \in Queues
      PROVE  Spare(q)' = Cardinality(IdleThreads(q)')
  <2>1. /\ IdleThreads(q) \in SUBSET Threads /\ IdleThreads(q)' \in SUBSET Threads
        /\ Differ(IdleThreads(q), IdleThreads(q)', t)
    BY SetsDiffer
  <2>2. Spare(q) = Cardinality(IdleThreads(q))  BY DEF IdleOK
  <2>3. CASE q = pq[t]
    <3>1. t \in IdleThreads(q) /\ t \notin IdleThreads(q)'  BY <2>3 DEF IdleThreads
    <3>2. Cardinality(IdleThreads(q)') = Cardinality(IdleThreads(q)) - 1  BY <2>1, <3>1, OneLess
    <3>3. Spare(q)' = Spare(q) - 1  BY <2>3
    <3> QED  BY <2>2, <3>2, <3>3
  <2>4. CASE q # pq[t]
    <3>1. t \in IdleThreads(q) <=> t \in IdleThreads(q)'  BY <2>4 DEF IdleThreads
    <3>2. IdleThreads(q)' = IdleThreads(q)  BY <2>1, <3>1, SameSet
    <3>3. Spare(q)' = Spare(q)  BY <2>4
    <3> QED  BY <2>2, <3>2, <3>3
  <2> QED  BY <2>3, <2>4
<1> QED  BY <1>1 DEF IdleOK

(* ltq_open_count: thread t is counted as before, ...                      *)
LEMMA OpenStill ==
  ASSUME TypeOK, ThreadsOK, NEW t, OneMoves(t), OpenOK, ltq_open_count' = ltq_open_count,
         \/ t \notin Threads
         \/ pc[t] = "none" /\ pc'[t] = "none"
         \/ pq'[t] = pq[t] /\ (pc'[t] = "none" <=> pc[t] = "none")
  PROVE  OpenOK'
<1>1. ASSUME NEW q \in Queues
      PROVE  ltq_open_count[q]' = Cardinality(OpenThreads(q)')
  <2>1. /\ OpenThreads(q) \in SUBSET Threads /\ OpenThreads(q)' \in SUBSET Threads
        /\ Differ(OpenThreads(q), OpenThreads(q)', t)
    BY SetsDiffer
  <2>2. t \in OpenThreads(q) <=> t \in OpenThreads(q)'  BY DEF OpenThreads
  <2>3. OpenThreads(q)' = OpenThreads(q)  BY <2>1, <2>2, SameSet
  <2> QED  BY <2>3 DEF OpenOK
<1> QED  BY <1>1 DEF OpenOK

(* ... it is counted from now on, ...                                      *)
LEMMA OpenMore ==
  ASSUME Counting, TypeOK, ThreadsOK, NEW t \in Threads, OneMoves(t), OpenOK,
         pc[t] = "none", pc'[t] # "none", pq'[t] \in Queues,
         ltq_open_count' = [ltq_open_count EXCEPT ![pq'[t]] = ltq_open_count[pq'[t]] + 1]
  PROVE  OpenOK'
<1>1. ASSUME NEW q \in Queues
      PROVE  ltq_open_count[q]' = Cardinality(OpenThreads(q)')
  <2>1. /\ OpenThreads(q) \in SUBSET Threads /\ OpenThreads(q)' \in SUBSET Threads
        /\ Differ(OpenThreads(q), OpenThreads(q)', t)
    BY SetsDiffer
  <2>2. ltq_open_count[q] = Cardinality(OpenThreads(q))  BY DEF OpenOK
  <2>3. CASE q = pq'[t]
    <3>1. t \notin OpenThreads(q) /\ t \in OpenThreads(q)'  BY <2>3 DEF OpenThreads
    <3>2. Cardinality(OpenThreads(q)') = Cardinality(OpenThreads(q)) + 1  BY <2>1, <3>1, OneMore
    <3>3. ltq_open_count[q]' = ltq_open_count[q] + 1  BY <2>3 DEF TypeOK
    <3> QED  BY <2>2, <3>2, <3>3
  <2>4. CASE q # pq'[t]
    <3>1. t \in OpenThreads(q) <=> t \in OpenThreads(q)'  BY <2>4 DEF OpenThreads
    <3>2. OpenThreads(q)' = OpenThreads(q)  BY <2>1, <3>1, SameSet
    <3>3. ltq_open_count[q]' = ltq_open_count[q]  BY <2>4 DEF TypeOK
    <3> QED  BY <2>2, <3>2, <3>3
  <2> QED  BY <2>3, <2>4
<1> QED  BY <1>1 DEF OpenOK

(* ... or it no longer is.                                                 *)
LEMMA OpenFewer ==
  ASSUME Counting, TypeOK, ThreadsOK, NEW t \in Threads, OneMoves(t), OpenOK, pq'[t] = pq[t],
         pc[t] # "none", pc'[t] = "none",
         ltq_open_count' = [ltq_open_count EXCEPT ![pq[t]] = ltq_open_count[pq[t]] - 1]
  PROVE  OpenOK'
<1>1. ASSUME NEW q \in Queues
      PROVE  ltq_open_count[q]' = Cardinality(OpenThreads(q)')
  <2>1. /\ OpenThreads(q) \in SUBSET Threads /\ OpenThreads(q)' \in SUBSET Threads
        /\ Differ(OpenThreads(q), OpenThreads(q)', t)
    BY SetsDiffer
  <2>2. ltq_open_count[q] = Cardinality(OpenThreads(q))  BY DEF OpenOK
  <2>3. CASE q = pq[t]
    <3>1. t \in OpenThreads(q) /\ t \notin OpenThreads(q)'  BY <2>3 DEF OpenThreads
    <3>2. Cardinality(OpenThreads(q)') = Cardinality(OpenThreads(q)) - 1  BY <2>1, <3>1, OneLess
    <3>3. ltq_open_count[q]' = ltq_open_count[q] - 1  BY <2>3 DEF TypeOK
    <3> QED  BY <2>2, <3>2, <3>3
  <2>4. CASE q # pq[t]
    <3>1. t \in OpenThreads(q) <=> t \in OpenThreads(q)'  BY <2>4 DEF OpenThreads
    <3>2. OpenThreads(q)' = OpenThreads(q)  BY <2>1, <3>1, SameSet
    <3>3. ltq_open_count[q]' = ltq_open_count[q]  BY <2>4 DEF TypeOK
    <3> QED  BY <2>2, <3>2, <3>3
  <2> QED  BY <2>3, <2>4
<1> QED  BY <1>1 DEF OpenOK

-----------------------------------------------------------------------------
(* The rest of the invariant after a step of thread t.                     *)

(* The lists hold submitted tasks when they do not change.                 *)
LEMMA ListsKept ==
  ASSUME TypeOK, ListsOK, ltq_pending_list' = ltq_pending_list, submitted \subseteq submitted'
  PROVE  ListsOK'
<1>1. Seq(submitted) \subseteq Seq(submitted')  BY SMT
<1> QED  BY <1>1 DEF ListsOK

(* Nobody else gives the mutex up that the closer holds.                   *)
LEMMA CloserKept ==
  ASSUME TypeOK, NEW t, OneMoves(t), t # Closer, CloserOK,
         closer' = closer \/ closer'.at # "sleep"
  PROVE  CloserOK'
<1>1. SUFFICES ASSUME closer'.at = "sleep" PROVE ltq_mutex'[closer'.q] = Closer
  BY DEF CloserOK
<1>2. closer' = closer /\ ltq_mutex[closer.q] = Closer  BY <1>1 DEF CloserOK
<1>3. closer.q \in Queues  BY SMT DEF TypeOK
<1>4. Closer # Nobody  BY TPoolAssumption
<1> QED  BY <1>2, <1>3, <1>4 DEF OneMoves

(* A hidden list is accounted for when no list is hidden or shown.         *)
LEMMA HiddenKept ==
  ASSUME TypeOK, NEW t, OneMoves(t), HiddenOK, ltq_hidden' = ltq_hidden,
         ltp_pause' = ltp_pause \/ ltp_pause' # NOT_PAUSED,
         t \in Threads => pc[t] # "resume"
  PROVE  HiddenOK'
<1>1. SUFFICES ASSUME NEW q \in Queues, ltq_hidden'[q]
               PROVE  \/ ltp_pause' # NOT_PAUSED
                      \/ \E u \in Threads : pc'[u] = "resume" /\ tmp'[u] <= q
  BY DEF HiddenOK
<1>2. CASE ltp_pause' # NOT_PAUSED  BY <1>2
<1>3. CASE ltp_pause' = NOT_PAUSED
  <2>1. ltp_pause = NOT_PAUSED  BY <1>3
  <2>2. PICK u \in Threads : pc[u] = "resume" /\ tmp[u] <= q
    BY <1>1, <2>1 DEF HiddenOK
  <2>3. u # t  BY <2>2
  <2>4. SameKind(pc[u], pc'[u])  BY <2>3, AlikeKind DEF OneMoves, Wakes
  <2>5. pc'[u] = "resume"  BY <2>2, <2>4 DEF SameKind, Plain
  <2>6. tmp'[u] = tmp[u]  BY <2>3 DEF OneMoves
  <2> QED  BY <2>2, <2>5, <2>6
<1> QED  BY <1>2, <1>3

(* Threads that end: nobody joins them and no thread is uncounted.         *)
LEMMA EndingKept ==
  ASSUME TypeOK, TypeOK', NEW t, OneMoves(t), EndingOK,
         \A q \in Queues : ltq_open_count'[q] >= ltq_open_count[q],
         ltp_finishing => ltp_finishing',
         t \in Threads =>
           \/ pc'[t] \notin EndsInQueue /\ pc'[t] \notin EndsInPool
           \/ /\ pq'[t] = pq[t]
              /\ pc'[t] \in EndsInQueue => pc[t] \in EndsInQueue
              /\ pc'[t] \in EndsInPool => pc[t] \in EndsInPool
  PROVE  EndingOK'
<1>1. SUFFICES ASSUME setup.atomic, 1 \notin MaxCounts, ~ltp_finishing
               PROVE  EndingOK'
  BY DEF EndingOK, OneMoves
<1>2. ASSUME NEW u \in Threads
      PROVE  /\ pc'[u] \in EndsInQueue => pc[u] \in EndsInQueue /\ pq'[u] = pq[u]
             /\ pc'[u] \in EndsInPool => pc[u] \in EndsInPool /\ pq'[u] = pq[u]
  <2>1. CASE u = t  BY <2>1
  <2>2. CASE u # t
    <3>1. SameKind(pc[u], pc'[u])  BY <2>2, AlikeKind DEF OneMoves, Wakes
    <3> QED  BY <2>2, <3>1 DEF SameKind, OneMoves
  <2> QED  BY <2>1, <2>2
<1>3. ASSUME NEW q \in Queues, NEW n \in {2, 3}, ltq_open_count[q] >= n
      PROVE  ltq_open_count'[q] >= n
  <2>1. ltq_open_count[q] \in Int /\ ltq_open_count'[q] \in Int  BY DEF TypeOK
  <2>2. ltq_open_count'[q] >= ltq_open_count[q]  OBVIOUS
  <2> QED  BY <1>3, <2>1, <2>2, SMT
<1>4. 2 \in {2, 3} /\ 3 \in {2, 3}  OBVIOUS
<1>5. \A u \in Threads : pq[u] \in Queues  BY DEF TypeOK
<1>6. \A u \in Threads : pc'[u] \in EndsInQueue => ltq_open_count'[pq'[u]] >= 2
  BY <1>1, <1>2, <1>3, <1>4, <1>5 DEF EndingOK
<1>7. \A u \in Threads : pc'[u] \in EndsInPool => ltq_open_count'[pq'[u]] >= 2
  BY <1>1, <1>2, <1>3, <1>4, <1>5 DEF EndingOK
<1>8. ASSUME NEW u \in Threads, NEW w \in Threads,
             pc'[u] \in EndsInQueue, pc'[w] \in EndsInPool, pq'[w] = pq'[u]
      PROVE  ltq_open_count'[pq'[u]] >= 3
  <2>1. pc[u] \in EndsInQueue /\ pc[w] \in EndsInPool /\ pq[w] = pq[u] /\ pq'[u] = pq[u]
    BY <1>2, <1>8
  <2>2. ltq_open_count[pq[u]] >= 3  BY <1>1, <2>1 DEF EndingOK
  <2> QED  BY <1>3, <1>4, <1>5, <2>1, <2>2
<1> QED  BY <1>6, <1>7, <1>8 DEF EndingOK

(* The parts together.                                                     *)
LEMMA Assembled ==
  ASSUME Counting, IInv, NEW t, OneMoves(t), t \in Threads => ThreadOK(t)', TypeOK',
         ListsOK', CloserOK', HiddenOK', EndingOK', CountsOK'
  PROVE  IInv'
<1>1. ASSUME NEW u \in Threads PROVE ThreadOK(u)'
  <2>1. CASE u = t  BY <2>1
  <2>2. CASE u # t  BY <2>2, OthersOK DEF IInv, ThreadsOK
  <2> QED  BY <2>1, <2>2
<1>2. ThreadsOK'  BY <1>1 DEF ThreadsOK
<1> QED  BY <1>2 DEF IInv

(* Steps that leave the closer and the number of threads alone.            *)
LEMMA RestKept ==
  ASSUME Counting, IInv, TypeOK', NEW t \in Threads, OneMoves(t), pc[t] # "resume",
         closer' = closer, ltq_hidden' = ltq_hidden,
         ltp_pause' = ltp_pause \/ ltp_pause' # NOT_PAUSED,
         ltq_open_count' = ltq_open_count, ltp_finishing' = ltp_finishing,
         pc'[t] \notin EndsInQueue, pc'[t] \notin EndsInPool
  PROVE  CloserOK' /\ HiddenOK' /\ EndingOK'
<1>2. t # Closer  BY TPoolAssumption
<1>3. CloserOK'  BY <1>2, CloserKept DEF IInv
<1>4. HiddenOK'  BY HiddenKept DEF IInv
<1>5. \A q \in Queues : ltq_open_count'[q] >= ltq_open_count[q]  BY SMT DEF IInv, TypeOK
<1>6. EndingOK'  BY <1>5, EndingKept DEF IInv
<1> QED  BY <1>3, <1>4, <1>6

-----------------------------------------------------------------------------
(* The steps.                                                              *)

(* A thread goes to l and wakes nobody.                                    *)
LEMMA GotoMoves ==
  ASSUME TypeOK, NEW t \in Threads, NEW l \in Labels, pc' = [pc EXCEPT ![t] = l]
  PROVE  Wakes(pc, pc', t) /\ pc'[t] = l
<1>1. pc \in [Threads -> Labels]  BY DEF TypeOK, Labels
<1> QED  BY <1>1 DEF Wakes, Alike

(* The counters agree when the moving thread is counted as before.         *)
LEMMA CountsKept ==
  ASSUME Counting, IInv, NEW t \in Threads, OneMoves(t), pq'[t] = pq[t], CountedAlike(t),
         ltq_active_count' = ltq_active_count, ltq_open_count' = ltq_open_count,
         ltq_pending_count' = ltq_pending_count, ltq_pending_list' = ltq_pending_list
  PROVE  CountsOK'
<1>1. SUFFICES ASSUME setup.atomic PROVE ActiveOK' /\ IdleOK' /\ OpenOK'
  BY DEF CountsOK, OneMoves
<1>2. TypeOK /\ ThreadsOK /\ ActiveOK /\ IdleOK /\ OpenOK  BY <1>1 DEF IInv, CountsOK
<1>3. ActiveOK'  BY <1>2, ActiveStill DEF CountedAlike
<1>4. \A q \in Queues : Spare(q)' = Spare(q)  BY DEF Spare
<1>5. IdleOK'  BY <1>2, <1>4, IdleStill DEF CountedAlike
<1>6. OpenOK'  BY <1>2, OpenStill DEF CountedAlike
<1> QED  BY <1>3, <1>5, <1>6

(* Steps that change no counter.                                           *)
LEMMA QuietStep ==
  ASSUME Counting, IInv, TypeOK', NEW t \in Threads, OneMoves(t), ThreadOK(t)', pc[t] # "resume",
         pq'[t] = pq[t], CountedAlike(t),
         ltq_active_count' = ltq_active_count, ltq_open_count' = ltq_open_count,
         ltq_pending_count' = ltq_pending_count, ltq_pending_list' = ltq_pending_list,
         closer' = closer, ltq_hidden' = ltq_hidden, ltp_finishing' = ltp_finishing,
         ltp_pause' = ltp_pause \/ ltp_pause' # NOT_PAUSED,
         pc'[t] \notin EndsInQueue, pc'[t] \notin EndsInPool
  PROVE  IInv'
<1>1. CloserOK' /\ HiddenOK' /\ EndingOK'  BY RestKept
<1>2. CountsOK'  BY CountsKept
<1>3. ListsOK'  BY ListsKept DEF IInv, OneMoves
<1> QED  BY <1>1, <1>2, <1>3, Assembled

(* A new thread waits for the end of a pause.                              *)
LEMMA StartStep ==
  ASSUME Counting, IInv, NEW t \in Threads, Start(t), setup' = setup
  PROVE  IInv'
<1> USE DEF poolVars, listVars, sizeVars, threadVars, taskVars
<1>1. TypeOK  BY DEF IInv
<1>2. pc[t] \in {"start", "woken_start"}  BY DEF Start
<1>3. PICK l \in {"slot", "wait_start", "woken_start"} : pc' = [pc EXCEPT ![t] = l]
  BY DEF Start, Goto
<1>4. l \in Labels  BY DEF Labels, WorkerLoop
<1>5. Wakes(pc, pc', t) /\ pc'[t] = l  BY <1>1, <1>3, <1>4, GotoMoves
<1>6. OneMoves(t)  BY <1>5 DEF OneMoves, Start
<1>7. TypeOK'  BY <1>1, <1>5 DEF TypeOK, Start, Wakes, Labels
<1>8. ThreadOK(t)'
  BY <1>5 DEF ThreadOK, WithTask, HandlingPause, Pausing, HoldsQueue, HoldsPool
<1>9. CountedAlike(t)  BY <1>2, <1>5 DEF CountedAlike, IsActive, HandlingPause
<1>10. pc'[t] \notin EndsInQueue /\ pc'[t] \notin EndsInPool
  BY <1>5 DEF EndsInQueue, EndsInPool
<1> QED  BY <1>2, <1>6, <1>7, <1>8, <1>9, <1>10, QuietStep DEF Start

(* It takes a slot of thread_keys[] ...                                    *)
LEMMA TakeSlotStep ==
  ASSUME Counting, IInv, NEW t \in Threads, TakeSlot(t), setup' = setup
  PROVE  IInv'
<1> USE DEF poolVars, listVars, sizeVars, taskVars
<1>1. TypeOK  BY DEF IInv
<1>2. pc[t] = "slot"  BY DEF TakeSlot
<1>3. "enrol" \in Labels  BY DEF Labels, WorkerLoop
<1>4. Wakes(pc, pc', t) /\ pc'[t] = "enrol"  BY <1>1, <1>3, GotoMoves DEF TakeSlot, Goto
<1>5. OneMoves(t)  BY <1>4 DEF OneMoves, TakeSlot
<1>6. TypeOK'  BY <1>1, <1>4 DEF TypeOK, TakeSlot, Wakes, Labels
<1>7. ThreadOK(t)'
  BY <1>4 DEF ThreadOK, WithTask, HandlingPause, Pausing, HoldsQueue, HoldsPool
<1>8. CountedAlike(t)  BY <1>2, <1>4 DEF CountedAlike, IsActive, HandlingPause
<1>9. pc'[t] \notin EndsInQueue /\ pc'[t] \notin EndsInPool
  BY <1>4 DEF EndsInQueue, EndsInPool
<1> QED  BY <1>2, <1>5, <1>6, <1>7, <1>8, <1>9, QuietStep DEF TakeSlot

(* Taking and giving up ltq_mutex.                                         *)
LEMMA LockTakes ==
  ASSUME TypeOK, NEW t \in Threads, NEW q \in Queues, LockQueue(t, q)
  PROVE  /\ ltq_mutex' \in [Queues -> Threads \cup {Nobody, Closer}]
         /\ ltq_mutex'[q] = t
         /\ \A p \in Queues : ltq_mutex'[p] = ltq_mutex[p] \/ ltq_mutex[p] = Nobody
BY DEF TypeOK, LockQueue, QueueFree

(* A thread gives ltq_mutex back.                                          *)
LEMMA UnlockGives ==
  ASSUME TypeOK, NEW t \in Threads, NEW q \in Queues, UnlockQueue(t, q)
  PROVE  /\ ltq_mutex' \in [Queues -> Threads \cup {Nobody, Closer}]
         /\ \A p \in Queues : ltq_mutex'[p] = ltq_mutex[p] \/ ltq_mutex[p] = t
BY DEF TypeOK, UnlockQueue

(* ... and becomes active.                                                 *)
LEMMA EnrolStep ==
  ASSUME Counting, IInv, NEW t \in Threads, Enrol(t), setup' = setup
  PROVE  IInv'
<1> USE DEF poolVars, listVars, sizeVars, threadVars, taskVars
<1>1. TypeOK /\ ThreadsOK  BY DEF IInv
<1>2. pc[t] = "enrol" /\ pq[t] \in Queues  BY <1>1 DEF Enrol, TypeOK
<1>3. "look" \in Labels  BY DEF Labels, WorkerLoop
<1>4. Wakes(pc, pc', t) /\ pc'[t] = "look"  BY <1>1, <1>3, GotoMoves DEF Enrol, Goto
<1>5. /\ ltq_mutex' \in [Queues -> Threads \cup {Nobody, Closer}]
      /\ ltq_mutex'[pq[t]] = t
      /\ \A p \in Queues : ltq_mutex'[p] = ltq_mutex[p] \/ ltq_mutex[p] = Nobody
  BY <1>1, <1>2, LockTakes DEF Enrol
<1>6. OneMoves(t)  BY <1>4, <1>5 DEF OneMoves, Enrol
<1>7. ltq_active_count' = [ltq_active_count EXCEPT ![pq[t]] = ltq_active_count[pq[t]] + 1]
  BY DEF Enrol
<1>8. ltq_active_count' \in [Queues -> Int]  BY <1>1, <1>7, <1>2, Recounted DEF TypeOK
<1>9. TypeOK'  BY <1>1, <1>4, <1>5, <1>8 DEF TypeOK, Enrol, Wakes, Labels
<1>10. ThreadOK(t)'
  BY <1>4, <1>5 DEF ThreadOK, WithTask, HandlingPause, Pausing, HoldsPool, Enrol
<1>11. pc'[t] \notin EndsInQueue /\ pc'[t] \notin EndsInPool
  BY <1>4 DEF EndsInQueue, EndsInPool
<1>12. CloserOK' /\ HiddenOK' /\ EndingOK'  BY <1>2, <1>6, <1>9, <1>11, RestKept DEF Enrol
<1>13. ListsOK'  BY ListsKept DEF IInv, Enrol
<1>14. ASSUME setup.atomic PROVE ActiveOK' /\ IdleOK' /\ OpenOK'
  <2>1. ActiveOK /\ IdleOK /\ OpenOK  BY <1>14 DEF IInv, CountsOK
  <2>2. ~IsActive(t) /\ IsActive(t)' /\ pq'[t] = pq[t]
    BY <1>2, <1>4 DEF IsActive, Enrol
  <2>3. ActiveOK'  BY <1>1, <1>6, <1>7, <2>1, <2>2, ActiveMore
  <2>4. \A q \in Queues : Spare(q)' = Spare(q)  BY DEF Spare, Enrol
  <2>5. pc[t] \notin HandlingPause /\ pc'[t] \notin HandlingPause
    BY <1>2, <1>4 DEF HandlingPause
  <2>6. IdleOK'  BY <1>1, <1>6, <2>1, <2>4, <2>5, IdleStill
  <2>7. OpenOK'  BY <1>1, <1>2, <1>4, <1>6, <2>1, <2>2, OpenStill DEF Enrol
  <2> QED  BY <2>3, <2>6, <2>7
<1>15. CountsOK'  BY <1>14 DEF CountsOK
<1> QED  BY <1>6, <1>9, <1>10, <1>12, <1>13, <1>15, Assembled

(* A task is taken from the list: the list and its count change together.  *)
LEMMA TaskTaken ==
  ASSUME Counting, IInv, NEW t \in Threads, TakeTask(t, pq[t]), submitted' = submitted
  PROVE  /\ ltq_hidden[pq[t]] = FALSE
         /\ Wakes(pc, pc', t) /\ pc'[t] = "run"
         /\ task' \in [Threads -> Tasks \cup {NoTask}] /\ task'[t] \in submitted
         /\ \A u \in Threads : u # t => task'[u] = task[u]
         /\ ltq_pending_list' \in [Queues -> Seq(Tasks)] /\ ListsOK'
         /\ ltq_pending_count' \in [Queues -> Int]
         /\ \A q \in Queues : Spare(q)' = Spare(q)
<1>1. TypeOK /\ ListsOK /\ pq[t] \in Queues  BY DEF IInv, TypeOK
<1>2. ltq_hidden[pq[t]] = FALSE /\ ltq_pending_list[pq[t]] # <<>>
  BY <1>1 DEF TakeTask, WorkList, TypeOK
<1>3. WorkList(pq[t]) = ltq_pending_list[pq[t]]  BY <1>2 DEF WorkList
<1>4. "run" \in Labels  BY DEF Labels, WorkerLoop
<1>5. Wakes(pc, pc', t) /\ pc'[t] = "run"  BY <1>1, <1>4, GotoMoves DEF TakeTask, Goto
<1>6. ltq_pending_list[pq[t]] \in Seq(submitted)  BY <1>1 DEF ListsOK
<1>7. /\ Head(ltq_pending_list[pq[t]]) \in submitted
      /\ Tail(ltq_pending_list[pq[t]]) \in Seq(submitted)
      /\ Len(Tail(ltq_pending_list[pq[t]])) = Len(ltq_pending_list[pq[t]]) - 1
      /\ Len(ltq_pending_list[pq[t]]) \in Nat
  BY <1>2, <1>6, SMT
<1>8. submitted \subseteq Tasks  BY <1>1 DEF TypeOK
<1>9. task' = [task EXCEPT ![t] = Head(ltq_pending_list[pq[t]])]  BY <1>3 DEF TakeTask
<1>10. /\ task' \in [Threads -> Tasks \cup {NoTask}] /\ task'[t] \in submitted
       /\ \A u \in Threads : u # t => task'[u] = task[u]
  BY <1>1, <1>7, <1>8, <1>9 DEF TypeOK
<1>11. ltq_pending_list'
         = [ltq_pending_list EXCEPT ![pq[t]] = Tail(ltq_pending_list[pq[t]])]
  BY DEF TakeTask
<1>12. ListsOK'  BY <1>1, <1>7, <1>11 DEF ListsOK
<1>13. Seq(submitted) \subseteq Seq(Tasks)  BY <1>8, SMT
<1>14. ltq_pending_list' \in [Queues -> Seq(Tasks)]  BY <1>12, <1>13 DEF ListsOK
<1>15. ltq_pending_count'
         = [ltq_pending_count EXCEPT ![pq[t]] = ltq_pending_count[pq[t]] - 1]
  BY DEF TakeTask
<1>16. ltq_pending_count' \in [Queues -> Int]  BY <1>1, <1>15, Recounted DEF TypeOK
<1>17. ASSUME NEW q \in Queues PROVE Spare(q)' = Spare(q)
  <2>1. CASE q # pq[t]
    <3>1. /\ ltq_pending_count'[q] = ltq_pending_count[q]
          /\ ltq_pending_list'[q] = ltq_pending_list[q]
      BY <1>1, <1>11, <1>15, <2>1 DEF TypeOK
    <3> QED  BY <3>1 DEF Spare
  <2>2. CASE q = pq[t]
    <3>1. /\ ltq_pending_count'[q] = ltq_pending_count[q] - 1
          /\ ltq_pending_list'[q] = Tail(ltq_pending_list[q])
      BY <1>1, <1>11, <1>15, <2>2 DEF TypeOK
    <3>2. ltq_pending_count[q] \in Int  BY <1>1 DEF TypeOK
    <3>3. (ltq_pending_count[q] - 1) - Len(Tail(ltq_pending_list[q]))
            = ltq_pending_count[q] - Len(ltq_pending_list[q])
      BY <1>7, <2>2, <3>2, SMT
    <3> QED  BY <3>1, <3>3 DEF Spare
  <2> QED  BY <2>1, <2>2
<1> QED  BY <1>2, <1>5, <1>10, <1>12, <1>14, <1>16, <1>17

(* The head of the loop: a task is taken, ...                              *)
LEMMA LookTakes ==
  ASSUME Counting, IInv, NEW t \in Threads, Look(t), setup' = setup, TakeTask(t, pq[t])
  PROVE  IInv'
<1> USE DEF poolVars, sizeVars, taskVars
<1>1. TypeOK /\ ThreadsOK  BY DEF IInv
<1>2. pc[t] = "look" /\ pq[t] \in Queues  BY <1>1 DEF Look, TypeOK
<1>3. UnlockQueue(t, pq[t]) /\ ltq_active_count' = ltq_active_count
  BY DEF Look, TakeTask
<1>4. /\ Wakes(pc, pc', t) /\ pc'[t] = "run"
      /\ task' \in [Threads -> Tasks \cup {NoTask}] /\ task'[t] \in submitted
      /\ \A u \in Threads : u # t => task'[u] = task[u]
      /\ ltq_pending_list' \in [Queues -> Seq(Tasks)] /\ ListsOK'
      /\ ltq_pending_count' \in [Queues -> Int]
      /\ \A q \in Queues : Spare(q)' = Spare(q)
  BY TaskTaken DEF Look
<1>5. /\ ltq_mutex' \in [Queues -> Threads \cup {Nobody, Closer}]
      /\ \A p \in Queues : ltq_mutex'[p] = ltq_mutex[p] \/ ltq_mutex[p] = t
  BY <1>1, <1>2, <1>3, UnlockGives
<1>6. OneMoves(t)  BY <1>4, <1>5 DEF OneMoves, Look
<1>7. TypeOK'  BY <1>1, <1>3, <1>4, <1>5 DEF TypeOK, Look, Wakes, Labels
<1>8. ThreadOK(t)'  BY <1>4 DEF ThreadOK, HoldsQueue, HoldsPool, Look
<1>9. pc'[t] \notin EndsInQueue /\ pc'[t] \notin EndsInPool
  BY <1>4 DEF EndsInQueue, EndsInPool
<1>10. CloserOK' /\ HiddenOK' /\ EndingOK'  BY <1>2, <1>6, <1>7, <1>9, RestKept DEF Look
<1>11. ASSUME setup.atomic PROVE ActiveOK' /\ IdleOK' /\ OpenOK'
  <2>1. ActiveOK /\ IdleOK /\ OpenOK  BY <1>11 DEF IInv, CountsOK
  <2>2. IsActive(t) /\ IsActive(t)' /\ pq'[t] = pq[t]
    BY <1>2, <1>4 DEF IsActive, Look
  <2>3. ActiveOK'  BY <1>1, <1>3, <1>6, <2>1, <2>2, ActiveStill
  <2>4. pc[t] \notin HandlingPause /\ pc'[t] \notin HandlingPause
    BY <1>2, <1>4 DEF HandlingPause
  <2>5. IdleOK'  BY <1>1, <1>4, <1>6, <2>1, <2>4, IdleStill
  <2>6. OpenOK'  BY <1>1, <1>2, <1>4, <1>6, <2>1, <2>2, OpenStill DEF Look
  <2> QED  BY <2>3, <2>5, <2>6
<1>12. CountsOK'  BY <1>11 DEF CountsOK
<1> QED  BY <1>4, <1>6, <1>7, <1>8, <1>10, <1>12, Assembled

(* ... or the thread leaves the active ones.                               *)
LEMMA LookLeaves ==
  ASSUME Counting, IInv, NEW t \in Threads, Look(t), setup' = setup, ~TakeTask(t, pq[t])
  PROVE  IInv'
<1> USE DEF poolVars, sizeVars, taskVars
<1>1. TypeOK /\ ThreadsOK  BY DEF IInv
<1>2. pc[t] = "look" /\ pq[t] \in Queues  BY <1>1 DEF Look, TypeOK
<1>3. /\ ltq_active_count'
           = [ltq_active_count EXCEPT ![pq[t]] = ltq_active_count[pq[t]] - 1]
      /\ UNCHANGED <<task, ltq_pending_list, ltq_pending_count>>
  BY DEF Look
<1>4. \/ pc' = [pc EXCEPT ![t] = "to_pool"] /\ UnlockQueue(t, pq[t])
      \/ pc' = [pc EXCEPT ![t] = "sleep"] /\ UNCHANGED ltq_mutex
  BY DEF Look, Goto
<1>5. "to_pool" \in Labels /\ "sleep" \in Labels  BY DEF Labels, WorkerLoop
<1>6. /\ Wakes(pc, pc', t)
      /\ \/ pc'[t] = "to_pool" /\ UnlockQueue(t, pq[t])
         \/ pc'[t] = "sleep" /\ UNCHANGED ltq_mutex
  BY <1>1, <1>4, <1>5, GotoMoves
<1>7. /\ ltq_mutex' \in [Queues -> Threads \cup {Nobody, Closer}]
      /\ \A p \in Queues : ltq_mutex'[p] = ltq_mutex[p] \/ ltq_mutex[p] = t
  <2>1. CASE UNCHANGED ltq_mutex  BY <1>1, <2>1 DEF TypeOK
  <2>2. CASE UnlockQueue(t, pq[t])  BY <1>1, <1>2, <2>2, UnlockGives
  <2> QED  BY <1>6, <2>1, <2>2
<1>8. OneMoves(t)  BY <1>3, <1>6, <1>7 DEF OneMoves, Look
<1>9. ltq_active_count' \in [Queues -> Int]  BY <1>1, <1>3, <1>2, Recounted DEF TypeOK
<1>10. TypeOK'  BY <1>1, <1>3, <1>6, <1>7, <1>9 DEF TypeOK, Look, Wakes, Labels
<1>11. ThreadOK(t)'
  <2>1. ltq_mutex[pq[t]] = t  BY <1>1, <1>2 DEF ThreadsOK, ThreadOK, HoldsQueue
  <2>2. pc'[t] \in HoldsQueue => ltq_mutex'[pq'[t]] = t
    BY <1>6, <2>1 DEF HoldsQueue, Look
  <2> QED  BY <1>6, <2>2 DEF ThreadOK, WithTask, HandlingPause, Pausing, HoldsPool
<1>12. pc'[t] \notin EndsInQueue /\ pc'[t] \notin EndsInPool
  BY <1>6 DEF EndsInQueue, EndsInPool
<1>13. CloserOK' /\ HiddenOK' /\ EndingOK'
  BY <1>2, <1>8, <1>10, <1>12, RestKept DEF Look
<1>14. ListsOK'  BY <1>3, ListsKept DEF IInv, Look
<1>15. ASSUME setup.atomic PROVE ActiveOK' /\ IdleOK' /\ OpenOK'
  <2>1. ActiveOK /\ IdleOK /\ OpenOK  BY <1>15 DEF IInv, CountsOK
  <2>2. IsActive(t) /\ ~IsActive(t)' /\ pq'[t] = pq[t]
    BY <1>2, <1>6 DEF IsActive, Look
  <2>3. ActiveOK'  BY <1>1, <1>3, <1>8, <2>1, <2>2, ActiveFewer
  <2>4. \A q \in Queues : Spare(q)' = Spare(q)  BY <1>3 DEF Spare
  <2>5. pc[t] \notin HandlingPause /\ pc'[t] \notin HandlingPause
    BY <1>2, <1>6 DEF HandlingPause
  <2>6. IdleOK'  BY <1>1, <1>8, <2>1, <2>4, <2>5, IdleStill
  <2>7. pc[t] # "none" /\ pc'[t] # "none"  BY <1>2, <1>6
  <2>8. OpenOK'  BY <1>1, <1>8, <2>1, <2>2, <2>7, OpenStill DEF Look
  <2> QED  BY <2>3, <2>6, <2>8
<1>16. CountsOK'  BY <1>15 DEF CountsOK
<1> QED  BY <1>8, <1>10, <1>11, <1>13, <1>14, <1>16, Assembled

(* A woken worker takes a task and is active again, or sleeps on.          *)
LEMMA WakeUpStep ==
  ASSUME Counting, IInv, NEW t \in Threads, WakeUp(t), setup' = setup
  PROVE  IInv'
<1> USE DEF poolVars, sizeVars, taskVars
<1>1. TypeOK /\ ThreadsOK  BY DEF IInv
<1>2. pc[t] \in {"woken_queue", "to_queue"} /\ pq[t] \in Queues  BY <1>1 DEF WakeUp, TypeOK
<1>3. pq'[t] = pq[t]  BY DEF WakeUp
<1>4. CASE /\ TakeTask(t, pq[t]) /\ UNCHANGED ltq_mutex
           /\ ltq_active_count'
                = [ltq_active_count EXCEPT ![pq[t]] = ltq_active_count[pq[t]] + 1]
  <2>1. /\ Wakes(pc, pc', t) /\ pc'[t] = "run"
        /\ task' \in [Threads -> Tasks \cup {NoTask}] /\ task'[t] \in submitted
        /\ \A u \in Threads : u # t => task'[u] = task[u]
        /\ ltq_pending_list' \in [Queues -> Seq(Tasks)] /\ ListsOK'
        /\ ltq_pending_count' \in [Queues -> Int]
        /\ \A q \in Queues : Spare(q)' = Spare(q)
    BY <1>4, TaskTaken DEF WakeUp
  <2>2. OneMoves(t)  BY <1>4, <2>1 DEF OneMoves, WakeUp
  <2>3. ltq_active_count' \in [Queues -> Int]  BY <1>1, <1>4, <1>2, Recounted DEF TypeOK
  <2>4. TypeOK'  BY <1>1, <1>4, <2>1, <2>3 DEF TypeOK, WakeUp, Wakes, Labels
  <2>5. ThreadOK(t)'  BY <2>1 DEF ThreadOK, HoldsQueue, HoldsPool, WakeUp
  <2>6. pc'[t] \notin EndsInQueue /\ pc'[t] \notin EndsInPool
    BY <2>1 DEF EndsInQueue, EndsInPool
  <2>7. CloserOK' /\ HiddenOK' /\ EndingOK'
    BY <1>2, <2>2, <2>4, <2>6, RestKept DEF WakeUp
  <2>8. ASSUME setup.atomic PROVE ActiveOK' /\ IdleOK' /\ OpenOK'
    <3>1. ActiveOK /\ IdleOK /\ OpenOK  BY <2>8 DEF IInv, CountsOK
    <3>2. ~IsActive(t) /\ IsActive(t)'  BY <1>2, <2>1 DEF IsActive
    <3>3. ActiveOK'  BY <1>1, <1>3, <1>4, <2>2, <3>1, <3>2, ActiveMore
    <3>4. pc[t] \notin HandlingPause /\ pc'[t] \notin HandlingPause
      BY <1>2, <2>1 DEF HandlingPause
    <3>5. IdleOK'  BY <1>1, <2>1, <2>2, <3>1, <3>4, IdleStill
    <3>6. pc[t] # "none" /\ pc'[t] # "none"  BY <1>2, <2>1
    <3>7. OpenOK'  BY <1>1, <1>3, <2>2, <3>1, <3>6, OpenStill DEF WakeUp
    <3> QED  BY <3>3, <3>5, <3>7
  <2>9. CountsOK'  BY <2>8 DEF CountsOK
  <2> QED  BY <2>1, <2>2, <2>4, <2>5, <2>7, <2>9, Assembled
<1>5. CASE /\ LockQueue(t, pq[t]) /\ Goto(t, "sleep")
           /\ UNCHANGED <<task, ltq_pending_list, ltq_pending_count, ltq_active_count>>
  <2>1. "sleep" \in Labels  BY DEF Labels, WorkerLoop
  <2>2. Wakes(pc, pc', t) /\ pc'[t] = "sleep"  BY <1>1, <1>5, <2>1, GotoMoves DEF Goto
  <2>3. /\ ltq_mutex' \in [Queues -> Threads \cup {Nobody, Closer}]
        /\ ltq_mutex'[pq[t]] = t
        /\ \A p \in Queues : ltq_mutex'[p] = ltq_mutex[p] \/ ltq_mutex[p] = Nobody
    BY <1>1, <1>2, <1>5, LockTakes
  <2>4. OneMoves(t)  BY <1>5, <2>2, <2>3 DEF OneMoves, WakeUp
  <2>5. TypeOK'  BY <1>1, <1>5, <2>2, <2>3 DEF TypeOK, WakeUp, Wakes, Labels
  <2>6. ThreadOK(t)'
    BY <1>3, <2>2, <2>3 DEF ThreadOK, WithTask, HandlingPause, Pausing, HoldsPool
  <2>7. CountedAlike(t)  BY <1>2, <2>2 DEF CountedAlike, IsActive, HandlingPause
  <2>8. pc'[t] \notin EndsInQueue /\ pc'[t] \notin EndsInPool
    BY <2>2 DEF EndsInQueue, EndsInPool
  <2> QED  BY <1>2, <1>3, <1>5, <2>4, <2>5, <2>6, <2>7, <2>8, QuietStep DEF WakeUp
<1> QED  BY <1>4, <1>5 DEF WakeUp

(* The last active thread of a queue leaves it, and may wake the pauser.   *)
LEMMA LeaveMoves ==
  ASSUME TypeOK, NEW t \in Threads, NEW l \in Labels, l # "wait_sole",
         LeaveActive([pc EXCEPT ![t] = l])
  PROVE  Wakes(pc, pc', t) /\ pc'[t] = l /\ ltp_active_queues' \in Int
<1> DEFINE p == [pc EXCEPT ![t] = l]
<1>1. p \in [Threads -> Labels] /\ p[t] = l /\ \A u \in Threads : u # t => p[u] = pc[u]
  BY DEF TypeOK, Labels
<1>2. pc' = SignalPauser(p) \/ pc' = p  BY DEF LeaveActive
<1>3. Wakes(p, SignalPauser(p), t)  BY <1>1, PauserWakes
<1>4. Wakes(p, p, t)  BY <1>1 DEF Wakes, Alike
<1>5. Wakes(p, pc', t)  BY <1>2, <1>3, <1>4
<1>6. Wakes(pc, pc', t)  BY <1>1, <1>5 DEF Wakes
<1>7. SignalPauser(p)[t] = l  BY <1>1 DEF SignalPauser
<1>8. pc'[t] = l  BY <1>1, <1>2, <1>7
<1>9. ltp_active_queues \in Int  BY DEF TypeOK
<1>10. ltp_active_queues' = ltp_active_queues - 1  BY DEF LeaveActive
<1>11. ltp_active_queues' \in Int  BY <1>9, <1>10, SMT
<1> QED  BY <1>6, <1>8, <1>11

(* A thread that ends saw more threads than the limit, which is not one.   *)
LEMMA EndBegins ==
  ASSUME Counting, IInv, TypeOK', NEW t \in Threads, OneMoves(t), MustEnd(pq[t]), pq'[t] = pq[t],
         ltq_open_count' = ltq_open_count, ltp_finishing' = ltp_finishing
  PROVE  EndingOK'
<1>1. SUFFICES ASSUME setup.atomic, 1 \notin MaxCounts, ~ltp_finishing PROVE EndingOK'
  BY DEF EndingOK, OneMoves
<1>2. TypeOK /\ EndingOK /\ pq[t] \in Queues  BY DEF IInv, TypeOK
<1>3. ltq_open_count[pq[t]] > ltq_max_count  BY <1>1 DEF MustEnd
<1>4. ltq_max_count \in Nat /\ ltq_max_count # 0 /\ ltq_max_count # 1
  BY <1>1, <1>2, TPoolAssumption DEF TypeOK
<1>5. ltq_open_count[pq[t]] \in Int  BY <1>2 DEF TypeOK
<1>6. ltq_open_count[pq[t]] >= 2 /\ ltq_open_count[pq[t]] >= 3
  BY <1>3, <1>4, <1>5, SMT
<1>7. ASSUME NEW u \in Threads, u # t
      PROVE  /\ pc'[u] \in EndsInQueue => pc[u] \in EndsInQueue
             /\ pc'[u] \in EndsInPool => pc[u] \in EndsInPool
             /\ pq'[u] = pq[u]
  <2>1. SameKind(pc[u], pc'[u])  BY <1>7, AlikeKind DEF OneMoves, Wakes
  <2> QED  BY <1>7, <2>1 DEF SameKind, OneMoves
<1>8. ASSUME NEW u \in Threads
      PROVE  /\ pc'[u] \in EndsInQueue => ltq_open_count'[pq'[u]] >= 2
             /\ pc'[u] \in EndsInPool => ltq_open_count'[pq'[u]] >= 2
  <2>1. CASE u = t  BY <1>6, <2>1
  <2>2. CASE u # t  BY <1>1, <1>2, <1>7, <2>2 DEF EndingOK
  <2> QED  BY <2>1, <2>2
<1>9. ASSUME NEW u \in Threads, NEW w \in Threads,
             pc'[u] \in EndsInQueue, pc'[w] \in EndsInPool, pq'[w] = pq'[u]
      PROVE  ltq_open_count'[pq'[u]] >= 3
  <2>1. CASE u = t  BY <1>6, <2>1
  <2>2. CASE w = t  BY <1>6, <1>9, <2>2
  <2>3. CASE u # t /\ w # t  BY <1>1, <1>2, <1>7, <1>9, <2>3 DEF EndingOK
  <2> QED  BY <2>1, <2>2, <2>3
<1> QED  BY <1>8, <1>9 DEF EndingOK

(* No task: the thread waits, or ends and keeps ltq_mutex.                 *)
LEMMA SleepStep ==
  ASSUME Counting, IInv, NEW t \in Threads, Sleep(t), setup' = setup
  PROVE  IInv'
<1> USE DEF poolVars, listVars, sizeVars, threadVars, taskVars
<1>1. TypeOK /\ ThreadsOK  BY DEF IInv
<1>2. pc[t] = "sleep" /\ pq[t] \in Queues /\ pq'[t] = pq[t]  BY <1>1 DEF Sleep, TypeOK
<1>3. "end_queue" \in Labels /\ "wait_queue" \in Labels  BY DEF Labels, WorkerLoop
<1>4. CASE MustEnd(pq[t])
  <2>1. Wakes(pc, pc', t) /\ pc'[t] = "end_queue" /\ ltq_mutex' = ltq_mutex
    BY <1>1, <1>3, <1>4, GotoMoves DEF Sleep, Goto
  <2>2. OneMoves(t)  BY <2>1 DEF OneMoves, Sleep
  <2>3. TypeOK'  BY <1>1, <2>1 DEF TypeOK, Sleep, Wakes, Labels
  <2>4. ltq_mutex'[pq'[t]] = t
    BY <1>1, <1>2, <2>1 DEF ThreadsOK, ThreadOK, HoldsQueue
  <2>5. ThreadOK(t)'
    BY <2>1, <2>4 DEF ThreadOK, WithTask, HandlingPause, Pausing, HoldsPool
  <2>6. EndingOK'  BY <1>2, <1>4, <2>2, <2>3, EndBegins DEF Sleep
  <2>7. CountedAlike(t)  BY <1>2, <2>1 DEF CountedAlike, IsActive, HandlingPause
  <2>8. CountsOK'  BY <1>2, <2>2, <2>7, CountsKept DEF Sleep
  <2>9. ListsOK'  BY ListsKept DEF IInv, Sleep
  <2>10. t # Closer  BY TPoolAssumption
  <2>11. CloserOK'  BY <2>2, <2>10, CloserKept DEF IInv, Sleep
  <2>12. HiddenOK'  BY <1>2, <2>2, HiddenKept DEF IInv, Sleep
  <2> QED  BY <2>2, <2>3, <2>5, <2>6, <2>8, <2>9, <2>11, <2>12, Assembled
<1>5. CASE ~MustEnd(pq[t])
  <2>1. Wakes(pc, pc', t) /\ pc'[t] = "wait_queue"
    BY <1>1, <1>3, <1>5, GotoMoves DEF Sleep, Goto
  <2>2. /\ ltq_mutex' \in [Queues -> Threads \cup {Nobody, Closer}]
        /\ \A p \in Queues : ltq_mutex'[p] = ltq_mutex[p] \/ ltq_mutex[p] = t
    BY <1>1, <1>2, <1>5, UnlockGives DEF Sleep
  <2>3. OneMoves(t)  BY <2>1, <2>2 DEF OneMoves, Sleep
  <2>4. TypeOK'  BY <1>1, <2>1, <2>2 DEF TypeOK, Sleep, Wakes, Labels
  <2>5. ThreadOK(t)'
    BY <2>1 DEF ThreadOK, WithTask, HandlingPause, Pausing, HoldsQueue, HoldsPool
  <2>6. CountedAlike(t)  BY <1>2, <2>1 DEF CountedAlike, IsActive, HandlingPause
  <2>7. pc'[t] \notin EndsInQueue /\ pc'[t] \notin EndsInPool
    BY <2>1 DEF EndsInQueue, EndsInPool
  <2> QED  BY <1>2, <2>3, <2>4, <2>5, <2>6, <2>7, QuietStep DEF Sleep
<1> QED  BY <1>4, <1>5

(* The task returns.                                                       *)
LEMMA FinishStep ==
  ASSUME Counting, IInv, NEW t \in Threads, Finish(t), setup' = setup
  PROVE  IInv'
<1> USE DEF poolVars, listVars, sizeVars
<1>1. TypeOK /\ ThreadsOK  BY DEF IInv
<1>2. pc[t] = "run" /\ pq[t] \in Queues /\ pq'[t] = pq[t]  BY <1>1 DEF Finish, TypeOK
<1>3. "look" \in Labels  BY DEF Labels, WorkerLoop
<1>4. Wakes(pc, pc', t) /\ pc'[t] = "look"  BY <1>1, <1>3, GotoMoves DEF Finish, Goto
<1>5. /\ ltq_mutex' \in [Queues -> Threads \cup {Nobody, Closer}]
      /\ ltq_mutex'[pq[t]] = t
      /\ \A p \in Queues : ltq_mutex'[p] = ltq_mutex[p] \/ ltq_mutex[p] = Nobody
  BY <1>1, <1>2, LockTakes DEF Finish
<1>6. task' = [task EXCEPT ![t] = NoTask]  BY DEF Finish
<1>7. /\ task' \in [Threads -> Tasks \cup {NoTask}]
      /\ \A u \in Threads : u # t => task'[u] = task[u]
  BY <1>1, <1>6 DEF TypeOK
<1>8. OneMoves(t)  BY <1>4, <1>5, <1>7 DEF OneMoves, Finish
<1>9. task[t] \in submitted  BY <1>1, <1>2 DEF ThreadsOK, ThreadOK, WithTask
<1>10. done' \subseteq submitted'  BY <1>1, <1>9 DEF TypeOK, Finish
<1>11. TypeOK'  BY <1>1, <1>4, <1>5, <1>7, <1>10 DEF TypeOK, Finish, Wakes, Labels
<1>12. ThreadOK(t)'
  BY <1>2, <1>4, <1>5 DEF ThreadOK, WithTask, HandlingPause, Pausing, HoldsPool
<1>13. CountedAlike(t)  BY <1>2, <1>4 DEF CountedAlike, IsActive, HandlingPause
<1>14. pc'[t] \notin EndsInQueue /\ pc'[t] \notin EndsInPool
  BY <1>4 DEF EndsInQueue, EndsInPool
<1> QED  BY <1>2, <1>8, <1>11, <1>12, <1>13, <1>14, QuietStep DEF Finish

(* A thread ends from ltp_cond and keeps ltp_mutex.                        *)
LEMMA PoolEnds ==
  ASSUME Counting, IInv, NEW t \in Threads, setup' = setup, MustEnd(pq[t]), PoolFree,
         pc[t] \in {"to_pool", "woken_loop"}, Wakes(pc, pc', t), pc'[t] = "end_pool",
         ltp_mutex' = t, ltp_active_queues' \in Int,
         UNCHANGED <<ltp_pause, ltp_finishing, ltq_mutex, listVars, ltq_active_count, sizeVars,
                     threadVars, closer, taskVars>>
  PROVE  IInv'
<1> USE DEF listVars, sizeVars, threadVars, taskVars
<1>1. TypeOK /\ ThreadsOK  BY DEF IInv
<1>2. OneMoves(t)  BY DEF OneMoves, PoolFree
<1>3. TypeOK'  BY <1>1 DEF TypeOK, Wakes, Labels
<1>4. ThreadOK(t)'  BY DEF ThreadOK, WithTask, HandlingPause, Pausing, HoldsQueue
<1>5. EndingOK'  BY <1>2, <1>3, EndBegins
<1>6. CountedAlike(t)  BY DEF CountedAlike, IsActive, HandlingPause
<1>7. CountsOK'  BY <1>2, <1>6, CountsKept
<1>8. ListsOK'  BY ListsKept DEF IInv
<1>9. t # Closer  BY TPoolAssumption
<1>10. CloserOK'  BY <1>2, <1>9, CloserKept DEF IInv
<1>11. pc[t] # "resume"  OBVIOUS
<1>12. HiddenOK'  BY <1>2, <1>11, HiddenKept DEF IInv
<1> QED  BY <1>2, <1>3, <1>4, <1>5, <1>7, <1>8, <1>10, <1>12, Assembled

(* A thread stays on ltp_cond, or goes back to its queue.                  *)
LEMMA PoolStays ==
  ASSUME Counting, IInv, NEW t \in Threads, setup' = setup, pc[t] \in {"to_pool", "woken_loop"},
         Wakes(pc, pc', t), pc'[t] \in {"wait_loop", "to_queue"}, ltp_mutex' = ltp_mutex,
         ltp_active_queues' \in Int,
         UNCHANGED <<ltp_pause, ltp_finishing, ltq_mutex, listVars, ltq_active_count, sizeVars,
                     threadVars, closer, taskVars>>
  PROVE  IInv'
<1> USE DEF listVars, sizeVars, threadVars, taskVars
<1>1. TypeOK /\ ThreadsOK  BY DEF IInv
<1>2. OneMoves(t)  BY DEF OneMoves
<1>3. TypeOK'  BY <1>1 DEF TypeOK, Wakes, Labels
<1>4. ThreadOK(t)'  BY DEF ThreadOK, WithTask, HandlingPause, Pausing, HoldsQueue, HoldsPool
<1>5. CountedAlike(t)  BY DEF CountedAlike, IsActive, HandlingPause
<1>6. pc'[t] \notin EndsInQueue /\ pc'[t] \notin EndsInPool  BY DEF EndsInQueue, EndsInPool
<1>7. pc[t] # "resume"  OBVIOUS
<1> QED  BY <1>2, <1>3, <1>4, <1>5, <1>6, <1>7, QuietStep

(* A thread that left waits on ltp_cond, or ends.                          *)
LEMMA ToPoolStep ==
  ASSUME Counting, IInv, NEW t \in Threads, ToPool(t), setup' = setup
  PROVE  IInv'
<1>1. TypeOK  BY DEF IInv
<1>2. "end_pool" \in Labels /\ "wait_loop" \in Labels  BY DEF Labels, WorkerLoop
<1>3. pc[t] = "to_pool" /\ PoolFree  BY DEF ToPool
<1>4. CASE MustEnd(pq[t])
  <2>1. LeaveActive([pc EXCEPT ![t] = "end_pool"]) /\ ltp_mutex' = t  BY <1>4 DEF ToPool
  <2>2. Wakes(pc, pc', t) /\ pc'[t] = "end_pool" /\ ltp_active_queues' \in Int
    BY <1>1, <1>2, <2>1, LeaveMoves
  <2> QED  BY <1>3, <1>4, <2>1, <2>2, PoolEnds DEF ToPool
<1>5. CASE ~MustEnd(pq[t])
  <2>1. LeaveActive([pc EXCEPT ![t] = "wait_loop"]) /\ ltp_mutex' = ltp_mutex
    BY <1>5 DEF ToPool
  <2>2. Wakes(pc, pc', t) /\ pc'[t] = "wait_loop" /\ ltp_active_queues' \in Int
    BY <1>1, <1>2, <2>1, LeaveMoves
  <2> QED  BY <1>3, <2>1, <2>2, PoolStays DEF ToPool
<1> QED  BY <1>4, <1>5

(* Woken on ltp_cond it goes on, waits again, or ends.                     *)
LEMMA WakeInPoolStep ==
  ASSUME Counting, IInv, NEW t \in Threads, WakeInPool(t), setup' = setup
  PROVE  IInv'
<1>1. TypeOK  BY DEF IInv
<1>2. "end_pool" \in Labels /\ "wait_loop" \in Labels /\ "to_queue" \in Labels
  BY DEF Labels, WorkerLoop
<1>3. /\ pc[t] = "woken_loop" /\ PoolFree
      /\ UNCHANGED <<ltp_pause, ltp_active_queues, ltp_finishing, ltq_mutex, listVars,
                     ltq_active_count, sizeVars, threadVars, closer, taskVars>>
  BY DEF WakeInPool
<1>4. ltp_active_queues' \in Int  BY <1>1, <1>3 DEF TypeOK
<1>5. CASE MustEnd(pq[t]) /\ Goto(t, "end_pool") /\ ltp_mutex' = t
  <2>1. Wakes(pc, pc', t) /\ pc'[t] = "end_pool"  BY <1>1, <1>2, <1>5, GotoMoves DEF Goto
  <2> QED  BY <1>3, <1>4, <1>5, <2>1, PoolEnds
<1>6. CASE /\ Goto(t, "to_queue") \/ Goto(t, "wait_loop")
           /\ UNCHANGED ltp_mutex
  <2>1. Wakes(pc, pc', t) /\ pc'[t] \in {"to_queue", "wait_loop"}
    BY <1>1, <1>2, <1>6, GotoMoves DEF Goto
  <2> QED  BY <1>3, <1>4, <1>6, <2>1, PoolStays
<1> QED  BY <1>5, <1>6 DEF WakeInPool

(* The slot is given back; the thread goes on ending.                      *)
LEMMA EndSlotStep ==
  ASSUME Counting, IInv, NEW t \in Threads, EndSlot(t), setup' = setup
  PROVE  IInv'
<1> USE DEF poolVars, listVars, sizeVars, taskVars
<1>1. TypeOK /\ ThreadsOK  BY DEF IInv
<1>2. pq[t] \in Queues /\ pq'[t] = pq[t]  BY <1>1 DEF EndSlot, TypeOK
<1>3. "uncount_queue" \in Labels /\ "uncount_pool" \in Labels  BY DEF Labels, WorkerLoop
<1>4. /\ Wakes(pc, pc', t)
      /\ \/ pc[t] = "end_queue" /\ pc'[t] = "uncount_queue"
         \/ pc[t] = "end_pool" /\ pc'[t] = "uncount_pool"
  <2>1. CASE pc[t] = "end_queue"
    BY <1>1, <1>3, <2>1, GotoMoves DEF EndSlot, Goto
  <2>2. CASE pc[t] = "end_pool"
    BY <1>1, <1>3, <2>2, GotoMoves DEF EndSlot, Goto
  <2> QED  BY <2>1, <2>2 DEF EndSlot
<1>5. tmp' \in [Threads -> Int] /\ \A u \in Threads : u # t => tmp'[u] = tmp[u]
  BY <1>1, <1>2 DEF EndSlot, TypeOK
<1>6. OneMoves(t)  BY <1>4, <1>5 DEF OneMoves, EndSlot
<1>7. TypeOK'  BY <1>1, <1>4, <1>5 DEF TypeOK, EndSlot, Wakes, Labels
<1>8. /\ pc[t] = "end_queue" => ltq_mutex[pq[t]] = t
      /\ pc[t] = "end_pool" => ltp_mutex = t
  BY <1>1 DEF ThreadsOK, ThreadOK, HoldsQueue, HoldsPool
<1>9. /\ pc'[t] \in HoldsQueue => ltq_mutex'[pq'[t]] = t
      /\ pc'[t] \in HoldsPool => ltp_mutex' = t
  BY <1>2, <1>4, <1>8 DEF HoldsQueue, HoldsPool, EndSlot
<1>10. ThreadOK(t)'  BY <1>4, <1>9 DEF ThreadOK, WithTask, HandlingPause, Pausing
<1>11. /\ pc'[t] \in EndsInQueue => pc[t] \in EndsInQueue
       /\ pc'[t] \in EndsInPool => pc[t] \in EndsInPool
  BY <1>4 DEF EndsInQueue, EndsInPool
<1>12. \A q \in Queues : ltq_open_count'[q] >= ltq_open_count[q]
  <2>1. ltq_open_count' = ltq_open_count  BY DEF EndSlot
  <2>2. ltq_open_count \in [Queues -> Int]  BY <1>1 DEF TypeOK
  <2> QED  BY <2>1, <2>2, SMT
<1>13. EndingOK'  BY <1>1, <1>2, <1>6, <1>7, <1>11, <1>12, EndingKept DEF IInv, EndSlot
<1>14. CountedAlike(t)  BY <1>4 DEF CountedAlike, IsActive, HandlingPause
<1>15. CountsOK'  BY <1>2, <1>6, <1>14, CountsKept DEF EndSlot
<1>16. ListsOK'  BY ListsKept DEF IInv, EndSlot
<1>17. t # Closer /\ pc[t] # "resume"  BY <1>4, TPoolAssumption
<1>18. CloserOK'  BY <1>6, <1>17, CloserKept DEF IInv, EndSlot
<1>19. HiddenOK'  BY <1>6, <1>17, HiddenKept DEF IInv, EndSlot
<1> QED  BY <1>6, <1>7, <1>10, <1>13, <1>15, <1>16, <1>18, <1>19, Assembled

(* A thread goes to l and signals a queue.                                 *)
LEMMA SignalMoves ==
  ASSUME TypeOK, NEW t \in Threads, NEW l \in Labels, l # "wait_queue", NEW q,
         SignalQueue(q, [pc EXCEPT ![t] = l])
  PROVE  /\ Wakes(pc, pc', t) /\ pc'[t] = l
         /\ closer' \in [at : {"no", "lock", "sleep", "wait", "woken", "closed"}, q : Queues]
         /\ closer'.at = "sleep" => closer' = closer
<1> DEFINE p == [pc EXCEPT ![t] = l]
<1>1. p \in [Threads -> Labels] /\ p[t] = l /\ \A u \in Threads : u # t => p[u] = pc[u]
  BY DEF TypeOK, Labels
<1>2. closer \in [at : {"no", "lock", "sleep", "wait", "woken", "closed"}, q : Queues]
  BY DEF TypeOK
<1>3. SignalQueue(q, p)  OBVIOUS
<1> HIDE DEF p
<1>4. /\ Wakes(p, pc', t)
      /\ t \in Threads /\ p[t] # "wait_queue" => pc'[t] = p[t]
      /\ closer' \in [at : {"no", "lock", "sleep", "wait", "woken", "closed"}, q : Queues]
      /\ closer'.at = "sleep" => closer' = closer
  BY <1>1, <1>2, <1>3, SignalWakes
<1>5. Wakes(pc, pc', t)  BY <1>1, <1>4 DEF Wakes
<1> QED  BY <1>1, <1>4, <1>5

(* The thread that is uncounted was one of at least two, and of three when *)
(* another thread of the queue ends under the other mutex.                 *)
LEMMA EndCounted ==
  ASSUME Counting, IInv, NEW t \in Threads, OneMoves(t), EndCount(t), pc'[t] = "none"
  PROVE  EndingOK'
<1>1. SUFFICES ASSUME setup.atomic, 1 \notin MaxCounts, ~ltp_finishing PROVE EndingOK'
  BY DEF EndingOK, OneMoves, EndCount
<1>2. TypeOK /\ ThreadsOK /\ EndingOK  BY DEF IInv
<1>3. pc[t] \in {"uncount_queue", "uncount_pool"}  BY DEF EndCount
<1>4. ltq_open_count' = [ltq_open_count EXCEPT ![pq[t]] = ltq_open_count[pq[t]] - 1]
  BY <1>1 DEF EndCount
<1>5. ASSUME NEW u \in Threads, u # t
      PROVE  /\ pc'[u] \in EndsInQueue => pc[u] \in EndsInQueue
             /\ pc'[u] \in EndsInPool => pc[u] \in EndsInPool
             /\ pq'[u] = pq[u]
  <2>1. SameKind(pc[u], pc'[u])  BY <1>5, AlikeKind DEF OneMoves, Wakes
  <2> QED  BY <1>5, <2>1 DEF SameKind, OneMoves
<1>6. pc'[t] \notin EndsInQueue /\ pc'[t] \notin EndsInPool  BY DEF EndsInQueue, EndsInPool
<1>7. ASSUME NEW u \in Threads, u # t, pc[u] \in EndsInQueue, pq[u] = pq[t]
      PROVE  pc[t] \in EndsInPool
  <2>1. ltq_mutex[pq[u]] = u
    BY <1>2, <1>7 DEF ThreadsOK, ThreadOK, EndsInQueue, HoldsQueue
  <2>2. pc[t] # "uncount_queue"
    BY <1>2, <1>7, <2>1 DEF ThreadsOK, ThreadOK, HoldsQueue
  <2> QED  BY <1>3, <2>2 DEF EndsInPool
<1>8. ASSUME NEW u \in Threads, u # t, pc[u] \in EndsInPool
      PROVE  pc[t] \in EndsInQueue
  <2>1. ltp_mutex = u
    BY <1>2, <1>8 DEF ThreadsOK, ThreadOK, EndsInPool, HoldsPool
  <2>2. pc[t] # "uncount_pool"
    BY <1>2, <1>8, <2>1 DEF ThreadsOK, ThreadOK, HoldsPool
  <2> QED  BY <1>3, <2>2 DEF EndsInQueue
<1>9. ASSUME NEW u \in Threads, u # t, pc[u] \in EndsInQueue \/ pc[u] \in EndsInPool
      PROVE  ltq_open_count'[pq[u]] >= 2
  <2>1. pq[u] \in Queues /\ pq[t] \in Queues  BY <1>2 DEF TypeOK
  <2>2. CASE pq[u] # pq[t]
    <3>1. ltq_open_count'[pq[u]] = ltq_open_count[pq[u]]
      BY <1>2, <1>4, <2>1, <2>2 DEF TypeOK
    <3> QED  BY <1>1, <1>2, <1>9, <3>1 DEF EndingOK
  <2>3. CASE pq[u] = pq[t]
    <3>1. ltq_open_count[pq[t]] >= 3
      BY <1>1, <1>2, <1>7, <1>8, <1>9, <2>3 DEF EndingOK
    <3>2. ltq_open_count'[pq[u]] = ltq_open_count[pq[t]] - 1
      BY <1>2, <1>4, <2>1, <2>3 DEF TypeOK
    <3>3. ltq_open_count[pq[t]] \in Int  BY <1>2, <2>1 DEF TypeOK
    <3> QED  BY <3>1, <3>2, <3>3, SMT
  <2> QED  BY <2>2, <2>3
<1>10. ASSUME NEW u \in Threads, NEW w \in Threads, u # t, w # t,
              pc[u] \in EndsInQueue, pc[w] \in EndsInPool, pq[w] = pq[u]
       PROVE  ltq_open_count'[pq[u]] >= 3
  <2>1. pq[u] \in Queues  BY <1>2 DEF TypeOK
  <2>2. pc[t] \in EndsInQueue  BY <1>8, <1>10
  <2>3. pc[t] \notin EndsInPool  BY <2>2 DEF EndsInQueue, EndsInPool
  <2>4. pq[u] # pq[t]  BY <1>7, <1>10, <2>3
  <2>5. ltq_open_count'[pq[u]] = ltq_open_count[pq[u]]
    BY <1>2, <1>4, <2>1, <2>4 DEF TypeOK
  <2> QED  BY <1>1, <1>2, <1>10, <2>5 DEF EndingOK
<1>11. \A u \in Threads : pc'[u] \in EndsInQueue => ltq_open_count'[pq'[u]] >= 2
  BY <1>5, <1>6, <1>9
<1>12. \A u \in Threads : pc'[u] \in EndsInPool => ltq_open_count'[pq'[u]] >= 2
  BY <1>5, <1>6, <1>9
<1>13. ASSUME NEW u \in Threads, NEW w \in Threads,
              pc'[u] \in EndsInQueue, pc'[w] \in EndsInPool, pq'[w] = pq'[u]
       PROVE  ltq_open_count'[pq'[u]] >= 3
  <2>1. u # t /\ w # t  BY <1>6, <1>13
  <2> QED  BY <1>5, <1>10, <1>13, <2>1
<1> QED  BY <1>11, <1>12, <1>13 DEF EndingOK

(* The thread is uncounted and gone.                                       *)
LEMMA EndCountStep ==
  ASSUME Counting, IInv, NEW t \in Threads, EndCount(t), setup' = setup
  PROVE  IInv'
<1> USE DEF listVars, taskVars
<1>1. TypeOK /\ ThreadsOK  BY DEF IInv
<1>2. /\ pc[t] \in {"uncount_queue", "uncount_pool"} /\ pq[t] \in Queues
      /\ pq' = pq /\ task' = task /\ submitted' = submitted /\ ltq_hidden' = ltq_hidden
      /\ ltp_pause' = ltp_pause /\ ltq_active_count' = ltq_active_count
      /\ ltq_pending_list' = ltq_pending_list /\ ltq_pending_count' = ltq_pending_count
      /\ ltp_finishing' = ltp_finishing
  BY <1>1 DEF EndCount, TypeOK
<1>3. "none" \in Labels  BY DEF Labels, WorkerLoop
<1>4. /\ Wakes(pc, pc', t) /\ pc'[t] = "none"
      /\ closer' \in [at : {"no", "lock", "sleep", "wait", "woken", "closed"}, q : Queues]
      /\ closer'.at = "sleep" => closer' = closer
  <2>1. CASE SignalQueue(pq[t], [pc EXCEPT ![t] = "none"])
    BY <1>1, <1>3, <2>1, SignalMoves
  <2>2. CASE Goto(t, "none") /\ UNCHANGED closer
    BY <1>1, <1>3, <2>2, GotoMoves DEF Goto, TypeOK
  <2> QED  BY <2>1, <2>2 DEF EndCount
<1>5. pc[t] = "uncount_pool" => ltp_mutex = t
  BY <1>1 DEF ThreadsOK, ThreadOK, HoldsPool
<1>6. /\ ltq_mutex' \in [Queues -> Threads \cup {Nobody, Closer}]
      /\ \A p \in Queues : ltq_mutex'[p] = ltq_mutex[p] \/ ltq_mutex[p] = t
      /\ ltp_mutex' = ltp_mutex \/ (ltp_mutex' = Nobody /\ ltp_mutex = t)
  <2>1. CASE UnlockQueue(t, pq[t]) /\ UNCHANGED ltp_mutex
    BY <1>1, <1>2, <2>1, UnlockGives
  <2>2. CASE pc[t] = "uncount_pool" /\ ltp_mutex' = Nobody /\ UNCHANGED ltq_mutex
    BY <1>1, <1>5, <2>2 DEF TypeOK
  <2> QED  BY <1>2, <2>1, <2>2 DEF EndCount
<1>7. tmp' \in [Threads -> Int] /\ \A u \in Threads : u # t => tmp'[u] = tmp[u]
  BY <1>1, SmallInts DEF EndCount, TypeOK
<1>8. OneMoves(t)  BY <1>2, <1>4, <1>6, <1>7 DEF OneMoves
<1>9. ltq_open_count' \in [Queues -> Int]
  <2> DEFINE m == (IF setup.atomic THEN ltq_open_count[pq[t]] ELSE tmp[t])
  <2>1. m \in Int  BY <1>1, <1>2 DEF TypeOK
  <2>2. ltq_open_count' = [ltq_open_count EXCEPT ![pq[t]] = m - 1]  BY DEF EndCount
  <2> HIDE DEF m
  <2>3. m - 1 \in Int  BY <2>1, SMT
  <2> QED  BY <1>1, <2>2, <2>3 DEF TypeOK
<1>10. TypeOK'  BY <1>1, <1>2, <1>4, <1>6, <1>7, <1>9 DEF TypeOK, EndCount, Wakes, Labels
<1>11. ThreadOK(t)'
  BY <1>4 DEF ThreadOK, WithTask, HandlingPause, Pausing, HoldsQueue, HoldsPool
<1>12. EndingOK'  BY <1>4, <1>8, EndCounted
<1>13. ListsOK'  BY <1>2, ListsKept DEF IInv
<1>14. t # Closer /\ pc[t] # "resume"  BY <1>2, TPoolAssumption
<1>15. CloserOK'  BY <1>4, <1>8, <1>14, CloserKept DEF IInv
<1>16. HiddenOK'  BY <1>2, <1>8, <1>14, HiddenKept DEF IInv
<1>17. ASSUME setup.atomic PROVE ActiveOK' /\ IdleOK' /\ OpenOK'
  <2>1. ActiveOK /\ IdleOK /\ OpenOK  BY <1>17 DEF IInv, CountsOK
  <2>2. ~IsActive(t) /\ ~IsActive(t)'  BY <1>2, <1>4 DEF IsActive
  <2>3. ActiveOK'  BY <1>1, <1>2, <1>8, <2>1, <2>2, ActiveStill
  <2>4. \A q \in Queues : Spare(q)' = Spare(q)  BY <1>2 DEF Spare
  <2>5. pc[t] \notin HandlingPause /\ pc'[t] \notin HandlingPause
    BY <1>2, <1>4 DEF HandlingPause
  <2>6. IdleOK'  BY <1>1, <1>8, <2>1, <2>4, <2>5, IdleStill
  <2>7. ltq_open_count' = [ltq_open_count EXCEPT ![pq[t]] = ltq_open_count[pq[t]] - 1]
    BY <1>17 DEF EndCount
  <2>8. pc[t] # "none" /\ pq'[t] = pq[t]  BY <1>2
  <2>9. OpenOK'  BY <1>1, <1>4, <1>8, <2>1, <2>7, <2>8, OpenFewer
  <2> QED  BY <2>3, <2>6, <2>9
<1>18. CountsOK'  BY <1>8, <1>17 DEF CountsOK, OneMoves
<1> QED  BY <1>8, <1>10, <1>11, <1>12, <1>13, <1>15, <1>16, <1>18, Assembled

-----------------------------------------------------------------------------
(* Steps of handle_pause and pool_resume.                                  *)

(* ltq_pending_count goes up or down with an idle task.                    *)
LEMMA SpareMoves ==
  ASSUME TypeOK, NEW t \in Threads, ltq_pending_list' = ltq_pending_list
  PROVE  /\ ltq_pending_count'
              = [ltq_pending_count EXCEPT ![pq[t]] = ltq_pending_count[pq[t]] + 1]
            => \A q \in Queues : Spare(q)' = IF q = pq[t] THEN Spare(q) + 1 ELSE Spare(q)
         /\ ltq_pending_count'
              = [ltq_pending_count EXCEPT ![pq[t]] = ltq_pending_count[pq[t]] - 1]
            => \A q \in Queues : Spare(q)' = IF q = pq[t] THEN Spare(q) - 1 ELSE Spare(q)
<1>1. ASSUME NEW q \in Queues
      PROVE  /\ ltq_pending_count[q] \in Int /\ Len(ltq_pending_list[q]) \in Int
             /\ pq[t] \in Queues
  <2>1. ltq_pending_list[q] \in Seq(Tasks)  BY DEF TypeOK
  <2>2. Len(ltq_pending_list[q]) \in Int  BY <2>1, SMT
  <2> QED  BY <2>2 DEF TypeOK
<1>2. ASSUME NEW q \in Queues
      PROVE  /\ (ltq_pending_count[q] + 1) - Len(ltq_pending_list[q])
                  = (ltq_pending_count[q] - Len(ltq_pending_list[q])) + 1
             /\ (ltq_pending_count[q] - 1) - Len(ltq_pending_list[q])
                  = (ltq_pending_count[q] - Len(ltq_pending_list[q])) - 1
  BY <1>1, SMT
<1>3. ltq_pending_count \in [Queues -> Int]  BY DEF TypeOK
<1>4. ASSUME ltq_pending_count'
               = [ltq_pending_count EXCEPT ![pq[t]] = ltq_pending_count[pq[t]] + 1],
             NEW q \in Queues
      PROVE  Spare(q)' = IF q = pq[t] THEN Spare(q) + 1 ELSE Spare(q)
  <2>1. CASE q = pq[t]  BY <1>2, <1>3, <1>4, <2>1 DEF Spare
  <2>2. CASE q # pq[t]  BY <1>1, <1>3, <1>4, <2>2 DEF Spare
  <2> QED  BY <2>1, <2>2
<1>5. ASSUME ltq_pending_count'
               = [ltq_pending_count EXCEPT ![pq[t]] = ltq_pending_count[pq[t]] - 1],
             NEW q \in Queues
      PROVE  Spare(q)' = IF q = pq[t] THEN Spare(q) - 1 ELSE Spare(q)
  <2>1. CASE q = pq[t]  BY <1>2, <1>3, <1>5, <2>1 DEF Spare
  <2>2. CASE q # pq[t]  BY <1>1, <1>3, <1>5, <2>2 DEF Spare
  <2> QED  BY <2>1, <2>2
<1> QED  BY <1>4, <1>5

(* GO_IDLE: the thread moves from the active count to the pending one.     *)
LEMMA GoIdleStep ==
  ASSUME Counting, IInv, NEW t \in Threads, NEW S, Acts(t, S),
         NEW l \in {"idle", "wait_check", "wait_pause"}, GoIdle(t, l), setup' = setup,
         UNCHANGED <<ltp_mutex, ltp_pause, ltp_finishing, ltq_mutex, ltq_hidden,
                     ltq_pending_list, sizeVars, threadVars, closer, submitted, done>>
  PROVE  IInv'
<1> USE DEF sizeVars, threadVars
<1>1. TypeOK /\ ThreadsOK  BY DEF IInv
<1>2. pc[t] = "run" /\ pq[t] \in Queues /\ acted' = acted \cup {task[t]}
  BY <1>1 DEF Acts, TypeOK
<1>3. l \in Labels /\ l # "wait_sole"  BY DEF Labels, HandlingPause
<1>4. Wakes(pc, pc', t) /\ pc'[t] = l /\ ltp_active_queues' \in Int
  <2>1. CASE LeaveActive([pc EXCEPT ![t] = l])  BY <1>1, <1>3, <2>1, LeaveMoves
  <2>2. CASE Goto(t, l) /\ UNCHANGED ltp_active_queues
    BY <1>1, <1>3, <2>2, GotoMoves DEF Goto, TypeOK
  <2> QED  BY <2>1, <2>2 DEF GoIdle
<1>5. OneMoves(t)  BY <1>4 DEF OneMoves
<1>6. /\ ltq_pending_count'
           = [ltq_pending_count EXCEPT ![pq[t]] = ltq_pending_count[pq[t]] + 1]
      /\ ltq_active_count'
           = [ltq_active_count EXCEPT ![pq[t]] = ltq_active_count[pq[t]] - 1]
  BY DEF GoIdle
<1>7. ltq_pending_count' \in [Queues -> Int] /\ ltq_active_count' \in [Queues -> Int]
  BY <1>1, <1>2, <1>6, Recounted DEF TypeOK
<1>8. task[t] \in submitted  BY <1>1, <1>2 DEF ThreadsOK, ThreadOK, WithTask
<1>9. acted' \subseteq submitted'  BY <1>1, <1>2, <1>8 DEF TypeOK
<1>10. TypeOK'  BY <1>1, <1>4, <1>7, <1>9 DEF TypeOK, Wakes, Labels
<1>11. ThreadOK(t)'  BY <1>4, <1>8 DEF ThreadOK, HoldsQueue, HoldsPool
<1>12. pc'[t] \notin EndsInQueue /\ pc'[t] \notin EndsInPool
  BY <1>4 DEF EndsInQueue, EndsInPool
<1>13. pc[t] # "resume"  BY <1>2
<1>14. CloserOK' /\ HiddenOK' /\ EndingOK'  BY <1>5, <1>10, <1>12, <1>13, RestKept
<1>15. ListsOK'  BY ListsKept DEF IInv
<1>16. ASSUME setup.atomic PROVE ActiveOK' /\ IdleOK' /\ OpenOK'
  <2>1. ActiveOK /\ IdleOK /\ OpenOK  BY <1>16 DEF IInv, CountsOK
  <2>2. IsActive(t) /\ ~IsActive(t)' /\ pq'[t] = pq[t]  BY <1>2, <1>4 DEF IsActive
  <2>3. ActiveOK'  BY <1>1, <1>5, <1>6, <2>1, <2>2, ActiveFewer
  <2>4. pc[t] \notin HandlingPause /\ pc'[t] \in HandlingPause
    BY <1>2, <1>4 DEF HandlingPause
  <2>5. \A q \in Queues : Spare(q)' = IF q = pq[t] THEN Spare(q) + 1 ELSE Spare(q)
    BY <1>1, <1>6, SpareMoves
  <2>6. IdleOK'  BY <1>1, <1>5, <2>1, <2>2, <2>4, <2>5, IdleMore
  <2>7. pc[t] # "none" /\ pc'[t] # "none"  BY <1>2, <1>4
  <2>8. OpenOK'  BY <1>1, <1>5, <2>1, <2>2, <2>7, OpenStill
  <2> QED  BY <2>3, <2>6, <2>8
<1>17. CountsOK'  BY <1>16 DEF CountsOK
<1> QED  BY <1>5, <1>10, <1>11, <1>14, <1>15, <1>17, Assembled

(* GO_UNIDLE: and back.                                                    *)
LEMMA GoUnidleCounts ==
  ASSUME Counting, IInv, NEW t \in Threads, OneMoves(t), GoUnidle(t), pq' = pq,
         pc[t] \in HandlingPause, pc'[t] \notin HandlingPause, pc'[t] # "none", IsActive(t)',
         ltq_pending_list' = ltq_pending_list, ltq_open_count' = ltq_open_count
  PROVE  /\ CountsOK'
         /\ ltq_pending_count' \in [Queues -> Int] /\ ltq_active_count' \in [Queues -> Int]
<1>1. TypeOK /\ ThreadsOK /\ pq[t] \in Queues  BY DEF IInv, TypeOK
<1>2. /\ ltq_pending_count'
           = [ltq_pending_count EXCEPT ![pq[t]] = ltq_pending_count[pq[t]] - 1]
      /\ ltq_active_count'
           = [ltq_active_count EXCEPT ![pq[t]] = ltq_active_count[pq[t]] + 1]
  BY DEF GoUnidle
<1>3. ltq_pending_count' \in [Queues -> Int] /\ ltq_active_count' \in [Queues -> Int]
  BY <1>1, <1>2, Recounted DEF TypeOK
<1>4. ASSUME setup.atomic PROVE ActiveOK' /\ IdleOK' /\ OpenOK'
  <2>1. ActiveOK /\ IdleOK /\ OpenOK  BY <1>4 DEF IInv, CountsOK
  <2>2. ~IsActive(t) /\ pc[t] # "none" /\ pq'[t] = pq[t]  BY DEF IsActive, HandlingPause
  <2>3. ActiveOK'  BY <1>1, <1>2, <2>1, <2>2, ActiveMore
  <2>4. \A q \in Queues : Spare(q)' = IF q = pq[t] THEN Spare(q) - 1 ELSE Spare(q)
    BY <1>1, <1>2, SpareMoves
  <2>5. IdleOK'  BY <1>1, <2>1, <2>2, <2>4, IdleFewer
  <2>6. OpenOK'  BY <1>1, <2>1, <2>2, OpenStill
  <2> QED  BY <2>3, <2>5, <2>6
<1>5. CountsOK'  BY <1>4 DEF CountsOK, OneMoves
<1> QED  BY <1>3, <1>5

(* GO_UNIDLE: the task is counted as active again.                         *)
LEMMA GoUnidleStep ==
  ASSUME Counting, IInv, NEW t \in Threads, pc[t] \in {"idle", "woken_unidle", "woken_check"},
         Goto(t, "run"), GoUnidle(t), setup' = setup,
         UNCHANGED <<poolVars, ltq_mutex, ltq_hidden, ltq_pending_list, sizeVars, threadVars,
                     closer, taskVars>>
  PROVE  IInv'
<1> USE DEF poolVars, sizeVars, threadVars, taskVars
<1>1. TypeOK /\ ThreadsOK  BY DEF IInv
<1>2. "run" \in Labels  BY DEF Labels, WorkerLoop
<1>3. Wakes(pc, pc', t) /\ pc'[t] = "run"  BY <1>1, <1>2, GotoMoves DEF Goto
<1>4. OneMoves(t)  BY <1>3 DEF OneMoves
<1>5. /\ pc[t] \in HandlingPause /\ pc'[t] \notin HandlingPause /\ pc'[t] # "none"
      /\ IsActive(t)' /\ pc[t] # "resume" /\ pc'[t] \notin EndsInQueue
      /\ pc'[t] \notin EndsInPool
  BY <1>3 DEF HandlingPause, IsActive, EndsInQueue, EndsInPool
<1>6. /\ CountsOK'
      /\ ltq_pending_count' \in [Queues -> Int] /\ ltq_active_count' \in [Queues -> Int]
  BY <1>4, <1>5, GoUnidleCounts
<1>7. TypeOK'  BY <1>1, <1>3, <1>6 DEF TypeOK, Wakes, Labels
<1>8. task[t] \in submitted  BY <1>1, <1>5 DEF ThreadsOK, ThreadOK, WithTask
<1>9. ThreadOK(t)'  BY <1>3, <1>8 DEF ThreadOK, HoldsQueue, HoldsPool
<1>10. CloserOK' /\ HiddenOK' /\ EndingOK'  BY <1>4, <1>5, <1>7, RestKept
<1>11. ListsOK'  BY ListsKept DEF IInv
<1> QED  BY <1>4, <1>6, <1>7, <1>9, <1>10, <1>11, Assembled

(* A task that was woken in handle_pause waits on.                         *)
LEMMA WaitsOn ==
  ASSUME Counting, IInv, NEW t \in Threads,
         pc[t] \in {"idle", "woken_unidle", "woken_check", "woken_pause"},
         NEW l \in {"wait_unidle", "wait_check", "wait_pause"}, Goto(t, l), setup' = setup,
         UNCHANGED <<poolVars, ltq_mutex, listVars, ltq_active_count, sizeVars, threadVars,
                     closer, taskVars>>
  PROVE  IInv'
<1> USE DEF poolVars, listVars, sizeVars, threadVars, taskVars
<1>1. TypeOK /\ ThreadsOK  BY DEF IInv
<1>2. l \in Labels  BY DEF Labels, HandlingPause
<1>3. Wakes(pc, pc', t) /\ pc'[t] = l  BY <1>1, <1>2, GotoMoves DEF Goto
<1>4. OneMoves(t)  BY <1>3 DEF OneMoves
<1>5. TypeOK'  BY <1>1, <1>3 DEF TypeOK, Wakes, Labels
<1>6. pc[t] \in HandlingPause  BY DEF HandlingPause
<1>7. task[t] \in submitted  BY <1>1, <1>6 DEF ThreadsOK, ThreadOK, WithTask
<1>8. ThreadOK(t)'  BY <1>3, <1>7 DEF ThreadOK, HoldsQueue, HoldsPool
<1>9. CountedAlike(t)  BY <1>3 DEF CountedAlike, IsActive, HandlingPause
<1>10. /\ pc'[t] \notin EndsInQueue /\ pc'[t] \notin EndsInPool /\ pc[t] # "resume"
       /\ pq'[t] = pq[t]
  BY <1>3 DEF EndsInQueue, EndsInPool
<1> QED  BY <1>4, <1>5, <1>8, <1>9, <1>10, QuietStep

(* pool_idle.                                                              *)
LEMMA IdleCallStep ==
  ASSUME Counting, IInv, NEW t \in Threads, ldap_pvt_thread_pool_idle(t), setup' = setup
  PROVE  IInv'
BY GoIdleStep DEF ldap_pvt_thread_pool_idle

(* pool_unidle.                                                            *)
LEMMA UnidleCallStep ==
  ASSUME Counting, IInv, NEW t \in Threads, ldap_pvt_thread_pool_unidle(t), setup' = setup
  PROVE  IInv'
<1>1. CASE Goto(t, "wait_unidle") /\ UNCHANGED <<ltq_pending_count, ltq_active_count>>
  BY <1>1, WaitsOn DEF ldap_pvt_thread_pool_unidle, listVars
<1>2. CASE Goto(t, "run") /\ GoUnidle(t)
  BY <1>2, GoUnidleStep DEF ldap_pvt_thread_pool_unidle
<1> QED  BY <1>1, <1>2 DEF ldap_pvt_thread_pool_unidle

(* pool_pausecheck.                                                        *)
LEMMA PausecheckStep ==
  ASSUME Counting, IInv, NEW t \in Threads, ldap_pvt_thread_pool_pausecheck(t), setup' = setup
  PROVE  IInv'
<1>1. UNCHANGED <<ltp_mutex, ltp_pause, ltp_finishing, ltq_mutex, ltq_hidden, ltq_pending_list,
                  sizeVars, threadVars, closer, submitted, done>>
  BY DEF ldap_pvt_thread_pool_pausecheck
<1>2. CASE Acts(t, setup.checkers) /\ GoIdle(t, "wait_check")
  BY <1>1, <1>2, GoIdleStep
<1>3. CASE /\ pc[t] = "woken_check" /\ Goto(t, "wait_check")
           /\ UNCHANGED <<ltq_pending_count, ltq_active_count>>
           /\ UNCHANGED <<ltp_active_queues, acted>>
  BY <1>1, <1>3, WaitsOn DEF listVars, poolVars, taskVars
<1>4. CASE /\ pc[t] = "woken_check" /\ Goto(t, "run") /\ GoUnidle(t)
           /\ UNCHANGED <<ltp_active_queues, acted>>
  BY <1>1, <1>4, GoUnidleStep DEF poolVars, taskVars
<1> QED  BY <1>2, <1>3, <1>4 DEF ldap_pvt_thread_pool_pausecheck

(* Nothing is hidden when no pause is on and nobody shows the lists.       *)
LEMMA NothingHidden ==
  ASSUME Counting, IInv, ltp_pause = NOT_PAUSED, PoolFree, NEW q \in Queues
  PROVE  ltq_hidden[q] = FALSE
<1>1. ASSUME NEW u \in Threads PROVE pc[u] # "resume"
  <2>1. u # Nobody  BY TPoolAssumption
  <2> QED  BY <2>1 DEF IInv, ThreadsOK, ThreadOK, HoldsPool, PoolFree
<1>2. ~ltq_hidden[q]  BY <1>1 DEF IInv, HiddenOK
<1> QED  BY <1>2 DEF IInv, TypeOK

(* A pause is requested: the task keeps ltp_mutex and is still active.     *)
LEMMA WantPauseStep ==
  ASSUME Counting, IInv, NEW t \in Threads, PoolFree, WantPause(t), setup' = setup,
         \/ pc[t] = "run" /\ UNCHANGED <<ltq_pending_count, ltq_active_count>>
         \/ pc[t] = "woken_pause" /\ GoUnidle(t),
         acted' = acted \/ acted' = acted \cup {task[t]},
         UNCHANGED <<ltp_finishing, ltq_mutex, ltq_hidden, ltq_pending_list, sizeVars, pq, task,
                     thread_keys, closer, submitted, done>>
  PROVE  IInv'
<1> USE DEF sizeVars
<1>1. TypeOK /\ ThreadsOK /\ pq[t] \in Queues  BY DEF IInv, TypeOK
<1>2. "scan" \in Labels  BY DEF Labels, Pausing
<1>3. Wakes(pc, pc', t) /\ pc'[t] = "scan"  BY <1>1, <1>2, GotoMoves DEF WantPause, Goto
<1>4. /\ ltp_pause = NOT_PAUSED /\ ltp_pause' = WANT_PAUSE /\ ltp_mutex' = t
      /\ ltp_active_queues' = 0
  BY DEF WantPause
<1>5. ltp_pause' # NOT_PAUSED  BY <1>4, SMT DEF NOT_PAUSED, WANT_PAUSE
<1>6. ltq_hidden'[pq[t]] = FALSE  BY <1>1, <1>4, NothingHidden
<1>7. tmp' = [tmp EXCEPT ![t] = pq[t]]  BY DEF WantPause
<1>8. pq[t] \in Int  BY <1>1, TPoolAssumption, SMT DEF Queues
<1>9. /\ tmp' \in [Threads -> Int] /\ tmp'[t] = pq[t]
      /\ \A u \in Threads : u # t => tmp'[u] = tmp[u]
  BY <1>1, <1>7, <1>8 DEF TypeOK
<1>10. OneMoves(t)  BY <1>3, <1>9 DEF OneMoves, PoolFree
<1>11. task[t] \in submitted
  BY <1>1 DEF ThreadsOK, ThreadOK, WithTask, HandlingPause
<1>12. acted' \subseteq submitted'  BY <1>1, <1>11 DEF TypeOK
<1>13. IsActive(t)'  BY <1>3, <1>6 DEF IsActive
<1>14. /\ pc'[t] \notin EndsInQueue /\ pc'[t] \notin EndsInPool /\ pc[t] # "resume"
       /\ pc'[t] \notin HandlingPause /\ pc'[t] # "none"
  BY <1>3 DEF EndsInQueue, EndsInPool, HandlingPause
<1>15. /\ CountsOK'
       /\ ltq_pending_count' \in [Queues -> Int] /\ ltq_active_count' \in [Queues -> Int]
  <2>1. CASE pc[t] = "woken_pause" /\ GoUnidle(t)
    <3>1. pc[t] \in HandlingPause  BY <2>1 DEF HandlingPause
    <3> QED  BY <1>10, <1>13, <1>14, <2>1, <3>1, GoUnidleCounts
  <2>2. CASE pc[t] = "run" /\ UNCHANGED <<ltq_pending_count, ltq_active_count>>
    <3>1. pc[t] \notin HandlingPause /\ IsActive(t) /\ pc[t] # "none"
      BY <2>2 DEF HandlingPause, IsActive
    <3>2. CountedAlike(t)  BY <1>13, <1>14, <3>1 DEF CountedAlike
    <3>3. CountsOK'  BY <1>10, <2>2, <3>2, CountsKept
    <3> QED  BY <1>1, <2>2, <3>3 DEF TypeOK
  <2> QED  BY <2>1, <2>2
<1>16. TypeOK'
  BY <1>1, <1>3, <1>4, <1>9, <1>12, <1>15, SmallInts DEF TypeOK, Wakes, Labels
<1>17. ThreadOK(t)'  BY <1>1, <1>3, <1>4, <1>5, <1>6, <1>9, <1>11 DEF ThreadOK, HoldsQueue
<1>18. CloserOK' /\ HiddenOK' /\ EndingOK'  BY <1>5, <1>10, <1>14, <1>16, RestKept
<1>19. ListsOK'  BY ListsKept DEF IInv
<1> QED  BY <1>10, <1>15, <1>16, <1>17, <1>18, <1>19, Assembled

(* pool_pause, up to the request.                                          *)
LEMMA PauseCallStep ==
  ASSUME Counting, IInv, NEW t \in Threads, ldap_pvt_thread_pool_pause(t), setup' = setup
  PROVE  IInv'
<1>1. UNCHANGED <<ltp_finishing, ltq_mutex, ltq_hidden, ltq_pending_list, sizeVars, pq, task,
                  thread_keys, closer, submitted, done>>
  BY DEF ldap_pvt_thread_pool_pause
<1>2. CASE /\ Acts(t, setup.pausers) /\ WantPause(t)
           /\ UNCHANGED <<ltq_pending_count, ltq_active_count>>
  <2>1. pc[t] = "run" /\ PoolFree /\ acted' = acted \cup {task[t]}  BY <1>2 DEF Acts
  <2> QED  BY <1>1, <1>2, <2>1, WantPauseStep
<1>3. CASE /\ Acts(t, setup.pausers) /\ GoIdle(t, "wait_pause")
           /\ UNCHANGED <<ltp_mutex, ltp_pause, tmp>>
  BY <1>1, <1>3, GoIdleStep DEF threadVars
<1>4. CASE /\ pc[t] = "woken_pause" /\ PoolFree /\ WantPause(t) /\ GoUnidle(t)
           /\ UNCHANGED acted
  BY <1>1, <1>4, WantPauseStep
<1>5. CASE /\ pc[t] = "woken_pause" /\ Goto(t, "wait_pause")
           /\ UNCHANGED <<ltp_mutex, ltp_pause, ltp_active_queues, tmp, ltq_pending_count,
                          ltq_active_count>>
           /\ UNCHANGED acted
  BY <1>1, <1>5, WaitsOn DEF poolVars, listVars, threadVars, taskVars
<1> QED  BY <1>2, <1>3, <1>4, <1>5 DEF ldap_pvt_thread_pool_pause

(* The next queue of the scan; a queue is a number.                        *)
LEMMA QueueNumbers ==
  ASSUME NEW q \in Queues
  PROVE  NextQueue(q) \in Queues /\ q \in Int /\ NextQueue(q) \in Int /\ q + 1 \in Nat \ {0}
         /\ q + 1 \in Int /\ 1 <= q /\ q <= NumQs
BY TPoolAssumption, SMT DEF NextQueue, Queues

(* One queue is scanned: the task leaves the active count of its own one.  *)
LEMMA ScanStep ==
  ASSUME Counting, IInv, NEW t \in Threads, Scan(t), setup' = setup
  PROVE  IInv'
<1> USE DEF sizeVars, taskVars
<1>1. TypeOK /\ ThreadsOK /\ pq[t] \in Queues  BY DEF IInv, TypeOK
<1>2. pc[t] = "scan" /\ pq'[t] = pq[t]  BY DEF Scan
<1>3. /\ ltp_mutex = t /\ tmp[t] \in Queues /\ ltp_pause # NOT_PAUSED
      /\ (tmp[t] = pq[t] <=> ~ltq_hidden[pq[t]]) /\ task[t] \in submitted
  BY <1>1, <1>2 DEF ThreadsOK, ThreadOK, HoldsPool, WithTask, Pausing
<1>4. "scan" \in Labels /\ "scanned" \in Labels  BY DEF Labels, Pausing
<1>5. /\ Wakes(pc, pc', t)
      /\ \/ NextQueue(tmp[t]) = pq[t] /\ pc'[t] = "scanned"
         \/ NextQueue(tmp[t]) # pq[t] /\ pc'[t] = "scan"
  BY <1>1, <1>4, GotoMoves DEF Scan, Goto
<1>6. NextQueue(tmp[t]) \in Queues /\ NextQueue(tmp[t]) \in Int  BY <1>3, QueueNumbers
<1>7. tmp' = [tmp EXCEPT ![t] = NextQueue(tmp[t])]  BY DEF Scan
<1>8. /\ tmp' \in [Threads -> Int] /\ tmp'[t] = NextQueue(tmp[t])
      /\ \A u \in Threads : u # t => tmp'[u] = tmp[u]
  BY <1>1, <1>6, <1>7 DEF TypeOK
<1>9. OneMoves(t)  BY <1>3, <1>5, <1>8 DEF OneMoves, Scan
<1>10. ltq_hidden' = [ltq_hidden EXCEPT ![tmp[t]] = TRUE]  BY DEF Scan
<1>11. ltq_hidden' \in [Queues -> BOOLEAN] /\ ltq_hidden'[pq[t]] = TRUE
  BY <1>1, <1>3, <1>10 DEF TypeOK
<1>12. /\ tmp[t] = pq[t] =>
            ltq_active_count'
              = [ltq_active_count EXCEPT ![pq[t]] = ltq_active_count[pq[t]] - 1]
       /\ tmp[t] # pq[t] => ltq_active_count' = ltq_active_count
  BY <1>1 DEF Scan, TypeOK
<1>13. ltq_active_count' \in [Queues -> Int]
  <2>1. ltq_active_count \in [Queues -> Int]  BY <1>1 DEF TypeOK
  <2>2. CASE tmp[t] = pq[t]
    <3>1. [ltq_active_count EXCEPT ![pq[t]] = ltq_active_count[pq[t]] - 1] \in [Queues -> Int]
      BY <1>1, <2>1, Recounted
    <3> QED  BY <1>12, <2>2, <3>1
  <2>3. CASE tmp[t] # pq[t]  BY <1>12, <2>1, <2>3
  <2> QED  BY <2>2, <2>3
<1>14. ltp_active_queues' \in Int
  <2>1. ltp_active_queues \in Int  BY <1>1 DEF TypeOK
  <2>2. ltp_active_queues' = ltp_active_queues + 1 \/ ltp_active_queues' = ltp_active_queues
    BY DEF Scan
  <2> QED  BY <2>1, <2>2, SMTT(60)
<1>15. TypeOK'
  BY <1>1, <1>5, <1>8, <1>11, <1>13, <1>14 DEF TypeOK, Scan, Wakes, Labels
<1>16. ThreadOK(t)'
  <2>1. ltp_mutex' = t /\ task'[t] \in submitted' /\ ltp_pause' # NOT_PAUSED
    BY <1>3 DEF Scan
  <2> QED  BY <1>2, <1>5, <1>6, <1>8, <1>11, <2>1 DEF ThreadOK, HoldsQueue
<1>17. HiddenOK'  BY <1>3 DEF HiddenOK, Scan
<1>18. /\ pc'[t] \notin EndsInQueue /\ pc'[t] \notin EndsInPool
       /\ pc'[t] \notin HandlingPause /\ pc'[t] # "none"
       /\ pc[t] \notin HandlingPause /\ pc[t] # "none"
  BY <1>2, <1>5 DEF EndsInQueue, EndsInPool, HandlingPause
<1>19. \A q \in Queues : ltq_open_count'[q] >= ltq_open_count[q]
  <2>1. ltq_open_count' = ltq_open_count  BY DEF Scan
  <2>2. ltq_open_count \in [Queues -> Int]  BY <1>1 DEF TypeOK
  <2> QED  BY <2>1, <2>2, SMT
<1>20. EndingOK'  BY <1>9, <1>15, <1>18, <1>19, EndingKept DEF IInv, Scan
<1>21. t # Closer  BY TPoolAssumption
<1>22. CloserOK'  BY <1>9, <1>21, CloserKept DEF IInv, Scan
<1>23. ListsOK'  BY ListsKept DEF IInv, Scan
<1>24. ASSUME setup.atomic PROVE ActiveOK' /\ IdleOK' /\ OpenOK'
  <2>1. ActiveOK /\ IdleOK /\ OpenOK  BY <1>24 DEF IInv, CountsOK
  <2>2. ~IsActive(t)'  BY <1>2, <1>5, <1>11 DEF IsActive
  <2>3. IsActive(t) <=> tmp[t] = pq[t]  BY <1>2, <1>3 DEF IsActive
  <2>4. ActiveOK'
    <3>1. CASE tmp[t] = pq[t]
      BY <1>1, <1>2, <1>9, <1>12, <2>1, <2>2, <2>3, <3>1, ActiveFewer
    <3>2. CASE tmp[t] # pq[t]
      BY <1>1, <1>9, <1>12, <2>1, <2>2, <2>3, <3>2, ActiveStill
    <3> QED  BY <3>1, <3>2
  <2>5. \A q \in Queues : Spare(q)' = Spare(q)  BY DEF Spare, Scan
  <2>6. IdleOK'  BY <1>1, <1>9, <1>18, <2>1, <2>5, IdleStill
  <2>7. OpenOK'  BY <1>1, <1>2, <1>9, <1>18, <2>1, OpenStill DEF Scan
  <2> QED  BY <2>4, <2>6, <2>7
<1>25. CountsOK'  BY <1>24 DEF CountsOK
<1> QED  BY <1>9, <1>15, <1>16, <1>17, <1>20, <1>22, <1>23, <1>25, Assembled

(* The task waits to be the only one, or goes on with ltp_mutex.           *)
LEMMA AwaitSoleStep ==
  ASSUME Counting, IInv, NEW t \in Threads, AwaitSole(t), setup' = setup
  PROVE  IInv'
<1> USE DEF listVars, sizeVars, taskVars
<1>1. TypeOK /\ ThreadsOK /\ pq[t] \in Queues  BY DEF IInv, TypeOK
<1>2. pc[t] \in {"scanned", "woken_sole"} /\ pq'[t] = pq[t]  BY DEF AwaitSole
<1>3. ltp_mutex = t \/ ltp_mutex = Nobody
  BY <1>1, <1>2 DEF AwaitSole, ThreadsOK, ThreadOK, HoldsPool, PoolFree
<1>4. task[t] \in submitted  BY <1>1, <1>2 DEF ThreadsOK, ThreadOK, WithTask, Pausing
<1>5. "wait_sole" \in Labels /\ "sole" \in Labels  BY DEF Labels, Pausing
<1>6. /\ Wakes(pc, pc', t)
      /\ \/ pc'[t] = "wait_sole" /\ ltp_mutex' = Nobody
         \/ pc'[t] = "sole" /\ ltp_mutex' = t
  <2>1. CASE ltp_active_queues > 0  BY <1>1, <1>5, <2>1, GotoMoves DEF AwaitSole, Goto
  <2>2. CASE ~(ltp_active_queues > 0)  BY <1>1, <1>5, <2>2, GotoMoves DEF AwaitSole, Goto
  <2> QED  BY <2>1, <2>2
<1>7. tmp' = tmp \/ tmp' = [tmp EXCEPT ![t] = ltq_active_count[pq[t]]]  BY DEF AwaitSole
<1>8. tmp' \in [Threads -> Int] /\ \A u \in Threads : u # t => tmp'[u] = tmp[u]
  BY <1>1, <1>7 DEF TypeOK
<1>9. OneMoves(t)  BY <1>3, <1>6, <1>8 DEF OneMoves, AwaitSole
<1>10. TypeOK'  BY <1>1, <1>6, <1>8 DEF TypeOK, AwaitSole, Wakes, Labels
<1>11. ThreadOK(t)'  BY <1>4, <1>6 DEF ThreadOK, HoldsQueue, HoldsPool, AwaitSole
<1>12. CountedAlike(t)  BY <1>2, <1>6 DEF CountedAlike, IsActive, HandlingPause
<1>13. pc'[t] \notin EndsInQueue /\ pc'[t] \notin EndsInPool /\ pc[t] # "resume"
  BY <1>2, <1>6 DEF EndsInQueue, EndsInPool
<1> QED  BY <1>2, <1>9, <1>10, <1>11, <1>12, <1>13, QuietStep DEF AwaitSole

(* The pause is established and the task counted again.                    *)
LEMMA PausedStep ==
  ASSUME Counting, IInv, NEW t \in Threads, Paused(t), setup' = setup
  PROVE  IInv'
<1> USE DEF listVars, sizeVars, taskVars
<1>1. TypeOK /\ ThreadsOK /\ pq[t] \in Queues  BY DEF IInv, TypeOK
<1>2. pc[t] = "sole" /\ pq'[t] = pq[t] /\ ltp_pause' = PAUSED /\ ltp_mutex' = Nobody
  BY DEF Paused
<1>3. ltp_mutex = t /\ task[t] \in submitted
  BY <1>1, <1>2 DEF ThreadsOK, ThreadOK, HoldsPool, WithTask, Pausing
<1>4. "paused" \in Labels  BY DEF Labels, Pausing
<1>5. Wakes(pc, pc', t) /\ pc'[t] = "paused"  BY <1>1, <1>4, GotoMoves DEF Paused, Goto
<1>6. tmp' \in [Threads -> Int] /\ \A u \in Threads : u # t => tmp'[u] = tmp[u]
  BY <1>1, SmallInts DEF Paused, TypeOK
<1>7. OneMoves(t)  BY <1>3, <1>5, <1>6 DEF OneMoves, Paused
<1>8. ltq_active_count' \in [Queues -> Int]
  <2> DEFINE m == (IF setup.atomic THEN ltq_active_count[pq[t]] ELSE tmp[t])
  <2>1. m \in Int  BY <1>1 DEF TypeOK
  <2>2. ltq_active_count' = [ltq_active_count EXCEPT ![pq[t]] = m + 1]  BY DEF Paused
  <2> HIDE DEF m
  <2>3. m + 1 \in Int  BY <2>1, SMT
  <2> QED  BY <1>1, <2>2, <2>3 DEF TypeOK
<1>9. TypeOK'  BY <1>1, <1>2, <1>5, <1>6, <1>8 DEF TypeOK, Paused, Wakes, Labels
<1>10. ThreadOK(t)'  BY <1>3, <1>5 DEF ThreadOK, HoldsQueue, HoldsPool, Paused
<1>11. ltp_pause' # NOT_PAUSED  BY <1>2, SMT DEF NOT_PAUSED, PAUSED
<1>12. /\ pc'[t] \notin EndsInQueue /\ pc'[t] \notin EndsInPool /\ pc[t] # "resume"
       /\ pc[t] \notin HandlingPause /\ pc'[t] \notin HandlingPause
       /\ pc[t] # "none" /\ pc'[t] # "none"
  BY <1>2, <1>5 DEF EndsInQueue, EndsInPool, HandlingPause
<1>13. CloserOK' /\ HiddenOK' /\ EndingOK'
  BY <1>7, <1>9, <1>11, <1>12, RestKept DEF Paused
<1>14. ListsOK'  BY ListsKept DEF IInv, Paused
<1>15. ASSUME setup.atomic PROVE ActiveOK' /\ IdleOK' /\ OpenOK'
  <2>1. ActiveOK /\ IdleOK /\ OpenOK  BY <1>15 DEF IInv, CountsOK
  <2>2. ~IsActive(t) /\ IsActive(t)'  BY <1>2, <1>5 DEF IsActive
  <2>3. ltq_active_count' = [ltq_active_count EXCEPT ![pq[t]] = ltq_active_count[pq[t]] + 1]
    BY <1>15 DEF Paused
  <2>4. ActiveOK'  BY <1>1, <1>2, <1>7, <2>1, <2>2, <2>3, ActiveMore
  <2>5. \A q \in Queues : Spare(q)' = Spare(q)  BY DEF Spare, Paused
  <2>6. IdleOK'  BY <1>1, <1>7, <1>12, <2>1, <2>5, IdleStill
  <2>7. OpenOK'  BY <1>1, <1>2, <1>7, <1>12, <2>1, OpenStill DEF Paused
  <2> QED  BY <2>4, <2>6, <2>7
<1>16. CountsOK'  BY <1>15 DEF CountsOK
<1> QED  BY <1>7, <1>9, <1>10, <1>13, <1>14, <1>16, Assembled

(* pool_resume: the lists stay hidden until the resume comes to them.      *)
LEMMA ResumeStep ==
  ASSUME Counting, IInv, NEW t \in Threads, ldap_pvt_thread_pool_resume(t), setup' = setup
  PROVE  IInv'
<1> USE DEF listVars, sizeVars, taskVars
<1>1. TypeOK /\ ThreadsOK /\ pq[t] \in Queues  BY DEF IInv, TypeOK
<1>2. /\ pc[t] = "paused" /\ pq'[t] = pq[t] /\ ltp_pause' = NOT_PAUSED /\ ltp_mutex' = t
      /\ ltp_mutex = Nobody
  BY DEF ldap_pvt_thread_pool_resume, PoolFree
<1>3. task[t] \in submitted  BY <1>1, <1>2 DEF ThreadsOK, ThreadOK, WithTask, Pausing
<1>4. "resume" \in Labels  BY DEF Labels, Pausing
<1>5. Wakes(pc, pc', t) /\ pc'[t] = "resume"
  BY <1>1, <1>4, GotoMoves DEF ldap_pvt_thread_pool_resume, Goto
<1>6. /\ tmp' \in [Threads -> Int] /\ tmp'[t] = 1
      /\ \A u \in Threads : u # t => tmp'[u] = tmp[u]
  BY <1>1, SmallInts DEF ldap_pvt_thread_pool_resume, TypeOK
<1>7. OneMoves(t)  BY <1>2, <1>5, <1>6 DEF OneMoves, ldap_pvt_thread_pool_resume
<1>8. TypeOK'
  BY <1>1, <1>2, <1>5, <1>6 DEF TypeOK, ldap_pvt_thread_pool_resume, Wakes, Labels
<1>9. ThreadOK(t)'
  <2>1. tmp'[t] \in Nat \ {0}  BY <1>6, SMT
  <2> QED  BY <1>2, <1>3, <1>5, <2>1 DEF ThreadOK, HoldsQueue, ldap_pvt_thread_pool_resume
<1>10. HiddenOK'
  <2>1. \A q \in Queues : tmp'[t] <= q  BY <1>6, QueueNumbers
  <2> QED  BY <1>5, <2>1 DEF HiddenOK
<1>11. pc'[t] \notin EndsInQueue /\ pc'[t] \notin EndsInPool
  BY <1>5 DEF EndsInQueue, EndsInPool
<1>12. \A q \in Queues : ltq_open_count'[q] >= ltq_open_count[q]
  <2>1. ltq_open_count' = ltq_open_count  BY DEF ldap_pvt_thread_pool_resume
  <2>2. ltq_open_count \in [Queues -> Int]  BY <1>1 DEF TypeOK
  <2> QED  BY <2>1, <2>2, SMT
<1>13. EndingOK'
  BY <1>7, <1>8, <1>11, <1>12, EndingKept DEF IInv, ldap_pvt_thread_pool_resume
<1>14. t # Closer  BY TPoolAssumption
<1>15. CloserOK'  BY <1>7, <1>14, CloserKept DEF IInv, ldap_pvt_thread_pool_resume
<1>16. ListsOK'  BY ListsKept DEF IInv, ldap_pvt_thread_pool_resume
<1>17. CountedAlike(t)  BY <1>2, <1>5 DEF CountedAlike, IsActive, HandlingPause
<1>18. CountsOK'  BY <1>2, <1>7, <1>17, CountsKept DEF ldap_pvt_thread_pool_resume
<1> QED  BY <1>7, <1>8, <1>9, <1>10, <1>13, <1>15, <1>16, <1>18, Assembled

(* Only the thread that shows the lists is in pool_resume.                 *)
LEMMA OneResumes ==
  ASSUME Counting, IInv, NEW t \in Threads, pc[t] = "resume", NEW u \in Threads, pc[u] = "resume"
  PROVE  u = t
BY DEF IInv, ThreadsOK, ThreadOK, HoldsPool

(* The resume shows a list and wakes the workers of the queue.             *)
LEMMA ShowStep ==
  ASSUME Counting, IInv, NEW t \in Threads, Show(t), setup' = setup
  PROVE  IInv'
<1> USE DEF poolVars, sizeVars, taskVars
<1>1. TypeOK /\ ThreadsOK /\ pq[t] \in Queues  BY DEF IInv, TypeOK
<1>2. pc[t] = "resume" /\ pq'[t] = pq[t] /\ tmp[t] <= NumQs  BY DEF Show
<1>3. ltp_mutex = t /\ task[t] \in submitted /\ tmp[t] \in Nat \ {0}
  BY <1>1, <1>2 DEF ThreadsOK, ThreadOK, HoldsPool, WithTask, Pausing
<1>4. tmp[t] \in Queues  BY <1>2, <1>3, TPoolAssumption, SMTT(60) DEF Queues
<1>5. pc \in [Threads -> Labels]  BY <1>1 DEF TypeOK, Labels
<1>6. pc' = WakeQueue(tmp[t], pc)  BY DEF Show
<1>7. Wakes(pc, pc', t) /\ pc'[t] = "resume"
  <2>1. Wakes(pc, pc', t)  BY <1>5, <1>6, QueueWakes
  <2>2. pc'[t] = "resume"  BY <1>2, <1>6 DEF WakeQueue
  <2> QED  BY <2>1, <2>2
<1>8. /\ closer' \in [at : {"no", "lock", "sleep", "wait", "woken", "closed"}, q : Queues]
      /\ closer' = closer \/ closer'.at # "sleep"
  <2>1. closer \in [at : {"no", "lock", "sleep", "wait", "woken", "closed"}, q : Queues]
    BY <1>1 DEF TypeOK
  <2>2. closer' = closer \/ closer' = [closer EXCEPT !.at = "woken"]  BY DEF Show
  <2>3. CASE closer' = closer  BY <2>1, <2>3
  <2>4. CASE closer' = [closer EXCEPT !.at = "woken"]  BY <2>1, <2>4, SMT
  <2> QED  BY <2>2, <2>3, <2>4
<1>9. tmp' = [tmp EXCEPT ![t] = tmp[t] + 1]  BY DEF Show
<1>10. tmp[t] + 1 \in Int /\ tmp[t] + 1 \in Nat \ {0}  BY <1>4, QueueNumbers
<1>11. /\ tmp' \in [Threads -> Int] /\ tmp'[t] = tmp[t] + 1
       /\ \A u \in Threads : u # t => tmp'[u] = tmp[u]
  BY <1>1, <1>9, <1>10 DEF TypeOK
<1>12. OneMoves(t)  BY <1>3, <1>7, <1>11 DEF OneMoves, Show
<1>13. ltq_hidden' = [ltq_hidden EXCEPT ![tmp[t]] = FALSE]  BY DEF Show
<1>14. ltq_hidden' \in [Queues -> BOOLEAN]  BY <1>1, <1>13 DEF TypeOK
<1>15. TypeOK'
  BY <1>1, <1>7, <1>8, <1>11, <1>14 DEF TypeOK, Show, Wakes, Labels
<1>16. ThreadOK(t)'
  <2>1. tmp'[t] \in Nat \ {0}  BY <1>10, <1>11
  <2> QED  BY <1>3, <1>7, <2>1 DEF ThreadOK, HoldsQueue, Show
<1>17. HiddenOK'
  <2>1. SUFFICES ASSUME NEW q \in Queues, ltq_hidden'[q], ltp_pause' = NOT_PAUSED
                 PROVE  tmp'[t] <= q
    BY <1>7 DEF HiddenOK
  <2>2. q # tmp[t] /\ ltq_hidden[q]  BY <1>1, <1>4, <1>13, <2>1 DEF TypeOK
  <2>3. ltp_pause = NOT_PAUSED  BY <2>1 DEF Show
  <2>4. tmp[t] <= q  BY <1>2, <2>2, <2>3, OneResumes DEF IInv, HiddenOK
  <2>5. q \in Int /\ tmp[t] \in Int  BY <1>4, QueueNumbers
  <2>6. tmp[t] + 1 <= q  BY <2>2, <2>4, <2>5, SMTT(60)
  <2> QED  BY <1>11, <2>6
<1>18. pc'[t] \notin EndsInQueue /\ pc'[t] \notin EndsInPool
  BY <1>7 DEF EndsInQueue, EndsInPool
<1>19. \A q \in Queues : ltq_open_count'[q] >= ltq_open_count[q]
  <2>1. ltq_open_count' = ltq_open_count  BY DEF Show
  <2>2. ltq_open_count \in [Queues -> Int]  BY <1>1 DEF TypeOK
  <2> QED  BY <2>1, <2>2, SMT
<1>20. EndingOK'  BY <1>12, <1>15, <1>18, <1>19, EndingKept DEF IInv, Show
<1>21. t # Closer  BY TPoolAssumption
<1>22. CloserOK'  BY <1>8, <1>12, <1>21, CloserKept DEF IInv
<1>23. ListsOK'  BY ListsKept DEF IInv, Show
<1>24. CountedAlike(t)  BY <1>2, <1>7 DEF CountedAlike, IsActive, HandlingPause
<1>25. CountsOK'  BY <1>2, <1>12, <1>24, CountsKept DEF Show
<1> QED  BY <1>12, <1>15, <1>16, <1>17, <1>20, <1>22, <1>23, <1>25, Assembled

(* The pause is over.                                                      *)
LEMMA ResumedStep ==
  ASSUME Counting, IInv, NEW t \in Threads, Resumed(t), setup' = setup
  PROVE  IInv'
<1> USE DEF listVars, sizeVars, taskVars
<1>1. TypeOK /\ ThreadsOK /\ pq[t] \in Queues  BY DEF IInv, TypeOK
<1>2. pc[t] = "resume" /\ pq'[t] = pq[t] /\ tmp[t] > NumQs /\ ltp_mutex' = Nobody
  BY DEF Resumed
<1>3. ltp_mutex = t /\ task[t] \in submitted /\ tmp[t] \in Nat \ {0}
  BY <1>1, <1>2 DEF ThreadsOK, ThreadOK, HoldsPool, WithTask, Pausing
<1>4. pc \in [Threads -> Labels] /\ "run" \in Labels
  BY <1>1 DEF TypeOK, Labels, WorkerLoop
<1>5. pc' = [WakePool(pc) EXCEPT ![t] = "run"]  BY DEF Resumed
<1>6. Wakes(pc, WakePool(pc), t)  BY <1>4, PoolWakes
<1>7. Wakes(pc, pc', t) /\ pc'[t] = "run"  BY <1>4, <1>5, <1>6 DEF Wakes
<1>8. tmp' \in [Threads -> Int] /\ \A u \in Threads : u # t => tmp'[u] = tmp[u]
  BY <1>1, SmallInts DEF Resumed, TypeOK
<1>9. OneMoves(t)  BY <1>3, <1>7, <1>8 DEF OneMoves, Resumed
<1>10. TypeOK'  BY <1>1, <1>2, <1>7, <1>8 DEF TypeOK, Resumed, Wakes, Labels
<1>11. ThreadOK(t)'  BY <1>3, <1>7 DEF ThreadOK, HoldsQueue, HoldsPool, Resumed
<1>12. HiddenOK'
  <2>1. SUFFICES ASSUME NEW q \in Queues, ltq_hidden'[q], ltp_pause' = NOT_PAUSED
                 PROVE  FALSE
    BY DEF HiddenOK
  <2>2. ltq_hidden[q] /\ ltp_pause = NOT_PAUSED  BY <2>1 DEF Resumed
  <2>3. tmp[t] <= q  BY <1>2, <2>2, OneResumes DEF IInv, HiddenOK
  <2>4. q \in Int /\ q <= NumQs  BY QueueNumbers
  <2>5. NumQs \in Int  BY TPoolAssumption, SMT
  <2> QED  BY <1>2, <1>3, <2>3, <2>4, <2>5, SMT
<1>13. pc'[t] \notin EndsInQueue /\ pc'[t] \notin EndsInPool
  BY <1>7 DEF EndsInQueue, EndsInPool
<1>14. \A q \in Queues : ltq_open_count'[q] >= ltq_open_count[q]
  <2>1. ltq_open_count' = ltq_open_count  BY DEF Resumed
  <2>2. ltq_open_count \in [Queues -> Int]  BY <1>1 DEF TypeOK
  <2> QED  BY <2>1, <2>2, SMT
<1>15. EndingOK'  BY <1>9, <1>10, <1>13, <1>14, EndingKept DEF IInv, Resumed
<1>16. t # Closer  BY TPoolAssumption
<1>17. CloserOK'  BY <1>9, <1>16, CloserKept DEF IInv, Resumed
<1>18. ListsOK'  BY ListsKept DEF IInv, Resumed
<1>19. CountedAlike(t)  BY <1>2, <1>7 DEF CountedAlike, IsActive, HandlingPause
<1>20. CountsOK'  BY <1>2, <1>9, <1>19, CountsKept DEF Resumed
<1> QED  BY <1>9, <1>10, <1>11, <1>12, <1>15, <1>17, <1>18, <1>20, Assembled

-----------------------------------------------------------------------------
(* Steps from outside the workers: Nobody or the closer moves.             *)

(* Nothing is counted otherwise when no thread moves.                      *)
LEMMA CountsApart ==
  ASSUME Counting, IInv, NEW t, t \notin Threads, OneMoves(t), ltq_active_count' = ltq_active_count,
         ltq_open_count' = ltq_open_count, \A q \in Queues : Spare(q)' = Spare(q)
  PROVE  CountsOK'
<1>1. SUFFICES ASSUME setup.atomic PROVE ActiveOK' /\ IdleOK' /\ OpenOK'
  BY DEF CountsOK, OneMoves
<1>2. TypeOK /\ ThreadsOK /\ ActiveOK /\ IdleOK /\ OpenOK  BY <1>1 DEF IInv, CountsOK
<1>3. ActiveOK'  BY <1>2, ActiveStill
<1>4. IdleOK'  BY <1>2, IdleStill
<1>5. OpenOK'  BY <1>2, OpenStill
<1> QED  BY <1>3, <1>4, <1>5

(* Steps of others that hide nothing and uncount nothing.                  *)
LEMMA ApartStep ==
  ASSUME Counting, IInv, TypeOK', NEW t, t \notin Threads, OneMoves(t), ListsOK', CloserOK',
         ltq_hidden' = ltq_hidden, ltp_pause' = ltp_pause, ltp_finishing => ltp_finishing',
         ltq_active_count' = ltq_active_count, ltq_open_count' = ltq_open_count,
         \A q \in Queues : Spare(q)' = Spare(q)
  PROVE  IInv'
<1>1. HiddenOK'  BY HiddenKept DEF IInv
<1>2. \A q \in Queues : ltq_open_count'[q] >= ltq_open_count[q]
  <2>1. ltq_open_count \in [Queues -> Int]  BY DEF IInv, TypeOK
  <2> QED  BY <2>1, SMT
<1>3. EndingOK'  BY <1>2, EndingKept DEF IInv
<1>4. CountsOK'  BY CountsApart
<1> QED  BY <1>1, <1>3, <1>4, Assembled

(* A task is queued: the list and its count change together.               *)
LEMMA TaskQueued ==
  ASSUME Counting, IInv, NEW k \in Tasks, NEW q \in Queues, Enqueue(q, k)
  PROVE  /\ ltq_pending_list' \in [Queues -> Seq(Tasks)] /\ ListsOK'
         /\ ltq_pending_count' \in [Queues -> Int]
         /\ submitted \subseteq submitted' /\ submitted' \subseteq Tasks
         /\ \A p \in Queues : Spare(p)' = Spare(p)
<1>1. TypeOK /\ ListsOK  BY DEF IInv
<1>2. submitted \subseteq submitted' /\ submitted' \subseteq Tasks /\ k \in submitted'
  BY <1>1 DEF Enqueue, TypeOK
<1>3. /\ ltq_pending_list' = [ltq_pending_list EXCEPT ![q] = Append(ltq_pending_list[q], k)]
      /\ ltq_pending_count' = [ltq_pending_count EXCEPT ![q] = ltq_pending_count[q] + 1]
  BY DEF Enqueue
<1>4. Seq(submitted) \subseteq Seq(submitted') /\ Seq(submitted') \subseteq Seq(Tasks)
  BY <1>2, SMT
<1>5. ltq_pending_list \in [Queues -> Seq(submitted')]  BY <1>1, <1>4 DEF ListsOK
<1>6. ltq_pending_list[q] \in Seq(submitted')  BY <1>5
<1>7. /\ Append(ltq_pending_list[q], k) \in Seq(submitted')
      /\ Len(Append(ltq_pending_list[q], k)) = Len(ltq_pending_list[q]) + 1
      /\ Len(ltq_pending_list[q]) \in Nat
  BY <1>2, <1>6, SMT
<1>8. ListsOK'  BY <1>3, <1>5, <1>7 DEF ListsOK
<1>9. ltq_pending_list' \in [Queues -> Seq(Tasks)]  BY <1>4, <1>8 DEF ListsOK
<1>10. ltq_pending_count' \in [Queues -> Int]
  <2>1. ltq_pending_count \in [Queues -> Int]  BY <1>1 DEF TypeOK
  <2> QED  BY <1>3, <2>1, Recounted
<1>11. ASSUME NEW p \in Queues PROVE Spare(p)' = Spare(p)
  <2>1. CASE p # q
    <3>1. /\ ltq_pending_count'[p] = ltq_pending_count[p]
          /\ ltq_pending_list'[p] = ltq_pending_list[p]
      BY <1>1, <1>3, <2>1 DEF TypeOK
    <3> QED  BY <3>1 DEF Spare
  <2>2. CASE p = q
    <3>1. /\ ltq_pending_count'[p] = ltq_pending_count[p] + 1
          /\ ltq_pending_list'[p] = Append(ltq_pending_list[p], k)
      BY <1>1, <1>3, <2>2 DEF TypeOK
    <3>2. ltq_pending_count[p] \in Int  BY <1>1 DEF TypeOK
    <3>3. (ltq_pending_count[p] + 1) - Len(Append(ltq_pending_list[p], k))
            = ltq_pending_count[p] - Len(ltq_pending_list[p])
      BY <1>7, <2>2, <3>2, SMT
    <3> QED  BY <3>1, <3>3 DEF Spare
  <2> QED  BY <2>1, <2>2
<1> QED  BY <1>2, <1>8, <1>9, <1>10, <1>11

(* A task is submitted and no thread opened.                               *)
LEMMA SubmitStays ==
  ASSUME Counting, IInv, NEW k \in Tasks, NEW q \in Queues, Enqueue(q, k), setup' = setup,
         Wakes(pc, pc', Nobody),
         closer' \in [at : {"no", "lock", "sleep", "wait", "woken", "closed"}, q : Queues],
         closer'.at = "sleep" => closer' = closer,
         UNCHANGED <<pq, ltq_open_count>>,
         UNCHANGED <<poolVars, ltq_mutex, ltq_hidden, ltq_active_count, ltq_max_count,
                     ltq_max_pending, task, tmp, thread_keys, done, acted>>
  PROVE  IInv'
<1> USE DEF poolVars
<1>1. TypeOK  BY DEF IInv
<1>2. /\ ltq_pending_list' \in [Queues -> Seq(Tasks)] /\ ListsOK'
      /\ ltq_pending_count' \in [Queues -> Int]
      /\ submitted \subseteq submitted' /\ submitted' \subseteq Tasks
      /\ \A p \in Queues : Spare(p)' = Spare(p)
  BY TaskQueued
<1>3. OneMoves(Nobody)  BY <1>2 DEF OneMoves
<1>4. done' \subseteq submitted' /\ acted' \subseteq submitted'  BY <1>1, <1>2 DEF TypeOK
<1>5. TypeOK'  BY <1>1, <1>2, <1>4 DEF TypeOK, Wakes, Labels
<1>6. Nobody \notin Threads /\ Nobody # Closer  BY TPoolAssumption
<1>7. CloserOK'  BY <1>3, <1>6, CloserKept DEF IInv
<1> QED  BY <1>2, <1>3, <1>5, <1>6, <1>7, ApartStep

(* A task is submitted and a thread opened for it.                         *)
LEMMA SubmitOpens ==
  ASSUME Counting, IInv, NEW k \in Tasks, NEW q \in Queues, Enqueue(q, k), setup' = setup,
         NEW t \in Threads, pc[t] = "none", pq' = [pq EXCEPT ![t] = q],
         Wakes(pc, pc', t), pc'[t] = "start",
         closer' \in [at : {"no", "lock", "sleep", "wait", "woken", "closed"}, q : Queues],
         closer'.at = "sleep" => closer' = closer,
         ltq_open_count' = [ltq_open_count EXCEPT ![q] = ltq_open_count[q] + 1],
         UNCHANGED <<poolVars, ltq_mutex, ltq_hidden, ltq_active_count, ltq_max_count,
                     ltq_max_pending, task, tmp, thread_keys, done, acted>>
  PROVE  IInv'
<1> USE DEF poolVars
<1>1. TypeOK /\ ThreadsOK  BY DEF IInv
<1>2. /\ ltq_pending_list' \in [Queues -> Seq(Tasks)] /\ ListsOK'
      /\ ltq_pending_count' \in [Queues -> Int]
      /\ submitted \subseteq submitted' /\ submitted' \subseteq Tasks
      /\ \A p \in Queues : Spare(p)' = Spare(p)
  BY TaskQueued
<1>3. /\ pq' \in [Threads -> Queues] /\ pq'[t] = q
      /\ \A u \in Threads : u # t => pq'[u] = pq[u]
  BY <1>1 DEF TypeOK
<1>4. OneMoves(t)  BY <1>2, <1>3 DEF OneMoves
<1>5. done' \subseteq submitted' /\ acted' \subseteq submitted'  BY <1>1, <1>2 DEF TypeOK
<1>6. ltq_open_count \in [Queues -> Int]  BY <1>1 DEF TypeOK
<1>7. ltq_open_count' \in [Queues -> Int]  BY <1>6, Recounted
<1>8. TypeOK'  BY <1>1, <1>2, <1>3, <1>5, <1>7 DEF TypeOK, Wakes, Labels
<1>9. ThreadOK(t)'  BY DEF ThreadOK, WithTask, HandlingPause, Pausing, HoldsQueue, HoldsPool
<1>10. t # Closer /\ pc[t] # "resume"  BY TPoolAssumption
<1>11. CloserOK'  BY <1>4, <1>10, CloserKept DEF IInv
<1>12. HiddenOK'  BY <1>4, <1>10, HiddenKept DEF IInv
<1>13. \A p \in Queues : ltq_open_count'[p] >= ltq_open_count[p]  BY <1>6, SMT
<1>14. pc'[t] \notin EndsInQueue /\ pc'[t] \notin EndsInPool  BY DEF EndsInQueue, EndsInPool
<1>15. EndingOK'  BY <1>4, <1>8, <1>13, <1>14, EndingKept DEF IInv
<1>16. ASSUME setup.atomic PROVE ActiveOK' /\ IdleOK' /\ OpenOK'
  <2>1. ActiveOK /\ IdleOK /\ OpenOK  BY <1>16 DEF IInv, CountsOK
  <2>2. ~IsActive(t) /\ ~IsActive(t)'  BY DEF IsActive
  <2>3. ActiveOK'  BY <1>1, <1>4, <2>1, <2>2, ActiveStill
  <2>4. pc[t] \notin HandlingPause /\ pc'[t] \notin HandlingPause  BY DEF HandlingPause
  <2>5. IdleOK'  BY <1>1, <1>2, <1>4, <2>1, <2>4, IdleStill
  <2>6. pc'[t] # "none"  OBVIOUS
  <2>7. OpenOK'  BY <1>1, <1>3, <1>4, <2>1, <2>6, OpenMore
  <2> QED  BY <2>3, <2>5, <2>7
<1>17. CountsOK'  BY <1>16 DEF CountsOK
<1> QED  BY <1>2, <1>4, <1>8, <1>9, <1>11, <1>12, <1>15, <1>17, Assembled

(* pool_submit.                                                            *)
LEMMA SubmitStep ==
  ASSUME Counting, IInv, NEW k \in Tasks, ldap_pvt_thread_pool_submit(k), setup' = setup
  PROVE  IInv'
<1>1. UNCHANGED <<poolVars, ltq_mutex, ltq_hidden, ltq_active_count, ltq_max_count,
                  ltq_max_pending, task, tmp, thread_keys, done, acted>>
  BY DEF ldap_pvt_thread_pool_submit
<1>2. TypeOK /\ pc \in [Threads -> Labels]  BY DEF IInv, TypeOK, Labels
<1>3. closer \in [at : {"no", "lock", "sleep", "wait", "woken", "closed"}, q : Queues]
  BY <1>2 DEF TypeOK
<1>4. "start" \in Labels  BY DEF Labels, WorkerLoop
<1>5. ASSUME NEW q \in Queues, Enqueue(q, k), UNCHANGED <<pc, pq, ltq_open_count, closer>>
      PROVE  IInv'
  <2>1. Wakes(pc, pc', Nobody)  BY <1>2, <1>5 DEF Wakes, Alike
  <2> QED  BY <1>1, <1>3, <1>5, <2>1, SubmitStays
<1>6. ASSUME NEW q \in Queues, Enqueue(q, k), SignalQueue(q, pc),
             UNCHANGED <<pq, ltq_open_count>>
      PROVE  IInv'
  <2>1. /\ Wakes(pc, pc', Nobody)
        /\ closer' \in [at : {"no", "lock", "sleep", "wait", "woken", "closed"}, q : Queues]
        /\ closer'.at = "sleep" => closer' = closer
    BY <1>2, <1>3, <1>6, SignalWakes
  <2> QED  BY <1>1, <1>6, <2>1, SubmitStays
<1>7. ASSUME NEW q \in Queues, Enqueue(q, k), NEW t \in Threads, pc[t] = "none",
             pq' = [pq EXCEPT ![t] = q], SignalQueue(q, [pc EXCEPT ![t] = "start"]),
             ltq_open_count' = [ltq_open_count EXCEPT ![q] = ltq_open_count[q] + 1]
      PROVE  IInv'
  <2>1. /\ Wakes(pc, pc', t) /\ pc'[t] = "start"
        /\ closer' \in [at : {"no", "lock", "sleep", "wait", "woken", "closed"}, q : Queues]
        /\ closer'.at = "sleep" => closer' = closer
    BY <1>2, <1>4, <1>7, SignalMoves
  <2> QED  BY <1>1, <1>7, <2>1, SubmitOpens
<1> QED  BY <1>5, <1>6, <1>7 DEF ldap_pvt_thread_pool_submit, AfterSubmit

(* The number of threads is changed by the task that holds the pause.      *)
LEMMA MaxthreadsStep ==
  ASSUME Counting, IInv, NEW n \in MaxCounts, ldap_pvt_thread_pool_maxthreads(n), setup' = setup
  PROVE  IInv'
<1> USE DEF poolVars, listVars, threadVars, taskVars, ldap_pvt_thread_pool_maxthreads
<1>1. TypeOK /\ pc \in [Threads -> Labels]  BY DEF IInv, TypeOK, Labels
<1>2. Wakes(pc, pc', Nobody)  BY <1>1 DEF Wakes, Alike
<1>3. OneMoves(Nobody)  BY <1>2 DEF OneMoves
<1>4. TypeOK'  BY <1>1 DEF TypeOK
<1>5. Nobody \notin Threads /\ Nobody # Closer  BY TPoolAssumption
<1>6. CloserOK'  BY <1>1, <1>3, <1>5, CloserKept DEF IInv
<1>7. ListsOK'  BY <1>1, ListsKept DEF IInv
<1>8. \A q \in Queues : Spare(q)' = Spare(q)  BY DEF Spare
<1> QED  BY <1>3, <1>4, <1>5, <1>6, <1>7, <1>8, ApartStep

(* The pool is told to finish.                                             *)
LEMMA CloseBeginStep ==
  ASSUME Counting, IInv, CloseBegin, setup' = setup
  PROVE  IInv'
<1> USE DEF poolVars, listVars, sizeVars, threadVars, taskVars, CloseBegin
<1>1. TypeOK /\ pc \in [Threads -> Labels]  BY DEF IInv, TypeOK, Labels
<1>2. Wakes(pc, pc', Nobody)  BY <1>1, PoolWakes
<1>3. OneMoves(Nobody)  BY <1>2 DEF OneMoves
<1>4. 1 \in Queues  BY TPoolAssumption, SMT DEF Queues
<1>5. closer' \in [at : {"no", "lock", "sleep", "wait", "woken", "closed"}, q : Queues]
  BY <1>4
<1>6. TypeOK'  BY <1>1, <1>2, <1>5 DEF TypeOK, Wakes, Labels
<1>7. Nobody \notin Threads /\ Nobody # Closer  BY TPoolAssumption
<1>8. CloserOK'  BY DEF CloserOK
<1>9. ListsOK'  BY <1>1, ListsKept DEF IInv
<1>10. \A q \in Queues : Spare(q)' = Spare(q)  BY DEF Spare
<1> QED  BY <1>3, <1>6, <1>7, <1>8, <1>9, <1>10, ApartStep

(* The closer looks at a queue, and goes on or will wait.                  *)
LEMMA CloseQueueStep ==
  ASSUME Counting, IInv, CloseQueue, setup' = setup
  PROVE  IInv'
<1> USE DEF poolVars, listVars, threadVars, taskVars
<1> DEFINE q == closer.q
<1>1. TypeOK /\ pc \in [Threads -> Labels]  BY DEF IInv, TypeOK, Labels
<1>2. q \in Queues /\ ltq_mutex[q] = Nobody  BY <1>1 DEF TypeOK, CloseQueue, QueueFree
<1>3. Wakes(pc, pc', Closer)  BY <1>1 DEF Wakes, Alike, CloseQueue
<1>4. /\ UNCHANGED <<poolVars, listVars, ltq_active_count, ltq_open_count, ltq_max_count, pc,
                     threadVars, taskVars>>
      /\ ltq_max_pending' = [ltq_max_pending EXCEPT ![q] = IF ltq_max_pending[q] > 0
                               THEN -ltq_max_pending[q] ELSE ltq_max_pending[q]]
      /\ \/ /\ closer' = [closer EXCEPT !.at = "sleep"]
            /\ ltq_mutex' = [ltq_mutex EXCEPT ![q] = Closer]
         \/ /\ closer' = IF q = NumQs THEN [closer EXCEPT !.at = "closed"]
                                      ELSE [at |-> "lock", q |-> q + 1]
            /\ UNCHANGED ltq_mutex
  BY DEF CloseQueue
<1>5. /\ ltq_mutex' \in [Queues -> Threads \cup {Nobody, Closer}]
      /\ \A p \in Queues : ltq_mutex'[p] = ltq_mutex[p] \/ ltq_mutex[p] = Nobody
  BY <1>1, <1>2, <1>4 DEF TypeOK
<1>6. OneMoves(Closer)  BY <1>3, <1>4, <1>5 DEF OneMoves
<1>7. ltq_max_pending' \in [Queues -> Int]
  <2>1. ltq_max_pending \in [Queues -> Int]  BY <1>1 DEF TypeOK
  <2> QED  BY <1>2, <1>4, <2>1, SMTT(60)
<1>8. q # NumQs => q + 1 \in Queues  BY <1>2, TPoolAssumption, SMTT(60) DEF Queues
<1>9. closer \in [at : {"no", "lock", "sleep", "wait", "woken", "closed"}, q : Queues]
  BY <1>1 DEF TypeOK
<1>10. closer' \in [at : {"no", "lock", "sleep", "wait", "woken", "closed"}, q : Queues]
  <2>1. CASE closer' = [closer EXCEPT !.at = "sleep"]  BY <1>9, <2>1
  <2>2. CASE closer' = [closer EXCEPT !.at = "closed"]  BY <1>9, <2>2
  <2>3. CASE closer' = [at |-> "lock", q |-> q + 1] /\ q # NumQs
    <3> HIDE DEF q
    <3> QED  BY <1>8, <2>3
  <2> QED  BY <1>4, <2>1, <2>2, <2>3
<1>11. TypeOK'  BY <1>1, <1>4, <1>5, <1>7, <1>10 DEF TypeOK
<1>12. CloserOK'
  <2>1. CASE /\ closer' = [closer EXCEPT !.at = "sleep"]
             /\ ltq_mutex' = [ltq_mutex EXCEPT ![q] = Closer]
    <3>1. closer'.q = q  BY <1>9, <2>1
    <3>2. ltq_mutex'[q] = Closer  BY <1>1, <1>2, <2>1 DEF TypeOK
    <3> QED  BY <3>1, <3>2 DEF CloserOK
  <2>2. CASE closer' = [closer EXCEPT !.at = "closed"]  BY <1>9, <2>2 DEF CloserOK
  <2>3. CASE closer' = [at |-> "lock", q |-> q + 1]  BY <2>3 DEF CloserOK
  <2> QED  BY <1>4, <2>1, <2>2, <2>3
<1>13. Closer \notin Threads  BY TPoolAssumption
<1>14. ListsOK'  BY <1>1, <1>4, ListsKept DEF IInv
<1>15. \A p \in Queues : Spare(p)' = Spare(p)  BY <1>4 DEF Spare
<1> QED  BY <1>4, <1>6, <1>11, <1>12, <1>13, <1>14, <1>15, ApartStep

(* The closer wakes the workers and waits for the last of them.            *)
LEMMA CloseWaitStep ==
  ASSUME Counting, IInv, CloseWait, setup' = setup
  PROVE  IInv'
<1> USE DEF poolVars, listVars, sizeVars, threadVars, taskVars
<1> DEFINE q == closer.q
<1>1. TypeOK /\ pc \in [Threads -> Labels]  BY DEF IInv, TypeOK, Labels
<1>2. q \in Queues /\ ltq_mutex[q] = Closer  BY <1>1 DEF TypeOK, CloseWait, IInv, CloserOK
<1>3. Wakes(pc, pc', Closer)  BY <1>1, QueueWakes DEF CloseWait
<1>4. /\ UNCHANGED <<poolVars, listVars, ltq_active_count, sizeVars, threadVars, taskVars>>
      /\ closer' = [closer EXCEPT !.at = "wait"]
      /\ ltq_mutex' = [ltq_mutex EXCEPT ![q] = Nobody]
  BY DEF CloseWait
<1>5. /\ ltq_mutex' \in [Queues -> Threads \cup {Nobody, Closer}]
      /\ \A p \in Queues : ltq_mutex'[p] = ltq_mutex[p] \/ ltq_mutex[p] = Closer
  BY <1>1, <1>2, <1>4 DEF TypeOK
<1>6. OneMoves(Closer)  BY <1>3, <1>4, <1>5 DEF OneMoves
<1>7. closer \in [at : {"no", "lock", "sleep", "wait", "woken", "closed"}, q : Queues]
  BY <1>1 DEF TypeOK
<1>8. /\ closer' \in [at : {"no", "lock", "sleep", "wait", "woken", "closed"}, q : Queues]
      /\ closer'.at = "wait"
  BY <1>4, <1>7
<1>9. TypeOK'  BY <1>1, <1>3, <1>4, <1>5, <1>8 DEF TypeOK, Wakes, Labels
<1>10. CloserOK'  BY <1>8 DEF CloserOK
<1>11. Closer \notin Threads  BY TPoolAssumption
<1>12. ListsOK'  BY <1>1, <1>4, ListsKept DEF IInv
<1>13. \A p \in Queues : Spare(p)' = Spare(p)  BY <1>4 DEF Spare
<1> QED  BY <1>4, <1>6, <1>9, <1>10, <1>11, <1>12, <1>13, ApartStep

-----------------------------------------------------------------------------
(* The invariant, and what follows from it.                                *)

(* No thread is open at the start.                                         *)
LEMMA InitIInv ==
  ASSUME Counting, Init
  PROVE  IInv
<1> USE DEF Init
<1>1. 1 \in Queues /\ 0 \in Int /\ MaxPending \in Int /\ <<>> \in Seq(Tasks) /\ <<>> \in Seq({})
  BY TPoolAssumption, SMT DEF Queues
<1>2. "none" \in WorkerLoop  BY DEF WorkerLoop
<1>3. /\ ltp_mutex \in Threads \cup {Nobody} /\ ltp_pause \in {NOT_PAUSED, WANT_PAUSE, PAUSED}
      /\ ltp_active_queues \in Int /\ ltp_finishing \in BOOLEAN
      /\ ltq_mutex \in [Queues -> Threads \cup {Nobody, Closer}]
      /\ ltq_hidden \in [Queues -> BOOLEAN]
  BY <1>1
<1>4. /\ ltq_pending_list \in [Queues -> Seq(Tasks)] /\ ltq_pending_count \in [Queues -> Int]
      /\ ltq_active_count \in [Queues -> Int] /\ ltq_open_count \in [Queues -> Int]
      /\ ltq_max_pending \in [Queues -> Int]
  BY <1>1
<1>5. /\ pc \in [Threads -> WorkerLoop \cup HandlingPause \cup Pausing]
      /\ pq \in [Threads -> Queues] /\ task \in [Threads -> Tasks \cup {NoTask}]
      /\ tmp \in [Threads -> Int] /\ thread_keys \subseteq Threads
  BY <1>1, <1>2
<1>6. closer \in [at : {"no", "lock", "sleep", "wait", "woken", "closed"}, q : Queues]
  BY <1>1
<1>7. TypeOK  BY <1>3, <1>4, <1>5, <1>6 DEF TypeOK
<1>8. \A t \in Threads : pc[t] = "none"  OBVIOUS
<1>9. ThreadsOK
  BY <1>8 DEF ThreadsOK, ThreadOK, WithTask, HandlingPause, Pausing, HoldsQueue, HoldsPool
<1>10. ListsOK  BY <1>1 DEF ListsOK
<1>11. CloserOK  BY DEF CloserOK
<1>12. HiddenOK  BY DEF HiddenOK
<1>13. EndingOK  BY <1>8 DEF EndingOK, EndsInQueue, EndsInPool
<1>14. ASSUME NEW q \in Queues
       PROVE  ActiveThreads(q) = {} /\ IdleThreads(q) = {} /\ OpenThreads(q) = {}
  BY <1>8 DEF ActiveThreads, IdleThreads, OpenThreads, IsActive, HandlingPause
<1>15. Cardinality({}) = 0  BY DEF Counting
<1>16. ASSUME NEW q \in Queues PROVE Spare(q) = 0
  <2>1. ltq_pending_count[q] = 0 /\ ltq_pending_list[q] = <<>>  OBVIOUS
  <2> QED  BY <2>1, SMT DEF Spare
<1>17. CountsOK  BY <1>14, <1>15, <1>16 DEF CountsOK, ActiveOK, IdleOK, OpenOK
<1> QED  BY <1>7, <1>9, <1>10, <1>11, <1>12, <1>13, <1>17 DEF IInv

(* The head of the loop.                                                   *)
LEMMA LookStep ==
  ASSUME Counting, IInv, NEW t \in Threads, Look(t), setup' = setup
  PROVE  IInv'
<1>1. CASE TakeTask(t, pq[t])  BY <1>1, LookTakes
<1>2. CASE ~TakeTask(t, pq[t])  BY <1>2, LookLeaves
<1> QED  BY <1>1, <1>2

(* The invariant is about the variables alone.                             *)
LEMMA StutterStep ==
  ASSUME Counting, IInv, UNCHANGED vars
  PROVE  IInv'
<1> USE DEF vars, moving, poolVars, listVars, sizeVars, threadVars, taskVars
<1>1. \A t \in Threads : IsActive(t)' <=> IsActive(t)  BY DEF IsActive
<1>2. \A q \in Queues : /\ ActiveThreads(q)' = ActiveThreads(q)
                        /\ IdleThreads(q)' = IdleThreads(q)
                        /\ OpenThreads(q)' = OpenThreads(q)
                        /\ Spare(q)' = Spare(q)
  BY DEF ActiveThreads, IdleThreads, OpenThreads, Spare, IsActive
<1>3. CountsOK'  BY <1>2 DEF IInv, CountsOK, ActiveOK, IdleOK, OpenOK
<1>4. TypeOK'  BY DEF IInv, TypeOK
<1>5. ThreadsOK'  BY DEF IInv, ThreadsOK, ThreadOK
<1>6. ListsOK' /\ CloserOK' /\ HiddenOK'  BY DEF IInv, ListsOK, CloserOK, HiddenOK
<1>7. EndingOK'  BY DEF IInv, EndingOK
<1> QED  BY <1>3, <1>4, <1>5, <1>6, <1>7 DEF IInv

(* Every step keeps the invariant.                                         *)
LEMMA NextIInv ==
  ASSUME Counting, IInv, [Next]_vars
  PROVE  IInv'
<1>1. CASE UNCHANGED vars  BY <1>1, StutterStep
<1>2. ASSUME setup' = setup, NEW k \in Tasks, ldap_pvt_thread_pool_submit(k) PROVE IInv'
  BY <1>2, SubmitStep
<1>3. ASSUME setup' = setup, NEW n \in MaxCounts, ldap_pvt_thread_pool_maxthreads(n) PROVE IInv'
  BY <1>3, MaxthreadsStep
<1>4. ASSUME setup' = setup, Close PROVE IInv'
  BY <1>4, CloseBeginStep, CloseQueueStep, CloseWaitStep DEF Close
<1>5. ASSUME setup' = setup, NEW t \in Threads, Worker(t) PROVE IInv'
  BY <1>5, StartStep, TakeSlotStep, EnrolStep, LookStep, SleepStep, WakeUpStep, ToPoolStep,
     WakeInPoolStep, EndSlotStep, EndCountStep, UnidleCallStep, ScanStep, AwaitSoleStep,
     PausedStep, ResumeStep, ShowStep, ResumedStep
     DEF Worker
<1>6. ASSUME setup' = setup, NEW t \in Threads, Finish(t) PROVE IInv'
  BY <1>6, FinishStep
<1>7. ASSUME setup' = setup, NEW t \in Threads, TaskCalls(t) PROVE IInv'
  BY <1>7, IdleCallStep, PausecheckStep, PauseCallStep DEF TaskCalls
<1> QED  BY <1>1, <1>2, <1>3, <1>4, <1>5, <1>6, <1>7 DEF Next

(* A queue loses its last thread only to EndCount.                         *)
LEMMA OpenFalls ==
  ASSUME Counting, IInv, [Next]_vars, NEW q \in Queues,
         ltq_open_count[q] > 0, ltq_open_count'[q] = 0
  PROVE  \E t \in Threads : EndCount(t)
<1>1. ltq_open_count[q] \in Int /\ ltq_open_count \in [Queues -> Int]  BY DEF IInv, TypeOK
<1>2. ltq_open_count' # ltq_open_count
  <2>1. ltq_open_count[q] # 0  BY <1>1, SMT
  <2> QED  BY <2>1
<1>3. \A p \in Queues : ltq_open_count' # [ltq_open_count EXCEPT ![p] = ltq_open_count[p] + 1]
  <2>1. ASSUME NEW p \in Queues,
               ltq_open_count' = [ltq_open_count EXCEPT ![p] = ltq_open_count[p] + 1]
        PROVE  FALSE
    BY <1>1, <2>1, SMT
  <2> QED  BY <2>1
<1> USE DEF sizeVars
<1>4. ~(UNCHANGED vars)  BY <1>2 DEF vars, moving
<1>5. \A k \in Tasks : ~ldap_pvt_thread_pool_submit(k)
  BY <1>2, <1>3 DEF ldap_pvt_thread_pool_submit
<1>6. \A n \in MaxCounts : ~ldap_pvt_thread_pool_maxthreads(n)
  BY <1>2 DEF ldap_pvt_thread_pool_maxthreads
<1>7. ~Close  BY <1>2 DEF Close, CloseBegin, CloseQueue, CloseWait
<1>8. ASSUME NEW t \in Threads PROVE ~Finish(t) /\ ~TaskCalls(t)
  BY <1>2 DEF Finish, TaskCalls, ldap_pvt_thread_pool_idle, ldap_pvt_thread_pool_pausecheck,
              ldap_pvt_thread_pool_pause
<1>9. ASSUME NEW t \in Threads, Worker(t) PROVE EndCount(t)
  <2>1. ~Start(t) /\ ~TakeSlot(t) /\ ~Enrol(t) /\ ~Look(t) /\ ~Sleep(t) /\ ~WakeUp(t)
    BY <1>2 DEF Start, TakeSlot, Enrol, Look, Sleep, WakeUp
  <2>2. ~ToPool(t) /\ ~WakeInPool(t) /\ ~EndSlot(t) /\ ~ldap_pvt_thread_pool_unidle(t)
    BY <1>2 DEF ToPool, WakeInPool, EndSlot, ldap_pvt_thread_pool_unidle
  <2>3. ~Scan(t) /\ ~AwaitSole(t) /\ ~Paused(t)
    BY <1>2 DEF Scan, AwaitSole, Paused
  <2>4. ~ldap_pvt_thread_pool_resume(t) /\ ~Show(t) /\ ~Resumed(t)
    BY <1>2 DEF ldap_pvt_thread_pool_resume, Show, Resumed
  <2> QED  BY <1>9, <2>1, <2>2, <2>3, <2>4 DEF Worker
<1> QED  BY <1>4, <1>5, <1>6, <1>7, <1>8, <1>9 DEF Next

(* The counters under the invariant.                                       *)
LEMMA CountsFollow ==
  ASSUME IInv
  PROVE  CountsExact
<1>1. TypeOK /\ ListsOK  BY DEF IInv
<1>2. ASSUME setup.atomic, NEW q \in Queues
      PROVE  /\ ltq_active_count[q] = Cardinality(ActiveThreads(q))
             /\ ltq_pending_count[q] = Len(ltq_pending_list[q]) + Cardinality(IdleThreads(q))
             /\ ltq_open_count[q] = Cardinality(OpenThreads(q))
  <2>1. /\ ltq_active_count[q] = Cardinality(ActiveThreads(q))
        /\ Spare(q) = Cardinality(IdleThreads(q))
        /\ ltq_open_count[q] = Cardinality(OpenThreads(q))
    BY <1>2 DEF IInv, CountsOK, ActiveOK, IdleOK, OpenOK
  <2>2. ltq_pending_count[q] \in Int /\ ltq_pending_list[q] \in Seq(Tasks)
    BY <1>1 DEF TypeOK
  <2>3. ltq_pending_count[q] = Len(ltq_pending_list[q]) + Spare(q)
    BY <2>2, SMT DEF Spare
  <2> QED  BY <2>1, <2>3
<1> QED  BY <1>1, <1>2 DEF CountsExact

(* Two threads of a queue may be ending, but then a third is open.         *)
LEMMA ThreadStays ==
  ASSUME Counting, IInv, [Next]_vars, NEW q \in Queues,
         ltq_open_count[q] > 0, ltq_open_count'[q] = 0
  PROVE  ltp_finishing \/ 1 \in MaxCounts \/ ~setup.atomic
<1>1. PICK t \in Threads : EndCount(t)  BY OpenFalls
<1>2. SUFFICES ASSUME ~ltp_finishing, 1 \notin MaxCounts, setup.atomic PROVE FALSE
  OBVIOUS
<1>3. TypeOK /\ EndingOK  BY DEF IInv
<1>4. ltq_open_count' = [ltq_open_count EXCEPT ![pq[t]] = ltq_open_count[pq[t]] - 1]
  BY <1>1, <1>2 DEF EndCount
<1>5. pc[t] \in EndsInQueue \/ pc[t] \in EndsInPool
  BY <1>1 DEF EndCount, EndsInQueue, EndsInPool
<1>6. ltq_open_count[pq[t]] >= 2  BY <1>2, <1>3, <1>5 DEF EndingOK
<1>7. ltq_open_count \in [Queues -> Int] /\ pq[t] \in Queues  BY <1>3 DEF TypeOK
<1> QED  BY <1>4, <1>6, <1>7, SMT

-----------------------------------------------------------------------------
(* One task that pauses, in a pool of one queue.                           *)

PausesAlike(u) ==
  /\ pc'[u] \in Pausing <=> pc[u] \in Pausing
  /\ pc'[u] \in Scanned <=> pc[u] \in Scanned
  /\ pc'[u] = "scan" <=> pc[u] = "scan"
  /\ pc'[u] \in {"sole", "paused"} <=> pc[u] \in {"sole", "paused"}
  /\ pc'[u] = "paused" <=> pc[u] = "paused"

(* A wakeup moves no task into or out of a pause.                          *)
LEMMA WakesAlike ==
  ASSUME NEW t, Wakes(pc, pc', t), NEW u \in Threads, u # t
  PROVE  PausesAlike(u)
<1>1. SameKind(pc[u], pc'[u])  BY AlikeKind DEF Wakes
<1>2. \A l \in Plain : pc[u] = l <=> pc'[u] = l  BY <1>1 DEF SameKind
<1>3. "scan" \in Plain /\ "sole" \in Plain /\ "paused" \in Plain  BY DEF Plain
<1> QED  BY <1>1, <1>2, <1>3 DEF SameKind, PausesAlike

(* Nor does it bring a thread to where no thread of a lone pause is.       *)
LEMMA NeverStill ==
  ASSUME NEW t, Wakes(pc, pc', t), LoneInv, t \in Threads => pc'[t] \notin Never
  PROVE  \A u \in Threads : pc'[u] \notin Never
<1>1. ASSUME NEW u \in Threads, u # t PROVE pc'[u] \notin Never
  <2>1. SameKind(pc[u], pc'[u])  BY <1>1, AlikeKind DEF Wakes
  <2> QED  BY <2>1 DEF SameKind, LoneInv
<1> QED  BY <1>1

(* Who runs after the step ran before it, unless the step starts a task.   *)
LEMMA RunsOnly ==
  ASSUME NEW t, Wakes(pc, pc', t), t \in Threads /\ pc'[t] = "run" => pc[t] = "run", Running'
  PROVE  Running
<1>1. PICK u \in Threads : pc'[u] = "run"  BY DEF Running
<1>2. CASE u = t  BY <1>1, <1>2 DEF Running
<1>3. CASE u # t
  <2>1. SameKind(pc[u], pc'[u])  BY <1>3, AlikeKind DEF Wakes
  <2>2. "run" \in Plain  BY DEF Plain
  <2> QED  BY <1>1, <2>1, <2>2 DEF SameKind, Running
<1> QED  BY <1>2, <1>3

(* And who leaves.                                                         *)
LEMMA LeavesOnly ==
  ASSUME NEW t, Wakes(pc, pc', t), t \in Threads /\ pc'[t] = "to_pool" => pc[t] = "to_pool",
         Leaving'
  PROVE  Leaving
<1>1. PICK u \in Threads : pc'[u] = "to_pool"  BY DEF Leaving
<1>2. CASE u = t  BY <1>1, <1>2 DEF Leaving
<1>3. CASE u # t
  <2>1. SameKind(pc[u], pc'[u])  BY <1>3, AlikeKind DEF Wakes
  <2>2. "to_pool" \in Plain  BY DEF Plain
  <2> QED  BY <1>1, <2>1, <2>2 DEF SameKind, Leaving
<1> QED  BY <1>2, <1>3

NoScan == \A u \in Threads : pc[u] # "scan"

NoPauser == \A u \in Threads : pc[u] \notin Scanned

(* Steps of others than the pausing task.                                  *)
LEMMA AsideStep ==
  ASSUME LoneInv, NEW t, Wakes(pc, pc', t), setup' = setup,
         ltp_pause' = ltp_pause, ltq_hidden' = ltq_hidden,
         acted' = acted \/ (setup.pausers \subseteq acted /\ acted \subseteq acted'),
         t \in Threads => pc[t] \notin Pausing /\ pc'[t] \notin Pausing /\ pc'[t] \notin Never,
         ltp_active_queues' = ltp_active_queues \/ NoScan,
         Leaving' => Leaving \/ (ltp_pause # NOT_PAUSED /\ NoScan),
         \/ ~Running' \/ NoPauser
         \/ (Running' => Running) /\ Leaving
         \/ /\ Running' => Running
            /\ Leaving' => Leaving
            /\ ltp_active_queues' = ltp_active_queues
  PROVE  LoneInv'
<1>1. ASSUME NEW u \in Threads PROVE PausesAlike(u)
  <2>1. CASE u # t  BY <2>1, WakesAlike
  <2>2. CASE u = t
    <3>1. Scanned \subseteq Pausing /\ "scan" \in Pausing /\ {"sole", "paused"} \subseteq Pausing
      BY DEF Scanned, Pausing
    <3> QED  BY <2>2, <3>1 DEF PausesAlike
  <2> QED  BY <2>1, <2>2
<1>2. \A u \in Threads : pc'[u] \notin Never  BY NeverStill
<1>3. PauseToCome'
  <2>1. SUFFICES ASSUME ~(setup.pausers \subseteq acted')
                 PROVE  /\ ltp_pause' = NOT_PAUSED /\ ~Leaving'
                        /\ \A u \in Threads : pc'[u] \notin Pausing
    BY DEF PauseToCome
  <2>2. ~(setup.pausers \subseteq acted)  BY <2>1
  <2>3. ltp_pause = NOT_PAUSED /\ ~Leaving /\ \A u \in Threads : pc[u] \notin Pausing
    BY <2>2 DEF LoneInv, PauseToCome
  <2> QED  BY <1>1, <2>3 DEF PausesAlike
<1>4. OnePauses'  BY <1>1 DEF LoneInv, OnePauses, PausesAlike
<1>5. PauseHeld'
  <2>1. ltp_pause' # NOT_PAUSED => \E u \in Threads : pc'[u] \in Scanned \cup {"scan"}
    BY <1>1 DEF LoneInv, PauseHeld, PausesAlike
  <2>2. ltp_pause' = PAUSED => \E u \in Threads : pc'[u] = "paused"
    BY <1>1 DEF LoneInv, PauseHeld, PausesAlike
  <2> QED  BY <2>1, <2>2 DEF PauseHeld
<1>6. ASSUME NEW u \in Threads PROVE PauserOK(u)'
  <2>1. PauserOK(u) /\ PausesAlike(u)  BY <1>1 DEF LoneInv
  <2>2. pc'[u] = "scan" => ltp_active_queues' = 0 /\ ~Leaving'
    BY <2>1 DEF PauserOK, PausesAlike, NoScan
  <2>3. pc'[u] \in Scanned => ltq_hidden'[1] /\ ltp_pause' # NOT_PAUSED
    BY <2>1 DEF PauserOK, PausesAlike
  <2>4. pc'[u] \in Scanned /\ (ltp_active_queues' < 1 \/ Leaving') => ~Running'
    BY <2>1 DEF PauserOK, PausesAlike, NoPauser
  <2>5. {"sole", "paused"} \subseteq Scanned  BY DEF Scanned
  <2>6. pc'[u] \in {"sole", "paused"} => ~Running'
    BY <2>1, <2>5 DEF PauserOK, PausesAlike, NoPauser
  <2> QED  BY <2>2, <2>3, <2>4, <2>6 DEF PauserOK
<1> QED  BY <1>2, <1>3, <1>4, <1>5, <1>6 DEF LoneInv

(* Steps that start no task and do not leave for the pause.                *)
LEMMA CalmStep ==
  ASSUME LoneInv, NEW t, Wakes(pc, pc', t), setup' = setup,
         UNCHANGED <<ltp_pause, ltp_active_queues, ltq_hidden, acted>>,
         t \in Threads => /\ pc[t] \notin Pausing /\ pc'[t] \in WorkerLoop
                          /\ pc'[t] # "run" /\ pc'[t] # "to_pool"
  PROVE  LoneInv'
<1>1. Running' => Running  BY RunsOnly
<1>2. Leaving' => Leaving  BY LeavesOnly
<1>3. t \in Threads => pc'[t] \notin Pausing /\ pc'[t] \notin Never
  BY SMT DEF WorkerLoop, Pausing, Never
<1> QED  BY <1>1, <1>2, <1>3, AsideStep

CalmLabels == {"slot", "wait_start", "woken_start", "enrol", "look", "sleep", "wait_queue",
               "to_queue", "wait_loop", "end_queue", "end_pool", "uncount_queue", "uncount_pool"}

(* The steps of the loop that start no task and do not leave.              *)
LEMMA CalmGoto ==
  ASSUME TypeOK, LoneInv, NEW t \in Threads, pc[t] \in WorkerLoop, NEW l \in CalmLabels,
         pc' = [pc EXCEPT ![t] = l], setup' = setup,
         UNCHANGED <<ltp_pause, ltp_active_queues, ltq_hidden, acted>>
  PROVE  LoneInv'
<1>1. pc[t] \notin Pausing  BY SMT DEF WorkerLoop, Pausing
<1>2. l \in WorkerLoop /\ l # "run" /\ l # "to_pool"  BY DEF CalmLabels, WorkerLoop
<1>3. l \in Labels  BY <1>2 DEF Labels
<1>4. Wakes(pc, pc', t) /\ pc'[t] = l  BY <1>3, GotoMoves
<1> QED  BY <1>1, <1>2, <1>4, CalmStep

(* The steps of the loop that change only the thread's own place.          *)
LEMMA LoopLone ==
  ASSUME IInv, LoneInv, NEW t \in Threads, setup' = setup,
         \/ Start(t) \/ TakeSlot(t) \/ Enrol(t) \/ Sleep(t) \/ WakeInPool(t) \/ EndSlot(t)
         \/ Finish(t)
  PROVE  LoneInv'
<1> USE DEF poolVars, listVars, taskVars, Goto
<1>1. TypeOK  BY DEF IInv
<1>2. CASE Start(t)
  <2>1. pc[t] \in WorkerLoop  BY <1>2 DEF Start, WorkerLoop
  <2>2. \E l \in CalmLabels : pc' = [pc EXCEPT ![t] = l]  BY <1>2 DEF Start, CalmLabels
  <2> QED  BY <1>1, <1>2, <2>1, <2>2, CalmGoto DEF Start
<1>3. CASE TakeSlot(t)
  <2>1. pc[t] \in WorkerLoop  BY <1>3 DEF TakeSlot, WorkerLoop
  <2>2. \E l \in CalmLabels : pc' = [pc EXCEPT ![t] = l]  BY <1>3 DEF TakeSlot, CalmLabels
  <2> QED  BY <1>1, <1>3, <2>1, <2>2, CalmGoto DEF TakeSlot
<1>4. CASE Enrol(t)
  <2>1. pc[t] \in WorkerLoop  BY <1>4 DEF Enrol, WorkerLoop
  <2>2. \E l \in CalmLabels : pc' = [pc EXCEPT ![t] = l]  BY <1>4 DEF Enrol, CalmLabels
  <2> QED  BY <1>1, <1>4, <2>1, <2>2, CalmGoto DEF Enrol
<1>5. CASE Sleep(t)
  <2>1. pc[t] \in WorkerLoop  BY <1>5 DEF Sleep, WorkerLoop
  <2>2. \E l \in CalmLabels : pc' = [pc EXCEPT ![t] = l]  BY <1>5 DEF Sleep, CalmLabels
  <2> QED  BY <1>1, <1>5, <2>1, <2>2, CalmGoto DEF Sleep
<1>6. CASE WakeInPool(t)
  <2>1. pc[t] \in WorkerLoop  BY <1>6 DEF WakeInPool, WorkerLoop
  <2>2. \E l \in CalmLabels : pc' = [pc EXCEPT ![t] = l]  BY <1>6 DEF WakeInPool, CalmLabels
  <2> QED  BY <1>1, <1>6, <2>1, <2>2, CalmGoto DEF WakeInPool
<1>7. CASE EndSlot(t)
  <2>1. pc[t] \in WorkerLoop  BY <1>7 DEF EndSlot, WorkerLoop
  <2>2. \E l \in CalmLabels : pc' = [pc EXCEPT ![t] = l]  BY <1>7 DEF EndSlot, CalmLabels
  <2> QED  BY <1>1, <1>7, <2>1, <2>2, CalmGoto DEF EndSlot
<1>8. CASE Finish(t)
  <2>1. pc[t] \in WorkerLoop  BY <1>8 DEF Finish, WorkerLoop
  <2>2. \E l \in CalmLabels : pc' = [pc EXCEPT ![t] = l]  BY <1>8 DEF Finish, CalmLabels
  <2> QED  BY <1>1, <1>8, <2>1, <2>2, CalmGoto DEF Finish
<1> QED  BY <1>2, <1>3, <1>4, <1>5, <1>6, <1>7, <1>8

(* A thread ends; the closer may be told.                                  *)
LEMMA EndLone ==
  ASSUME IInv, LoneInv, NEW t \in Threads, EndCount(t), setup' = setup
  PROVE  LoneInv'
<1>1. TypeOK /\ pc \in [Threads -> Labels]  BY DEF IInv, TypeOK, Labels
<1>2. "none" \in Labels /\ "none" \in WorkerLoop  BY DEF Labels, WorkerLoop
<1>3. closer \in [at : {"no", "lock", "sleep", "wait", "woken", "closed"}, q : Queues]
  BY <1>1 DEF TypeOK
<1>4. Wakes(pc, pc', t) /\ pc'[t] = "none"
  <2>1. CASE pc' = [pc EXCEPT ![t] = "none"]  BY <1>1, <1>2, <2>1, GotoMoves
  <2>2. CASE SignalQueue(pq[t], [pc EXCEPT ![t] = "none"])
    BY <1>1, <1>2, <1>3, <2>2, SignalMoves
  <2> QED  BY <2>1, <2>2 DEF EndCount, Goto
<1>5. pc[t] \notin Pausing  BY DEF EndCount, Pausing
<1>6. UNCHANGED <<ltp_pause, ltp_active_queues, ltq_hidden, acted>>
  BY DEF EndCount, listVars, taskVars
<1> QED  BY <1>2, <1>4, <1>5, <1>6, CalmStep

(* Submission, resizing and shutdown do not touch the pause.               *)
LEMMA SubmitLone ==
  ASSUME IInv, LoneInv, NEW k \in Tasks, ldap_pvt_thread_pool_submit(k), setup' = setup
  PROVE  LoneInv'
<1>1. TypeOK /\ pc \in [Threads -> Labels]  BY DEF IInv, TypeOK, Labels
<1>2. closer \in [at : {"no", "lock", "sleep", "wait", "woken", "closed"}, q : Queues]
  BY <1>1 DEF TypeOK
<1>3. "start" \in Labels /\ "start" \in WorkerLoop  BY DEF Labels, WorkerLoop
<1>4. UNCHANGED <<ltp_pause, ltp_active_queues, ltq_hidden, acted>>
  BY DEF ldap_pvt_thread_pool_submit, poolVars
<1>5. Nobody \notin Threads  BY TPoolAssumption
<1>6. CASE pc' = pc
  <2>1. Wakes(pc, pc', Nobody)  BY <1>1, <1>6 DEF Wakes, Alike
  <2> QED  BY <1>4, <1>5, <2>1, CalmStep
<1>7. ASSUME NEW q \in Queues, SignalQueue(q, pc) PROVE LoneInv'
  <2>1. Wakes(pc, pc', Nobody)  BY <1>1, <1>2, <1>7, SignalWakes
  <2> QED  BY <1>4, <1>5, <2>1, CalmStep
<1>8. ASSUME NEW q \in Queues, NEW t \in Threads, pc[t] = "none",
             SignalQueue(q, [pc EXCEPT ![t] = "start"])
      PROVE  LoneInv'
  <2>1. Wakes(pc, pc', t) /\ pc'[t] = "start"  BY <1>1, <1>2, <1>3, <1>8, SignalMoves
  <2>2. pc[t] \notin Pausing  BY <1>8 DEF Pausing
  <2> QED  BY <1>3, <1>4, <2>1, <2>2, CalmStep
<1> QED  BY <1>6, <1>7, <1>8 DEF ldap_pvt_thread_pool_submit, AfterSubmit

(* Nor do a resize and the shutdown.                                       *)
LEMMA MainLone ==
  ASSUME IInv, LoneInv, setup' = setup,
         Close \/ \E n \in MaxCounts : ldap_pvt_thread_pool_maxthreads(n)
  PROVE  LoneInv'
<1> USE DEF poolVars, listVars, taskVars
<1>1. pc \in [Threads -> Labels]  BY DEF IInv, TypeOK, Labels
<1>2. UNCHANGED <<ltp_pause, ltp_active_queues, ltq_hidden, acted>>
  BY DEF Close, CloseBegin, CloseQueue, CloseWait, ldap_pvt_thread_pool_maxthreads
<1>3. Nobody \notin Threads  BY TPoolAssumption
<1>4. pc' = pc \/ pc' = WakePool(pc) \/ pc' = WakeQueue(closer.q, pc)
  BY DEF Close, CloseBegin, CloseQueue, CloseWait, ldap_pvt_thread_pool_maxthreads
<1>5. Wakes(pc, pc', Nobody)
  <2>1. CASE pc' = pc  BY <1>1, <2>1 DEF Wakes, Alike
  <2>2. CASE pc' = WakePool(pc)  BY <1>1, <2>2, PoolWakes
  <2>3. CASE pc' = WakeQueue(closer.q, pc)  BY <1>1, <2>3, QueueWakes
  <2> QED  BY <1>4, <2>1, <2>2, <2>3
<1> QED  BY <1>2, <1>3, <1>5, CalmStep

(* There is one queue.                                                     *)
LEMMA OneQueue ==
  ASSUME TypeOK, Lone
  PROVE  /\ \A q \in Queues : q = 1
         /\ 1 \in Queues
         /\ \A u \in Threads : pq[u] = 1
<1>1. NumQs = 1  BY DEF Lone
<1>2. (\A q \in Queues : q = 1) /\ 1 \in Queues  BY <1>1, SMT DEF Queues
<1>3. \A u \in Threads : pq[u] \in Queues  BY DEF TypeOK
<1> QED  BY <1>2, <1>3

(* A thread that the queue counts alone runs alone, and no task scans.     *)
LEMMA ActiveAlone ==
  ASSUME Counting, IInv, Lone, NEW t \in Threads, IsActive(t),
         ltq_active_count[pq[t]] - 1 < 1
  PROVE  \A u \in Threads : pc[u] \in {"run", "scan"} => u = t
<1>1. TypeOK /\ ThreadsOK  BY DEF IInv
<1>2. /\ \A q \in Queues : q = 1
      /\ 1 \in Queues
      /\ \A u \in Threads : pq[u] = 1
  BY <1>1, OneQueue
<1>3. ltq_active_count[1] = Cardinality(ActiveThreads(1))
  BY <1>2 DEF Lone, IInv, CountsOK, ActiveOK
<1>4. ActiveThreads(1) \in SUBSET Threads /\ t \in ActiveThreads(1)
  BY <1>2 DEF ActiveThreads
<1>5. Cardinality(ActiveThreads(1)) - 1 < 1  BY <1>2, <1>3
<1>6. ActiveThreads(1) = {t}  BY <1>4, <1>5, CountedAlone
<1>7. ASSUME NEW u \in Threads, pc[u] \in {"run", "scan"} PROVE IsActive(u)
  <2>1. CASE pc[u] = "run"  BY <2>1 DEF IsActive
  <2>2. CASE pc[u] = "scan"
    <3>1. tmp[u] \in Queues /\ (tmp[u] = pq[u] <=> ~ltq_hidden[pq[u]])
      BY <1>1, <2>2 DEF ThreadsOK, ThreadOK
    <3>2. tmp[u] = pq[u]  BY <1>2, <3>1
    <3> QED  BY <2>2, <3>1, <3>2 DEF IsActive
  <2> QED  BY <1>7, <2>1, <2>2
<1>8. \A u \in Threads : IsActive(u) => u \in ActiveThreads(1)  BY <1>2 DEF ActiveThreads
<1> QED  BY <1>6, <1>7, <1>8

(* A task is taken only from a list that is not hidden.                    *)
LEMMA TakeLone ==
  ASSUME IInv, Lone, LoneInv, NEW t \in Threads, TakeTask(t, pq[t]), pc[t] \in WorkerLoop,
         setup' = setup, UNCHANGED <<ltp_pause, ltp_active_queues, ltq_hidden, acted>>
  PROVE  LoneInv'
<1>1. TypeOK  BY DEF IInv
<1>2. pq[t] = 1  BY <1>1, OneQueue
<1>3. ~ltq_hidden[1]  BY <1>2 DEF TakeTask, WorkList
<1>4. NoPauser  BY <1>3 DEF LoneInv, PauserOK, NoPauser
<1>5. "run" \in Labels  BY DEF Labels, WorkerLoop
<1>6. Wakes(pc, pc', t) /\ pc'[t] = "run"  BY <1>1, <1>5, GotoMoves DEF TakeTask, Goto
<1>7. Leaving' => Leaving  BY <1>6, LeavesOnly
<1>8. pc[t] \notin Pausing  BY SMT DEF WorkerLoop, Pausing
<1>9. pc'[t] \notin Pausing /\ pc'[t] \notin Never  BY <1>6 DEF Pausing, Never
<1> QED  BY <1>4, <1>6, <1>7, <1>8, <1>9, AsideStep

(* A worker that is woken takes a task or sleeps again.                    *)
LEMMA WakeUpLone ==
  ASSUME IInv, Lone, LoneInv, NEW t \in Threads, WakeUp(t), setup' = setup
  PROVE  LoneInv'
<1>1. TypeOK  BY DEF IInv
<1>2. pc[t] \in WorkerLoop  BY DEF WakeUp, WorkerLoop
<1>3. UNCHANGED <<ltp_pause, ltp_active_queues, ltq_hidden, acted>>
  BY DEF WakeUp, poolVars, taskVars
<1>4. CASE TakeTask(t, pq[t])  BY <1>2, <1>3, <1>4, TakeLone
<1>5. CASE Goto(t, "sleep")
  <2>1. "sleep" \in CalmLabels  BY DEF CalmLabels
  <2> QED  BY <1>1, <1>2, <1>3, <1>5, <2>1, CalmGoto DEF Goto
<1> QED  BY <1>4, <1>5 DEF WakeUp

(* A worker leaves for the pause only as the last active thread.           *)
LEMMA LookLone ==
  ASSUME Counting, IInv, Lone, LoneInv, NEW t \in Threads, Look(t), setup' = setup
  PROVE  LoneInv'
<1>1. TypeOK  BY DEF IInv
<1>2. pc[t] = "look" /\ pc[t] \in WorkerLoop  BY DEF Look, WorkerLoop
<1>3. UNCHANGED <<ltp_pause, ltp_active_queues, ltq_hidden, acted>>
  BY DEF Look, poolVars, taskVars
<1>4. CASE TakeTask(t, pq[t])  BY <1>2, <1>3, <1>4, TakeLone
<1>5. CASE Goto(t, "sleep")
  <2>1. "sleep" \in CalmLabels  BY DEF CalmLabels
  <2> QED  BY <1>1, <1>2, <1>3, <1>5, <2>1, CalmGoto DEF Goto
<1>6. CASE Goto(t, "to_pool") /\ ltq_active_count[pq[t]] - 1 < 1 /\ ltp_pause # NOT_PAUSED
  <2>1. IsActive(t)  BY <1>2 DEF IsActive
  <2>2. \A u \in Threads : pc[u] \in {"run", "scan"} => u = t  BY <1>6, <2>1, ActiveAlone
  <2>3. NoScan /\ ~Running  BY <1>2, <2>2 DEF NoScan, Running
  <2>4. "to_pool" \in Labels  BY DEF Labels, WorkerLoop
  <2>5. Wakes(pc, pc', t) /\ pc'[t] = "to_pool"  BY <1>1, <1>6, <2>4, GotoMoves DEF Goto
  <2>6. ~Running'  BY <2>3, <2>5, RunsOnly
  <2>7. pc[t] \notin Pausing /\ pc'[t] \notin Pausing /\ pc'[t] \notin Never
    BY <1>2, <2>5 DEF Pausing, Never
  <2> QED  BY <1>3, <1>6, <2>3, <2>5, <2>6, <2>7, AsideStep
<1> QED  BY <1>4, <1>5, <1>6 DEF Look

(* What it then counts out was counted.                                    *)
LEMMA ToPoolLone ==
  ASSUME IInv, Lone, LoneInv, NEW t \in Threads, ToPool(t), setup' = setup
  PROVE  LoneInv'
<1>1. TypeOK  BY DEF IInv
<1>2. pc[t] = "to_pool" /\ Leaving  BY DEF ToPool, Leaving
<1>3. PICK l \in {"end_pool", "wait_loop"} : LeaveActive([pc EXCEPT ![t] = l])
  BY DEF ToPool
<1>4. l \in Labels /\ l # "wait_sole"  BY DEF Labels, WorkerLoop
<1>5. Wakes(pc, pc', t) /\ pc'[t] = l  BY <1>1, <1>3, <1>4, LeaveMoves
<1>6. NoScan  BY <1>2 DEF LoneInv, PauserOK, NoScan
<1>7. UNCHANGED <<ltp_pause, ltq_hidden, acted>>  BY DEF ToPool, listVars, taskVars
<1>8. /\ pc[t] \notin Pausing /\ pc'[t] \notin Pausing /\ pc'[t] \notin Never
      /\ pc'[t] # "run"
  BY <1>2, <1>5 DEF Pausing, Never
<1>9. Running' => Running  BY <1>5, <1>8, RunsOnly
<1> QED  BY <1>2, <1>5, <1>6, <1>7, <1>8, <1>9, AsideStep

(* A task that checks for a pause makes way for it.                        *)
LEMMA CheckLone ==
  ASSUME Counting, IInv, Lone, LoneInv, NEW t \in Threads, ldap_pvt_thread_pool_pausecheck(t),
         setup' = setup
  PROVE  LoneInv'
<1>1. TypeOK  BY DEF IInv
<1>2. UNCHANGED <<ltp_pause, ltq_hidden>>  BY DEF ldap_pvt_thread_pool_pausecheck
<1>3. "wait_check" \in Labels /\ "run" \in Labels  BY DEF Labels, WorkerLoop, HandlingPause
<1>4. CASE pc[t] = "woken_check"
  <2>1. UNCHANGED <<ltp_active_queues, acted>>
    BY <1>4 DEF ldap_pvt_thread_pool_pausecheck, Acts
  <2>2. CASE Goto(t, "wait_check")
    <3>1. Wakes(pc, pc', t) /\ pc'[t] = "wait_check"  BY <1>1, <1>3, <2>2, GotoMoves DEF Goto
    <3>2. (Running' => Running) /\ (Leaving' => Leaving)  BY <3>1, RunsOnly, LeavesOnly
    <3>3. pc[t] \notin Pausing /\ pc'[t] \notin Pausing /\ pc'[t] \notin Never
      BY <1>4, <3>1 DEF Pausing, Never
    <3> QED  BY <1>2, <2>1, <3>1, <3>2, <3>3, AsideStep
  <2>3. CASE Goto(t, "run") /\ ltp_pause = NOT_PAUSED
    <3>1. Wakes(pc, pc', t) /\ pc'[t] = "run"  BY <1>1, <1>3, <2>3, GotoMoves DEF Goto
    <3>2. NoPauser  BY <2>3 DEF LoneInv, PauserOK, NoPauser
    <3>3. Leaving' => Leaving  BY <3>1, LeavesOnly
    <3>4. pc[t] \notin Pausing /\ pc'[t] \notin Pausing /\ pc'[t] \notin Never
      BY <1>4, <3>1 DEF Pausing, Never
    <3> QED  BY <1>2, <2>1, <3>1, <3>2, <3>3, <3>4, AsideStep
  <2> QED  BY <1>4, <2>2, <2>3 DEF ldap_pvt_thread_pool_pausecheck, Acts
<1>5. CASE Acts(t, setup.checkers) /\ ltp_pause # NOT_PAUSED /\ GoIdle(t, "wait_check")
  <2>1. setup.pausers \subseteq acted /\ acted \subseteq acted'
    BY <1>5 DEF LoneInv, PauseToCome, Acts
  <2>2. pc[t] = "run" /\ IsActive(t)  BY <1>5 DEF Acts, IsActive
  <2>3. CASE Goto(t, "wait_check") /\ UNCHANGED ltp_active_queues
    <3>1. Wakes(pc, pc', t) /\ pc'[t] = "wait_check"  BY <1>1, <1>3, <2>3, GotoMoves DEF Goto
    <3>2. (Running' => Running) /\ (Leaving' => Leaving)  BY <3>1, RunsOnly, LeavesOnly
    <3>3. pc[t] \notin Pausing /\ pc'[t] \notin Pausing /\ pc'[t] \notin Never
      BY <2>2, <3>1 DEF Pausing, Never
    <3> QED  BY <1>2, <2>1, <2>3, <3>1, <3>2, <3>3, AsideStep
  <2>4. CASE LeaveActive([pc EXCEPT ![t] = "wait_check"]) /\ ltq_active_count[pq[t]] - 1 < 1
    <3>1. Wakes(pc, pc', t) /\ pc'[t] = "wait_check"  BY <1>1, <1>3, <2>4, LeaveMoves
    <3>2. \A u \in Threads : pc[u] \in {"run", "scan"} => u = t  BY <2>2, <2>4, ActiveAlone
    <3>3. NoScan  BY <2>2, <3>2 DEF NoScan
    <3>4. ~Running'
      <4>1. SUFFICES ASSUME NEW u \in Threads, pc'[u] = "run" PROVE FALSE  BY DEF Running
      <4>2. u # t  BY <3>1, <4>1
      <4>3. SameKind(pc[u], pc'[u])  BY <3>1, <4>2, AlikeKind DEF Wakes
      <4>4. "run" \in Plain  BY DEF Plain
      <4>5. pc[u] = "run"  BY <4>1, <4>3, <4>4 DEF SameKind
      <4> QED  BY <3>2, <4>2, <4>5
    <3>5. Leaving' => Leaving  BY <3>1, LeavesOnly
    <3>6. pc[t] \notin Pausing /\ pc'[t] \notin Pausing /\ pc'[t] \notin Never
      BY <2>2, <3>1 DEF Pausing, Never
    <3> QED  BY <1>2, <2>1, <3>1, <3>3, <3>4, <3>5, <3>6, AsideStep
  <2> QED  BY <1>5, <2>3, <2>4 DEF GoIdle
<1> QED  BY <1>4, <1>5 DEF ldap_pvt_thread_pool_pausecheck

(* Nobody else pauses.                                                     *)
LEMMA OthersRest ==
  ASSUME LoneInv, NEW t \in Threads, Wakes(pc, pc', t),
         pc[t] \in Pausing \/ \A u \in Threads : pc[u] \notin Pausing
  PROVE  \A u \in Threads : u # t => pc'[u] \notin Pausing
<1>1. ASSUME NEW u \in Threads, u # t PROVE pc'[u] \notin Pausing
  <2>1. pc[u] \notin Pausing  BY <1>1 DEF LoneInv, OnePauses
  <2>2. PausesAlike(u)  BY <1>1, WakesAlike
  <2> QED  BY <2>1, <2>2 DEF PausesAlike
<1> QED  BY <1>1

(* Steps of the task that pauses.                                          *)
LEMMA PauserStep ==
  ASSUME LoneInv, NEW t \in Threads, Wakes(pc, pc', t), setup' = setup,
         pc[t] \in Pausing \/ \A u \in Threads : pc[u] \notin Pausing,
         setup.pausers \subseteq acted', pc'[t] \notin Never,
         ltp_pause' # NOT_PAUSED => pc'[t] \in Scanned \cup {"scan"},
         ltp_pause' = PAUSED => pc'[t] = "paused",
         PauserOK(t)'
  PROVE  LoneInv'
<1>1. \A u \in Threads : u # t => pc'[u] \notin Pausing  BY OthersRest
<1>2. \A u \in Threads : pc'[u] \notin Never  BY NeverStill
<1>3. PauseToCome'  BY DEF PauseToCome
<1>4. OnePauses'  BY <1>1 DEF OnePauses
<1>5. PauseHeld'  BY DEF PauseHeld
<1>6. ASSUME NEW u \in Threads, u # t PROVE PauserOK(u)'
  <2>1. Scanned \subseteq Pausing /\ "scan" \in Pausing /\ {"sole", "paused"} \subseteq Pausing
    BY DEF Scanned, Pausing
  <2>2. pc'[u] \notin Scanned /\ pc'[u] # "scan" /\ pc'[u] \notin {"sole", "paused"}
    BY <1>1, <1>6, <2>1
  <2> QED  BY <2>2 DEF PauserOK
<1> QED  BY <1>2, <1>3, <1>4, <1>5, <1>6 DEF LoneInv

(* Who pauses has acted.                                                   *)
LEMMA PauserActed ==
  ASSUME LoneInv, NEW t \in Threads, pc[t] \in Pausing
  PROVE  setup.pausers \subseteq acted
BY DEF LoneInv, PauseToCome

(* Only the task that holds the pause sees it held.                        *)
LEMMA NotHeld ==
  ASSUME LoneInv, NEW t \in Threads, pc[t] \in Pausing, pc[t] # "paused"
  PROVE  ltp_pause # PAUSED
<1>1. SUFFICES ASSUME NEW u \in Threads, pc[u] = "paused" PROVE FALSE
  BY DEF LoneInv, PauseHeld
<1>2. u = t  BY <1>1 DEF LoneInv, OnePauses, Pausing
<1> QED  BY <1>1, <1>2

(* The task asks for the pause.                                            *)
LEMMA PauseCallLone ==
  ASSUME IInv, Lone, LoneInv, NEW t \in Threads, ldap_pvt_thread_pool_pause(t), setup' = setup
  PROVE  LoneInv'
<1>1. TypeOK  BY DEF IInv
<1>2. pc[t] # "woken_pause"  BY DEF LoneInv, Never
<1>3. Acts(t, setup.pausers)  BY <1>2 DEF ldap_pvt_thread_pool_pause
<1>4. ~(setup.pausers \subseteq acted)  BY <1>3 DEF Acts
<1>5. ltp_pause = NOT_PAUSED /\ ~Leaving /\ \A u \in Threads : pc[u] \notin Pausing
  BY <1>4 DEF LoneInv, PauseToCome
<1>6. WantPause(t)  BY <1>2, <1>5 DEF ldap_pvt_thread_pool_pause
<1>7. setup.pausers \subseteq acted'
  <2>1. PICK k \in Tasks : setup.pausers = {k}  BY DEF Lone
  <2> QED  BY <1>3, <2>1 DEF Acts
<1>8. "scan" \in Labels  BY DEF Labels, Pausing
<1>9. Wakes(pc, pc', t) /\ pc'[t] = "scan"  BY <1>1, <1>6, <1>8, GotoMoves DEF WantPause, Goto
<1>10. ~Leaving'  BY <1>5, <1>9, LeavesOnly
<1>11. ltp_active_queues' = 0 /\ ltp_pause' = WANT_PAUSE  BY <1>6 DEF WantPause
<1>12. PauserOK(t)'  BY <1>9, <1>10, <1>11 DEF PauserOK, Scanned
<1>13. ltp_pause' # PAUSED  BY <1>11, SMT DEF WANT_PAUSE, PAUSED
<1>14. pc'[t] \notin Never /\ pc'[t] \in Scanned \cup {"scan"}  BY <1>9 DEF Never
<1> QED  BY <1>5, <1>7, <1>9, <1>12, <1>13, <1>14, PauserStep

(* It hides the list; when the queue counts nobody else nobody runs.       *)
LEMMA ScanLone ==
  ASSUME Counting, IInv, Lone, LoneInv, NEW t \in Threads, Scan(t), setup' = setup
  PROVE  LoneInv'
<1>1. TypeOK /\ ThreadsOK  BY DEF IInv
<1>2. pc[t] = "scan" /\ pc[t] \in Pausing  BY DEF Scan, Pausing
<1>3. /\ \A q \in Queues : q = 1
      /\ 1 \in Queues
      /\ \A u \in Threads : pq[u] = 1
  BY <1>1, OneQueue
<1>4. /\ tmp[t] \in Queues /\ ltp_pause # NOT_PAUSED
      /\ (tmp[t] = pq[t] <=> ~ltq_hidden[pq[t]])
  BY <1>1, <1>2 DEF ThreadsOK, ThreadOK
<1>5. tmp[t] = 1 /\ pq[t] = 1 /\ IsActive(t)  BY <1>2, <1>3, <1>4 DEF IsActive
<1>6. NextQueue(1) = 1  BY DEF NextQueue, Lone
<1>7. /\ ltq_hidden' = [ltq_hidden EXCEPT ![1] = TRUE]
      /\ ltp_active_queues' = IF ltq_active_count[1] - 1 > 0 THEN ltp_active_queues + 1
                                                             ELSE ltp_active_queues
      /\ pc' = [pc EXCEPT ![t] = "scanned"]
      /\ ltp_pause' = ltp_pause /\ acted' = acted
  BY <1>5, <1>6 DEF Scan, Goto, taskVars
<1>8. "scanned" \in Labels  BY DEF Labels, Pausing
<1>9. Wakes(pc, pc', t) /\ pc'[t] = "scanned"  BY <1>1, <1>7, <1>8, GotoMoves
<1>10. ltq_hidden'[1]  BY <1>1, <1>3, <1>7 DEF TypeOK
<1>11. ltp_active_queues = 0 /\ ~Leaving  BY <1>2 DEF LoneInv, PauserOK
<1>12. ~Leaving'  BY <1>9, <1>11, LeavesOnly
<1>13. ltp_active_queues' < 1 => ~Running'
  <2>1. SUFFICES ASSUME ltp_active_queues' < 1, Running' PROVE FALSE  OBVIOUS
  <2>2. ltq_active_count[1] \in Int  BY <1>1, <1>3 DEF TypeOK
  <2>3. ltq_active_count[1] - 1 < 1  BY <1>7, <1>11, <2>1, <2>2, SMTT(60)
  <2>4. ltq_active_count[pq[t]] - 1 < 1  BY <1>5, <2>3
  <2>5. \A u \in Threads : pc[u] \in {"run", "scan"} => u = t  BY <1>5, <2>4, ActiveAlone
  <2>6. ~Running  BY <1>2, <2>5 DEF Running
  <2> QED  BY <1>9, <2>1, <2>6, RunsOnly
<1>14. PauserOK(t)'  BY <1>4, <1>7, <1>9, <1>10, <1>12, <1>13 DEF PauserOK
<1>15. setup.pausers \subseteq acted'  BY <1>2, <1>7, PauserActed
<1>16. pc'[t] \notin Never /\ pc'[t] \in Scanned \cup {"scan"}  BY <1>9 DEF Never, Scanned
<1>17. ltp_pause' # PAUSED  BY <1>2, <1>7, NotHeld
<1> QED  BY <1>2, <1>9, <1>14, <1>15, <1>16, <1>17, PauserStep

(* It waits until the queue is counted out.                                *)
LEMMA AwaitLone ==
  ASSUME IInv, Lone, LoneInv, NEW t \in Threads, AwaitSole(t), setup' = setup
  PROVE  LoneInv'
<1>1. TypeOK /\ ltp_active_queues \in Int  BY DEF IInv, TypeOK
<1>2. pc[t] \in Pausing /\ pc[t] \in Scanned /\ pc[t] # "paused"
  BY DEF AwaitSole, Pausing, Scanned
<1>3. UNCHANGED <<ltp_pause, ltp_active_queues, ltq_hidden, acted>>
  BY DEF AwaitSole, listVars, taskVars
<1>4. PICK l \in {"wait_sole", "sole"} :
        pc' = [pc EXCEPT ![t] = l] /\ (l = "sole" => ~(ltp_active_queues > 0))
  BY DEF AwaitSole, Goto
<1>5. l \in Labels  BY DEF Labels, Pausing
<1>6. Wakes(pc, pc', t) /\ pc'[t] = l  BY <1>1, <1>4, <1>5, GotoMoves
<1>7. (Running' => Running) /\ (Leaving' => Leaving)  BY <1>6, RunsOnly, LeavesOnly
<1>8. PauserOK(t)  BY DEF LoneInv
<1>9. l = "sole" => ltp_active_queues < 1  BY <1>1, <1>4, SMTT(60)
<1>10. pc'[t] = "sole" => ~Running'  BY <1>2, <1>6, <1>7, <1>8, <1>9 DEF PauserOK
<1>11. pc'[t] # "scan" /\ pc'[t] # "paused"  BY <1>6
<1>12. PauserOK(t)'  BY <1>2, <1>3, <1>7, <1>8, <1>10, <1>11 DEF PauserOK
<1>13. setup.pausers \subseteq acted' /\ ltp_pause' # PAUSED
  BY <1>2, <1>3, PauserActed, NotHeld
<1>14. pc'[t] \notin Never /\ pc'[t] \in Scanned \cup {"scan"}  BY <1>6 DEF Never, Scanned
<1> QED  BY <1>2, <1>6, <1>12, <1>13, <1>14, PauserStep

(* The pause is granted when nobody runs.                                  *)
LEMMA PausedLone ==
  ASSUME IInv, Lone, LoneInv, NEW t \in Threads, Paused(t), setup' = setup
  PROVE  LoneInv'
<1>1. TypeOK  BY DEF IInv
<1>2. pc[t] = "sole" /\ pc[t] \in Pausing /\ pc[t] \in Scanned  BY DEF Paused, Pausing, Scanned
<1>3. UNCHANGED <<ltp_active_queues, ltq_hidden, acted>> /\ ltp_pause' = PAUSED
  BY DEF Paused, listVars, taskVars
<1>4. "paused" \in Labels  BY DEF Labels, Pausing
<1>5. Wakes(pc, pc', t) /\ pc'[t] = "paused"  BY <1>1, <1>4, GotoMoves DEF Paused, Goto
<1>6. ltq_hidden[1] /\ ~Running  BY <1>2 DEF LoneInv, PauserOK
<1>7. ~Running'  BY <1>5, <1>6, RunsOnly
<1>8. PAUSED # NOT_PAUSED  BY SMT DEF PAUSED, NOT_PAUSED
<1>9. PauserOK(t)'  BY <1>3, <1>5, <1>6, <1>7, <1>8 DEF PauserOK
<1>10. setup.pausers \subseteq acted'  BY <1>2, <1>3, PauserActed
<1>11. pc'[t] \notin Never /\ pc'[t] \in Scanned \cup {"scan"}  BY <1>5 DEF Never, Scanned
<1> QED  BY <1>2, <1>5, <1>9, <1>10, <1>11, PauserStep

(* The resume: the pause is over, the list is shown, the task runs on.     *)
LEMMA ResumeLone ==
  ASSUME IInv, Lone, LoneInv, NEW t \in Threads, setup' = setup,
         ldap_pvt_thread_pool_resume(t) \/ Show(t) \/ Resumed(t)
  PROVE  LoneInv'
<1> USE DEF poolVars, taskVars
<1>1. TypeOK /\ pc \in [Threads -> Labels]  BY DEF IInv, TypeOK, Labels
<1>2. /\ pc[t] \in Pausing /\ acted' = acted
      /\ pc[t] \in {"paused", "resume"}
  BY DEF ldap_pvt_thread_pool_resume, Show, Resumed, Pausing
<1>3. "resume" \in Labels /\ "run" \in Labels  BY DEF Labels, Pausing, WorkerLoop
<1>4. Wakes(pc, pc', t) /\ pc'[t] \in {"resume", "run"}
  <2>1. CASE ldap_pvt_thread_pool_resume(t)
    BY <1>1, <1>3, <2>1, GotoMoves DEF ldap_pvt_thread_pool_resume, Goto
  <2>2. CASE Show(t)
    <3>1. pc' = WakeQueue(tmp[t], pc) /\ pc[t] = "resume"  BY <2>2 DEF Show
    <3>2. Wakes(pc, pc', t)  BY <1>1, <3>1, QueueWakes
    <3>3. pc'[t] = "resume"  BY <3>1 DEF WakeQueue
    <3> QED  BY <3>2, <3>3
  <2>3. CASE Resumed(t)
    <3>1. Wakes(pc, WakePool(pc), t)  BY <1>1, PoolWakes
    <3>2. pc' = [WakePool(pc) EXCEPT ![t] = "run"]  BY <2>3 DEF Resumed
    <3>3. WakePool(pc) \in [Threads -> Labels]  BY <3>1 DEF Wakes
    <3>4. pc' \in [Threads -> Labels] /\ pc'[t] = "run"
      BY <1>3, <3>2, <3>3
    <3>5. \A u \in Threads : u # t => pc'[u] = WakePool(pc)[u]  BY <3>2, <3>3
    <3> QED  BY <3>1, <3>4, <3>5 DEF Wakes
  <2> QED  BY <2>1, <2>2, <2>3
<1>5. ltp_pause' = NOT_PAUSED
  <2>1. CASE ldap_pvt_thread_pool_resume(t)  BY <2>1 DEF ldap_pvt_thread_pool_resume
  <2>2. CASE Show(t) \/ Resumed(t)
    <3>1. ltp_pause' = ltp_pause /\ pc[t] = "resume"  BY <2>2 DEF Show, Resumed
    <3>2. SUFFICES ASSUME NEW u \in Threads, pc[u] \in Scanned \cup {"scan"} PROVE FALSE
      BY <3>1 DEF LoneInv, PauseHeld
    <3>3. pc[u] \in Pausing /\ pc[u] # "resume"  BY <3>2 DEF Scanned, Pausing
    <3>4. u = t  BY <1>2, <3>3 DEF LoneInv, OnePauses
    <3> QED  BY <3>1, <3>3, <3>4
  <2> QED  BY <2>1, <2>2
<1>6. pc'[t] \notin Never /\ pc'[t] \notin Scanned /\ pc'[t] # "scan"  BY <1>4 DEF Never, Scanned
<1>7. PauserOK(t)'  BY <1>6 DEF PauserOK, Scanned
<1>8. setup.pausers \subseteq acted'  BY <1>2, PauserActed
<1>9. NOT_PAUSED # PAUSED  BY SMT DEF PAUSED, NOT_PAUSED
<1> QED  BY <1>2, <1>4, <1>5, <1>6, <1>7, <1>8, <1>9, PauserStep

(* At the start no pause is asked for.                                     *)
LEMMA InitLone ==
  ASSUME Init
  PROVE  LoneInv
<1>1. \A t \in Threads : pc[t] = "none"  BY DEF Init
<1>2. ltp_pause = NOT_PAUSED  BY DEF Init
<1>3. ~Leaving /\ ~Running  BY <1>1 DEF Leaving, Running
<1>4. \A t \in Threads : pc[t] \notin Pausing /\ pc[t] \notin Scanned /\ pc[t] \notin Never
  BY <1>1 DEF Pausing, Scanned, Never
<1>5. PauseToCome /\ OnePauses  BY <1>2, <1>3, <1>4 DEF PauseToCome, OnePauses
<1>6. NOT_PAUSED # PAUSED  BY SMT DEF PAUSED, NOT_PAUSED
<1>7. PauseHeld  BY <1>2, <1>6 DEF PauseHeld
<1>8. \A t \in Threads : PauserOK(t)  BY <1>1, <1>3, <1>4 DEF PauserOK
<1> QED  BY <1>4, <1>5, <1>7, <1>8 DEF LoneInv

(* Every step keeps what holds of a lone pause.                            *)
LEMMA NextLone ==
  ASSUME Counting, IInv, Lone, LoneInv, [Next]_vars
  PROVE  LoneInv'
<1>1. CASE UNCHANGED vars
  <2>1. UNCHANGED <<pc, acted, setup, ltp_pause, ltp_active_queues, ltq_hidden>>
    BY <1>1 DEF vars, moving, poolVars, listVars, taskVars
  <2>2. pc \in [Threads -> Labels]  BY DEF IInv, TypeOK, Labels
  <2>3. Wakes(pc, pc', Nobody)  BY <2>1, <2>2 DEF Wakes, Alike
  <2>4. Nobody \notin Threads  BY TPoolAssumption
  <2> QED  BY <2>1, <2>3, <2>4, CalmStep
<1>2. ASSUME setup' = setup, NEW k \in Tasks, ldap_pvt_thread_pool_submit(k) PROVE LoneInv'
  BY <1>2, SubmitLone
<1>3. ASSUME setup' = setup, Close \/ \E n \in MaxCounts : ldap_pvt_thread_pool_maxthreads(n)
      PROVE LoneInv'
  BY <1>3, MainLone
<1>4. ASSUME setup' = setup, NEW t \in Threads, Worker(t) PROVE LoneInv'
  <2>1. ~ldap_pvt_thread_pool_unidle(t)
    BY DEF LoneInv, Never, ldap_pvt_thread_pool_unidle
  <2> QED
    BY <1>4, <2>1, LoopLone, LookLone, WakeUpLone, ToPoolLone, EndLone, ScanLone, AwaitLone,
       PausedLone, ResumeLone
       DEF Worker
<1>5. ASSUME setup' = setup, NEW t \in Threads, Finish(t) PROVE LoneInv'
  BY <1>5, LoopLone
<1>6. ASSUME setup' = setup, NEW t \in Threads, TaskCalls(t) PROVE LoneInv'
  <2>1. ~ldap_pvt_thread_pool_idle(t)
    BY DEF Lone, Acts, ldap_pvt_thread_pool_idle
  <2> QED  BY <1>6, <2>1, CheckLone, PauseCallLone DEF TaskCalls
<1> QED  BY <1>1, <1>2, <1>3, <1>4, <1>5, <1>6 DEF Next

(* Both invariants together.                                               *)
LEMMA NextLInv ==
  ASSUME Counting, LInv, [Next]_vars
  PROVE  LInv'
<1>1. IInv'  BY NextIInv DEF LInv
<1>2. setup' = setup  BY DEF Next, vars
<1>3. Lone' => Lone  BY <1>2 DEF Lone
<1>4. Lone => LoneInv'  BY NextLone DEF LInv
<1> QED  BY <1>1, <1>3, <1>4 DEF LInv

(* Who holds the pause holds it alone and runs alone.                      *)
LEMMA SoleFollows ==
  ASSUME Counting, LInv
  PROVE  LonePause
<1>1. SUFFICES ASSUME Lone, ltp_pause = PAUSED
               PROVE  /\ Cardinality({t \in Threads : pc[t] = "paused"}) = 1
                      /\ \A t \in Threads : pc[t] # "run"
  BY DEF LonePause, Lone, SolePause
<1>2. LoneInv  BY <1>1 DEF LInv
<1>3. PICK t \in Threads : pc[t] = "paused"  BY <1>1, <1>2 DEF LoneInv, PauseHeld
<1>4. {u \in Threads : pc[u] = "paused"} = {} \cup {t}
  <2>1. ASSUME NEW u \in Threads, pc[u] = "paused" PROVE u = t
    BY <1>2, <1>3, <2>1 DEF LoneInv, OnePauses, Pausing
  <2> QED  BY <1>3, <2>1
<1>5. Cardinality({} \cup {t}) = Cardinality({}) + 1 /\ Cardinality({}) = 0
  BY DEF Counting
<1>6. Cardinality({u \in Threads : pc[u] = "paused"}) = 1
  <2>1. Cardinality({u \in Threads : pc[u] = "paused"}) = 0 + 1  BY <1>4, <1>5
  <2>2. 0 + 1 = 1  BY SMTT(60)
  <2> QED  BY <2>1, <2>2
<1>7. ~Running  BY <1>2, <1>3 DEF LoneInv, PauserOK
<1> QED  BY <1>6, <1>7 DEF Running

-----------------------------------------------------------------------------
(* Counting.  The theorems on finite sets are instantiated only here: what *)
(* they bring into view slows every proof that follows.  The instance has  *)
(* copies of its own of Cardinality and IsFiniteSet.                       *)

Number(S) == Cardinality(S)
Finite(S) == IsFiniteSet(S)

(* What the number of a set is.                                            *)
LEMMA NumberIs ==
  \A S : Number(S) = LET CS[T \in SUBSET S] ==
                           IF T = {} THEN 0 ELSE 1 + CS[T \ {CHOOSE x : x \in T}]
                     IN  CS[S]
BY DEF Cardinality, Number

(* What being finite is.                                                   *)
LEMMA FiniteIs ==
  \A S : Finite(S) <=> \E seq \in Seq(S) : \A s \in S : \E n \in 1..Len(seq) : seq[n] = s
BY SMT DEF IsFiniteSet, Finite

(* The assumption on Threads, and Counting, for the first copy.            *)
LEMMA FiniteThreads == Finite(Threads)
BY TPoolAssumption DEF Finite

(* Counting, said of Number.                                               *)
LEMMA CountingIs ==
  ASSUME /\ Number({}) = 0
         /\ \A S \in SUBSET Threads :
              /\ Number(S) \in Nat
              /\ \A t \in Threads \ S : Number(S \cup {t}) = Number(S) + 1
              /\ \A t \in S : Number(S \ {t}) = Number(S) - 1
  PROVE  Counting
BY DEF Number, Counting

LOCAL INSTANCE FiniteSetTheorems

(* The two copies agree.                                                   *)
LEMMA SameNumber == \A S : Number(S) = Cardinality(S) /\ (Finite(S) <=> IsFiniteSet(S))
<1>1. \A S : Number(S) = Cardinality(S)  BY NumberIs DEF Cardinality
<1>2. \A S : Finite(S) <=> IsFiniteSet(S)  BY FiniteIs DEF IsFiniteSet
<1> QED  BY <1>1, <1>2

(* The threads are finitely many, so their sets can be counted.            *)
LEMMA ThreadSets == Counting
<1>1. IsFiniteSet(Threads)  BY FiniteThreads, SameNumber
<1>2. ASSUME NEW S \in SUBSET Threads PROVE IsFiniteSet(S) /\ Cardinality(S) \in Nat
  <2>1. S \subseteq Threads  OBVIOUS
  <2>2. IsFiniteSet(S)  BY <1>1, <2>1, FS_Subset
  <2> QED  BY <2>2, FS_CardinalityType, SMTT(60)
<1>3. ASSUME NEW S \in SUBSET Threads, NEW t \in Threads \ S
      PROVE  Cardinality(S \cup {t}) = Cardinality(S) + 1
  <2>1. IsFiniteSet(S) /\ t \notin S  BY <1>2
  <2> QED  BY <2>1, FS_AddElement
<1>4. ASSUME NEW S \in SUBSET Threads, NEW t \in S
      PROVE  Cardinality(S \ {t}) = Cardinality(S) - 1
  <2>1. IsFiniteSet(S)  BY <1>2
  <2> QED  BY <2>1, FS_RemoveElement
<1>5. Cardinality({}) = 0  BY FS_EmptySet, SMTT(60)
<1> QED  BY <1>2, <1>3, <1>4, <1>5, SameNumber, CountingIs

(* The invariant holds in every state.                                     *)
LEMMA IInvCorrect == Spec => []IInv
<1>1. Init => IInv  BY InitIInv, ThreadSets
<1>2. IInv /\ [Next]_vars => IInv'  BY NextIInv, ThreadSets
<1> QED  BY <1>1, <1>2, PTL DEF Spec

(* The counters of a queue count what they are declared to count: the      *)
(* handlers of tpool.c never lose or repeat an update, in whatever order   *)
(* the threads run, as long as two updates of one counter under different  *)
(* mutexes do not overlap.                                                 *)
THEOREM CountsStayExact == Spec => []CountsExact
<1>1. IInv => CountsExact  BY CountsFollow
<1> QED  BY <1>1, IInvCorrect, PTL

(* The comment in the wrapper, "always have at least one thread open":     *)
(* two threads of a queue may pass the comparison with ltq_max_count at    *)
(* the same time, one under ltq_mutex and one under ltp_mutex, but no      *)
(* third, and then at least three were open.                               *)
THEOREM LastThreadNeverEnds == Spec => LastThreadStays
<1>1. IInv /\ [Next]_vars
        => \A q \in Queues : (ltq_open_count[q] > 0 /\ ltq_open_count'[q] = 0)
              => ltp_finishing \/ 1 \in MaxCounts \/ ~setup.atomic
  BY ThreadSets, ThreadStays
<1> QED  BY <1>1, IInvCorrect, PTL DEF Spec, LastThreadStays

(* So do both.                                                             *)
LEMMA LInvCorrect == Spec => []LInv
<1>1. Init => LInv  BY InitIInv, InitLone, ThreadSets DEF LInv
<1>2. LInv /\ [Next]_vars => LInv'  BY NextLInv, ThreadSets
<1> QED  BY <1>1, <1>2, PTL DEF Spec

(* The comment on pool_pause, "Return when all other tasks are paused or   *)
(* idle", holds of a task that pauses alone in a pool of one queue: while  *)
(* it holds the pause no other task runs, for any number of threads and    *)
(* tasks, whatever is submitted, resized or shut down meanwhile.           *)
THEOREM LonePauseIsSole == Spec => []LonePause
<1>1. LInv => LonePause  BY ThreadSets, SoleFollows
<1> QED  BY <1>1, LInvCorrect, PTL
=============================================================================
