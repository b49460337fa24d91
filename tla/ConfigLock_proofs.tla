------------------------- MODULE ConfigLock_proofs --------------------------
(***************************************************************************)
(* cb_lock, the big locks and the pause of the pool, for any finite set of *)
(* threads and any setups.                                                 *)
(*                                                                         *)
(* IInv is the inductive invariant.  AtOK says of one thread what its slot *)
(* of cb_lock and its saved state hold at each label; LevelsAt where the   *)
(* levels of its big lock are, held or saved over a pause.  Readers,       *)
(* Writer, Owners and Paused relate the threads to rurw_readers,           *)
(* rurw_writer, the owners of the big locks and the pauser.                *)
(***************************************************************************)
EXTENDS ConfigLock, FiniteSetTheorems, TLAPS

(* Where operations of each kind can be, and where the checkpoint can be   *)
(* that runs inside a change.                                              *)
SearchLabels == {"enter", "lock", "wait_r", "woken_r", "reading", "sending", "leave", "finished"}

DataLabels == {"enter", "working", "checking", "checked", "leave", "finished"}

NestedLabels ==
  {"lock", "found", "retreated", "want", "wanting", "paused", "obtain", "wait_o", "woken_o",
   "changing", "answer", "leave"}

ChangeLabels == NestedLabels \cup {"enter", "wait_w", "woken_w", "sending", "closing", "finished"}

Changes == {"change", "internal", "remove"}

KindAt(t) ==
  /\ op[t].kind = "none" <=> pc[t] = "ready"
  /\ op[t].kind = "search" => pc[t] \in SearchLabels
  /\ op[t].kind = "data" => pc[t] \in DataLabels
  /\ op[t].kind \in Changes => pc[t] \in ChangeLabels

TodoAt(t) ==
  /\ op[t].nested => op[t].kind \in Changes \ {"remove"} /\ op[t].todo = "none" /\ pc[t] \in NestedLabels
  /\ op[t].todo = "checkpoint" => pc[t] = "answer" /\ op[t].kind \in Changes \ {"remove"}
  /\ op[t].todo = "close" =>
       pc[t] \in {"answer", "sending", "want", "wanting", "closing"} /\ op[t].kind = "remove"
  /\ pc[t] = "closing" => op[t].todo = "close"

(* The write levels of cb_lock that an operation at work has.              *)
Depth(t) == IF op[t].nested THEN 2 ELSE 1

(* It has given them up, or waits to get them back.                        *)
Retreated(t) ==
  \/ pc[t] \in {"retreated", "paused", "obtain"}
  \/ pc[t] \in {"want", "wanting"} /\ op[t].todo # "close"

Write(t) ==
  \/ pc[t] \in {"found", "changing", "answer", "closing", "wait_o", "woken_o"}
  \/ pc[t] = "sending" /\ op[t].kind # "search"
  \/ pc[t] \in {"want", "wanting"} /\ op[t].todo = "close"

Read(t) == pc[t] = "reading" \/ (pc[t] = "sending" /\ op[t].kind = "search")

SlotAt(t) ==
  /\ Write(t) => slot[t].w = Depth(t)
  /\ ~Write(t) => slot[t].w = IF op[t].nested /\ pc[t] \in {"lock", "leave"} THEN 1 ELSE 0
  /\ slot[t].r = IF Read(t) THEN 1 ELSE 0
  /\ Retreated(t) \/ pc[t] \in {"wait_o", "woken_o"} => saved[t].w = Depth(t) /\ saved[t].r = 0

AtOK(t) == KindAt(t) /\ TodoAt(t) /\ SlotAt(t)

(* The big lock is given up over a pause.                                  *)
GivenUp(t) ==
  \/ pc[t] \in {"want", "wanting"} /\ op[t].todo # "close"
  \/ pc[t] \in {"paused", "checking", "checked"}

LevelsAt(t) ==
  /\ deep[t] = IF GivenUp(t) THEN Levels(t) ELSE 0
  /\ bl[Db(t)].owner = t <=> Levels(t) > 0 /\ ~GivenUp(t)
  /\ bl[Db(t)].owner = t => bl[Db(t)].recursion = Levels(t)
  /\ \A d \in Dbs : bl[d].owner = t => d = Db(t)

Owners == \A d \in Dbs : bl[d].owner = Nobody => bl[d].recursion = 0

Readers == cb.readers = Cardinality({t \in Threads : slot[t].r > 0})

Writer ==
  /\ cb.writer => cb.readers = 0 /\ \E t \in Threads : Writes(t)
  /\ \A t \in Threads : Writes(t) => cb.writer
  /\ \A t, u \in Threads : Writes(t) /\ Writes(u) => t = u

PausedLabels == {"paused", "obtain", "wait_o", "woken_o", "changing", "closing"}

Paused ==
  /\ ltp_pause = "NOT_PAUSED" <=> pauser = Nobody
  /\ \A t \in Threads : (pauser = t <=> pc[t] \in PausedLabels \cup {"wanting"})
  /\ \A t \in Threads : pc[t] \in PausedLabels => ltp_pause = "PAUSED"
  /\ \A t \in Threads : pc[t] = "wanting" => ltp_pause = "WANT_PAUSE"
  /\ ltp_pause = "PAUSED" => \A u \in Threads : u # pauser => PoolIdle(u)

IInv ==
  /\ TypeOK /\ setup \in Setups
  /\ \A t \in Threads : AtOK(t) /\ LevelsAt(t)
  /\ Owners /\ Readers /\ Writer /\ Paused

-----------------------------------------------------------------------------
Kinds == {"none", "search", "change", "internal", "remove", "data"}

OpType == [kind : Kinds, nested : BOOLEAN, todo : {"none", "checkpoint", "close"}, waited : BOOLEAN]

SlotType == [thr : BOOLEAN, r : 0..1, w : 0..2]

LockType == [owner : Threads \cup {Nobody}, recursion : 0..2]

(* Thread t goes to l, and some threads that waited for cb_lock are woken. *)
Moves(t, l) ==
  /\ pc' \in [Threads -> Labels] /\ pc'[t] = l
  /\ \A u \in Threads : u # t => pc'[u] = pc[u] \/ (pc[u] \in {"wait_w", "wait_o", "wait_r"} /\ pc'[u] = Woken(pc[u]))

(* What Woken does to the three labels.                                    *)
LEMMA WokenLabels ==
  Woken("wait_w") = "woken_w" /\ Woken("wait_o") = "woken_o" /\ Woken("wait_r") = "woken_r"
BY Zenon DEF Woken

(* A step that goes on at one label, also one that leaves cb_lock, moves   *)
(* its own thread there and wakes waiters only.                            *)
LEMMA Moving ==
  ASSUME pc \in [Threads -> Labels], NEW t \in Threads, NEW l \in Labels, NEW c,
         \/ Goto(t, l)
         \/ l \notin {"wait_w", "wait_o", "wait_r"} /\ pc' \in rurw_leave(c, [pc EXCEPT ![t] = l])
  PROVE  Moves(t, l)
<1> DEFINE p == [pc EXCEPT ![t] = l]
<1>1. p \in [Threads -> Labels] /\ p[t] = l /\ \A u \in Threads : u # t => p[u] = pc[u]
  BY Zenon
<1>2. Woken("wait_w") \in Labels /\ Woken("wait_o") \in Labels /\ Woken("wait_r") \in Labels
  BY Zenon, WokenLabels DEF Labels
<1>3. CASE pc' = p
  BY Zenon, <1>1, <1>3 DEF Moves
<1>4. CASE \E u \in {v \in Threads : p[v] \in {"wait_w", "wait_o"}} :
             l \notin {"wait_w", "wait_o", "wait_r"} /\ pc' = [p EXCEPT ![u] = Woken(@)]
  <2>1. PICK u \in {v \in Threads : p[v] \in {"wait_w", "wait_o"}} :
               l \notin {"wait_w", "wait_o", "wait_r"} /\ pc' = [p EXCEPT ![u] = Woken(@)]
    BY Zenon, <1>4
  <2>2. u \in Threads /\ u # t /\ p[u] = pc[u] /\ p[u] \in {"wait_w", "wait_o"}
    BY Zenon, <1>1, <2>1
  <2>3. pc' = [p EXCEPT ![u] = Woken(p[u])]
    BY Zenon, <2>1
  <2>4. Woken(p[u]) \in Labels
    BY Zenon, <1>2, <2>2
  <2> HIDE DEF p
  <2> QED BY Zenon, <1>1, <2>2, <2>3, <2>4 DEF Moves
<1>5. CASE /\ l \notin {"wait_w", "wait_o", "wait_r"}
           /\ pc' = [u \in Threads |-> IF p[u] = "wait_r" THEN Woken(p[u]) ELSE p[u]]
  <2> HIDE DEF p
  <2> QED BY Zenon, <1>1, <1>2, <1>5 DEF Moves
<1> QED BY Zenon, <1>3, <1>4, <1>5 DEF Goto, rurw_leave

(* The operations, slots and saved states of the other threads stay.       *)
Others(t) ==
  \A u \in Threads : u # t =>
    op'[u] = op[u] /\ slot'[u] = slot[u] /\ saved'[u] = saved[u] /\ deep'[u] = deep[u]

(* What a woken thread has is what it had.                                 *)
LEMMA AtFrame ==
  ASSUME IInv, NEW t \in Threads, NEW l, Moves(t, l), Others(t), AtOK(t)'
  PROVE  \A u \in Threads : AtOK(u)'
<1> SUFFICES ASSUME NEW u \in Threads, u # t PROVE AtOK(u)'
  BY Zenon
<1>1. op'[u] = op[u] /\ slot'[u] = slot[u] /\ saved'[u] = saved[u] /\ AtOK(u)
  BY Zenon DEF Others, IInv
<1>2. \/ pc'[u] = pc[u]
      \/ pc[u] = "wait_w" /\ pc'[u] = "woken_w"
      \/ pc[u] = "wait_o" /\ pc'[u] = "woken_o"
      \/ pc[u] = "wait_r" /\ pc'[u] = "woken_r"
  BY Zenon, WokenLabels DEF Moves
<1>3. KindAt(u)'
  BY Zenon, <1>1, <1>2 DEF AtOK, KindAt, SearchLabels, DataLabels, ChangeLabels, NestedLabels
<1>4. TodoAt(u)'
  BY Zenon, <1>1, <1>2 DEF AtOK, KindAt, TodoAt, NestedLabels, SearchLabels, DataLabels, ChangeLabels
<1>5. /\ Write(u)' <=> Write(u)
      /\ Read(u)' <=> Read(u)
      /\ Retreated(u)' <=> Retreated(u)
      /\ pc'[u] \in {"lock", "leave"} <=> pc[u] \in {"lock", "leave"}
      /\ pc'[u] \in {"wait_o", "woken_o"} <=> pc[u] \in {"wait_o", "woken_o"}
  BY Zenon, <1>1, <1>2 DEF Write, Read, Retreated
<1>6. Depth(u)' = Depth(u)
  BY Zenon, <1>1 DEF Depth
<1>7. SlotAt(u)'
  BY Zenon, <1>1, <1>5, <1>6 DEF AtOK, SlotAt
<1> QED BY Zenon, <1>3, <1>4, <1>7 DEF AtOK

(* The levels of the other threads stay where they are if only a lock that *)
(* t may have or take changes.                                             *)
LEMMA LevelsFrame ==
  ASSUME IInv, NEW t \in Threads, NEW l, Moves(t, l), Others(t), setup' = setup,
         \A d \in Dbs : \/ bl'[d] = bl[d]
                        \/ bl[d].owner \in {Nobody, t} /\ bl'[d].owner \in {Nobody, t},
         LevelsAt(t)'
  PROVE  \A u \in Threads : LevelsAt(u)'
<1> SUFFICES ASSUME NEW u \in Threads, u # t PROVE LevelsAt(u)'
  BY Zenon
<1>1. op'[u] = op[u] /\ deep'[u] = deep[u] /\ LevelsAt(u)
  BY Zenon DEF Others, IInv
<1>2. \/ pc'[u] = pc[u]
      \/ pc[u] = "wait_w" /\ pc'[u] = "woken_w"
      \/ pc[u] = "wait_o" /\ pc'[u] = "woken_o"
      \/ pc[u] = "wait_r" /\ pc'[u] = "woken_r"
  BY Zenon, WokenLabels DEF Moves
<1>3. Db(u)' = Db(u) /\ Db(u) \in Dbs
  BY Zenon, <1>1 DEF Db, Dbs
<1>4. GivenUp(u)' <=> GivenUp(u)
  BY Zenon, <1>1, <1>2 DEF GivenUp
<1>5. pc'[u] \in {"ready", "enter", "finished"} <=> pc[u] \in {"ready", "enter", "finished"}
  BY Zenon, <1>2
<1>6. Levels(u)' = Levels(u)
  BY Zenon, <1>1, <1>5 DEF Levels
<1>7. u # Nobody
  BY Zenon, ConfigLockAssumption
<1>8. \A d \in Dbs : (bl'[d].owner = u <=> bl[d].owner = u) /\ (bl[d].owner = u => bl'[d] = bl[d])
  BY Zenon, <1>7
<1> QED BY Zenon, <1>1, <1>3, <1>4, <1>6, <1>8 DEF LevelsAt

(* A step that leaves the big locks alone.                                 *)
LEMMA LevelsKept ==
  ASSUME IInv, NEW t \in Threads, NEW l, Moves(t, l), Others(t), setup' = setup,
         bl' = bl, deep' = deep, Db(t)' = Db(t), Levels(t)' = Levels(t), GivenUp(t)' <=> GivenUp(t)
  PROVE  (\A u \in Threads : LevelsAt(u)') /\ Owners'
<1>1. LevelsAt(t)'
  BY Zenon DEF IInv, LevelsAt
<1>2. \A u \in Threads : LevelsAt(u)'
  BY Zenon, <1>1, LevelsFrame
<1> QED BY Zenon, <1>2 DEF IInv, Owners

-----------------------------------------------------------------------------
ReaderSet == {u \in Threads : slot[u].r > 0}

(* The threads that read are finitely many, and t's own slot decides how   *)
(* their number changes.                                                   *)
LEMMA ReaderSets ==
  ASSUME IInv, NEW t \in Threads, Others(t)
  PROVE  /\ cb.readers = Cardinality(ReaderSet) /\ cb.readers \in Nat
         /\ slot[t].r > 0 => cb.readers > 0
         /\ (slot'[t].r > 0 <=> slot[t].r > 0) => ReaderSet' = ReaderSet
         /\ slot'[t].r > 0 /\ ~(slot[t].r > 0) => Cardinality(ReaderSet)' = Cardinality(ReaderSet) + 1
         /\ ~(slot'[t].r > 0) /\ slot[t].r > 0 => Cardinality(ReaderSet)' = Cardinality(ReaderSet) - 1
<1>1. IsFiniteSet(ReaderSet)
  BY Zenon, ConfigLockAssumption, FS_Subset DEF ReaderSet
<1>2. cb.readers = Cardinality(ReaderSet)
  BY Zenon DEF IInv, Readers, ReaderSet
<1>3. cb.readers \in Nat
  BY Zenon, <1>1, <1>2, FS_CardinalityType
<1>4. \A u \in Threads : u # t => slot'[u].r = slot[u].r
  BY Zenon DEF Others
<1>5. ASSUME slot[t].r > 0 PROVE cb.readers > 0
  <2>1. ReaderSet # {}
    BY Zenon, <1>5 DEF ReaderSet
  <2>2. Cardinality(ReaderSet) # 0
    BY Zenon, <1>1, <2>1, FS_EmptySet
  <2> QED BY <1>2, <1>3, <2>2
<1>6. (slot'[t].r > 0 <=> slot[t].r > 0) => ReaderSet' = ReaderSet
  BY Zenon, <1>4 DEF ReaderSet
<1>7. ASSUME slot'[t].r > 0, ~(slot[t].r > 0) PROVE Cardinality(ReaderSet)' = Cardinality(ReaderSet) + 1
  <2>1. t \notin ReaderSet /\ ReaderSet' = ReaderSet \cup {t}
    BY Zenon, <1>4, <1>7 DEF ReaderSet
  <2> QED BY Zenon, <1>1, <2>1, FS_AddElement
<1>8. ASSUME ~(slot'[t].r > 0), slot[t].r > 0 PROVE Cardinality(ReaderSet)' = Cardinality(ReaderSet) - 1
  <2>1. t \in ReaderSet /\ ReaderSet' = ReaderSet \ {t}
    BY Zenon, <1>4, <1>8 DEF ReaderSet
  <2> QED BY Zenon, <1>1, <2>1, FS_RemoveElement
<1> QED BY Zenon, <1>2, <1>3, <1>5, <1>6, <1>7, <1>8

(* Another thread neither gets nor loses cb_lock.                          *)
LEMMA WritesFrame ==
  ASSUME NEW t \in Threads, NEW l, Moves(t, l), Others(t)
  PROVE  \A u \in Threads : u # t => (Writes(u)' <=> Writes(u))
<1> SUFFICES ASSUME NEW u \in Threads, u # t PROVE Writes(u)' <=> Writes(u)
  BY Zenon
<1>1. slot'[u] = slot[u]
  BY Zenon DEF Others
<1>2. pc'[u] \in {"wait_o", "woken_o"} <=> pc[u] \in {"wait_o", "woken_o"}
  BY Zenon, WokenLabels DEF Moves
<1> QED BY Zenon, <1>1, <1>2 DEF Writes, Waiting

LockStep == Readers' /\ Writer'

(* A step that leaves cb_lock with the threads that have it.               *)
LEMMA LockKept ==
  ASSUME IInv, NEW t \in Threads, NEW l, Moves(t, l), Others(t), cb' = cb,
         slot'[t].r = slot[t].r, Writes(t)' <=> Writes(t)
  PROVE  LockStep
<1>1. \A u \in Threads : Writes(u)' <=> Writes(u)
  BY Zenon, WritesFrame
<1>2. ReaderSet' = ReaderSet /\ cb.readers = Cardinality(ReaderSet)
  BY Zenon, ReaderSets
<1>3. Readers'
  BY Zenon, <1>2 DEF Readers, ReaderSet
<1> QED BY Zenon, <1>1, <1>3 DEF LockStep, IInv, Writer

(* rurw_r_lock and rurw_r_unlock.                                          *)
LEMMA LockRead ==
  ASSUME IInv, NEW t \in Threads, NEW l, Moves(t, l), Others(t), ~Writes(t), ~Writes(t)',
         cb'.writer = cb.writer, ~cb.writer,
         \/ slot'[t].r = 1 /\ slot[t].r = 0 /\ cb'.readers = cb.readers + 1
         \/ slot'[t].r = 0 /\ slot[t].r = 1 /\ cb'.readers = cb.readers - 1
  PROVE  LockStep
<1>1. \A u \in Threads : Writes(u)' <=> Writes(u)
  BY Zenon, WritesFrame
<1>2. cb'.readers = Cardinality(ReaderSet')
  <2>1. CASE slot'[t].r = 1 /\ slot[t].r = 0 /\ cb'.readers = cb.readers + 1
    <3>1. slot'[t].r > 0 /\ ~(slot[t].r > 0)
      BY <2>1
    <3> QED BY Zenon, <2>1, <3>1, ReaderSets
  <2>2. CASE slot'[t].r = 0 /\ slot[t].r = 1 /\ cb'.readers = cb.readers - 1
    <3>1. ~(slot'[t].r > 0) /\ slot[t].r > 0
      BY <2>2
    <3> QED BY Zenon, <2>2, <3>1, ReaderSets
  <2> QED BY Zenon, <2>1, <2>2
<1>3. Readers'
  BY Zenon, <1>2 DEF Readers, ReaderSet
<1> QED BY Zenon, <1>1, <1>3 DEF LockStep, IInv, Writer

(* A writer gets cb_lock while nobody has it.                              *)
LEMMA LockTake ==
  ASSUME IInv, NEW t \in Threads, NEW l, Moves(t, l), Others(t), Writes(t)',
         cb'.writer, cb'.readers = cb.readers, ~Busy, slot'[t].r = slot[t].r
  PROVE  LockStep
<1>1. \A u \in Threads : u # t => (Writes(u)' <=> Writes(u))
  BY Zenon, WritesFrame
<1>2. \A u \in Threads : ~Writes(u)
  BY Zenon DEF IInv, Writer, Busy
<1>3. ReaderSet' = ReaderSet /\ cb.readers = Cardinality(ReaderSet) /\ cb.readers \in Nat
  BY Zenon, ReaderSets
<1>4. cb.readers = 0
  BY <1>3 DEF Busy
<1>5. Readers'
  BY Zenon, <1>3 DEF Readers, ReaderSet
<1> QED BY Zenon, <1>1, <1>2, <1>4, <1>5 DEF LockStep, Writer

(* The writer gives cb_lock up.                                            *)
LEMMA LockDrop ==
  ASSUME IInv, NEW t \in Threads, NEW l, Moves(t, l), Others(t), Writes(t), ~Writes(t)',
         ~cb'.writer, cb'.readers = cb.readers, slot'[t].r = slot[t].r
  PROVE  LockStep
<1>1. \A u \in Threads : u # t => (Writes(u)' <=> Writes(u))
  BY Zenon, WritesFrame
<1>2. \A u \in Threads : u # t => ~Writes(u)
  BY Zenon DEF IInv, Writer
<1>3. ReaderSet' = ReaderSet /\ cb.readers = Cardinality(ReaderSet)
  BY Zenon, ReaderSets
<1>4. Readers'
  BY Zenon, <1>3 DEF Readers, ReaderSet
<1> QED BY Zenon, <1>1, <1>2, <1>4 DEF LockStep, Writer

(* A step that neither begins nor ends a pause, and that an idle thread    *)
(* does not take during one.                                               *)
LEMMA PausedKept ==
  ASSUME IInv, NEW t \in Threads, NEW l, Moves(t, l), UNCHANGED pool,
         l \in PausedLabels <=> pc[t] \in PausedLabels,
         l = "wanting" <=> pc[t] = "wanting",
         ~PoolIdle(t) \/ l \in {"ready", "finished", "sending", "want", "checking"} \/ ltp_pause # "PAUSED"
  PROVE  Paused'
<1>1. \A u \in Threads : u # t =>
        /\ pc'[u] \in PausedLabels <=> pc[u] \in PausedLabels
        /\ pc'[u] = "wanting" <=> pc[u] = "wanting"
        /\ PoolIdle(u) => pc'[u] = pc[u]
  BY Zenon, WokenLabels DEF Moves, PausedLabels, PoolIdle
<1>2. pc'[t] = l /\ UNCHANGED ltp_pause /\ UNCHANGED pauser
  BY Zenon DEF Moves, pool
<1>3. Paused
  BY Zenon DEF IInv
<1>4. \A u \in Threads : (pauser' = u <=> pc'[u] \in PausedLabels \cup {"wanting"})
  BY Zenon, <1>1, <1>2, <1>3 DEF Paused
<1>5. \A u \in Threads : pc'[u] \in PausedLabels => ltp_pause' = "PAUSED"
  BY Zenon, <1>1, <1>2, <1>3 DEF Paused
<1>6. \A u \in Threads : pc'[u] = "wanting" => ltp_pause' = "WANT_PAUSE"
  BY Zenon, <1>1, <1>2, <1>3 DEF Paused
<1>7. ASSUME ltp_pause' = "PAUSED", NEW u \in Threads, u # pauser' PROVE PoolIdle(u)'
  BY Zenon, <1>1, <1>2, <1>3, <1>7 DEF Paused, PoolIdle
<1> QED BY Zenon, <1>2, <1>3, <1>4, <1>5, <1>6, <1>7 DEF Paused

(* The types of the variables that a step of t may change.                 *)
TypesOf(t) ==
  /\ op' \in [Threads -> OpType] /\ slot' \in [Threads -> SlotType] /\ saved' \in [Threads -> SlotType]
  /\ cb' = [readers |-> cb'.readers, writer |-> cb'.writer] /\ cb'.writer \in BOOLEAN
  /\ bl' \in [Dbs -> LockType] /\ deep' \in [Threads -> 0..2]
  /\ ltp_pause' \in {"NOT_PAUSED", "WANT_PAUSE", "PAUSED"} /\ pauser' \in Threads \cup {Nobody}

(* What remains of IInv.                                                   *)
LEMMA StepInv ==
  ASSUME IInv, NEW t \in Threads, NEW l, Moves(t, l), Others(t), setup' = setup, TypesOf(t),
         AtOK(t)', \A u \in Threads : LevelsAt(u)', Owners', LockStep, Paused'
  PROVE  IInv'
<1>1. IsFiniteSet(Threads) /\ ReaderSet' \subseteq Threads
  BY Zenon, ConfigLockAssumption DEF ReaderSet
<1>2. IsFiniteSet(ReaderSet') /\ Cardinality(ReaderSet') <= Cardinality(Threads)
  BY Zenon, <1>1, FS_Subset
<1>3. Cardinality(ReaderSet') \in Nat /\ Cardinality(Threads) \in Nat
  BY Zenon, <1>1, <1>2, FS_CardinalityType
<1>4. cb'.readers = Cardinality(ReaderSet')
  BY Zenon DEF LockStep, Readers, ReaderSet
<1>5. cb'.readers \in 0..Cardinality(Threads)
  BY <1>2, <1>3, <1>4
<1>6. cb' \in [readers : 0..Cardinality(Threads), writer : BOOLEAN]
  <2> DEFINE r == cb'.readers w == cb'.writer
  <2>1. r \in 0..Cardinality(Threads) /\ w \in BOOLEAN /\ cb' = [readers |-> r, writer |-> w]
    BY Zenon, <1>5 DEF TypesOf
  <2> HIDE DEF r, w
  <2> QED BY Zenon, <2>1
<1>7. TypeOK'
  BY Zenon, <1>6 DEF TypesOf, TypeOK, Moves, OpType, SlotType, LockType, Kinds
<1>8. \A u \in Threads : AtOK(u)'
  BY Zenon, AtFrame
<1> QED BY Zenon, <1>7, <1>8 DEF IInv, LockStep

-----------------------------------------------------------------------------
(* What IInv says of the types.                                            *)
LEMMA Types ==
  ASSUME IInv
  PROVE  /\ pc \in [Threads -> Labels] /\ op \in [Threads -> OpType]
         /\ slot \in [Threads -> SlotType] /\ saved \in [Threads -> SlotType]
         /\ cb = [readers |-> cb.readers, writer |-> cb.writer] /\ cb.writer \in BOOLEAN /\ cb.readers \in Nat
         /\ bl \in [Dbs -> LockType] /\ deep \in [Threads -> 0..2]
         /\ ltp_pause \in {"NOT_PAUSED", "WANT_PAUSE", "PAUSED"} /\ pauser \in Threads \cup {Nobody}
<1>1. TypeOK
  BY Zenon DEF IInv
<1>2. Cardinality(Threads) \in Nat
  BY Zenon, ConfigLockAssumption, FS_CardinalityType
<1>3. cb = [readers |-> cb.readers, writer |-> cb.writer] /\ cb.writer \in BOOLEAN /\ cb.readers \in Nat
  BY <1>1, <1>2 DEF TypeOK
<1> QED BY Zenon, <1>1, <1>3 DEF TypeOK, OpType, SlotType, LockType, Kinds

(* A step of t that touches neither cb_lock nor a big lock keeps IInv if   *)
(* what t has fits where it goes and the pause is right.                   *)
LEMMA PlainStep ==
  ASSUME IInv, NEW t \in Threads, NEW l \in Labels, Goto(t, l), setup' = setup,
         UNCHANGED <<rurw, biglock>>,
         op' \in [Threads -> OpType], \A u \in Threads : u # t => op'[u] = op[u],
         Db(t)' = Db(t), Levels(t)' = Levels(t), GivenUp(t)' <=> GivenUp(t),
         ~Waiting(t), l \notin {"wait_o", "woken_o"}, AtOK(t)',
         ltp_pause' \in {"NOT_PAUSED", "WANT_PAUSE", "PAUSED"}, pauser' \in Threads \cup {Nobody}, Paused'
  PROVE  IInv'
<1>1. Moves(t, l)
  BY Zenon, Types, Moving
<1>2. UNCHANGED <<slot, saved, cb, bl, deep>>
  BY Zenon DEF rurw, biglock
<1>3. Others(t)
  BY Zenon, <1>2 DEF Others
<1>4. (\A u \in Threads : LevelsAt(u)') /\ Owners'
  BY Zenon, <1>1, <1>2, <1>3, LevelsKept
<1>5. Writes(t)' <=> Writes(t)
  BY Zenon, <1>1, <1>2 DEF Writes, Waiting, Moves
<1>6. LockStep
  BY Zenon, <1>1, <1>2, <1>3, <1>5, LockKept
<1>7. TypesOf(t)
  BY Zenon, <1>2, Types DEF TypesOf
<1> QED BY Zenon, <1>1, <1>3, <1>4, <1>6, <1>7, StepInv

(* A worker takes an operation.                                            *)
LEMMA BeginInv ==
  ASSUME IInv, NEW t \in Threads, Begin(t), setup' = setup
  PROVE  IInv'
<1>1. PICK k \in setup.kinds : op' = [op EXCEPT ![t].kind = k]
  BY Zenon DEF Begin
<1>2. k \in Kinds \ {"none"}
  BY Zenon, ConfigLockAssumption DEF IInv, Kinds
<1>3. pc[t] = "ready" /\ ltp_pause = "NOT_PAUSED" /\ Goto(t, "enter") /\ UNCHANGED <<slot, saved, cb, bl, deep, ltp_pause, pauser>>
  BY Zenon DEF Begin, rurw, biglock, pool
<1>4. Moves(t, "enter")
  BY Zenon, <1>3, Types, Moving DEF Labels
<1>5. op[t] \in OpType /\ op \in [Threads -> OpType] /\ AtOK(t) /\ LevelsAt(t)
  BY Zenon, Types DEF IInv
<1>6. op' \in [Threads -> OpType] /\ \A u \in Threads : u # t => op'[u] = op[u]
  BY Zenon, <1>1, <1>2, <1>5 DEF OpType
<1>7. /\ op'[t].kind = k /\ op'[t].nested = op[t].nested /\ op'[t].todo = op[t].todo
      /\ pc'[t] = "enter"
  BY Zenon, <1>1, <1>4, <1>5 DEF OpType, Moves
<1>8. Others(t)
  BY Zenon, <1>3, <1>6 DEF Others
<1>9. AtOK(t)'
  <2>1. ~op[t].nested /\ op[t].todo = "none" /\ slot[t].w = 0 /\ slot[t].r = 0
    BY Zenon, <1>3, <1>5 DEF AtOK, KindAt, TodoAt, SlotAt, Write, Read, NestedLabels, OpType
  <2>2. KindAt(t)'
    BY Zenon, <1>2, <1>7 DEF KindAt, SearchLabels, DataLabels, ChangeLabels
  <2>3. TodoAt(t)'
    BY Zenon, <1>7, <2>1 DEF TodoAt
  <2>4. SlotAt(t)'
    BY Zenon, <1>3, <1>7, <2>1 DEF SlotAt, Write, Read, Retreated
  <2> QED BY Zenon, <2>2, <2>3, <2>4 DEF AtOK
<1>10. Levels(t) = 0 /\ Levels(t)' = 0 /\ ~GivenUp(t) /\ ~GivenUp(t)'
  <2>1. pc[t] \in {"ready", "enter", "finished"} /\ pc'[t] \in {"ready", "enter", "finished"}
    BY Zenon, <1>3, <1>7
  <2>2. Levels(t) = 0 /\ Levels(t)' = 0
    BY Zenon, <2>1 DEF Levels
  <2> QED BY Zenon, <1>3, <1>7, <2>2 DEF GivenUp
<1>11. deep[t] = 0 /\ \A d \in Dbs : bl[d].owner # t
  <2>1. ~(Levels(t) > 0)
    BY <1>10
  <2> QED BY Zenon, <1>5, <1>10, <2>1 DEF LevelsAt
<1>12. LevelsAt(t)'
  <2>1. ~(Levels(t)' > 0) /\ Db(t)' \in Dbs
    BY <1>10 DEF Db, Dbs
  <2> QED BY Zenon, <1>3, <1>10, <1>11, <2>1 DEF LevelsAt
<1>13. (\A u \in Threads : LevelsAt(u)') /\ Owners'
  <2>1. \A u \in Threads : LevelsAt(u)'
    BY Zenon, <1>3, <1>4, <1>8, <1>12, LevelsFrame
  <2> QED BY Zenon, <1>3, <2>1 DEF IInv, Owners
<1>14. Writes(t)' <=> Writes(t)
  BY Zenon, <1>3, <1>7 DEF Writes, Waiting
<1>15. LockStep
  BY Zenon, <1>3, <1>4, <1>8, <1>14, LockKept
<1>16. Paused'
  <2>1. UNCHANGED pool
    BY Zenon, <1>3 DEF pool
  <2>2. ("enter" \in PausedLabels <=> pc[t] \in PausedLabels) /\ ("enter" = "wanting" <=> pc[t] = "wanting")
    BY Zenon, <1>3 DEF PausedLabels
  <2>3. ltp_pause # "PAUSED"
    BY Zenon, <1>3
  <2> QED BY Zenon, <1>4, <2>1, <2>2, <2>3, PausedKept
<1>17. TypesOf(t)
  BY Zenon, <1>3, <1>6, Types DEF TypesOf
<1> QED BY Zenon, <1>4, <1>8, <1>9, <1>13, <1>15, <1>16, <1>17, StepInv

(* Labels between which no big lock is taken, given up or left.            *)
Outside == {"ready", "enter", "finished"}

(* The levels of an operation depend on where it is only through Outside.  *)
LEMMA LevelsSame ==
  ASSUME IInv, NEW t \in Threads, setup' = setup, pc[t] \notin Outside, pc'[t] \notin Outside,
         op'[t].kind = op[t].kind, op'[t].nested = op[t].nested
  PROVE  Levels(t)' = Levels(t) /\ Db(t)' = Db(t)
<1>1. pc[t] \notin {"ready", "enter", "finished"} /\ pc'[t] \notin {"ready", "enter", "finished"}
  BY Zenon DEF Outside
<1> QED BY Zenon, <1>1 DEF Levels, Db

(* A step that only changes the label.                                     *)
LEMMA JumpStep ==
  ASSUME IInv, NEW t \in Threads, NEW l \in Labels, Goto(t, l), setup' = setup,
         UNCHANGED <<op, rurw, biglock, pool>>,
         pc[t] \notin Outside, l \notin Outside, GivenUp(t)' <=> GivenUp(t),
         ~Waiting(t), l \notin {"wait_o", "woken_o"}, AtOK(t)',
         l \in PausedLabels <=> pc[t] \in PausedLabels,
         l = "wanting" <=> pc[t] = "wanting",
         ~PoolIdle(t) \/ l \in {"ready", "finished", "sending", "want", "checking"} \/ ltp_pause # "PAUSED"
  PROVE  IInv'
<1>1. Moves(t, l)
  BY Zenon, Types, Moving
<1>2. UNCHANGED <<op, ltp_pause, pauser>> /\ UNCHANGED <<rurw, biglock>> /\ UNCHANGED pool
  BY Zenon DEF pool
<1>3. Levels(t)' = Levels(t) /\ Db(t)' = Db(t)
  BY Zenon, <1>1, <1>2, LevelsSame DEF Moves
<1>4. Paused'
  BY Zenon, <1>1, <1>2, PausedKept
<1> QED BY Zenon, <1>2, <1>3, <1>4, Types, PlainStep

(* Answers that wait for the client and come back, refused changes,        *)
(* unpaused ones, the closing of an overlay that begins, other work.       *)
LEMMA JumpsInv ==
  ASSUME IInv, NEW t \in Threads, setup' = setup,
         \/ SendReturns(t) \/ Refuse(t) \/ ChangeUnpaused(t) \/ overlay_remove_cb(t)
         \/ EndWork(t) \/ PauseOver(t)
  PROVE  IInv'
<1> DEFINE Jump(l) == /\ Goto(t, l) /\ UNCHANGED <<op, slot, saved>> /\ UNCHANGED <<op, rurw, biglock, pool>>
                      /\ pc' \in [Threads -> Labels] /\ pc'[t] = l
<1>a. ASSUME NEW l \in Labels, Goto(t, l), UNCHANGED <<op, rurw, biglock, pool>> PROVE Jump(l)
  BY Zenon, <1>a, Types, Moving DEF Moves, rurw
<1>b. AtOK(t)
  BY Zenon DEF IInv
<1> HIDE DEF Jump
<1>1. CASE SendReturns(t) /\ op[t].kind = "search"
  <2>1. pc[t] = "sending" /\ ltp_pause # "PAUSED" /\ Jump("reading")
    BY Zenon, <1>a, <1>1 DEF SendReturns, Labels
  <2>2. AtOK(t)'
    <3>1. KindAt(t)' /\ TodoAt(t)'
      BY Zenon, <1>1, <2>1, <1>b DEF AtOK, KindAt, TodoAt, SearchLabels, DataLabels, ChangeLabels, NestedLabels, Jump, Changes
    <3>2. SlotAt(t)'
      BY Zenon, <1>1, <2>1, <1>b DEF AtOK, SlotAt, Write, Read, Retreated, Depth, Jump
    <3> QED BY Zenon, <3>1, <3>2 DEF AtOK
  <2> QED BY Zenon, <2>1, <2>2, JumpStep DEF Labels, Jump, Outside, GivenUp, Waiting, PausedLabels
<1>2. CASE SendReturns(t) /\ op[t].kind # "search"
  <2>1. pc[t] = "sending" /\ ltp_pause # "PAUSED" /\ Jump("answer")
    BY Zenon, <1>a, <1>2 DEF SendReturns, Labels
  <2>2. AtOK(t)'
    <3>1. KindAt(t)' /\ TodoAt(t)'
      BY Zenon, <1>2, <2>1, <1>b DEF AtOK, KindAt, TodoAt, SearchLabels, DataLabels, ChangeLabels, NestedLabels, Jump
    <3>2. SlotAt(t)'
      BY Zenon, <1>2, <2>1, <1>b DEF AtOK, SlotAt, Write, Read, Retreated, Depth, Jump
    <3> QED BY Zenon, <3>1, <3>2 DEF AtOK
  <2> QED BY Zenon, <2>1, <2>2, JumpStep DEF Labels, Jump, Outside, GivenUp, Waiting, PausedLabels
<1>3. CASE Refuse(t) \/ ChangeUnpaused(t)
  <2>1. pc[t] = "found" /\ Jump("answer")
    BY Zenon, <1>a, <1>3 DEF Refuse, ChangeUnpaused, Labels
  <2>2. AtOK(t)'
    <3>1. KindAt(t)' /\ TodoAt(t)'
      BY Zenon, <2>1, <1>b DEF AtOK, KindAt, TodoAt, SearchLabels, DataLabels, ChangeLabels, NestedLabels, Jump
    <3>2. SlotAt(t)'
      BY Zenon, <2>1, <1>b DEF AtOK, SlotAt, Write, Read, Retreated, Depth, Jump
    <3> QED BY Zenon, <3>1, <3>2 DEF AtOK
  <2> QED BY Zenon, <2>1, <2>2, JumpStep DEF Labels, Jump, Outside, GivenUp, Waiting, PausedLabels, PoolIdle
<1>4. CASE overlay_remove_cb(t)
  <2>1. pc[t] = "answer" /\ op[t].todo = "close" /\ Jump("want")
    BY Zenon, <1>a, <1>4 DEF overlay_remove_cb, Labels
  <2>2. AtOK(t)'
    <3>1. KindAt(t)' /\ TodoAt(t)'
      BY Zenon, <2>1, <1>b DEF AtOK, KindAt, TodoAt, SearchLabels, DataLabels, ChangeLabels, NestedLabels, Jump
    <3>2. SlotAt(t)'
      BY Zenon, <2>1, <1>b DEF AtOK, SlotAt, Write, Read, Retreated, Depth, Jump
    <3> QED BY Zenon, <3>1, <3>2 DEF AtOK
  <2> QED BY Zenon, <2>1, <2>2, JumpStep DEF Labels, Jump, Outside, GivenUp, Waiting, PausedLabels
<1>5. CASE EndWork(t)
  <2>1. pc[t] = "working" /\ Jump("leave")
    BY Zenon, <1>a, <1>5 DEF EndWork, Labels
  <2>2. AtOK(t)'
    <3>1. KindAt(t)' /\ TodoAt(t)' /\ ~op[t].nested
      BY Zenon, <2>1, <1>b DEF AtOK, KindAt, TodoAt, SearchLabels, DataLabels, ChangeLabels, NestedLabels, Jump
    <3>2. SlotAt(t)'
      BY Zenon, <2>1, <3>1, <1>b DEF AtOK, SlotAt, Write, Read, Retreated, Depth, Jump
    <3> QED BY Zenon, <3>1, <3>2 DEF AtOK
  <2> QED BY Zenon, <2>1, <2>2, JumpStep DEF Labels, Jump, Outside, GivenUp, Waiting, PausedLabels, PoolIdle
<1>6. CASE PauseOver(t)
  <2>1. pc[t] = "checking" /\ ltp_pause = "NOT_PAUSED" /\ Jump("checked")
    BY Zenon, <1>a, <1>6 DEF PauseOver, Labels
  <2>2. AtOK(t)'
    <3>1. KindAt(t)' /\ TodoAt(t)' /\ ~op[t].nested
      BY Zenon, <2>1, <1>b DEF AtOK, KindAt, TodoAt, SearchLabels, DataLabels, ChangeLabels, NestedLabels, Jump
    <3>2. SlotAt(t)'
      BY Zenon, <2>1, <3>1, <1>b DEF AtOK, SlotAt, Write, Read, Retreated, Depth, Jump
    <3> QED BY Zenon, <3>1, <3>2 DEF AtOK
  <2> QED BY Zenon, <2>1, <2>2, JumpStep DEF Labels, Jump, Outside, GivenUp, Waiting, PausedLabels
<1> QED BY Zenon, <1>1, <1>2, <1>3, <1>4, <1>5, <1>6

(* The other threads do not move with respect to the pause.                *)
LEMMA PauseFrame ==
  ASSUME NEW t \in Threads, NEW l, Moves(t, l)
  PROVE  /\ pc'[t] = l
         /\ \A u \in Threads : u # t =>
              /\ pc'[u] \in PausedLabels <=> pc[u] \in PausedLabels
              /\ pc'[u] = "wanting" <=> pc[u] = "wanting"
              /\ PoolIdle(u) => PoolIdle(u)'
BY Zenon, WokenLabels DEF Moves, PausedLabels, PoolIdle

(* handle_pause: a pause is asked for, begins and ends.                    *)
LEMMA PauseSteps ==
  ASSUME IInv, NEW t \in Threads, NEW l, Moves(t, l),
         \/ /\ pc[t] = "want" /\ ltp_pause = "NOT_PAUSED" /\ l = "wanting"
            /\ ltp_pause' = "WANT_PAUSE" /\ pauser' = t
         \/ /\ pc[t] = "wanting" /\ l \in {"closing", "paused"} /\ \A u \in Threads \ {t} : PoolIdle(u)
            /\ ltp_pause' = "PAUSED" /\ pauser' = pauser
         \/ pc[t] \in {"changing", "closing"} /\ l = "answer" /\ Unpause
  PROVE  Paused'
<1>1. /\ pc'[t] = l
      /\ \A u \in Threads : u # t =>
           /\ pc'[u] \in PausedLabels <=> pc[u] \in PausedLabels
           /\ pc'[u] = "wanting" <=> pc[u] = "wanting"
           /\ PoolIdle(u) => PoolIdle(u)'
  BY Zenon, PauseFrame
<1>2. Paused /\ t # Nobody /\ \A u \in Threads : u # Nobody
  BY Zenon, ConfigLockAssumption DEF IInv
<1>3. CASE /\ pc[t] = "want" /\ ltp_pause = "NOT_PAUSED" /\ l = "wanting"
           /\ ltp_pause' = "WANT_PAUSE" /\ pauser' = t
  <2>1. \A u \in Threads : pc[u] \notin PausedLabels \cup {"wanting"}
    BY Zenon, <1>2, <1>3 DEF Paused
  <2>2. pc'[t] = "wanting" /\ pc'[t] \notin PausedLabels
    BY Zenon, <1>1, <1>3 DEF PausedLabels
  <2>3. ltp_pause' # "NOT_PAUSED" /\ ltp_pause' # "PAUSED"
    BY Zenon, <1>3
  <2> QED BY Zenon, <1>1, <1>2, <1>3, <2>1, <2>2, <2>3 DEF Paused
<1>4. CASE /\ pc[t] = "wanting" /\ l \in {"closing", "paused"} /\ \A u \in Threads \ {t} : PoolIdle(u)
           /\ ltp_pause' = "PAUSED" /\ pauser' = pauser
  <2>1. pauser = t
    BY Zenon, <1>2, <1>4 DEF Paused
  <2>2. \A u \in Threads : u # t => pc[u] \notin PausedLabels \cup {"wanting"}
    BY Zenon, <1>2, <2>1 DEF Paused
  <2>3. pc'[t] \in PausedLabels /\ pc'[t] # "wanting" /\ ltp_pause' # "NOT_PAUSED"
    BY Zenon, <1>1, <1>4 DEF PausedLabels
  <2> QED BY Zenon, <1>1, <1>2, <1>4, <2>1, <2>2, <2>3 DEF Paused
<1>5. CASE pc[t] \in {"changing", "closing"} /\ l = "answer" /\ Unpause
  <2>1. pauser = t
    BY Zenon, <1>2, <1>5 DEF Paused, PausedLabels
  <2>2. \A u \in Threads : u # t => pc[u] \notin PausedLabels \cup {"wanting"}
    BY Zenon, <1>2, <2>1 DEF Paused
  <2>3. pc'[t] \notin PausedLabels /\ pc'[t] # "wanting" /\ ltp_pause' # "PAUSED"
    BY Zenon, <1>1, <1>5 DEF PausedLabels, Unpause
  <2> QED BY Zenon, <1>1, <1>2, <1>5, <2>2, <2>3 DEF Paused, Unpause
<1> QED BY Zenon, <1>3, <1>4, <1>5

(* A client keeps the answer waiting.                                      *)
LEMMA SendBlocksInv ==
  ASSUME IInv, NEW t \in Threads, SendBlocks(t), setup' = setup
  PROVE  IInv'
<1>1. /\ pc[t] = "reading" \/ (pc[t] = "answer" /\ op[t].todo # "checkpoint" /\ ~op[t].nested)
      /\ op' = [op EXCEPT ![t].waited = TRUE] /\ Goto(t, "sending")
      /\ UNCHANGED <<rurw, biglock>> /\ UNCHANGED pool /\ UNCHANGED <<slot, saved, ltp_pause, pauser>>
  BY Zenon DEF SendBlocks, rurw, pool
<1>2. op[t] \in OpType /\ op \in [Threads -> OpType] /\ AtOK(t)
  BY Zenon, Types DEF IInv
<1>3. op' \in [Threads -> OpType] /\ \A u \in Threads : u # t => op'[u] = op[u]
  BY Zenon, <1>1, <1>2 DEF OpType
<1>4. op'[t].kind = op[t].kind /\ op'[t].nested = op[t].nested /\ op'[t].todo = op[t].todo
  BY Zenon, <1>1, <1>2 DEF OpType
<1>5. "sending" \in Labels
  BY Zenon DEF Labels
<1>6. Moves(t, "sending")
  BY Zenon, <1>1, <1>5, Types, Moving
<1>7. pc'[t] = "sending"
  BY Zenon, <1>6 DEF Moves
<1>8. AtOK(t)'
  <2>1. KindAt(t)' /\ TodoAt(t)'
    BY Zenon, <1>1, <1>2, <1>4, <1>7 DEF AtOK, KindAt, TodoAt, SearchLabels, DataLabels, ChangeLabels, NestedLabels, Changes, OpType, Kinds
  <2>2. SlotAt(t)'
    BY Zenon, <1>1, <1>2, <1>4, <1>7 DEF AtOK, KindAt, SlotAt, Write, Read, Retreated, Depth, SearchLabels,
       DataLabels, ChangeLabels, NestedLabels, Changes, OpType, Kinds
  <2> QED BY Zenon, <2>1, <2>2 DEF AtOK
<1>9. Levels(t)' = Levels(t) /\ Db(t)' = Db(t)
  BY Zenon, <1>1, <1>4, <1>7, LevelsSame DEF Outside
<1>10. (GivenUp(t)' <=> GivenUp(t)) /\ ~Waiting(t)
  BY Zenon, <1>1, <1>7 DEF GivenUp, Waiting
<1>11. Paused'
  BY Zenon, <1>1, <1>6, PausedKept DEF PausedLabels
<1> QED BY Zenon, <1>1, <1>3, <1>5, <1>8, <1>9, <1>10, <1>11, Types, PlainStep

(* The pause is asked for and granted.                                     *)
LEMMA GrantInv ==
  ASSUME IInv, NEW t \in Threads, WantPause(t) \/ Grant(t), setup' = setup
  PROVE  IInv'
<1> DEFINE l == IF WantPause(t) THEN "wanting" ELSE IF op[t].todo = "close" THEN "closing" ELSE "paused"
<1>1. /\ Goto(t, l) /\ l \in Labels /\ l \in {"wanting", "closing", "paused"}
      /\ UNCHANGED <<op, rurw, biglock>> /\ UNCHANGED <<slot, saved>> /\ UNCHANGED <<rurw, biglock>> /\ UNCHANGED op
  BY Zenon DEF WantPause, Grant, rurw, Labels
<1>2. \/ /\ pc[t] = "want" /\ ltp_pause = "NOT_PAUSED" /\ l = "wanting"
         /\ ltp_pause' = "WANT_PAUSE" /\ pauser' = t
      \/ /\ pc[t] = "wanting" /\ l = (IF op[t].todo = "close" THEN "closing" ELSE "paused")
         /\ \A u \in Threads \ {t} : PoolIdle(u)
         /\ ltp_pause' = "PAUSED" /\ pauser' = pauser
  BY Zenon DEF WantPause, Grant
<1> HIDE DEF l
<1>3. Moves(t, l)
  BY Zenon, <1>1, Types, Moving
<1>4. pc'[t] = l /\ AtOK(t) /\ op[t] \in OpType
  BY Zenon, <1>3, Types DEF Moves, IInv
<1>5. AtOK(t)'
  <2>1. KindAt(t)' /\ TodoAt(t)'
    BY Zenon, <1>1, <1>2, <1>4 DEF AtOK, KindAt, TodoAt, SearchLabels, DataLabels, ChangeLabels, NestedLabels
  <2>2. SlotAt(t)'
    BY Zenon, <1>1, <1>2, <1>4 DEF AtOK, SlotAt, Write, Read, Retreated, Depth
  <2> QED BY Zenon, <2>1, <2>2 DEF AtOK
<1>6. Paused'
  <2>1. \/ /\ pc[t] = "want" /\ ltp_pause = "NOT_PAUSED" /\ l = "wanting"
           /\ ltp_pause' = "WANT_PAUSE" /\ pauser' = t
        \/ /\ pc[t] = "wanting" /\ l \in {"closing", "paused"} /\ \A u \in Threads \ {t} : PoolIdle(u)
           /\ ltp_pause' = "PAUSED" /\ pauser' = pauser
    BY Zenon, <1>2
  <2> QED BY Zenon, <1>3, <2>1, PauseSteps
<1>7. pc[t] \notin Outside /\ l \notin Outside /\ ~Waiting(t) /\ l \notin {"wait_o", "woken_o"}
  BY Zenon, <1>1, <1>2 DEF Outside, Waiting
<1>8. Levels(t)' = Levels(t) /\ Db(t)' = Db(t)
  BY Zenon, <1>1, <1>4, <1>7, LevelsSame
<1>9. GivenUp(t)' <=> GivenUp(t)
  BY Zenon, <1>1, <1>2, <1>4 DEF GivenUp
<1>10. ltp_pause' \in {"NOT_PAUSED", "WANT_PAUSE", "PAUSED"} /\ pauser' \in Threads \cup {Nobody}
  BY Zenon, <1>2, Types
<1> QED BY Zenon, <1>1, <1>5, <1>6, <1>7, <1>8, <1>9, <1>10, Types, PlainStep

(* The pause ends: the change is made or the overlay closed.               *)
LEMMA UnpauseInv ==
  ASSUME IInv, NEW t \in Threads, ChangeAndResume(t) \/ syncprov_db_close(t), setup' = setup
  PROVE  IInv'
<1>1. /\ pc[t] \in {"changing", "closing"} /\ Unpause /\ Goto(t, "answer")
      /\ UNCHANGED <<rurw, biglock>> /\ UNCHANGED <<slot, saved>>
  BY Zenon DEF ChangeAndResume, syncprov_db_close, rurw
<1>2. op[t] \in OpType /\ op \in [Threads -> OpType] /\ AtOK(t)
  BY Zenon, Types DEF IInv
<1>3. /\ op' \in [Threads -> OpType] /\ \A u \in Threads : u # t => op'[u] = op[u]
      /\ op'[t].kind = op[t].kind /\ op'[t].nested = op[t].nested
      /\ op'[t].todo = "none" \/ (op'[t].todo = "checkpoint" /\ ~op[t].nested /\ op[t].kind # "remove")
                              \/ (op'[t].todo = "close" /\ op[t].kind = "remove")
  <2>1. CASE ChangeAndResume(t)
    <3>1. PICK d \in {"none", "checkpoint"} :
             op' = [op EXCEPT ![t].todo = IF op[t].kind = "remove" THEN "close"
                                          ELSE IF op[t].nested THEN "none" ELSE d]
      BY Zenon, <2>1 DEF ChangeAndResume
    <3> QED BY Zenon, <1>2, <3>1 DEF OpType
  <2>2. CASE syncprov_db_close(t)
    <3>1. op' = [op EXCEPT ![t].todo = "none", ![t].waited = TRUE]
      BY Zenon, <2>2 DEF syncprov_db_close
    <3> QED BY Zenon, <1>2, <3>1 DEF OpType
  <2> QED BY Zenon, <2>1, <2>2
<1>4. "answer" \in Labels
  BY Zenon DEF Labels
<1>5. Moves(t, "answer")
  BY Zenon, <1>1, <1>4, Types, Moving
<1>6. pc'[t] = "answer"
  BY Zenon, <1>5 DEF Moves
<1>7. AtOK(t)'
  <2>1. op[t].kind \in Changes
    BY Zenon, <1>1, <1>2 DEF AtOK, KindAt, SearchLabels, DataLabels, Changes, OpType, Kinds
  <2>2. KindAt(t)'
    BY Zenon, <1>3, <1>6, <2>1 DEF KindAt, Changes, ChangeLabels, NestedLabels
  <2>3. TodoAt(t)'
    BY Zenon, <1>2, <1>3, <1>6, <2>1 DEF AtOK, TodoAt, NestedLabels, Changes
  <2>4. SlotAt(t)'
    BY Zenon, <1>1, <1>2, <1>3, <1>6 DEF AtOK, SlotAt, Write, Read, Retreated, Depth
  <2> QED BY Zenon, <2>2, <2>3, <2>4 DEF AtOK
<1>8. Levels(t)' = Levels(t) /\ Db(t)' = Db(t)
  BY Zenon, <1>1, <1>3, <1>6, LevelsSame DEF Outside
<1>9. (GivenUp(t)' <=> GivenUp(t)) /\ ~Waiting(t)
  BY Zenon, <1>1, <1>6 DEF GivenUp, Waiting
<1>10. Paused'
  BY Zenon, <1>1, <1>5, PauseSteps
<1>11. ltp_pause' \in {"NOT_PAUSED", "WANT_PAUSE", "PAUSED"} /\ pauser' \in Threads \cup {Nobody}
  BY Zenon, <1>1 DEF Unpause
<1> QED BY Zenon, <1>1, <1>3, <1>4, <1>7, <1>8, <1>9, <1>10, <1>11, PlainStep

-----------------------------------------------------------------------------
(* Levels without a big lock, and with one.                                *)
LEMMA LevelsValues ==
  ASSUME IInv, NEW t \in Threads
  PROVE  /\ setup.biglock = "none" => Levels(t) = 0
         /\ setup.biglock # "none" => setup.biglock = "local"
         /\ Levels(t) \in 0..2 /\ Db(t) \in Dbs
         /\ setup.biglock = "none" => \A d \in Dbs : bl[d].owner = Nobody /\ bl[d].recursion = 0
<1>1. setup.biglock \in {"none", "local"}
  BY Zenon, ConfigLockAssumption DEF IInv
<1>2. Levels(t) \in 0..2
  BY DEF Levels
<1>3. Db(t) \in Dbs
  BY Zenon DEF Db, Dbs
<1>4. ASSUME setup.biglock = "none", NEW u \in Threads PROVE Levels(u) = 0
  BY Zenon, <1>4 DEF Levels
<1>5. ASSUME setup.biglock = "none", NEW d \in Dbs PROVE bl[d].owner = Nobody /\ bl[d].recursion = 0
  <2>1. \A u \in Threads : ~(Levels(u) > 0)
    BY <1>4, <1>5
  <2>2. \A u \in Threads : bl[d].owner # u
    BY Zenon, <2>1 DEF IInv, LevelsAt
  <2>3. bl[d].owner \in Threads \cup {Nobody}
    BY Zenon, Types DEF LockType
  <2> QED BY Zenon, <2>2, <2>3 DEF IInv, Owners
<1>6. setup.biglock # "none" => setup.biglock = "local"
  BY Zenon, <1>1
<1> QED BY Zenon, <1>2, <1>3, <1>4, <1>5, <1>6

BigStep == (\A u \in Threads : LevelsAt(u)') /\ Owners' /\ bl' \in [Dbs -> LockType]

(* slap_biglock_acquire for n levels.                                      *)
LEMMA Acquired ==
  ASSUME IInv, NEW t \in Threads, NEW l, Moves(t, l), Others(t), setup' = setup, NEW n, Acquires(t, n),
         Db(t)' = Db(t), deep'[t] = 0, ~GivenUp(t)', Levels(t)' \in 0..2,
         setup.biglock = "none" => Levels(t)' = 0,
         setup.biglock = "local" =>
           n \in 1..2 /\ Levels(t)' = n + (IF bl[Db(t)].owner = t THEN Levels(t) ELSE 0)
  PROVE  BigStep
<1>1. bl \in [Dbs -> LockType] /\ Db(t) \in Dbs /\ t # Nobody /\ LevelsAt(t) /\ Owners
  BY Zenon, Types, LevelsValues, ConfigLockAssumption DEF IInv
<1>2. CASE setup.biglock = "none" /\ bl' = bl
  <2>1. ~(Levels(t)' > 0) /\ Levels(t)' = 0
    BY <1>2
  <2>2. \A d \in Dbs : bl'[d].owner = Nobody
    BY Zenon, <1>2, LevelsValues
  <2>a. Db(t)' \in Dbs /\ \A d \in Dbs : bl'[d].owner # t
    BY Zenon, <1>1, <2>2
  <2>b. deep'[t] = IF GivenUp(t)' THEN Levels(t)' ELSE 0
    BY Zenon, <2>1
  <2>3. LevelsAt(t)'
    BY Zenon, <2>1, <2>a, <2>b DEF LevelsAt
  <2>4. \A u \in Threads : LevelsAt(u)'
    BY Zenon, <1>2, <2>3, LevelsFrame
  <2> QED BY Zenon, <1>1, <1>2, <2>4 DEF BigStep, Owners
<1>3. CASE /\ setup.biglock = "local" /\ bl[Db(t)].owner \in {Nobody, t}
           /\ bl' = [bl EXCEPT ![Db(t)] = [owner |-> t, recursion |-> @.recursion + n]]
  <2> DEFINE d == Db(t)
  <2>1. n \in 1..2 /\ Levels(t)' = n + (IF bl[d].owner = t THEN Levels(t) ELSE 0)
    BY Zenon, <1>3
  <2>2. bl[d].recursion = IF bl[d].owner = t THEN Levels(t) ELSE 0
    BY Zenon, <1>1, <1>3 DEF LevelsAt, Owners
  <2>3. d \in Dbs /\ d' = d
    BY Zenon, <1>1
  <2> HIDE DEF d
  <2>4. bl'[d] = [owner |-> t, recursion |-> bl[d].recursion + n] /\ \A e \in Dbs : e # d => bl'[e] = bl[e]
    BY Zenon, <1>1, <1>3, <2>3 DEF d
  <2>5. bl'[d].owner = t /\ bl'[d].recursion = bl[d].recursion + n
    BY <2>4
  <2>6. Levels(t) \in 0..2
    BY Zenon, LevelsValues
  <2>7. bl'[d].recursion = Levels(t)' /\ Levels(t)' > 0
    BY <2>1, <2>2, <2>5, <2>6
  <2>8. \A e \in Dbs : bl'[e].owner = t => e = d
    BY Zenon, <1>1, <2>4 DEF LevelsAt, d
  <2>9. LevelsAt(t)'
    BY Zenon, <2>3, <2>5, <2>7, <2>8 DEF LevelsAt, d
  <2>10. \A e \in Dbs : bl'[e] = bl[e] \/ (bl[e].owner \in {Nobody, t} /\ bl'[e].owner \in {Nobody, t})
    BY Zenon, <1>3, <2>4, <2>5 DEF d
  <2>11. \A u \in Threads : LevelsAt(u)'
    BY Zenon, <2>9, <2>10, LevelsFrame
  <2>12. Owners'
    BY Zenon, <1>1, <2>4, <2>5 DEF Owners
  <2>13. [owner |-> t, recursion |-> bl[d].recursion + n] \in LockType
    BY Zenon, <2>5, <2>7 DEF LockType
  <2>14. bl' \in [Dbs -> LockType]
    BY Zenon, <1>1, <1>3, <2>3, <2>13 DEF d
  <2> QED BY Zenon, <2>11, <2>12, <2>14 DEF BigStep
<1> QED BY Zenon, <1>2, <1>3 DEF Acquires

(* slap_biglock_release, and the levels given up before a pause.           *)
LEMMA Released ==
  ASSUME IInv, NEW t \in Threads, NEW l, Moves(t, l), Others(t), setup' = setup, NEW n, Releases(t, n),
         Db(t)' = Db(t), Levels(t)' \in 0..2,
         deep'[t] = IF GivenUp(t)' THEN Levels(t)' ELSE 0,
         setup.biglock = "none" => Levels(t)' = 0,
         setup.biglock = "local" =>
           /\ bl[Db(t)].owner = t /\ n \in 1..2
           /\ GivenUp(t)' => n = Levels(t)
           /\ ~GivenUp(t)' => Levels(t)' = Levels(t) - n
  PROVE  BigStep
<1>1. bl \in [Dbs -> LockType] /\ Db(t) \in Dbs /\ t # Nobody /\ LevelsAt(t) /\ Owners
  BY Zenon, Types, LevelsValues, ConfigLockAssumption DEF IInv
<1>2. CASE setup.biglock = "none"
  <2>0. bl' = bl
    BY Zenon, <1>2 DEF Releases
  <2>1. ~(Levels(t)' > 0) /\ Levels(t)' = 0
    BY <1>2
  <2>2. \A d \in Dbs : bl'[d].owner = Nobody
    BY Zenon, <1>2, <2>0, LevelsValues
  <2>a. Db(t)' \in Dbs /\ \A d \in Dbs : bl'[d].owner # t
    BY Zenon, <1>1, <2>2
  <2>b. deep'[t] = IF GivenUp(t)' THEN Levels(t)' ELSE 0
    BY Zenon, <2>1
  <2>3. LevelsAt(t)'
    BY Zenon, <2>1, <2>a, <2>b DEF LevelsAt
  <2>4. \A u \in Threads : LevelsAt(u)'
    BY Zenon, <2>0, <2>3, LevelsFrame
  <2> QED BY Zenon, <1>1, <2>0, <2>4 DEF BigStep, Owners
<1>3. CASE setup.biglock # "none"
  <2> DEFINE d == Db(t)
  <2>1. /\ bl[d].owner = t /\ n \in 1..2 /\ (GivenUp(t)' => n = Levels(t))
        /\ ~GivenUp(t)' => Levels(t)' = Levels(t) - n
    BY Zenon, <1>3, LevelsValues
  <2>2. bl[d].recursion = Levels(t) /\ Levels(t) \in 0..2 /\ bl[d] \in LockType
    BY Zenon, <1>1, <2>1, LevelsValues DEF LevelsAt
  <2>3. d \in Dbs /\ d' = d
    BY Zenon, <1>1
  <2> DEFINE new == IF bl[d].recursion = n THEN Free ELSE [owner |-> bl[d].owner, recursion |-> bl[d].recursion - n]
  <2>5. bl' = [bl EXCEPT ![d] = new]
    BY Zenon, <1>3 DEF Releases
  <2> HIDE DEF d
  <2>6. /\ new.owner = IF bl[d].recursion = n THEN Nobody ELSE t
        /\ new.recursion = IF bl[d].recursion = n THEN 0 ELSE bl[d].recursion - n
    BY Zenon, <2>1, <2>2 DEF Free, LockType
  <2>7. new.owner \in {Nobody, t} /\ (new.owner = Nobody => new.recursion = 0)
    BY Zenon, <1>1, <2>6
  <2>8. /\ new.owner = t <=> Levels(t)' > 0 /\ ~GivenUp(t)'
        /\ new.owner = t => new.recursion = Levels(t)'
    BY <1>1, <2>1, <2>2, <2>6
  <2>9. new \in LockType
    BY <1>1, <2>1, <2>2 DEF Free, LockType
  <2> HIDE DEF new
  <2>10. bl'[d] = new /\ \A e \in Dbs : e # d => bl'[e] = bl[e]
    BY Zenon, <1>1, <2>3, <2>5
  <2>11. \A e \in Dbs : bl'[e].owner = t => e = d
    BY Zenon, <1>1, <2>10 DEF LevelsAt, d
  <2>12. LevelsAt(t)'
    BY Zenon, <2>3, <2>8, <2>10, <2>11 DEF LevelsAt, d
  <2>13. \A e \in Dbs : bl'[e] = bl[e] \/ (bl[e].owner \in {Nobody, t} /\ bl'[e].owner \in {Nobody, t})
    BY Zenon, <2>1, <2>7, <2>10
  <2>14. \A u \in Threads : LevelsAt(u)'
    BY Zenon, <2>12, <2>13, LevelsFrame
  <2>15. Owners'
    BY Zenon, <1>1, <2>7, <2>10 DEF Owners
  <2>16. bl' \in [Dbs -> LockType]
    BY Zenon, <1>1, <2>3, <2>5, <2>9
  <2> QED BY Zenon, <2>14, <2>15, <2>16 DEF BigStep
<1> QED BY Zenon, <1>2, <1>3

(* A step of t that leaves cb_lock and the pool alone keeps IInv if it     *)
(* keeps the levels and what t has fits where it goes.                     *)
LEMMA BigLockStep ==
  ASSUME IInv, NEW t \in Threads, NEW l \in Labels, Moves(t, l), Others(t), setup' = setup,
         UNCHANGED <<slot, saved, cb>>, UNCHANGED pool,
         op' \in [Threads -> OpType], deep' \in [Threads -> 0..2],
         BigStep, AtOK(t)', ~Waiting(t), l \notin {"wait_o", "woken_o"},
         l \in PausedLabels <=> pc[t] \in PausedLabels,
         l = "wanting" <=> pc[t] = "wanting", ~PoolIdle(t)
  PROVE  IInv'
<1>1. UNCHANGED <<ltp_pause, pauser>>
  BY Zenon DEF pool
<1>2. Writes(t)' <=> Writes(t)
  BY Zenon DEF Writes, Waiting, Moves
<1>3. LockStep
  BY Zenon, <1>2, LockKept
<1>4. Paused'
  BY Zenon, PausedKept
<1>5. TypesOf(t)
  BY Zenon, <1>1, Types DEF TypesOf, BigStep
<1> QED BY Zenon, <1>3, <1>4, <1>5, StepInv DEF BigStep

(* slap_biglock_call_be.                                                   *)
LEMMA EnterInv ==
  ASSUME IInv, NEW t \in Threads, Enter(t), setup' = setup
  PROVE  IInv'
<1> DEFINE l == IF op[t].kind = "data" THEN "working" ELSE "lock"
<1>1. /\ pc[t] = "enter" /\ Goto(t, l) /\ UNCHANGED <<op, slot, saved, cb, deep>> /\ UNCHANGED pool
      /\ l \in {"working", "lock"} /\ l \in Labels
  BY Zenon DEF Enter, rurw, Labels
<1>2. Moves(t, l)
  BY Zenon, <1>1, Types, Moving
<1>3. Others(t)
  BY Zenon, <1>1 DEF Others
<1>4. pc'[t] = l /\ AtOK(t) /\ op[t] \in OpType /\ LevelsAt(t)
  BY Zenon, <1>2, Types DEF Moves, IInv
<1>5. op[t].kind # "none" /\ ~op[t].nested /\ op[t].todo = "none" /\ slot[t].w = 0 /\ slot[t].r = 0
  BY Zenon, <1>1, <1>4 DEF AtOK, KindAt, TodoAt, SlotAt, Write, Read, NestedLabels, OpType
<1>6. AtOK(t)'
  <2>1. KindAt(t)'
    BY Zenon, <1>1, <1>4, <1>5 DEF KindAt, SearchLabels, DataLabels, ChangeLabels, NestedLabels, Changes
  <2>2. TodoAt(t)'
    BY Zenon, <1>1, <1>4, <1>5 DEF TodoAt
  <2>3. SlotAt(t)'
    BY Zenon, <1>1, <1>4, <1>5 DEF SlotAt, Write, Read, Retreated
  <2> QED BY Zenon, <2>1, <2>2, <2>3 DEF AtOK
<1>7. /\ Levels(t) = 0 /\ Levels(t)' = (IF setup.biglock = "none" \/ op[t].kind = "search" THEN 0 ELSE 1)
      /\ Db(t)' = Db(t)
  BY Zenon, <1>1, <1>4, <1>5 DEF Levels, Db
<1>8. deep[t] = 0 /\ \A d \in Dbs : bl[d].owner # t
  <2>1. ~(Levels(t) > 0) /\ ~GivenUp(t)
    BY <1>1, <1>7 DEF GivenUp
  <2> QED BY Zenon, <1>4, <2>1 DEF LevelsAt
<1>9. ~GivenUp(t) /\ ~GivenUp(t)'
  BY Zenon, <1>1, <1>4 DEF GivenUp
<1>10. BigStep
  <2>1. CASE op[t].kind = "search"
    <3>1. bl' = bl
      BY Zenon, <2>1 DEF Enter
    <3>2. Levels(t)' = Levels(t)
      BY Zenon, <1>7, <2>1
    <3> QED BY Zenon, <1>1, <1>2, <1>3, <1>7, <1>9, <3>1, <3>2, LevelsKept, Types DEF BigStep
  <2>2. CASE op[t].kind # "search"
    <3>1. Acquires(t, 1)
      BY Zenon, <2>2 DEF Enter
    <3>2. bl[Db(t)].owner # t
      BY Zenon, <1>8 DEF Db, Dbs
    <3>3. /\ setup.biglock = "local" => 1 \in 1..2 /\ Levels(t)' = 1 + (IF bl[Db(t)].owner = t THEN Levels(t) ELSE 0)
          /\ setup.biglock = "none" => Levels(t)' = 0
          /\ Levels(t)' \in 0..2
      BY <1>7, <2>2, <3>2
    <3>4. deep'[t] = 0
      BY Zenon, <1>1, <1>8
    <3> QED BY Zenon, <1>2, <1>3, <1>7, <1>9, <3>1, <3>3, <3>4, Acquired
  <2> QED BY Zenon, <2>1, <2>2
<1>11. /\ ~Waiting(t) /\ l \notin {"wait_o", "woken_o"} /\ (l \in PausedLabels <=> pc[t] \in PausedLabels)
       /\ (l = "wanting" <=> pc[t] = "wanting") /\ ~PoolIdle(t)
  BY Zenon, <1>1 DEF Waiting, PausedLabels, PoolIdle
<1> QED BY Zenon, <1>1, <1>2, <1>3, <1>6, <1>10, <1>11, Types, BigLockStep

(* The big lock is given up before a pause.                                *)
LEMMA GiveUpInv ==
  ASSUME IInv, NEW t \in Threads, slap_biglock_pool_pause(t) \/ slap_biglock_pool_pausecheck(t), setup' = setup
  PROVE  IInv'
<1> DEFINE l == IF slap_biglock_pool_pause(t) THEN "want" ELSE "checking"
<1> DEFINE n == bl[Db(t)].recursion
<1>1. /\ (pc[t] = "retreated" /\ l = "want") \/ (pc[t] = "working" /\ l = "checking")
      /\ GiveUp(t) /\ Goto(t, l) /\ UNCHANGED <<op, slot, saved, cb>> /\ UNCHANGED pool
  BY Zenon DEF slap_biglock_pool_pause, slap_biglock_pool_pausecheck, rurw
<1>2. l \in Labels
  BY Zenon DEF Labels
<1> HIDE DEF l
<1>3. Moves(t, l)
  BY Zenon, <1>1, <1>2, Types, Moving
<1>4. pc'[t] = l /\ AtOK(t) /\ op[t] \in OpType /\ LevelsAt(t)
  BY Zenon, <1>3, Types DEF Moves, IInv
<1>5. deep' = [deep EXCEPT ![t] = n] /\ Releases(t, n)
  BY Zenon, <1>1 DEF GiveUp
<1>6. n \in 0..2
  BY Zenon, Types, LevelsValues DEF LockType
<1> HIDE DEF n
<1>7. deep' \in [Threads -> 0..2] /\ deep'[t] = n /\ \A u \in Threads : u # t => deep'[u] = deep[u]
  BY Zenon, <1>5, <1>6, Types
<1>8. Others(t)
  BY Zenon, <1>1, <1>7 DEF Others
<1>9. AtOK(t)'
  <2>1. KindAt(t)' /\ TodoAt(t)' /\ op[t].todo # "close"
    BY Zenon, <1>1, <1>4 DEF AtOK, KindAt, TodoAt, SearchLabels, DataLabels, ChangeLabels, NestedLabels
  <2>2. SlotAt(t)'
    BY Zenon, <1>1, <1>4, <2>1 DEF AtOK, SlotAt, Write, Read, Retreated, Depth
  <2> QED BY Zenon, <2>1, <2>2 DEF AtOK
<1>10. op[t].todo # "close" /\ op[t].kind \notin {"none", "search"}
  BY Zenon, <1>1, <1>4 DEF AtOK, KindAt, TodoAt, SearchLabels
<1>11. ~GivenUp(t) /\ GivenUp(t)' /\ ~Waiting(t) /\ ~PoolIdle(t) /\ pc[t] \notin Outside /\ pc'[t] \notin Outside
  BY Zenon, <1>1, <1>4, <1>10 DEF GivenUp, Waiting, PoolIdle, Outside
<1>12. Levels(t)' = Levels(t) /\ Db(t)' = Db(t)
  BY Zenon, <1>1, <1>11, LevelsSame
<1>13. setup.biglock # "none" => Levels(t) > 0
  BY <1>10, <1>11 DEF Levels, Outside
<1>14. BigStep
  <2>1. n = Levels(t)
    <3>1. CASE setup.biglock = "none"
      BY Zenon, <3>1, LevelsValues DEF n
    <3>2. CASE setup.biglock # "none"
      BY Zenon, <1>4, <1>11, <1>13, <3>2 DEF LevelsAt, n
    <3> QED BY Zenon, <3>1, <3>2
  <2>2. setup.biglock = "local" => bl[Db(t)].owner = t /\ n \in 1..2
    <3>1. setup.biglock = "local" => Levels(t) > 0
      BY Zenon, <1>13
    <3>2. setup.biglock = "local" => n \in 1..2
      BY <1>6, <2>1, <3>1
    <3> QED BY Zenon, <1>4, <1>11, <3>1, <3>2 DEF LevelsAt
  <2>3. Levels(t)' \in 0..2 /\ (setup.biglock = "none" => Levels(t)' = 0)
    BY Zenon, <1>12, LevelsValues
  <2> QED BY Zenon, <1>3, <1>5, <1>7, <1>8, <1>11, <1>12, <2>1, <2>2, <2>3, Released
<1>15. /\ l \notin {"wait_o", "woken_o"} /\ (l \in PausedLabels <=> pc[t] \in PausedLabels)
       /\ (l = "wanting" <=> pc[t] = "wanting")
  BY Zenon, <1>1 DEF PausedLabels
<1> QED BY Zenon, <1>1, <1>2, <1>3, <1>7, <1>8, <1>9, <1>11, <1>14, <1>15, Types, BigLockStep

(* It is taken back to the depth it had.                                   *)
LEMMA TakeBackInv ==
  ASSUME IInv, NEW t \in Threads, PauseAcquire(t) \/ PausecheckAcquire(t), setup' = setup
  PROVE  IInv'
<1> DEFINE l == IF PauseAcquire(t) THEN "obtain" ELSE "working"
<1>1. /\ (pc[t] = "paused" /\ l = "obtain") \/ (pc[t] = "checked" /\ l = "working")
      /\ TakeBack(t) /\ Goto(t, l) /\ UNCHANGED <<op, slot, saved, cb>> /\ UNCHANGED pool
  BY Zenon DEF PauseAcquire, PausecheckAcquire, rurw
<1>2. l \in Labels
  BY Zenon DEF Labels
<1> HIDE DEF l
<1>3. Moves(t, l)
  BY Zenon, <1>1, <1>2, Types, Moving
<1>4. pc'[t] = l /\ AtOK(t) /\ op[t] \in OpType /\ LevelsAt(t)
  BY Zenon, <1>3, Types DEF Moves, IInv
<1>5. deep' = [deep EXCEPT ![t] = 0] /\ Acquires(t, deep[t])
  BY Zenon, <1>1 DEF TakeBack
<1>6. 0 \in 0..2
  OBVIOUS
<1>7. deep' \in [Threads -> 0..2] /\ deep'[t] = 0 /\ \A u \in Threads : u # t => deep'[u] = deep[u]
  BY Zenon, <1>5, <1>6, Types
<1>8. Others(t)
  BY Zenon, <1>1, <1>7 DEF Others
<1>9. AtOK(t)'
  <2>1. KindAt(t)' /\ TodoAt(t)' /\ op[t].todo # "close"
    BY Zenon, <1>1, <1>4 DEF AtOK, KindAt, TodoAt, SearchLabels, DataLabels, ChangeLabels, NestedLabels
  <2>2. SlotAt(t)'
    BY Zenon, <1>1, <1>4, <2>1 DEF AtOK, SlotAt, Write, Read, Retreated, Depth
  <2> QED BY Zenon, <2>1, <2>2 DEF AtOK
<1>10. op[t].kind \notin {"none", "search"}
  BY Zenon, <1>1, <1>4 DEF AtOK, KindAt, TodoAt, SearchLabels
<1>11. GivenUp(t) /\ ~GivenUp(t)' /\ ~Waiting(t) /\ ~PoolIdle(t) /\ pc[t] \notin Outside /\ pc'[t] \notin Outside
  BY Zenon, <1>1, <1>4 DEF GivenUp, Waiting, PoolIdle, Outside
<1>12. Levels(t)' = Levels(t) /\ Db(t)' = Db(t)
  BY Zenon, <1>1, <1>11, LevelsSame
<1>13. setup.biglock # "none" => Levels(t) > 0
  BY <1>10, <1>11 DEF Levels, Outside
<1>14. BigStep
  <2>1. deep[t] = Levels(t) /\ bl[Db(t)].owner # t
    BY Zenon, <1>4, <1>11 DEF LevelsAt
  <2>2. Levels(t) \in 0..2 /\ Levels(t)' \in 0..2 /\ (setup.biglock = "none" => Levels(t)' = 0)
    BY Zenon, <1>12, LevelsValues
  <2>3. setup.biglock = "local" =>
          deep[t] \in 1..2 /\ Levels(t)' = deep[t] + (IF bl[Db(t)].owner = t THEN Levels(t) ELSE 0)
    BY <1>12, <1>13, <2>1, <2>2
  <2> QED BY Zenon, <1>3, <1>5, <1>7, <1>8, <1>11, <1>12, <2>2, <2>3, Acquired
<1>15. /\ l \notin {"wait_o", "woken_o"} /\ (l \in PausedLabels <=> pc[t] \in PausedLabels)
       /\ (l = "wanting" <=> pc[t] = "wanting")
  BY Zenon, <1>1 DEF PausedLabels
<1> QED BY Zenon, <1>1, <1>2, <1>3, <1>7, <1>8, <1>9, <1>11, <1>14, <1>15, Types, BigLockStep

(* A checkpoint begins inside the answer to a change.                      *)
LEMMA CheckpointInv ==
  ASSUME IInv, NEW t \in Threads, syncprov_checkpoint(t), setup' = setup
  PROVE  IInv'
<1>1. /\ pc[t] = "answer" /\ op[t].todo = "checkpoint" /\ Acquires(t, 1)
      /\ op' = [op EXCEPT ![t].nested = TRUE, ![t].todo = "none"]
      /\ Goto(t, "lock") /\ UNCHANGED <<slot, saved, cb, deep>> /\ UNCHANGED pool
  BY Zenon DEF syncprov_checkpoint, rurw
<1>2. op[t] \in OpType /\ op \in [Threads -> OpType] /\ AtOK(t) /\ LevelsAt(t)
  BY Zenon, Types DEF IInv
<1>3. /\ op' \in [Threads -> OpType] /\ \A u \in Threads : u # t => op'[u] = op[u]
      /\ op'[t].kind = op[t].kind /\ op'[t].nested = TRUE /\ op'[t].todo = "none"
  BY Zenon, <1>1, <1>2 DEF OpType
<1>4. "lock" \in Labels
  BY Zenon DEF Labels
<1>5. Moves(t, "lock")
  BY Zenon, <1>1, <1>4, Types, Moving
<1>6. pc'[t] = "lock" /\ Others(t)
  BY Zenon, <1>1, <1>3, <1>5 DEF Moves, Others
<1>7. ~op[t].nested /\ op[t].kind \in Changes \ {"remove"}
  BY Zenon, <1>1, <1>2 DEF AtOK, TodoAt
<1>8. AtOK(t)'
  <2>1. KindAt(t)'
    BY Zenon, <1>3, <1>6, <1>7 DEF KindAt, Changes, ChangeLabels, NestedLabels
  <2>2. TodoAt(t)'
    BY Zenon, <1>3, <1>6, <1>7 DEF TodoAt, NestedLabels
  <2>3. SlotAt(t)'
    BY Zenon, <1>1, <1>2, <1>3, <1>6, <1>7 DEF AtOK, SlotAt, Write, Read, Retreated, Depth
  <2> QED BY Zenon, <2>1, <2>2, <2>3 DEF AtOK
<1>9. ~GivenUp(t) /\ ~GivenUp(t)' /\ ~Waiting(t) /\ ~PoolIdle(t)
  BY Zenon, <1>1, <1>6 DEF GivenUp, Waiting, PoolIdle
<1>10. /\ Levels(t) = (IF setup.biglock = "none" THEN 0 ELSE 1)
       /\ Levels(t)' = (IF setup.biglock = "none" THEN 0 ELSE 2)
       /\ Db(t)' = Db(t)
  BY Zenon, <1>1, <1>3, <1>6, <1>7 DEF Levels, Db, Changes
<1>11. BigStep
  <2>1. deep'[t] = 0
    BY Zenon, <1>1, <1>2, <1>9 DEF LevelsAt
  <2>2. setup.biglock = "local" => Levels(t) > 0
    BY <1>10
  <2>3. setup.biglock = "local" => bl[Db(t)].owner = t
    BY Zenon, <1>2, <1>9, <2>2 DEF LevelsAt
  <2>4. /\ Levels(t)' \in 0..2 /\ (setup.biglock = "none" => Levels(t)' = 0)
        /\ setup.biglock = "local" => 1 \in 1..2 /\ Levels(t)' = 1 + (IF bl[Db(t)].owner = t THEN Levels(t) ELSE 0)
    BY <1>10, <2>3
  <2> QED BY Zenon, <1>1, <1>5, <1>6, <1>9, <1>10, <2>1, <2>4, Acquired
<1>12. /\ "lock" \notin {"wait_o", "woken_o"} /\ ("lock" \in PausedLabels <=> pc[t] \in PausedLabels)
       /\ ("lock" = "wanting" <=> pc[t] = "wanting")
  BY Zenon, <1>1 DEF PausedLabels
<1>13. deep' \in [Threads -> 0..2] /\ UNCHANGED <<slot, saved, cb>>
  BY Zenon, <1>1, Types
<1> QED BY Zenon, <1>1, <1>3, <1>4, <1>5, <1>6, <1>8, <1>9, <1>11, <1>12, <1>13, BigLockStep

(* slap_biglock_release at the end of an operation or of a checkpoint.     *)
LEMMA LeaveInv ==
  ASSUME IInv, NEW t \in Threads, Leave(t), setup' = setup
  PROVE  IInv'
<1> DEFINE l == IF op[t].nested THEN "answer" ELSE "finished"
<1>1. /\ pc[t] = "leave" /\ op' = [op EXCEPT ![t].nested = FALSE]
      /\ Goto(t, l) /\ UNCHANGED <<slot, saved, cb, deep>> /\ UNCHANGED pool
  BY Zenon DEF Leave, rurw
<1>2. op[t] \in OpType /\ op \in [Threads -> OpType] /\ AtOK(t) /\ LevelsAt(t)
  BY Zenon, Types DEF IInv
<1>3. /\ op' \in [Threads -> OpType] /\ \A u \in Threads : u # t => op'[u] = op[u]
      /\ op'[t].kind = op[t].kind /\ op'[t].nested = FALSE /\ op'[t].todo = op[t].todo
  BY Zenon, <1>1, <1>2 DEF OpType
<1>4. l \in Labels
  BY Zenon DEF Labels
<1>5. Moves(t, l)
  BY Zenon, <1>1, <1>4, Types, Moving
<1>6. pc'[t] = l /\ Others(t)
  BY Zenon, <1>1, <1>3, <1>5 DEF Moves, Others
<1>7. op[t].kind # "none" /\ op[t].todo = "none" /\ (op[t].nested => op[t].kind \in Changes)
  BY Zenon, <1>1, <1>2 DEF AtOK, KindAt, TodoAt, OpType
<1>8. AtOK(t)'
  <2>1. KindAt(t)'
    BY Zenon, <1>1, <1>2, <1>3, <1>6, <1>7 DEF AtOK, KindAt, SearchLabels, DataLabels, ChangeLabels, NestedLabels, Changes
  <2>2. TodoAt(t)'
    BY Zenon, <1>3, <1>6, <1>7 DEF TodoAt
  <2>3. SlotAt(t)'
    BY Zenon, <1>1, <1>2, <1>3, <1>6, <1>7 DEF AtOK, SlotAt, Write, Read, Retreated, Depth
  <2> QED BY Zenon, <2>1, <2>2, <2>3 DEF AtOK
<1>9. ~GivenUp(t) /\ ~GivenUp(t)' /\ ~Waiting(t) /\ ~PoolIdle(t)
  BY Zenon, <1>1, <1>6 DEF GivenUp, Waiting, PoolIdle
<1>10. /\ Levels(t) = (IF setup.biglock = "none" \/ op[t].kind = "search" THEN 0
                       ELSE IF op[t].nested THEN 2 ELSE 1)
       /\ Levels(t)' = (IF setup.biglock = "none" \/ op[t].kind = "search" THEN 0
                        ELSE IF op[t].nested THEN 1 ELSE 0)
       /\ Db(t)' = Db(t)
  BY Zenon, <1>1, <1>3, <1>6, <1>7 DEF Levels, Db
<1>11. BigStep
  <2>1. deep'[t] = 0 /\ deep[t] = 0 /\ deep' = deep
    BY Zenon, <1>1, <1>2, <1>9 DEF LevelsAt
  <2>2. CASE op[t].kind = "search"
    <3>1. bl' = bl
      BY Zenon, <2>2 DEF Leave
    <3>2. Levels(t)' = Levels(t)
      BY Zenon, <1>10, <2>2
    <3> QED BY Zenon, <1>5, <1>6, <1>9, <1>10, <2>1, <3>1, <3>2, LevelsKept, Types DEF BigStep
  <2>3. CASE op[t].kind # "search"
    <3>1. Releases(t, 1)
      BY Zenon, <2>3 DEF Leave
    <3>2. setup.biglock = "local" => Levels(t) > 0
      BY <1>10, <2>3
    <3>3. setup.biglock = "local" => bl[Db(t)].owner = t
      BY Zenon, <1>2, <1>9, <3>2 DEF LevelsAt
    <3>4. /\ Levels(t)' \in 0..2 /\ (setup.biglock = "none" => Levels(t)' = 0)
          /\ setup.biglock = "local" => 1 \in 1..2 /\ Levels(t)' = Levels(t) - 1
      BY <1>10, <2>3
    <3> QED BY Zenon, <1>5, <1>6, <1>9, <1>10, <2>1, <3>1, <3>3, <3>4, Released
  <2> QED BY Zenon, <2>2, <2>3
<1>12. /\ l \notin {"wait_o", "woken_o"} /\ (l \in PausedLabels <=> pc[t] \in PausedLabels)
       /\ (l = "wanting" <=> pc[t] = "wanting")
  BY Zenon, <1>1 DEF PausedLabels
<1>13. deep' \in [Threads -> 0..2] /\ UNCHANGED <<slot, saved, cb>>
  BY Zenon, <1>1, Types
<1> HIDE DEF l
<1> QED BY Zenon, <1>1, <1>3, <1>4, <1>5, <1>6, <1>8, <1>9, <1>11, <1>12, <1>13, BigLockStep

-----------------------------------------------------------------------------
(* A step of t that changes cb_lock only.                                  *)
LEMMA RurwStep ==
  ASSUME IInv, NEW t \in Threads, NEW l \in Labels, Moves(t, l), setup' = setup,
         UNCHANGED <<op, biglock, pool>>,
         NEW a \in SlotType, NEW b \in SlotType,
         slot' = [slot EXCEPT ![t] = a], saved' = [saved EXCEPT ![t] = b],
         cb' = [readers |-> cb'.readers, writer |-> cb'.writer], cb'.writer \in BOOLEAN, LockStep,
         AtOK(t)', pc[t] \notin Outside, l \notin Outside, ~GivenUp(t), ~GivenUp(t)',
         l \in PausedLabels <=> pc[t] \in PausedLabels,
         l = "wanting" <=> pc[t] = "wanting", ~PoolIdle(t)
  PROVE  IInv'
<1>1. UNCHANGED <<op, bl, deep, ltp_pause, pauser>> /\ UNCHANGED pool
  BY Zenon DEF biglock, pool
<1>2. /\ slot' \in [Threads -> SlotType] /\ saved' \in [Threads -> SlotType]
      /\ \A u \in Threads : u # t => slot'[u] = slot[u] /\ saved'[u] = saved[u]
  BY Zenon, Types
<1>3. Others(t)
  BY Zenon, <1>1, <1>2 DEF Others
<1>4. Levels(t)' = Levels(t) /\ Db(t)' = Db(t)
  BY Zenon, <1>1, LevelsSame DEF Moves
<1>5. (\A u \in Threads : LevelsAt(u)') /\ Owners'
  BY Zenon, <1>1, <1>3, <1>4, LevelsKept
<1>6. Paused'
  BY Zenon, <1>1, PausedKept
<1>7. TypesOf(t)
  BY Zenon, <1>1, <1>2, Types DEF TypesOf
<1> QED BY Zenon, <1>3, <1>5, <1>6, <1>7, StepInv

(* The same with the facts about t spelled out: r and w are its levels     *)
(* after the step.                                                         *)
LEMMA SlotStep ==
  ASSUME IInv, NEW t \in Threads, NEW l \in Labels, Moves(t, l), setup' = setup,
         UNCHANGED <<op, biglock, pool, saved>>,
         NEW a \in SlotType, slot' = [slot EXCEPT ![t] = a],
         cb' = [readers |-> cb'.readers, writer |-> cb'.writer], cb'.writer \in BOOLEAN, LockStep,
         AtOK(t)', pc[t] \notin Outside, l \notin Outside, ~GivenUp(t), ~GivenUp(t)',
         l \in PausedLabels <=> pc[t] \in PausedLabels,
         l = "wanting" <=> pc[t] = "wanting", ~PoolIdle(t)
  PROVE  IInv'
<1>1. saved[t] \in SlotType /\ saved \in [Threads -> SlotType]
  BY Zenon, Types
<1>2. saved' = [saved EXCEPT ![t] = saved[t]] /\ UNCHANGED <<op, biglock, pool>>
  BY Zenon, <1>1
<1> QED BY Zenon, <1>1, <1>2, RurwStep

(* rurw_r_lock.                                                            *)
LEMMA ReadLockInv ==
  ASSUME IInv, NEW t \in Threads, Lock(t), op[t].kind = "search", setup' = setup
  PROVE  IInv'
<1>1. pc[t] \in {"lock", "woken_r", "woken_w"} /\ rurw_r_lock(t) /\ UNCHANGED <<op, biglock, pool>>
      /\ UNCHANGED saved /\ UNCHANGED op
  BY Zenon DEF Lock, rurw_r_lock
<1>2. op[t] \in OpType /\ slot[t] \in SlotType /\ slot \in [Threads -> SlotType] /\ AtOK(t)
  BY Zenon, Types DEF IInv
<1>3. pc[t] \in {"lock", "woken_r"} /\ ~op[t].nested /\ op[t].todo = "none" /\ slot[t].w = 0 /\ slot[t].r = 0
  BY Zenon, <1>1, <1>2 DEF AtOK, KindAt, TodoAt, SlotAt, Write, Read, SearchLabels, Changes, OpType
<1>4. pc[t] \notin Outside /\ ~GivenUp(t) /\ ~PoolIdle(t) /\ pc[t] \notin PausedLabels /\ pc[t] # "wanting" /\ ~Writes(t)
  BY <1>3 DEF Outside, GivenUp, PoolIdle, PausedLabels, Writes
<1>5. CASE cb.writer /\ Goto(t, "wait_r") /\ slot' = [slot EXCEPT ![t].thr = TRUE] /\ UNCHANGED cb
  <2> DEFINE a == [slot[t] EXCEPT !.thr = TRUE]
  <2>1. slot' = [slot EXCEPT ![t] = a] /\ a \in SlotType /\ a.r = 0 /\ a.w = 0
    BY Zenon, <1>2, <1>3, <1>5 DEF SlotType
  <2> HIDE DEF a
  <2>2. "wait_r" \in Labels /\ "wait_r" \notin Outside /\ "wait_r" \notin PausedLabels /\ "wait_r" # "wanting"
    BY Zenon DEF Labels, Outside, PausedLabels
  <2>3. Moves(t, "wait_r")
    BY Zenon, <1>5, <2>2, Types, Moving
  <2>4. pc'[t] = "wait_r" /\ slot'[t] = a /\ slot'[t].r = slot[t].r
    BY Zenon, <1>2, <1>3, <2>1, <2>3 DEF Moves
  <2>5. Others(t)
    BY Zenon, <1>1, <1>2, <2>1 DEF Others, biglock
  <2>6. ~Writes(t)' /\ ~GivenUp(t)'
    BY <2>1, <2>4 DEF Writes, GivenUp
  <2>7. LockStep
    BY Zenon, <1>4, <1>5, <2>3, <2>4, <2>5, <2>6, LockKept
  <2>8. AtOK(t)'
    <3>1. KindAt(t)' /\ TodoAt(t)'
      BY Zenon, <1>1, <1>3, <2>4 DEF KindAt, TodoAt, SearchLabels, Changes
    <3>2. SlotAt(t)'
      BY Zenon, <1>1, <1>3, <2>1, <2>4 DEF SlotAt, Write, Read, Retreated
    <3> QED BY Zenon, <3>1, <3>2 DEF AtOK
  <2>9. cb' = [readers |-> cb'.readers, writer |-> cb'.writer] /\ cb'.writer \in BOOLEAN
    BY Zenon, <1>5, Types
  <2>10. UNCHANGED <<op, biglock, pool, saved>>
    BY Zenon, <1>1
  <2> QED BY Zenon, <1>4, <2>1, <2>2, <2>3, <2>6, <2>7, <2>8, <2>9, <2>10, SlotStep
<1>6. CASE /\ ~cb.writer /\ Goto(t, "reading") /\ slot' = [slot EXCEPT ![t] = [thr |-> TRUE, r |-> 1, w |-> 0]]
           /\ cb' = [cb EXCEPT !.readers = @ + 1]
  <2> DEFINE a == [thr |-> TRUE, r |-> 1, w |-> 0]
  <2>1. slot' = [slot EXCEPT ![t] = a] /\ a \in SlotType /\ a.r = 1 /\ a.w = 0
    BY <1>6 DEF SlotType
  <2> HIDE DEF a
  <2>2. "reading" \in Labels /\ "reading" \notin Outside /\ "reading" \notin PausedLabels /\ "reading" # "wanting"
    BY Zenon DEF Labels, Outside, PausedLabels
  <2>3. Moves(t, "reading")
    BY Zenon, <1>6, <2>2, Types, Moving
  <2>4. pc'[t] = "reading" /\ slot'[t] = a
    BY Zenon, <1>2, <2>1, <2>3 DEF Moves
  <2>5. Others(t)
    BY Zenon, <1>1, <1>2, <2>1 DEF Others, biglock
  <2>6. ~Writes(t)' /\ ~GivenUp(t)' /\ slot'[t].r = 1 /\ slot'[t].w = 0
    BY <2>1, <2>4 DEF Writes, GivenUp
  <2>7. cb' = [readers |-> cb'.readers, writer |-> cb'.writer] /\ cb'.writer = cb.writer /\ cb'.readers = cb.readers + 1
    BY Zenon, <1>6, Types
  <2>8. LockStep
    BY Zenon, <1>3, <1>4, <1>6, <2>3, <2>5, <2>6, <2>7, LockRead
  <2>9. AtOK(t)'
    <3>1. KindAt(t)' /\ TodoAt(t)'
      BY Zenon, <1>1, <1>3, <2>4 DEF KindAt, TodoAt, SearchLabels, Changes
    <3>2. SlotAt(t)'
      BY Zenon, <1>1, <1>3, <2>4, <2>6 DEF SlotAt, Write, Read, Retreated
    <3> QED BY Zenon, <3>1, <3>2 DEF AtOK
  <2>10. cb'.writer \in BOOLEAN /\ UNCHANGED <<op, biglock, pool, saved>>
    BY Zenon, <1>1, <2>7, Types
  <2> QED BY Zenon, <1>4, <2>1, <2>2, <2>3, <2>6, <2>7, <2>8, <2>9, <2>10, SlotStep
<1> QED BY Zenon, <1>1, <1>5, <1>6 DEF rurw_r_lock

(* rurw_w_lock.                                                            *)
LEMMA WriteLockInv ==
  ASSUME IInv, NEW t \in Threads, Lock(t), op[t].kind # "search", setup' = setup
  PROVE  IInv'
<1>1. pc[t] \in {"lock", "woken_r", "woken_w"} /\ rurw_w_lock(t) /\ UNCHANGED <<op, biglock, pool>>
      /\ UNCHANGED saved /\ UNCHANGED op
  BY Zenon DEF Lock, rurw_w_lock
<1>2. op[t] \in OpType /\ slot[t] \in SlotType /\ slot \in [Threads -> SlotType] /\ AtOK(t)
  BY Zenon, Types DEF IInv
<1>3. /\ pc[t] \in {"lock", "woken_w"} /\ op[t].kind \in Changes /\ op[t].todo = "none" /\ slot[t].r = 0
      /\ slot[t].w = IF op[t].nested THEN 1 ELSE 0
  <2>1. op[t].kind \in Changes
    BY Zenon, <1>1, <1>2 DEF AtOK, KindAt, DataLabels, Changes, OpType, Kinds
  <2>2. pc[t] \in {"lock", "woken_w"} /\ op[t].todo = "none" /\ (op[t].nested => pc[t] = "lock")
    BY Zenon, <1>1, <1>2, <2>1 DEF AtOK, KindAt, TodoAt, ChangeLabels, NestedLabels, OpType
  <2>3. slot[t].r = 0 /\ slot[t].w = IF op[t].nested THEN 1 ELSE 0
    BY Zenon, <1>2, <2>2 DEF AtOK, SlotAt, Write, Read
  <2> QED BY Zenon, <2>1, <2>2, <2>3
<1>4. pc[t] \notin Outside /\ ~GivenUp(t) /\ ~PoolIdle(t) /\ pc[t] \notin PausedLabels /\ pc[t] # "wanting" /\ ~Waiting(t)
  BY Zenon, <1>3 DEF Outside, GivenUp, PoolIdle, PausedLabels, Waiting
<1>5. UNCHANGED <<op, biglock, pool, saved>>
  BY Zenon, <1>1
<1>6. CASE slot[t].w > 0 /\ Goto(t, "found") /\ slot' = [slot EXCEPT ![t].w = @ + 1] /\ UNCHANGED cb
  <2> DEFINE a == [slot[t] EXCEPT !.w = slot[t].w + 1]
  <2>1. slot' = [slot EXCEPT ![t] = a] /\ a \in SlotType /\ a.r = 0 /\ a.w = 2 /\ op[t].nested
    BY <1>2, <1>3, <1>6 DEF SlotType
  <2> HIDE DEF a
  <2>2. "found" \in Labels /\ "found" \notin Outside /\ "found" \notin PausedLabels /\ "found" # "wanting"
    BY Zenon DEF Labels, Outside, PausedLabels
  <2>3. Moves(t, "found")
    BY Zenon, <1>6, <2>2, Types, Moving
  <2>4. pc'[t] = "found" /\ slot'[t] = a /\ slot'[t].r = slot[t].r
    BY Zenon, <1>2, <1>3, <2>1, <2>3 DEF Moves
  <2>5. Others(t)
    BY Zenon, <1>1, <1>2, <2>1 DEF Others, biglock
  <2>a. slot'[t].w > 0
    BY <2>1, <2>4
  <2>6. Writes(t) /\ Writes(t)' /\ ~GivenUp(t)'
    BY Zenon, <1>4, <1>6, <2>a, <2>4 DEF Writes, Waiting, GivenUp
  <2>7. LockStep
    BY Zenon, <1>6, <2>3, <2>4, <2>5, <2>6, LockKept
  <2>8. AtOK(t)'
    <3>1. KindAt(t)' /\ TodoAt(t)'
      BY Zenon, <1>1, <1>2, <1>3, <2>4 DEF AtOK, KindAt, TodoAt, NestedLabels, ChangeLabels, Changes
    <3>2. SlotAt(t)'
      BY Zenon, <1>1, <1>3, <2>1, <2>4 DEF SlotAt, Write, Read, Retreated, Depth
    <3> QED BY Zenon, <3>1, <3>2 DEF AtOK
  <2>9. cb' = [readers |-> cb'.readers, writer |-> cb'.writer] /\ cb'.writer \in BOOLEAN
    BY Zenon, <1>6, Types
  <2> QED BY Zenon, <1>4, <1>5, <2>1, <2>2, <2>3, <2>6, <2>7, <2>8, <2>9, SlotStep
<1>7. CASE slot[t].w = 0 /\ Busy /\ Goto(t, "wait_w") /\ slot' = [slot EXCEPT ![t].thr = TRUE] /\ UNCHANGED cb
  <2> DEFINE a == [slot[t] EXCEPT !.thr = TRUE]
  <2>a. ~op[t].nested
    BY <1>3, <1>7
  <2>b. slot' = [slot EXCEPT ![t] = a]
    BY Zenon, <1>7
  <2>c. a \in SlotType /\ a.r = 0 /\ a.w = 0
    BY Zenon, <1>2, <1>3, <1>7 DEF SlotType
  <2>1. slot' = [slot EXCEPT ![t] = a] /\ a \in SlotType /\ a.r = 0 /\ a.w = 0 /\ ~op[t].nested
    BY Zenon, <2>a, <2>b, <2>c
  <2> HIDE DEF a
  <2>2. "wait_w" \in Labels /\ "wait_w" \notin Outside /\ "wait_w" \notin PausedLabels /\ "wait_w" # "wanting"
    BY Zenon DEF Labels, Outside, PausedLabels
  <2>3. Moves(t, "wait_w")
    BY Zenon, <1>7, <2>2, Types, Moving
  <2>4. pc'[t] = "wait_w" /\ slot'[t] = a /\ slot'[t].r = slot[t].r
    BY Zenon, <1>2, <1>3, <2>1, <2>3 DEF Moves
  <2>5. Others(t)
    BY Zenon, <1>1, <1>2, <2>1 DEF Others, biglock
  <2>6. ~Writes(t) /\ ~Writes(t)' /\ ~GivenUp(t)'
    BY <1>7, <2>1, <2>4 DEF Writes, GivenUp
  <2>7. LockStep
    BY Zenon, <1>7, <2>3, <2>4, <2>5, <2>6, LockKept
  <2>8. AtOK(t)'
    <3>1. KindAt(t)' /\ TodoAt(t)'
      BY Zenon, <1>1, <1>3, <2>1, <2>4 DEF KindAt, TodoAt, ChangeLabels, Changes
    <3>2. SlotAt(t)'
      BY Zenon, <1>1, <1>3, <2>1, <2>4 DEF SlotAt, Write, Read, Retreated, Depth
    <3> QED BY Zenon, <3>1, <3>2 DEF AtOK
  <2>9. cb' = [readers |-> cb'.readers, writer |-> cb'.writer] /\ cb'.writer \in BOOLEAN
    BY Zenon, <1>7, Types
  <2> QED BY Zenon, <1>4, <1>5, <2>1, <2>2, <2>3, <2>6, <2>7, <2>8, <2>9, SlotStep
<1>8. CASE /\ slot[t].w = 0 /\ ~Busy /\ Goto(t, "found") /\ slot' = [slot EXCEPT ![t] = [thr |-> TRUE, r |-> 0, w |-> 1]]
           /\ cb' = [cb EXCEPT !.writer = TRUE]
  <2> DEFINE a == [thr |-> TRUE, r |-> 0, w |-> 1]
  <2>1. slot' = [slot EXCEPT ![t] = a] /\ a \in SlotType /\ a.r = 0 /\ a.w = 1 /\ ~op[t].nested
    BY <1>2, <1>3, <1>8 DEF SlotType
  <2> HIDE DEF a
  <2>2. "found" \in Labels /\ "found" \notin Outside /\ "found" \notin PausedLabels /\ "found" # "wanting"
    BY DEF Labels, Outside, PausedLabels
  <2>3. Moves(t, "found")
    BY Zenon, <1>8, <2>2, Types, Moving
  <2>4. pc'[t] = "found" /\ slot'[t] = a /\ slot'[t].r = slot[t].r
    BY Zenon, <1>2, <1>3, <2>1, <2>3 DEF Moves
  <2>5. Others(t)
    BY Zenon, <1>1, <1>2, <2>1 DEF Others, biglock
  <2>6. Writes(t)' /\ ~GivenUp(t)'
    BY <2>1, <2>4 DEF Writes, Waiting, GivenUp
  <2>7. cb' = [readers |-> cb'.readers, writer |-> cb'.writer] /\ cb'.writer = TRUE /\ cb'.readers = cb.readers
    BY Zenon, <1>8, Types
  <2>8. LockStep
    BY Zenon, <1>8, <2>3, <2>4, <2>5, <2>6, <2>7, LockTake
  <2>9. AtOK(t)'
    <3>1. KindAt(t)' /\ TodoAt(t)'
      BY Zenon, <1>1, <1>3, <2>1, <2>4 DEF KindAt, TodoAt, NestedLabels, ChangeLabels, Changes
    <3>2. SlotAt(t)'
      BY Zenon, <1>1, <1>3, <2>1, <2>4 DEF SlotAt, Write, Read, Retreated, Depth
    <3> QED BY Zenon, <3>1, <3>2 DEF AtOK
  <2> QED BY Zenon, <1>4, <1>5, <2>1, <2>2, <2>3, <2>6, <2>7, <2>8, <2>9, SlotStep
<1> QED BY Zenon, <1>1, <1>6, <1>7, <1>8 DEF rurw_w_lock

(* rurw_r_unlock.                                                          *)
LEMMA EndSearchInv ==
  ASSUME IInv, NEW t \in Threads, EndSearch(t), setup' = setup
  PROVE  IInv'
<1> DEFINE c == [cb EXCEPT !.readers = @ - 1]
<1>1. /\ pc[t] = "reading" /\ slot' = [slot EXCEPT ![t] = NoSlot] /\ cb' = c
      /\ pc' \in rurw_leave(c, [pc EXCEPT ![t] = "leave"])
      /\ UNCHANGED <<op, biglock, pool, saved>> /\ UNCHANGED <<op, saved, bl, deep>>
  BY Zenon DEF EndSearch, rurw_r_unlock, biglock
<1>2. op[t] \in OpType /\ slot[t] \in SlotType /\ slot \in [Threads -> SlotType] /\ AtOK(t)
  BY Zenon, Types DEF IInv
<1>3. cb' = [readers |-> cb'.readers, writer |-> cb'.writer] /\ cb'.writer = cb.writer /\ cb'.readers = cb.readers - 1
  BY Zenon, <1>1, Types
<1> HIDE DEF c
<1>4. NoSlot \in SlotType /\ NoSlot.r = 0 /\ NoSlot.w = 0
  BY DEF NoSlot, SlotType
<1>5. "leave" \in Labels /\ "leave" \notin {"wait_w", "wait_o", "wait_r"}
  BY Zenon DEF Labels
<1>6. Moves(t, "leave")
  BY Zenon, <1>1, <1>5, Types, Moving
<1>7. pc'[t] = "leave" /\ slot'[t] = NoSlot
  BY Zenon, <1>1, <1>2, <1>6 DEF Moves
<1>8. Others(t)
  BY Zenon, <1>1, <1>2 DEF Others
<1>9. /\ op[t].kind = "search" /\ ~op[t].nested /\ op[t].todo = "none" /\ slot[t].r = 1 /\ slot[t].w = 0
  BY Zenon, <1>1, <1>2 DEF AtOK, KindAt, TodoAt, SlotAt, Write, Read, DataLabels, ChangeLabels, NestedLabels, Changes, OpType, Kinds
<1>10. ~Writes(t) /\ ~Writes(t)' /\ ~cb.writer
  <2>1. ~Writes(t) /\ ~Writes(t)'
    BY <1>4, <1>7, <1>9 DEF Writes
  <2>2. slot[t].r > 0
    BY <1>9
  <2>3. cb.readers > 0
    BY Zenon, <1>8, <2>2, ReaderSets
  <2>4. cb.readers # 0
    BY <2>3
  <2> QED BY Zenon, <2>1, <2>4 DEF IInv, Writer
<1>11. LockStep
  BY Zenon, <1>3, <1>4, <1>6, <1>7, <1>8, <1>9, <1>10, LockRead
<1>12. AtOK(t)'
  <2>1. KindAt(t)' /\ TodoAt(t)'
    BY Zenon, <1>1, <1>7, <1>9 DEF KindAt, TodoAt, SearchLabels, Changes
  <2>2. SlotAt(t)'
    BY Zenon, <1>1, <1>4, <1>7, <1>9 DEF SlotAt, Write, Read, Retreated
  <2> QED BY Zenon, <2>1, <2>2 DEF AtOK
<1>13. /\ pc[t] \notin Outside /\ "leave" \notin Outside /\ ~GivenUp(t) /\ ~GivenUp(t)' /\ ~PoolIdle(t)
       /\ ("leave" \in PausedLabels <=> pc[t] \in PausedLabels) /\ ("leave" = "wanting" <=> pc[t] = "wanting")
  BY Zenon, <1>1, <1>7 DEF Outside, GivenUp, PoolIdle, PausedLabels
<1>14. cb'.writer \in BOOLEAN
  BY Zenon, <1>3, Types
<1> QED BY Zenon, <1>1, <1>3, <1>4, <1>5, <1>6, <1>11, <1>12, <1>13, <1>14, SlotStep

(* rurw_w_unlock: one level, or the lock.                                  *)
LEMMA EndChangeInv ==
  ASSUME IInv, NEW t \in Threads, EndChange(t), setup' = setup
  PROVE  IInv'
<1>1. /\ pc[t] = "answer" /\ op[t].todo = "none" /\ rurw_w_unlock(t)
      /\ UNCHANGED <<op, biglock, pool, saved>> /\ UNCHANGED <<op, saved, bl, deep>>
  BY Zenon DEF EndChange, rurw_w_unlock, biglock
<1>2. op[t] \in OpType /\ slot[t] \in SlotType /\ slot \in [Threads -> SlotType] /\ AtOK(t)
  BY Zenon, Types DEF IInv
<1>3. op[t].kind \in Changes /\ slot[t].r = 0 /\ slot[t].w = IF op[t].nested THEN 2 ELSE 1
  BY Zenon, <1>1, <1>2 DEF AtOK, KindAt, SlotAt, Write, Read, Depth, SearchLabels, DataLabels, Changes, OpType, Kinds
<1>4. "leave" \in Labels /\ "leave" \notin {"wait_w", "wait_o", "wait_r"}
  BY DEF Labels
<1>5. Moves(t, "leave")
  BY Zenon, <1>1, <1>4, Types, Moving DEF rurw_w_unlock
<1>6. pc'[t] = "leave"
  BY Zenon, <1>5 DEF Moves
<1>7. /\ pc[t] \notin Outside /\ "leave" \notin Outside /\ ~GivenUp(t) /\ ~GivenUp(t)' /\ ~PoolIdle(t)
      /\ ("leave" \in PausedLabels <=> pc[t] \in PausedLabels) /\ ("leave" = "wanting" <=> pc[t] = "wanting")
  BY Zenon, <1>1, <1>6 DEF Outside, GivenUp, PoolIdle, PausedLabels
<1>8. slot[t].w > 0 /\ ~Waiting(t) /\ ~Waiting(t)'
  BY <1>1, <1>3, <1>6 DEF Waiting
<1>9. KindAt(t)' /\ TodoAt(t)'
  BY Zenon, <1>1, <1>2, <1>3, <1>6 DEF AtOK, KindAt, TodoAt, ChangeLabels, NestedLabels, Changes
<1>10. CASE slot[t].w > 1 /\ slot' = [slot EXCEPT ![t].w = @ - 1] /\ UNCHANGED cb
  <2> DEFINE a == [slot[t] EXCEPT !.w = slot[t].w - 1]
  <2>1. op[t].nested
    BY <1>3, <1>10
  <2>2. slot' = [slot EXCEPT ![t] = a]
    BY Zenon, <1>10
  <2>3. a \in SlotType /\ a.r = 0 /\ a.w = 1
    BY <1>2, <1>3, <2>1 DEF SlotType
  <2> HIDE DEF a
  <2>4. slot'[t] = a /\ Others(t)
    BY Zenon, <1>1, <1>2, <2>2 DEF Others
  <2>5. slot'[t].w > 0 /\ slot'[t].r = slot[t].r
    BY <1>3, <2>3, <2>4
  <2>6. LockStep
    BY Zenon, <1>5, <1>8, <1>10, <2>4, <2>5, LockKept DEF Writes
  <2>7. SlotAt(t)'
    BY Zenon, <1>1, <1>6, <2>1, <2>3, <2>4 DEF SlotAt, Write, Read, Retreated
  <2>8. cb' = [readers |-> cb'.readers, writer |-> cb'.writer] /\ cb'.writer \in BOOLEAN /\ AtOK(t)'
    BY Zenon, <1>9, <1>10, <2>7, Types DEF AtOK
  <2> QED BY Zenon, <1>1, <1>4, <1>5, <1>7, <2>2, <2>3, <2>6, <2>8, SlotStep
<1>11. CASE slot[t].w = 1 /\ slot' = [slot EXCEPT ![t] = NoSlot] /\ cb' = [cb EXCEPT !.writer = FALSE]
  <2>1. ~op[t].nested
    BY <1>3, <1>11
  <2>2. NoSlot \in SlotType /\ NoSlot.r = 0 /\ NoSlot.w = 0
    BY DEF NoSlot, SlotType
  <2>3. slot'[t] = NoSlot /\ Others(t)
    BY Zenon, <1>1, <1>2, <1>11 DEF Others
  <2>4. ~(slot'[t].w > 0) /\ slot'[t].r = slot[t].r
    BY <1>3, <2>2, <2>3
  <2>5. cb' = [readers |-> cb'.readers, writer |-> cb'.writer] /\ cb'.writer = FALSE /\ cb'.readers = cb.readers
    BY Zenon, <1>11, Types
  <2>6. LockStep
    BY Zenon, <1>5, <1>8, <2>3, <2>4, <2>5, LockDrop DEF Writes
  <2>7. SlotAt(t)'
    BY Zenon, <1>1, <1>6, <2>1, <2>2, <2>3 DEF SlotAt, Write, Read, Retreated
  <2>8. cb'.writer \in BOOLEAN /\ AtOK(t)'
    BY Zenon, <1>9, <2>5, <2>7 DEF AtOK
  <2> QED BY Zenon, <1>1, <1>4, <1>5, <1>7, <1>11, <2>2, <2>5, <2>6, <2>8, SlotStep
<1> QED BY Zenon, <1>1, <1>10, <1>11 DEF rurw_w_unlock

(* rurw_retreat.                                                           *)
LEMMA RetreatInv ==
  ASSUME IInv, NEW t \in Threads, Retreat(t), setup' = setup
  PROVE  IInv'
<1>1. /\ pc[t] = "found" /\ saved' = [saved EXCEPT ![t] = slot[t]] /\ slot' = [slot EXCEPT ![t] = NoSlot]
      /\ cb' = [cb EXCEPT !.writer = FALSE] /\ pc' \in rurw_leave([cb EXCEPT !.writer = FALSE], [pc EXCEPT ![t] = "retreated"])
      /\ UNCHANGED <<op, biglock, pool>> /\ UNCHANGED <<op, bl, deep>>
  BY Zenon DEF Retreat, rurw_retreat, biglock
<1>2. op[t] \in OpType /\ slot[t] \in SlotType /\ slot \in [Threads -> SlotType] /\ saved \in [Threads -> SlotType] /\ AtOK(t)
  BY Zenon, Types DEF IInv
<1>3. op[t].kind \in Changes /\ slot[t].r = 0 /\ slot[t].w = Depth(t) /\ op[t].todo = "none"
  BY Zenon, <1>1, <1>2 DEF AtOK, KindAt, TodoAt, SlotAt, Write, Read, SearchLabels, DataLabels, Changes, OpType, Kinds
<1>4. "retreated" \in Labels /\ "retreated" \notin {"wait_w", "wait_o", "wait_r"}
  BY Zenon DEF Labels
<1>5. Moves(t, "retreated")
  BY Zenon, <1>1, <1>4, Types, Moving
<1>6. pc'[t] = "retreated"
  BY Zenon, <1>5 DEF Moves
<1>7. /\ pc[t] \notin Outside /\ "retreated" \notin Outside /\ ~GivenUp(t) /\ ~GivenUp(t)' /\ ~PoolIdle(t)
      /\ ("retreated" \in PausedLabels <=> pc[t] \in PausedLabels) /\ ("retreated" = "wanting" <=> pc[t] = "wanting")
  BY Zenon, <1>1, <1>6 DEF Outside, GivenUp, PoolIdle, PausedLabels
<1>8. slot[t].w > 0 /\ ~Waiting(t) /\ ~Waiting(t)'
  BY <1>1, <1>3, <1>6 DEF Waiting, Depth
<1>9. KindAt(t)' /\ TodoAt(t)'
  BY Zenon, <1>1, <1>2, <1>3, <1>6 DEF AtOK, KindAt, TodoAt, ChangeLabels, NestedLabels, Changes
<1>10. NoSlot \in SlotType /\ NoSlot.r = 0 /\ NoSlot.w = 0
  BY DEF NoSlot, SlotType
<1>11. slot'[t] = NoSlot /\ saved'[t] = slot[t] /\ Others(t)
  BY Zenon, <1>1, <1>2 DEF Others
<1>12. ~(slot'[t].w > 0) /\ slot'[t].r = slot[t].r
  BY <1>3, <1>10, <1>11
<1>13. cb' = [readers |-> cb'.readers, writer |-> cb'.writer] /\ cb'.writer = FALSE /\ cb'.readers = cb.readers
  BY Zenon, <1>1, Types
<1>14. LockStep
  BY Zenon, <1>5, <1>8, <1>11, <1>12, <1>13, LockDrop DEF Writes
<1>15. SlotAt(t)'
  <2>1. Depth(t)' = Depth(t)
    BY Zenon, <1>1 DEF Depth
  <2> QED BY Zenon, <1>3, <1>6, <1>10, <1>11, <2>1 DEF SlotAt, Write, Read, Retreated
<1>16. cb'.writer \in BOOLEAN /\ AtOK(t)'
  BY Zenon, <1>9, <1>13, <1>15 DEF AtOK
<1> QED BY Zenon, <1>1, <1>2, <1>4, <1>5, <1>7, <1>10, <1>13, <1>14, <1>16, RurwStep

(* rurw_obtain fills the slot and waits, or has the lock.                  *)
LEMMA ObtainInv ==
  ASSUME IInv, NEW t \in Threads, Obtain(t), setup' = setup
  PROVE  IInv'
<1>1. /\ pc[t] \in {"obtain", "woken_o"} /\ slot' = [slot EXCEPT ![t] = saved[t]]
      /\ UNCHANGED <<op, biglock, pool, saved>> /\ UNCHANGED <<op, bl, deep, saved>>
      /\ \/ Goto(t, "wait_o") /\ UNCHANGED cb
         \/ ~Busy /\ Goto(t, "changing") /\ cb' = [cb EXCEPT !.writer = TRUE]
  BY Zenon DEF Obtain, rurw_obtain, biglock
<1>2. op[t] \in OpType /\ slot[t] \in SlotType /\ slot \in [Threads -> SlotType] /\ saved[t] \in SlotType /\ AtOK(t)
  BY Zenon, Types DEF IInv
<1>3. op[t].kind \in Changes /\ slot[t].r = 0 /\ op[t].todo = "none" /\ saved[t].w = Depth(t) /\ saved[t].r = 0
  BY Zenon, <1>1, <1>2 DEF AtOK, KindAt, TodoAt, SlotAt, Write, Read, Retreated, SearchLabels, DataLabels, Changes, OpType, Kinds
<1>4. slot'[t] = saved[t] /\ saved'[t] = saved[t] /\ Others(t) /\ Depth(t)' = Depth(t) /\ slot'[t].r = slot[t].r
  BY Zenon, <1>1, <1>2, <1>3 DEF Others, Depth
<1>5. ~Writes(t) /\ slot'[t].w > 0
  <2>1. pc[t] = "obtain" => slot[t].w = 0
    BY Zenon, <1>2 DEF AtOK, SlotAt, Write
  <2> QED BY <1>1, <1>3, <1>4, <2>1 DEF Writes, Waiting, Depth
<1>6. ASSUME NEW l \in {"wait_o", "changing"}, Goto(t, l)
      PROVE  /\ Moves(t, l) /\ l \in Labels /\ AtOK(t)' /\ pc[t] \notin Outside /\ l \notin Outside
             /\ ~GivenUp(t) /\ ~GivenUp(t)' /\ ~PoolIdle(t)
             /\ (l \in PausedLabels <=> pc[t] \in PausedLabels) /\ (l = "wanting" <=> pc[t] = "wanting")
  <2>1. l \in Labels
    BY Zenon DEF Labels
  <2>2. Moves(t, l)
    BY Zenon, <1>6, <2>1, Types, Moving
  <2>3. pc'[t] = l
    BY Zenon, <2>2 DEF Moves
  <2>4. /\ pc[t] \notin Outside /\ l \notin Outside /\ ~GivenUp(t) /\ ~GivenUp(t)' /\ ~PoolIdle(t)
        /\ (l \in PausedLabels <=> pc[t] \in PausedLabels) /\ (l = "wanting" <=> pc[t] = "wanting")
    BY Zenon, <1>1, <2>3 DEF Outside, GivenUp, PoolIdle, PausedLabels
  <2>5. KindAt(t)' /\ TodoAt(t)'
    BY Zenon, <1>1, <1>2, <1>3, <2>3 DEF AtOK, KindAt, TodoAt, ChangeLabels, NestedLabels, Changes
  <2>6. SlotAt(t)'
    BY Zenon, <1>3, <1>4, <2>3 DEF SlotAt, Write, Read, Retreated
  <2> QED BY Zenon, <2>1, <2>2, <2>4, <2>5, <2>6 DEF AtOK
<1>7. CASE Goto(t, "wait_o") /\ UNCHANGED cb
  <2>1. ~Writes(t)'
    BY Zenon, <1>6, <1>7 DEF Writes, Waiting, Moves
  <2>2. LockStep
    BY Zenon, <1>4, <1>5, <1>6, <1>7, <2>1, LockKept
  <2>3. cb' = [readers |-> cb'.readers, writer |-> cb'.writer] /\ cb'.writer \in BOOLEAN
    BY Zenon, <1>7, Types
  <2> QED BY Zenon, <1>1, <1>2, <1>6, <1>7, <2>2, <2>3, SlotStep
<1>8. CASE ~Busy /\ Goto(t, "changing") /\ cb' = [cb EXCEPT !.writer = TRUE]
  <2>1. Writes(t)'
    BY Zenon, <1>5, <1>6, <1>8 DEF Writes, Waiting, Moves
  <2>2. cb' = [readers |-> cb'.readers, writer |-> cb'.writer] /\ cb'.writer = TRUE /\ cb'.readers = cb.readers
    BY Zenon, <1>8, Types
  <2>3. LockStep
    BY Zenon, <1>4, <1>6, <1>8, <2>1, <2>2, LockTake
  <2>4. cb'.writer \in BOOLEAN
    BY Zenon, <2>2
  <2> QED BY Zenon, <1>1, <1>2, <1>6, <1>8, <2>2, <2>3, <2>4, SlotStep
<1> QED BY Zenon, <1>1, <1>7, <1>8

-----------------------------------------------------------------------------
(* IInv holds before any thread has begun ...                              *)
LEMMA InitInv == Init => IInv
<1> SUFFICES ASSUME Init PROVE IInv
  BY Zenon
<1>1. Cardinality(Threads) \in Nat
  BY Zenon, ConfigLockAssumption, FS_CardinalityType
<1>2. NoSlot \in SlotType /\ NoSlot.r = 0 /\ NoSlot.w = 0
  BY DEF NoSlot, SlotType
<1>3. NoOp \in OpType /\ NoOp.kind = "none" /\ NoOp.nested = FALSE /\ NoOp.todo = "none"
  BY Zenon DEF NoOp, OpType, Kinds
<1>4. Free \in LockType /\ Free.owner = Nobody /\ Free.recursion = 0
  BY DEF Free, LockType
<1>5. cb \in [readers : 0..Cardinality(Threads), writer : BOOLEAN] /\ cb.readers = 0 /\ cb.writer = FALSE
  BY <1>1 DEF Init
<1>6. TypeOK
  <2>1. pc \in [Threads -> Labels]
    BY Zenon DEF Init, Labels
  <2>2. op \in [Threads -> OpType] /\ slot \in [Threads -> SlotType] /\ saved \in [Threads -> SlotType]
    BY Zenon, <1>2, <1>3 DEF Init
  <2>3. bl \in [Dbs -> LockType]
    BY Zenon, <1>4 DEF Init
  <2>4. deep \in [Threads -> 0..2]
    BY DEF Init
  <2>5. ltp_pause \in {"NOT_PAUSED", "WANT_PAUSE", "PAUSED"} /\ pauser \in Threads \cup {Nobody}
    BY Zenon DEF Init
  <2> QED BY Zenon, <1>5, <2>1, <2>2, <2>3, <2>4, <2>5 DEF TypeOK, OpType, SlotType, LockType, Kinds
<1>7. ASSUME NEW t \in Threads
      PROVE  /\ pc[t] = "ready" /\ op[t].kind = "none" /\ ~op[t].nested /\ op[t].todo = "none"
             /\ slot[t].r = 0 /\ slot[t].w = 0 /\ deep[t] = 0
  BY Zenon, <1>2, <1>3 DEF Init
<1>8. ASSUME NEW t \in Threads PROVE AtOK(t)
  <2>1. KindAt(t) /\ TodoAt(t)
    BY Zenon, <1>7 DEF KindAt, TodoAt, Changes
  <2>2. SlotAt(t)
    BY Zenon, <1>7 DEF SlotAt, Write, Read, Retreated
  <2> QED BY Zenon, <2>1, <2>2 DEF AtOK
<1>9. \A d \in Dbs : bl[d].owner = Nobody /\ bl[d].recursion = 0
  BY Zenon, <1>4 DEF Init
<1>10. ASSUME NEW t \in Threads PROVE LevelsAt(t)
  <2>1. Levels(t) = 0 /\ ~GivenUp(t) /\ Db(t) \in Dbs
    BY Zenon, <1>7 DEF Levels, GivenUp, Db, Dbs
  <2>2. ~(Levels(t) > 0)
    BY <2>1
  <2>3. \A d \in Dbs : bl[d].owner # t
    BY Zenon, <1>9, ConfigLockAssumption
  <2> QED BY Zenon, <1>7, <2>1, <2>2, <2>3 DEF LevelsAt
<1>11. Owners
  BY Zenon, <1>9 DEF Owners
<1>12. Readers
  <2>1. \A t \in Threads : ~(slot[t].r > 0)
    BY <1>7
  <2>2. {t \in Threads : slot[t].r > 0} = {}
    BY Zenon, <2>1
  <2> QED BY Zenon, <1>5, <2>2, FS_EmptySet DEF Readers
<1>13. Writer
  <2>1. \A t \in Threads : ~(slot[t].w > 0)
    BY <1>7
  <2> QED BY Zenon, <1>5, <2>1 DEF Writer, Writes
<1>14. Paused
  <2>1. \A t \in Threads : pc[t] \notin PausedLabels /\ pc[t] # "wanting" /\ t # Nobody
    BY Zenon, <1>7, ConfigLockAssumption DEF PausedLabels
  <2>2. ltp_pause = "NOT_PAUSED" /\ ltp_pause # "PAUSED" /\ pauser = Nobody
    BY Zenon DEF Init
  <2> QED BY Zenon, <2>1, <2>2 DEF Paused
<1>15. setup \in Setups
  BY Zenon DEF Init
<1> QED BY Zenon, <1>6, <1>8, <1>10, <1>11, <1>12, <1>13, <1>14, <1>15 DEF IInv

(* ... and every step keeps it.                                            *)
LEMMA NextInv == IInv /\ [Next]_vars => IInv'
<1> SUFFICES ASSUME IInv, [Next]_vars PROVE IInv'
  BY Zenon
<1>1. CASE UNCHANGED vars
  <2>1. UNCHANGED <<pc, op, slot, saved, cb, bl, deep, ltp_pause, pauser, setup>>
    BY Zenon, <1>1 DEF vars, moving
  <2>2. TypeOK' /\ Owners' /\ Readers' /\ setup' \in Setups
    BY Zenon, <2>1 DEF IInv, TypeOK, Owners, Readers
  <2>3. Writer' /\ Paused'
    BY Zenon, <2>1 DEF IInv, Writer, Writes, Waiting, Paused, PoolIdle
  <2>4. ASSUME NEW t \in Threads PROVE AtOK(t)'
    <3>1. AtOK(t)
      BY Zenon DEF IInv
    <3> QED BY ZenonT(60), <2>1, <3>1 DEF AtOK, KindAt, TodoAt, SlotAt, Write, Read, Retreated, Depth
  <2>5. ASSUME NEW t \in Threads PROVE LevelsAt(t)'
    <3>1. LevelsAt(t)
      BY Zenon DEF IInv
    <3> QED BY Zenon, <2>1, <3>1 DEF LevelsAt, Levels, GivenUp, Db
  <2> QED BY Zenon, <2>2, <2>3, <2>4, <2>5 DEF IInv
<1>2. ASSUME NEW t \in Threads, setup' = setup, Begin(t) \/ SendBlocks(t) \/ Step(t)
      PROVE  IInv'
  <2>1. CASE Begin(t) \/ SendBlocks(t)
    BY Zenon, <1>2, <2>1, BeginInv, SendBlocksInv
  <2>2. CASE Enter(t) \/ Lock(t) \/ EndSearch(t) \/ EndChange(t) \/ Leave(t)
    BY Zenon, <1>2, <2>2, EnterInv, ReadLockInv, WriteLockInv, EndSearchInv, EndChangeInv, LeaveInv
  <2>3. CASE \/ SendReturns(t) \/ Refuse(t) \/ ChangeUnpaused(t) \/ overlay_remove_cb(t)
             \/ EndWork(t) \/ PauseOver(t)
    BY Zenon, <1>2, <2>3, JumpsInv
  <2>4. CASE Retreat(t) \/ slap_biglock_pool_pause(t) \/ WantPause(t) \/ Grant(t) \/ PauseAcquire(t) \/ Obtain(t)
    BY Zenon, <1>2, <2>4, RetreatInv, GiveUpInv, GrantInv, TakeBackInv, ObtainInv
  <2>5. CASE \/ ChangeAndResume(t) \/ syncprov_checkpoint(t) \/ syncprov_db_close(t)
             \/ slap_biglock_pool_pausecheck(t) \/ PausecheckAcquire(t)
    BY Zenon, <1>2, <2>5, UnpauseInv, CheckpointInv, GiveUpInv, TakeBackInv
  <2> QED BY Zenon, <1>2, <2>1, <2>2, <2>3, <2>4, <2>5 DEF Step
<1> QED BY Zenon, <1>1, <1>2 DEF Next

(* A thread that changes the configuration has the pool paused for itself, *)
(* cb_lock and its big lock, for any number of threads and whatever the    *)
(* order in which changes, checkpoints, searches and other work meet.      *)
THEOREM ConfigChangeAlone == Spec => []ChangeAlone
<1>1. IInv => ChangeAlone
  <2> SUFFICES ASSUME IInv, NEW t \in Threads, pc[t] = "changing"
               PROVE  /\ ltp_pause = "PAUSED" /\ pauser = t
                      /\ setup.biglock = "local" => bl["config"].owner = t
                      /\ \A u \in Threads \ {t} : PoolIdle(u) /\ slot[u].r = 0 /\ ~Writes(u)
    BY Zenon DEF ChangeAlone
  <2>1. ltp_pause = "PAUSED" /\ pauser = t
    BY Zenon DEF IInv, Paused, PausedLabels
  <2>2. op[t] \in OpType /\ AtOK(t) /\ LevelsAt(t)
    BY Zenon, Types DEF IInv
  <2>3. op[t].kind \in Changes
    BY Zenon, <2>2 DEF AtOK, KindAt, SearchLabels, DataLabels, Changes, OpType, Kinds
  <2>4. setup.biglock = "local" => Levels(t) > 0 /\ Db(t) = "config" /\ ~GivenUp(t)
    BY <2>3 DEF Levels, Db, GivenUp, Changes
  <2>5. setup.biglock = "local" => bl["config"].owner = t
    BY Zenon, <2>2, <2>4 DEF LevelsAt
  <2>6. Writes(t)
    BY <2>2 DEF AtOK, SlotAt, Write, Writes, Waiting, Depth
  <2>7. cb.readers = 0
    BY Zenon, <2>6 DEF IInv, Writer
  <2>8. ASSUME NEW u \in Threads PROVE slot[u].r = 0
    <3>1. IsFiniteSet(ReaderSet) /\ Cardinality(ReaderSet) = 0
      BY Zenon, <2>7, ConfigLockAssumption, FS_Subset DEF ReaderSet, IInv, Readers
    <3>2. ReaderSet = {}
      BY Zenon, <3>1, FS_EmptySet
    <3>3. ~(slot[u].r > 0)
      BY Zenon, <3>2 DEF ReaderSet
    <3>4. slot[u] \in SlotType
      BY Zenon, Types
    <3> QED BY <3>3, <3>4 DEF SlotType
  <2>9. \A u \in Threads \ {t} : PoolIdle(u) /\ ~Writes(u)
    BY Zenon, <2>1, <2>6 DEF IInv, Paused, Writer
  <2> QED BY Zenon, <2>1, <2>5, <2>8, <2>9
<1> QED BY <1>1, InitInv, NextInv, PTL DEF Spec

(* rurw_readers and rurw_writer count exactly the slots that have cb_lock, *)
(* and the levels of a big lock that its operation took are held or saved, *)
(* for any number of threads.                                              *)
THEOREM LockCountsExact == Spec => []LocksExact
<1>1. IInv => LocksExact
  <2> SUFFICES ASSUME IInv PROVE LocksExact
    BY Zenon
  <2>1. Cardinality({t \in Threads : Writes(t)}) = IF cb.writer THEN 1 ELSE 0
    <3>1. CASE cb.writer
      <4>1. PICK t \in Threads : Writes(t)
        BY Zenon, <3>1 DEF IInv, Writer
      <4>2. {u \in Threads : Writes(u)} = {t}
        BY Zenon, <4>1 DEF IInv, Writer
      <4> QED BY Zenon, <3>1, <4>2, FS_Singleton
    <3>2. CASE ~cb.writer
      <4>1. {u \in Threads : Writes(u)} = {}
        BY Zenon, <3>2 DEF IInv, Writer
      <4> QED BY Zenon, <3>2, <4>1, FS_EmptySet
    <3> QED BY Zenon, <3>1, <3>2
  <2>2. ASSUME NEW t \in Threads
        PROVE  Levels(t) = deep[t] + (IF bl[Db(t)].owner = t THEN bl[Db(t)].recursion ELSE 0)
    <3>1. LevelsAt(t) /\ Levels(t) \in 0..2
      BY Zenon, LevelsValues DEF IInv
    <3> QED BY <3>1 DEF LevelsAt
  <2> QED BY Zenon, <2>1, <2>2 DEF LocksExact, IInv, Readers
<1> QED BY <1>1, InitInv, NextInv, PTL DEF Spec
=============================================================================
