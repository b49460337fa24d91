---------------------------- MODULE Alock_proofs ----------------------------
(***************************************************************************)
(* Proofs about the access lock, for any number of processes, slots and    *)
(* crashes.  The invariants of Alock are not inductive: they rest on who   *)
(* holds which record lock (Locks), on what the slots say about their      *)
(* holders (Marks), and on what a scan under lock 0 has seen so far        *)
(* (Scanned) and what its answer is still worth afterwards (Answered).     *)
(***************************************************************************)
EXTENDS Alock, TLAPS

(* The leaves are proved by SMT, except those that cite another prover.    *)
USE SMTT(60)

(* Labels at which a process holds lock 0, and the lock of its slot.       *)
Critical == {"scan", "write", "rel0", "arscan", "closing", "closewr"}

Inside == Admitted \cup {"write", "rel0"}

Locks ==
  /\ \A p \in Procs : held[0] = p <=> pc[p] \in Critical
  /\ \A p \in Procs, s \in Slots : held[s] = p <=> al_slot[p] = s /\ pc[p] \in Inside
  /\ \A p \in Procs : pc[p] \in Inside \cup {"closewr"} => al_slot[p] # 0

Marks ==
  /\ \A p \in Procs : pc[p] \in (Inside \ {"write"}) \cup {"closewr"}
                        => file[al_slot[p]].lock = LockType(p)
  /\ \A s \in Slots : s >= max_slot => file[s].lock = "UNLOCKED"
  /\ \A p \in Procs : pc[p] = "scan" /\ al_slot[p] # 0
                        => file[al_slot[p]].lock = "UNLOCKED"
  /\ \A p \in Procs : pc[p] \in {"off", "open0"} => al_slot[p] = 0 /\ seen[p] = Nothing
  /\ \A p \in Procs : pc[p] = "closewr" => held[al_slot[p]] = None /\ al_slot[p] \notin damage
  /\ \A p \in Procs : pc[p] \in {"recov", "arec0", "arscan", "failclose"} => kind[p] # "reader"

(* A process inside that writes, or a scan of one that will.               *)
Unique(p) == kind[p] # "reader" /\ pc[p] \in Inside

Alone == \A p, q \in Procs : Unique(p) /\ Unique(q) => p = q

Scanned ==
  \A p \in Procs : pc[p] = "scan" /\ kind[p] # "reader" =>
    \A s \in Slots : s < scan[p] =>
      /\ \A q \in Procs : Unique(q) => al_slot[q] # s
      /\ s \in damage => seen[p].dirty /\ (file[s].nosave => seen[p].nosave)

Answered ==
  \A p \in Procs : kind[p] # "reader" =>
    /\ pc[p] \in {"write", "rel0", "opened"} =>
         \A s \in damage : seen[p].dirty /\ (file[s].nosave => seen[p].nosave)
    /\ pc[p] = "recov" => \A s \in damage : ~file[s].nosave
    /\ pc[p] \in {"remove", "envopen", "arec0", "arscan", "run"} => damage = {}

IInv == TypeOK /\ Locks /\ Marks /\ Alone /\ Scanned /\ Answered /\ DamageMarked

(* What a scan starts with is well typed.                                  *)
LEMMA NothingType == Nothing \in [dirty : BOOLEAN, live : BOOLEAN, nosave : BOOLEAN]
BY DEF Nothing

(* The inductive invariant holds in the initial state.                     *)
LEMMA InitInv == Init => IInv
BY AlockAssumption, NothingType DEF Init, IInv, TypeOK, Locks, Marks, Alone, Unique, Scanned,
   Answered, DamageMarked, Slots, Admitted, Inside, Critical, Kinds, Unused

(* Every step of a process and every crash keeps it.                       *)
LEMMA StepInv == IInv /\ [Next]_vars => IInv'
<1> SUFFICES ASSUME IInv, [Next]_vars PROVE IInv'
  OBVIOUS
<1> USE AlockAssumption, NothingType DEF IInv, Slots, Admitted, Goto, locals, world, locks
<1>0. CASE UNCHANGED vars
  BY <1>0 DEF vars, TypeOK, Locks, Marks, Alone, Unique, Scanned, Answered,
     DamageMarked, LockType
<1>1. ASSUME NEW p \in Procs, NEW k \in Kinds, Start(p, k) PROVE IInv'
  <2>1. (TypeOK /\ Locks)'
    BY <1>1 DEF Start, TypeOK, Kinds, Locks, Critical, Inside
  <2>2. Marks'
    BY <1>1 DEF Start, TypeOK, Locks, Marks, Critical, Inside, LockType,
        DamageMarked
  <2>3. (Alone /\ Scanned)'
    BY <1>1 DEF Start, TypeOK, Locks, Marks, Alone, Unique, Critical, Inside,
        Scanned, LockType, DamageMarked
  <2>4. (Answered /\ DamageMarked)'
    BY <1>1 DEF Start, TypeOK, Locks, Marks, Alone, Unique, Critical, Inside,
        Scanned, Answered, LockType, DamageMarked
  <2> QED BY <2>1, <2>2, <2>3, <2>4
<1>2. ASSUME NEW p \in Procs, alock_grab_lock(p) PROVE IInv'
  <2>1. TypeOK'
    <3>1. PICK l \in {"scan", "arscan", "closing"} : pc' = [pc EXCEPT ![p] = l]
      BY <1>2 DEF alock_grab_lock
    <3>2. held' \in [0 .. MaxSlots -> Procs \cup {None}]
      BY <1>2 DEF alock_grab_lock, TypeOK
    <3> QED BY <1>2, <3>1, <3>2 DEF alock_grab_lock, TypeOK
  <2>2. Locks'
    BY <1>2 DEF alock_grab_lock, TypeOK, Locks, Critical, Inside
  <2>3. Marks'
    BY <1>2 DEF alock_grab_lock, TypeOK, Locks, Marks, Critical, Inside,
        LockType, DamageMarked
  <2>4. Alone'
    BY <1>2 DEF alock_grab_lock, TypeOK, Locks, Marks, Alone, Unique,
        Critical, Inside, Scanned, LockType
  <2>5. Scanned'
    BY <1>2 DEF alock_grab_lock, TypeOK, Locks, Marks, Alone, Unique,
        Critical, Inside, Scanned, LockType, DamageMarked
  <2>6. Answered'
    BY <1>2 DEF alock_grab_lock, TypeOK, Locks, Marks, Alone, Unique,
        Critical, Inside, Scanned, Answered, LockType, DamageMarked
  <2>7. DamageMarked'
    BY <1>2 DEF alock_grab_lock, TypeOK, Locks, Marks, Alone, Unique,
        Critical, Inside, Answered, LockType, DamageMarked
  <2> QED BY <2>1, <2>2, <2>3, <2>4, <2>5, <2>6, <2>7
<1>3. ASSUME NEW p \in Procs, alock_open_busy(p) PROVE IInv'
  <2>1. (TypeOK /\ Locks)'
    BY <1>3 DEF alock_open_busy, Refuse, Gone, Dropped, TypeOK, Kinds, Locks,
        Critical, Inside
  <2>2. Marks'
    BY <1>3 DEF alock_open_busy, Refuse, Gone, Dropped, TypeOK, Locks, Marks,
        Critical, Inside, LockType, DamageMarked
  <2>3. (Alone /\ Scanned)'
    BY <1>3 DEF alock_open_busy, Refuse, Gone, Dropped, TypeOK, Locks, Marks,
        Alone, Unique, Critical, Inside, Scanned, LockType, DamageMarked
  <2>4. (Answered /\ DamageMarked)'
    BY <1>3 DEF alock_open_busy, Refuse, Gone, Dropped, TypeOK, Locks, Marks,
        Alone, Unique, Critical, Inside, Scanned, Answered, LockType,
        DamageMarked
  <2> QED BY <2>1, <2>2, <2>3, <2>4
<1>4. ASSUME NEW p \in Procs, alock_open_scan(p) PROVE IInv'
  <2>1. TypeOK'
    BY <1>4 DEF alock_open_scan, alock_query_slot, TypeOK, Kinds
  <2>2. Locks'
    <3>1. /\ pc' = pc /\ held' = held /\ pc[p] = "scan"
          /\ \A q \in Procs : q # p => al_slot'[q] = al_slot[q]
      BY <1>4 DEF alock_open_scan, TypeOK
    <3> QED BY <3>1 DEF TypeOK, Locks, Critical, Inside
  <2>3. Marks'
    <3>1. /\ pc' = pc /\ kind' = kind /\ file' = file /\ held' = held /\ damage' = damage
          /\ max_slot' = max_slot /\ quick' = quick /\ slapMode' = slapMode /\ pc[p] = "scan"
          /\ \A q \in Procs : q # p => al_slot'[q] = al_slot[q] /\ seen'[q] = seen[q]
      BY <1>4 DEF alock_open_scan, TypeOK, locks, world
    <3>2. \/ al_slot'[p] = al_slot[p]
          \/ al_slot'[p] = scan[p] /\ file[scan[p]].lock = "UNLOCKED"
      BY <1>4 DEF alock_open_scan, alock_query_slot, TypeOK
    <3> QED BY <3>1, <3>2 DEF Marks, Inside, Admitted, LockType
  <2>4. Alone'
    BY <1>4 DEF alock_open_scan, alock_query_slot, TypeOK, Locks, Marks,
        Alone, Unique, Critical, Inside, Scanned, LockType
  <2>5. Scanned'
    <3>1. PICK s \in Slots : s = scan[p] /\ scan'[p] = s + 1
      BY <1>4 DEF alock_open_scan, TypeOK
    <3>2. /\ pc' = pc /\ kind' = kind /\ damage' = damage /\ file' = file
          /\ \A q \in Procs : q # p => pc[q] # "scan" /\ al_slot'[q] = al_slot[q]
          /\ pc[p] = "scan"
      BY <1>4 DEF alock_open_scan, TypeOK, Locks, Critical, locals, world, locks
    <3>3. /\ seen[p].dirty => seen'[p].dirty
          /\ seen[p].nosave => seen'[p].nosave
          /\ alock_query_slot(s) = "DIRTY" => seen'[p].dirty
          /\ file[s].nosave => seen'[p].nosave
          /\ alock_query_slot(s) = "UNIQUE" => kind[p] = "reader"
      BY Zenon, <1>4, <3>1 DEF alock_open_scan, TypeOK, LockType
    <3>4. s \in damage => alock_query_slot(s) = "DIRTY"
      BY DEF DamageMarked, alock_query_slot
    <3>5. ASSUME NEW q \in Procs, Unique(q), al_slot[q] = s
          PROVE  alock_query_slot(s) = "UNIQUE"
      <4>1. held[s] = q /\ pc[q] # "write"
        BY <3>2, <3>5 DEF Unique, Locks, Critical
      <4>2. file[s].lock = "UNIQUE"
        BY <3>5, <4>1 DEF Unique, Marks, Inside, LockType
      <4> QED BY <4>1, <4>2, AlockAssumption DEF alock_query_slot
    <3>6. \A q \in Procs : Unique(q)' => Unique(q) /\ al_slot'[q] = al_slot[q]
      BY <3>2 DEF Unique, Inside
    <3> SUFFICES ASSUME kind[p] # "reader", NEW t \in Slots, t < scan'[p]
                 PROVE  /\ \A q \in Procs : Unique(q)' => al_slot'[q] # t
                        /\ t \in damage => seen'[p].dirty /\ (file[t].nosave => seen'[p].nosave)
      BY <3>2 DEF Scanned
    <3>7. CASE t = s
      BY <3>3, <3>4, <3>5, <3>6, <3>7
    <3>8. CASE t < s
      BY <3>1, <3>2, <3>3, <3>6, <3>8 DEF Scanned
    <3> QED BY <3>1, <3>7, <3>8
  <2>6. Answered'
    BY <1>4 DEF alock_open_scan, alock_query_slot, TypeOK, Locks, Marks,
        Alone, Unique, Critical, Inside, Scanned, Answered, LockType,
        DamageMarked
  <2>7. DamageMarked'
    BY Zenon, <1>4 DEF alock_open_scan, alock_query_slot, TypeOK, Locks, Marks,
        Alone, Unique, Critical, Inside, Answered, LockType, DamageMarked
  <2> QED BY <2>1, <2>2, <2>3, <2>4, <2>5, <2>6, <2>7
<1>5. ASSUME NEW p \in Procs, alock_open_unstable(p) PROVE IInv'
  <2>1. (TypeOK /\ Locks)'
    BY <1>5 DEF alock_open_unstable, Refuse, Gone, Dropped, TypeOK, Kinds,
        Locks, Critical, Inside
  <2>2. Marks'
    BY <1>5 DEF alock_open_unstable, Refuse, Gone, Dropped, TypeOK, Locks,
        Marks, Critical, Inside, LockType, DamageMarked
  <2>3. (Alone /\ Scanned)'
    BY <1>5 DEF alock_open_unstable, Refuse, Gone, Dropped, TypeOK, Locks,
        Marks, Alone, Unique, Critical, Inside, Scanned, LockType,
        DamageMarked
  <2>4. (Answered /\ DamageMarked)'
    BY <1>5 DEF alock_open_unstable, Refuse, Gone, Dropped, TypeOK, Locks,
        Marks, Alone, Unique, Critical, Inside, Scanned, Answered, LockType,
        DamageMarked
  <2> QED BY <2>1, <2>2, <2>3, <2>4
<1>6. ASSUME NEW p \in Procs, alock_open_take(p) PROVE IInv'
  <2>1. TypeOK'
    BY <1>6 DEF alock_open_take, TypeOK, Kinds
  <2>2. Locks'
    BY <1>6 DEF alock_open_take, TypeOK, Locks, Critical, Inside
  <2>3. Marks'
    BY <1>6 DEF alock_open_take, TypeOK, Locks, Marks, Critical, Inside,
        LockType, DamageMarked
  <2>4. Alone'
    <3>1. ASSUME NEW q \in Procs, q # p, Unique(q), kind[p] # "reader" PROVE FALSE
      <4>1. al_slot[q] \in Slots /\ pc[q] # "write"
        BY <1>6, <3>1 DEF alock_open_take, Unique, TypeOK, Locks, Critical, Inside
      <4>2. file[al_slot[q]].lock = "UNIQUE"
        BY <3>1, <4>1 DEF Unique, Marks, Inside, LockType
      <4>3. al_slot[q] < scan[p]
        BY <1>6, <4>1, <4>2 DEF alock_open_take, TypeOK, Marks
      <4> QED BY <1>6, <3>1, <4>1, <4>3 DEF alock_open_take, Scanned
    <3> QED BY <1>6, <3>1 DEF alock_open_take, TypeOK, Alone, Unique, Inside
  <2>5. Scanned'
    BY <1>6 DEF alock_open_take, TypeOK, Locks, Marks, Alone, Unique,
        Critical, Inside, Scanned, LockType, DamageMarked
  <2>6. Answered'
    BY <1>6 DEF alock_open_take, TypeOK, Locks, Marks, Alone, Unique,
        Critical, Inside, Scanned, Answered, LockType, DamageMarked
  <2>7. DamageMarked'
    BY <1>6 DEF alock_open_take, TypeOK, Locks, Marks, Alone, Unique,
        Critical, Inside, Answered, LockType, DamageMarked
  <2> QED BY <2>1, <2>2, <2>3, <2>4, <2>5, <2>6, <2>7
<1>7. ASSUME NEW p \in Procs, alock_open_write(p) PROVE IInv'
  <2>1. TypeOK'
    <3>1. al_slot[p] \in Slots
      BY <1>7 DEF alock_open_write, TypeOK, Locks, Inside
    <3>2. [lock |-> LockType(p), nosave |-> slapMode[p]]
             \in [lock : {"UNLOCKED", "LOCKED", "UNIQUE"}, nosave : BOOLEAN]
      BY DEF LockType, TypeOK
    <3>3. file' \in [Slots -> [lock : {"UNLOCKED", "LOCKED", "UNIQUE"}, nosave : BOOLEAN]]
      BY <1>7, <3>1, <3>2 DEF alock_open_write, TypeOK
    <3> QED BY <1>7, <3>1, <3>3 DEF alock_open_write, TypeOK
  <2>2. Locks'
    BY <1>7 DEF alock_open_write, TypeOK, Locks, Critical, Inside
  <2>3. Marks'
    BY <1>7 DEF alock_open_write, TypeOK, Locks, Marks, Critical, Inside,
        LockType, DamageMarked
  <2>4. Alone'
    BY <1>7 DEF alock_open_write, TypeOK, Locks, Marks, Alone, Unique,
        Critical, Inside, Scanned, LockType
  <2>5. Scanned'
    BY <1>7 DEF alock_open_write, TypeOK, Locks, Marks, Alone, Unique,
        Critical, Inside, Scanned, LockType, DamageMarked
  <2>6. Answered'
    BY <1>7 DEF alock_open_write, TypeOK, Locks, Marks, Alone, Unique,
        Critical, Inside, Scanned, Answered, LockType, DamageMarked
  <2>7. DamageMarked'
    BY <1>7 DEF alock_open_write, TypeOK, Locks, Marks, Alone, Unique,
        Critical, Inside, Answered, LockType, DamageMarked
  <2> QED BY <2>1, <2>2, <2>3, <2>4, <2>5, <2>6, <2>7
<1>8. ASSUME NEW p \in Procs, alock_open_return(p) PROVE IInv'
  <2>1. (TypeOK /\ Locks)'
    BY <1>8 DEF alock_open_return, TypeOK, Kinds, Locks, Critical, Inside
  <2>2. Marks'
    BY <1>8 DEF alock_open_return, TypeOK, Locks, Marks, Critical, Inside,
        LockType, DamageMarked
  <2>3. (Alone /\ Scanned)'
    BY <1>8 DEF alock_open_return, TypeOK, Locks, Marks, Alone, Unique,
        Critical, Inside, Scanned, LockType, DamageMarked
  <2>4. (Answered /\ DamageMarked)'
    BY <1>8 DEF alock_open_return, TypeOK, Locks, Marks, Alone, Unique,
        Critical, Inside, Scanned, Answered, LockType, DamageMarked
  <2> QED BY <2>1, <2>2, <2>3, <2>4
<1>9. ASSUME NEW p \in Procs, NEW changed \in BOOLEAN, bdb_db_open(p, changed) PROVE IInv'
  <2>1. (TypeOK /\ Locks)'
    BY <1>9 DEF bdb_db_open, TypeOK, Kinds, Locks, Critical, Inside
  <2>2. Marks'
    BY <1>9 DEF bdb_db_open, TypeOK, Locks, Marks, Critical, Inside,
        LockType, DamageMarked
  <2>3. (Alone /\ Scanned)'
    BY <1>9 DEF bdb_db_open, TypeOK, Locks, Marks, Alone, Unique, Critical,
        Inside, Scanned, LockType, DamageMarked
  <2>4. (Answered /\ DamageMarked)'
    BY <1>9 DEF bdb_db_open, TypeOK, Locks, Marks, Alone, Unique, Critical,
        Inside, Scanned, Answered, LockType, DamageMarked
  <2> QED BY <2>1, <2>2, <2>3, <2>4
<1>10. ASSUME NEW p \in Procs, Remove(p) PROVE IInv'
  <2>1. (TypeOK /\ Locks)'
    BY <1>10 DEF Remove, TypeOK, Kinds, Locks, Critical, Inside
  <2>2. Marks'
    BY <1>10 DEF Remove, TypeOK, Locks, Marks, Critical, Inside, LockType,
        DamageMarked
  <2>3. (Alone /\ Scanned)'
    BY <1>10 DEF Remove, TypeOK, Locks, Marks, Alone, Unique, Critical,
        Inside, Scanned, LockType, DamageMarked
  <2>4. (Answered /\ DamageMarked)'
    BY <1>10 DEF Remove, TypeOK, Locks, Marks, Alone, Unique, Critical,
        Inside, Scanned, Answered, LockType, DamageMarked
  <2> QED BY <2>1, <2>2, <2>3, <2>4
<1>11. ASSUME NEW p \in Procs, EnvOpen(p) PROVE IInv'
  <2>1. (TypeOK /\ Locks)'
    BY <1>11 DEF EnvOpen, Mode, TypeOK, Kinds, Locks, Critical, Inside
  <2>2. Marks'
    BY <1>11 DEF EnvOpen, Mode, TypeOK, Locks, Marks, Critical, Inside,
        LockType, DamageMarked
  <2>3. (Alone /\ Scanned)'
    BY <1>11 DEF EnvOpen, Mode, TypeOK, Locks, Marks, Alone, Unique,
        Critical, Inside, Scanned, LockType, DamageMarked
  <2>4. (Answered /\ DamageMarked)'
    BY <1>11 DEF EnvOpen, Mode, TypeOK, Locks, Marks, Alone, Unique,
        Critical, Inside, Scanned, Answered, LockType, DamageMarked
  <2> QED BY <2>1, <2>2, <2>3, <2>4
<1>12. ASSUME NEW p \in Procs, EnvRecovered(p) PROVE IInv'
  <2>1. TypeOK'
    BY Zenon, <1>12 DEF EnvRecovered, Mode, TypeOK, Kinds
  <2>2. Locks'
    BY <1>12 DEF EnvRecovered, Mode, TypeOK, Locks, Critical, Inside
  <2>3. Marks'
    BY <1>12 DEF EnvRecovered, Mode, TypeOK, Locks, Marks, Critical, Inside,
        LockType, DamageMarked
  <2>4. Alone'
    BY <1>12 DEF EnvRecovered, Mode, TypeOK, Locks, Marks, Alone, Unique,
        Critical, Inside, Scanned, LockType
  <2>5. Scanned'
    BY <1>12 DEF EnvRecovered, Mode, TypeOK, Locks, Marks, Alone, Unique,
        Critical, Inside, Scanned, LockType, DamageMarked
  <2>6. Answered'
    <3>1. damage' = {}
      BY <1>12 DEF EnvRecovered, Marks, Answered
    <3> QED BY Zenon, <1>12, <3>1 DEF EnvRecovered, TypeOK, Answered
  <2>7. DamageMarked'
    BY <1>12 DEF EnvRecovered, Mode, TypeOK, Locks, Marks, Alone, Unique,
        Critical, Inside, Answered, LockType, DamageMarked
  <2> QED BY <2>1, <2>2, <2>3, <2>4, <2>5, <2>6, <2>7
<1>13. ASSUME NEW p \in Procs, EnvFails(p) PROVE IInv'
  <2>1. (TypeOK /\ Locks)'
    BY <1>13 DEF EnvFails, TypeOK, Kinds, Locks, Critical, Inside
  <2>2. Marks'
    BY <1>13 DEF EnvFails, TypeOK, Locks, Marks, Critical, Inside, LockType,
        DamageMarked
  <2>3. (Alone /\ Scanned)'
    BY <1>13 DEF EnvFails, TypeOK, Locks, Marks, Alone, Unique, Critical,
        Inside, Scanned, LockType, DamageMarked
  <2>4. (Answered /\ DamageMarked)'
    BY <1>13 DEF EnvFails, TypeOK, Locks, Marks, Alone, Unique, Critical,
        Inside, Scanned, Answered, LockType, DamageMarked
  <2> QED BY <2>1, <2>2, <2>3, <2>4
<1>14. ASSUME NEW p \in Procs, alock_recover_scan(p) PROVE IInv'
  <2>1. TypeOK'
    BY <1>14 DEF alock_recover_scan, alock_query_slot, Unused, TypeOK, Kinds
  <2>2. Locks'
    BY <1>14 DEF alock_recover_scan, alock_query_slot, Unused, TypeOK, Locks,
        Critical, Inside
  <2>3. Marks'
    BY <1>14 DEF alock_recover_scan, alock_query_slot, Unused, TypeOK, Locks,
        Marks, Critical, Inside, LockType, DamageMarked
  <2>4. Alone'
    BY <1>14 DEF alock_recover_scan, alock_query_slot, Unused, TypeOK, Locks,
        Marks, Alone, Unique, Critical, Inside, Scanned, LockType
  <2>5. Scanned'
    BY <1>14 DEF alock_recover_scan, alock_query_slot, Unused, TypeOK, Locks,
        Marks, Alone, Unique, Critical, Inside, Scanned, LockType,
        DamageMarked
  <2>6. Answered'
    BY <1>14 DEF alock_recover_scan, alock_query_slot, Unused, TypeOK, Locks,
        Marks, Alone, Unique, Critical, Inside, Scanned, Answered, LockType,
        DamageMarked
  <2>7. DamageMarked'
    BY <1>14 DEF alock_recover_scan, alock_query_slot, Unused, TypeOK, Locks,
        Marks, Alone, Unique, Critical, Inside, Answered, LockType,
        DamageMarked
  <2> QED BY <2>1, <2>2, <2>3, <2>4, <2>5, <2>6, <2>7
<1>15. ASSUME NEW p \in Procs, alock_recover_fail(p) PROVE IInv'
  <2>1. (TypeOK /\ Locks)'
    BY <1>15 DEF alock_recover_fail, Dropped, TypeOK, Kinds, Locks, Critical,
        Inside
  <2>2. Marks'
    BY <1>15 DEF alock_recover_fail, Dropped, TypeOK, Locks, Marks, Critical,
        Inside, LockType, DamageMarked
  <2>3. (Alone /\ Scanned)'
    BY <1>15 DEF alock_recover_fail, Dropped, TypeOK, Locks, Marks, Alone,
        Unique, Critical, Inside, Scanned, LockType, DamageMarked
  <2>4. (Answered /\ DamageMarked)'
    BY <1>15 DEF alock_recover_fail, Dropped, TypeOK, Locks, Marks, Alone,
        Unique, Critical, Inside, Scanned, Answered, LockType, DamageMarked
  <2> QED BY <2>1, <2>2, <2>3, <2>4
<1>16. ASSUME NEW p \in Procs, alock_recover_return(p) PROVE IInv'
  <2>1. (TypeOK /\ Locks)'
    BY <1>16 DEF alock_recover_return, TypeOK, Kinds, Locks, Critical, Inside
  <2>2. Marks'
    BY <1>16 DEF alock_recover_return, TypeOK, Locks, Marks, Critical,
        Inside, LockType, DamageMarked
  <2>3. (Alone /\ Scanned)'
    BY <1>16 DEF alock_recover_return, TypeOK, Locks, Marks, Alone, Unique,
        Critical, Inside, Scanned, LockType, DamageMarked
  <2>4. (Answered /\ DamageMarked)'
    BY <1>16 DEF alock_recover_return, TypeOK, Locks, Marks, Alone, Unique,
        Critical, Inside, Scanned, Answered, LockType, DamageMarked
  <2> QED BY <2>1, <2>2, <2>3, <2>4
<1>17. ASSUME NEW p \in Procs, alock_close_release(p) PROVE IInv'
  <2>1. (TypeOK /\ Locks)'
    BY <1>17 DEF alock_close_release, TypeOK, Kinds, Locks, Critical, Inside
  <2>2. Marks'
    BY <1>17 DEF alock_close_release, TypeOK, Locks, Marks, Critical, Inside,
        LockType, DamageMarked
  <2>3. (Alone /\ Scanned)'
    BY <1>17 DEF alock_close_release, TypeOK, Locks, Marks, Alone, Unique,
        Critical, Inside, Scanned, LockType, DamageMarked
  <2>4. (Answered /\ DamageMarked)'
    BY <1>17 DEF alock_close_release, TypeOK, Locks, Marks, Alone, Unique,
        Critical, Inside, Scanned, Answered, LockType, DamageMarked
  <2> QED BY <2>1, <2>2, <2>3, <2>4
<1>18. ASSUME NEW p \in Procs, alock_close_write(p) PROVE IInv'
  <2>1. TypeOK'
    <3>1. [lock |-> "UNLOCKED", nosave |-> slapMode[p]]
             \in [lock : {"UNLOCKED", "LOCKED", "UNIQUE"}, nosave : BOOLEAN]
      BY DEF TypeOK
    <3>2. file' \in [Slots -> [lock : {"UNLOCKED", "LOCKED", "UNIQUE"}, nosave : BOOLEAN]]
      BY Zenon, <1>18, <3>1 DEF alock_close_write, TypeOK
    <3>3. held' \in [0 .. MaxSlots -> Procs \cup {None}]
      BY <1>18 DEF alock_close_write, Dropped, TypeOK
    <3> QED BY <1>18, <3>2, <3>3 DEF alock_close_write, Gone, TypeOK, Kinds
  <2>2. Locks'
    BY <1>18 DEF alock_close_write, Gone, Dropped, TypeOK, Locks, Critical,
        Inside
  <2>3. Marks'
    BY <1>18 DEF alock_close_write, Gone, Dropped, TypeOK, Locks, Marks,
        Critical, Inside, LockType, DamageMarked
  <2>4. Alone'
    BY <1>18 DEF alock_close_write, Gone, Dropped, TypeOK, Locks, Marks,
        Alone, Unique, Critical, Inside, Scanned, LockType
  <2>5. Scanned'
    BY <1>18 DEF alock_close_write, Gone, Dropped, TypeOK, Locks, Marks,
        Alone, Unique, Critical, Inside, Scanned, LockType, DamageMarked
  <2>6. Answered'
    BY <1>18 DEF alock_close_write, Gone, Dropped, TypeOK, Locks, Marks,
        Alone, Unique, Critical, Inside, Scanned, Answered, LockType,
        DamageMarked
  <2>7. DamageMarked'
    BY <1>18 DEF alock_close_write, Gone, Dropped, TypeOK, Locks, Marks,
        Alone, Unique, Critical, Inside, Answered, LockType, DamageMarked
  <2> QED BY <2>1, <2>2, <2>3, <2>4, <2>5, <2>6, <2>7
<1>19. ASSUME NEW p \in Procs, bdb_db_close_failed(p) PROVE IInv'
  <2>1. (TypeOK /\ Locks)'
    BY <1>19 DEF bdb_db_close_failed, Gone, TypeOK, Kinds, Locks, Critical,
        Inside
  <2>2. Marks'
    BY <1>19 DEF bdb_db_close_failed, Gone, TypeOK, Locks, Marks, Critical,
        Inside, LockType, DamageMarked
  <2>3. (Alone /\ Scanned)'
    BY <1>19 DEF bdb_db_close_failed, Gone, TypeOK, Locks, Marks, Alone,
        Unique, Critical, Inside, Scanned, LockType, DamageMarked
  <2>4. (Answered /\ DamageMarked)'
    BY <1>19 DEF bdb_db_close_failed, Gone, TypeOK, Locks, Marks, Alone,
        Unique, Critical, Inside, Scanned, Answered, LockType, DamageMarked
  <2> QED BY <2>1, <2>2, <2>3, <2>4
<1>20. ASSUME NEW p \in Procs, bdb_db_close(p) PROVE IInv'
  <2>1. (TypeOK /\ Locks)'
    BY <1>20 DEF bdb_db_close, TypeOK, Kinds, Locks, Critical, Inside
  <2>2. Marks'
    BY <1>20 DEF bdb_db_close, TypeOK, Locks, Marks, Critical, Inside,
        LockType, DamageMarked
  <2>3. (Alone /\ Scanned)'
    BY <1>20 DEF bdb_db_close, TypeOK, Locks, Marks, Alone, Unique, Critical,
        Inside, Scanned, LockType, DamageMarked
  <2>4. (Answered /\ DamageMarked)'
    BY <1>20 DEF bdb_db_close, TypeOK, Locks, Marks, Alone, Unique, Critical,
        Inside, Scanned, Answered, LockType, DamageMarked
  <2> QED BY <2>1, <2>2, <2>3, <2>4
<1>21. ASSUME NEW p \in Procs, Crash(p) PROVE IInv'
  <2>1. TypeOK'
    <3>1. held' \in [0 .. MaxSlots -> Procs \cup {None}]
      BY <1>21 DEF Crash, Dropped, TypeOK
    <3>2. pc[p] \in Inside => al_slot[p] \in Slots
      BY DEF TypeOK, Locks
    <3>3. damage' \subseteq Slots
      BY Zenon, <1>21, <3>2 DEF Crash, TypeOK, Inside
    <3> QED BY <1>21, <3>1, <3>3 DEF Crash, Gone, TypeOK, Kinds
  <2>2. Locks'
    BY <1>21 DEF Crash, Gone, Dropped, TypeOK, Locks, Critical, Inside
  <2>3. Marks'
    BY <1>21 DEF Crash, Gone, Dropped, TypeOK, Locks, Marks, Critical,
        Inside, LockType, DamageMarked
  <2>4. Alone'
    BY <1>21 DEF Crash, Gone, Dropped, TypeOK, Locks, Marks, Alone, Unique,
        Critical, Inside, Scanned, LockType
  <2>5. Scanned'
    BY <1>21 DEF Crash, Gone, Dropped, TypeOK, Locks, Marks, Alone, Unique,
        Critical, Inside, Scanned, LockType, DamageMarked
  <2>6. Answered'
    <3>1. \A q \in Procs : q # p => pc'[q] = pc[q] /\ kind'[q] = kind[q] /\ seen'[q] = seen[q]
      BY <1>21 DEF Crash, Gone, TypeOK
    <3>2. pc'[p] = "off" /\ file' = file
      BY <1>21 DEF Crash, Gone, TypeOK
    <3>3. damage' = damage \/ Unique(p)
      BY <1>21 DEF Crash, Unique, Inside
    <3>4. CASE damage' = damage
      BY <3>1, <3>2, <3>4 DEF Answered
    <3>5. CASE Unique(p)
      <4>1. \A q \in Procs : q # p => ~Unique(q)
        BY <3>5 DEF Alone
      <4> QED BY <3>1, <3>2, <4>1 DEF Answered, Unique, Inside
    <3> QED BY <3>3, <3>4, <3>5
  <2>7. DamageMarked'
    <3>1. ASSUME NEW s \in damage PROVE file'[s].lock = "UNIQUE" /\ held'[s] = None
      BY <1>21, <3>1 DEF Crash, Dropped, TypeOK, DamageMarked
    <3>2. CASE damage' = damage \cup {al_slot[p]} /\ Unique(p) /\ pc[p] # "write"
      <4>1. al_slot[p] \in Slots /\ file[al_slot[p]].lock = "UNIQUE" /\ held[al_slot[p]] = p
        BY <3>2 DEF Unique, TypeOK, Locks, Marks, Inside, LockType
      <4>2. file'[al_slot[p]].lock = "UNIQUE" /\ held'[al_slot[p]] = None
        BY <1>21, <4>1 DEF Crash, Dropped, TypeOK
      <4> QED BY <3>1, <3>2, <4>2 DEF DamageMarked
    <3>3. CASE damage' = damage
      BY <3>1, <3>3 DEF DamageMarked
    <3> QED BY <1>21, <3>2, <3>3 DEF Crash, Unique, Inside
  <2> QED BY <2>1, <2>2, <2>3, <2>4, <2>5, <2>6, <2>7
<1> QED BY <1>0, <1>1, <1>2, <1>3, <1>4, <1>5, <1>6, <1>7, <1>8, <1>9, <1>10, <1>11, <1>12, <1>13, <1>14, <1>15, <1>16, <1>17, <1>18, <1>19, <1>20, <1>21 DEF Next, Open

(* Two processes that write are never admitted together.                   *)
THEOREM WritersAlwaysAlone == Spec => []WritersAlone
<1>1. IInv => WritersAlone
  BY DEF IInv, Alone, Unique, Inside, WritersAlone, Writer
<1> QED BY InitInv, StepInv, <1>1, PTL DEF Spec

(* The mark of a killed writer outlives everything but a recovery.         *)
THEOREM DamageAlwaysMarked == Spec => []DamageMarked
<1>1. IInv => DamageMarked
  BY DEF IInv
<1> QED BY InitInv, StepInv, <1>1, PTL DEF Spec

(* No writer ever works on what a killed writer left behind.               *)
THEOREM NeverWorkOnDamage == Spec => []NoWorkOnDamage
<1>1. IInv => NoWorkOnDamage
  BY DEF IInv, Answered, NoWorkOnDamage
<1> QED BY InitInv, StepInv, <1>1, PTL DEF Spec
=============================================================================
