------------------------------- MODULE Alock --------------------------------
(***************************************************************************)
(* Which processes may use the Berkeley DB environment of a database, and  *)
(* who repairs it after a crash: the access lock file of alock.c as        *)
(* bdb_db_open and bdb_db_close of back-bdb/init.c use it.                 *)
(*                                                                         *)
(* The file has one slot per process that has the environment open, and a  *)
(* record lock per slot.  The lock goes away with its process, the slot    *)
(* does not: a slot in use without its lock is the trace of a crash.       *)
(* Record lock 0 serialises the scans of the file; a crash respects it as  *)
(* little as it respects anything else.                                    *)
(***************************************************************************)
EXTENDS Naturals, FiniteSets

CONSTANTS Procs,       \* processes: slapd and the slap tools
          None,        \* no process
          MaxSlots,    \* bound: slots of the file
          MaxStarts,   \* bound: processes started
          MaxCrashes   \* bound: processes killed

ASSUME AlockAssumption ==
  /\ None \notin Procs
  /\ MaxSlots \in Nat /\ MaxStarts \in Nat /\ MaxCrashes \in Nat

(* slapd and slapindex; slapadd -q; slapcat and the other readers.         *)
Kinds == {"server", "quick", "reader"}

Slots == 1 .. MaxSlots

VARIABLES
  pc,        \* where each process is in bdb_db_open or bdb_db_close
  kind,      \* what slapMode says it is
  al_slot,   \* info->al_slot, 0 while it has none
  scan,      \* scan_info.al_slot
  seen,      \* dirty_count # 0, live_count # 0 and nosave of the scan
  slapMode,  \* slapMode & SLAP_TOOL_QUICK
  quick,     \* quick of bdb_db_open
  file,      \* the slots: al_lock without and with its NOSAVE bit
  max_slot,  \* slots below this one exist in the file
  held,      \* holder of each record lock
  env,       \* the environment on disk: none, transactional or quick
  damage,    \* slots of writers that were killed with the environment open
             \* and whose work no recovery has undone yet
  starts, crashes

locks == <<file, max_slot, held>>

vars == <<pc, kind, al_slot, scan, seen, slapMode, quick, file, max_slot, held,
          env, damage, starts, crashes>>

Unused == [lock |-> "UNLOCKED", nosave |-> FALSE]

Nothing == [dirty |-> FALSE, live |-> FALSE, nosave |-> FALSE]

LockType(p) == IF kind[p] = "reader" THEN "LOCKED" ELSE "UNIQUE"

Init ==
  /\ pc = [p \in Procs |-> "off"]
  /\ kind = [p \in Procs |-> "reader"]
  /\ al_slot = [p \in Procs |-> 0]
  /\ scan = [p \in Procs |-> 1]
  /\ seen = [p \in Procs |-> Nothing]
  /\ slapMode = [p \in Procs |-> FALSE]
  /\ quick = [p \in Procs |-> FALSE]
  /\ file = [s \in Slots |-> Unused]
  /\ max_slot = 0
  /\ held = [s \in 0 .. MaxSlots |-> None]
  /\ env = "none"
  /\ damage = {}
  /\ starts = 0
  /\ crashes = 0

Goto(p, l) == pc' = [pc EXCEPT ![p] = l]

locals == <<kind, al_slot, seen, slapMode, quick>>

world == <<env, damage, starts, crashes>>

(* Closing the file, or dying, drops every record lock of the process.     *)
Dropped(p) == [s \in DOMAIN held |-> IF held[s] = p THEN None ELSE held[s]]

(* The process is gone, or has never begun.                                *)
Gone(p) ==
  /\ Goto(p, "off")
  /\ kind' = [kind EXCEPT ![p] = "reader"]
  /\ al_slot' = [al_slot EXCEPT ![p] = 0]
  /\ scan' = [scan EXCEPT ![p] = 1]
  /\ seen' = [seen EXCEPT ![p] = Nothing]
  /\ slapMode' = [slapMode EXCEPT ![p] = FALSE]
  /\ quick' = [quick EXCEPT ![p] = FALSE]

-----------------------------------------------------------------------------
(* alock.c                                                                 *)

(* A slot that was never written has no magic number and reads as unlocked.*)
alock_query_slot(s) ==
  IF file[s].lock # "UNLOCKED" /\ held[s] = None THEN "DIRTY" ELSE file[s].lock

(* A process starts and comes to alock_open.                               *)
Start(p, k) ==
  /\ pc[p] = "off" /\ starts < MaxStarts
  /\ starts' = starts + 1
  /\ Goto(p, "open0")
  /\ kind' = [kind EXCEPT ![p] = k]
  /\ slapMode' = [slapMode EXCEPT ![p] = (k = "quick")]
  /\ UNCHANGED <<al_slot, scan, seen, quick, locks, env, damage, crashes>>

(* alock_grab_lock of lock 0, by alock_open, alock_recover or alock_close. *)
alock_grab_lock(p) ==
  /\ held[0] = None
  /\ held' = [held EXCEPT ![0] = p]
  /\ scan' = [scan EXCEPT ![p] = 1]
  /\ \/ pc[p] = "open0" /\ Goto(p, "scan")
     \/ pc[p] = "arec0" /\ Goto(p, "arscan")
     \/ pc[p] = "close0" /\ Goto(p, "closing")
  /\ UNCHANGED <<locals, file, max_slot, world>>

(* alock_open refuses: the file is closed and bdb_db_open returns.         *)
Refuse(p) ==
  /\ Gone(p)
  /\ held' = Dropped(p)
  /\ UNCHANGED <<file, max_slot, world>>

(* Mutant: the file stays open, and with it lock 0.                        *)
RefuseOpen(p) ==
  /\ pc[p] = "scan" /\ scan[p] < max_slot
  /\ alock_query_slot(scan[p]) = "UNIQUE"
  /\ LockType(p) = "UNIQUE" \/ seen[p].nosave \/ file[scan[p]].nosave
  /\ Gone(p)
  /\ UNCHANGED <<locks, world>>

(* A slot of a process that must be alone, and we must be or it is quick.  *)
alock_open_busy(p) ==
  /\ pc[p] = "scan" /\ scan[p] < max_slot
  /\ alock_query_slot(scan[p]) = "UNIQUE"
  /\ LockType(p) = "UNIQUE" \/ seen[p].nosave \/ file[scan[p]].nosave
  /\ Refuse(p)

(* Mutant: a unique process is refused by quick processes only.            *)
ScanPast(p) ==
  LET s == scan[p]
      res == alock_query_slot(s)
  IN /\ pc[p] = "scan" /\ s < max_slot
     /\ seen' = [seen EXCEPT ![p] = [dirty |-> @.dirty \/ res = "DIRTY",
                                     live |-> @.live \/ res = "LOCKED",
                                     nosave |-> @.nosave \/ file[s].nosave]]
     /\ al_slot' = [al_slot EXCEPT ![p] = IF res = "UNLOCKED" /\ @ = 0 THEN s ELSE @]
     /\ scan' = [scan EXCEPT ![p] = s + 1]
     /\ UNCHANGED <<pc, kind, slapMode, quick, locks, world>>

(* The loop of alock_open over one slot it can live with.                  *)
alock_open_scan(p) ==
  LET s == scan[p]
      res == alock_query_slot(s)
      nosave == seen[p].nosave \/ file[s].nosave
  IN /\ pc[p] = "scan" /\ s < max_slot
     /\ res = "UNIQUE" => LockType(p) # "UNIQUE" /\ ~nosave
     /\ seen' = [seen EXCEPT ![p] = [dirty |-> @.dirty \/ res = "DIRTY",
                                     live |-> @.live \/ res = "LOCKED",
                                     nosave |-> nosave]]
     /\ al_slot' = [al_slot EXCEPT ![p] = IF res = "UNLOCKED" /\ @ = 0 THEN s ELSE @]
     /\ scan' = [scan EXCEPT ![p] = s + 1]
     /\ UNCHANGED <<pc, kind, slapMode, quick, locks, world>>

(* Somebody crashed and somebody else is still there.                      *)
alock_open_unstable(p) ==
  /\ pc[p] = "scan" /\ scan[p] >= max_slot
  /\ seen[p].dirty /\ seen[p].live
  /\ Refuse(p)

(* The first unused slot, or a new one (which leaves a hole behind it).    *)
alock_open_take(p) ==
  LET s == IF al_slot[p] = 0 THEN max_slot + 1 ELSE al_slot[p]
  IN /\ pc[p] = "scan" /\ scan[p] >= max_slot
     /\ ~(seen[p].dirty /\ seen[p].live)
     /\ s \in Slots /\ held[s] = None
     /\ held' = [held EXCEPT ![s] = p]
     /\ al_slot' = [al_slot EXCEPT ![p] = s]
     /\ Goto(p, "write")
     /\ UNCHANGED <<kind, scan, seen, slapMode, quick, file, max_slot, world>>

(* alock_write_slot, alock_share_lock.                                     *)
alock_open_write(p) ==
  /\ pc[p] = "write"
  /\ file' = [file EXCEPT ![al_slot[p]] = [lock |-> LockType(p), nosave |-> slapMode[p]]]
  /\ max_slot' = IF al_slot[p] < max_slot THEN max_slot ELSE al_slot[p] + 1
  /\ Goto(p, "rel0")
  /\ UNCHANGED <<locals, scan, held, world>>

(* alock_open returns CLEAN or RECOVER, with the NOSAVE bit it has seen.   *)
alock_open_return(p) ==
  /\ pc[p] = "rel0"
  /\ held' = [held EXCEPT ![0] = None]
  /\ Goto(p, "opened")
  /\ UNCHANGED <<locals, scan, file, max_slot, world>>

(* Mutant: the own slot is marked clean as well.                           *)
MarkAnyway(p) ==
  LET s == scan[p]
  IN /\ pc[p] = "arscan" /\ s < max_slot
     /\ s # al_slot[p] => alock_query_slot(s) \notin {"LOCKED", "UNIQUE"}
     /\ file' = [file EXCEPT ![s] = Unused]
     /\ scan' = [scan EXCEPT ![p] = s + 1]
     /\ UNCHANGED <<pc, locals, max_slot, held, world>>

(* The loop of alock_recover: the slots of the dead are marked clean.      *)
alock_recover_scan(p) ==
  LET s == scan[p]
      res == alock_query_slot(s)
  IN /\ pc[p] = "arscan" /\ s < max_slot
     /\ s # al_slot[p] => res \notin {"LOCKED", "UNIQUE"}
     /\ file' = IF s # al_slot[p] /\ res = "DIRTY"
                THEN [file EXCEPT ![s] = Unused] ELSE file
     /\ scan' = [scan EXCEPT ![p] = s + 1]
     /\ UNCHANGED <<pc, locals, max_slot, held, world>>

(* "recovery attempt on an active db?": the file is closed, so that the    *)
(* own slot now looks like that of a crash; bdb_db_close comes next.       *)
alock_recover_fail(p) ==
  /\ pc[p] = "arscan" /\ scan[p] < max_slot /\ scan[p] # al_slot[p]
  /\ alock_query_slot(scan[p]) \in {"LOCKED", "UNIQUE"}
  /\ held' = Dropped(p)
  /\ Goto(p, "failclose")
  /\ UNCHANGED <<locals, scan, file, max_slot, world>>

alock_recover_return(p) ==
  /\ pc[p] = "arscan" /\ scan[p] >= max_slot
  /\ held' = [held EXCEPT ![0] = None]
  /\ Goto(p, "run")
  /\ UNCHANGED <<locals, scan, file, max_slot, world>>

(* alock_close gives its lock up before it marks its slot.                 *)
alock_close_release(p) ==
  /\ pc[p] = "closing"
  /\ held' = [held EXCEPT ![al_slot[p]] = None]
  /\ Goto(p, "closewr")
  /\ UNCHANGED <<locals, scan, file, max_slot, world>>

alock_close_write(p) ==
  /\ pc[p] = "closewr"
  /\ file' = [file EXCEPT ![al_slot[p]] = [lock |-> "UNLOCKED", nosave |-> slapMode[p]]]
  /\ held' = Dropped(p)
  /\ Gone(p)
  /\ UNCHANGED <<max_slot, world>>

-----------------------------------------------------------------------------
(* bdb_db_open after alock_open, and bdb_db_close                          *)

(* Mutant: recovery is skipped whoever opens the environment.              *)
SkipRecovery(p, changed) ==
  /\ pc[p] = "opened"
  /\ changed => env # "none"
  /\ Goto(p, "envopen")
  /\ UNCHANGED <<locals, scan, locks, world>>

(* What bdb_db_open does with the answer.  changed: DB_CONFIG is newer     *)
(* than the environment.  alockt: seen[p].nosave.                          *)
bdb_db_open(p, changed) ==
  LET alockt == seen[p].nosave
      reader == kind[p] = "reader"
      refused == changed /\ ~seen[p].dirty /\ slapMode[p]
      do_recover == ~reader /\ (seen[p].dirty \/ changed)
      quickly == IF reader /\ (seen[p].dirty \/ changed) THEN alockt ELSE slapMode[p]
  IN /\ pc[p] = "opened"
     /\ changed => env # "none"
     /\ quick' = [quick EXCEPT ![p] = quickly]
     /\ slapMode' = [slapMode EXCEPT ![p] = @ /\ ~refused]
     /\ Goto(p, IF refused \/ (alockt /\ do_recover) THEN "close0"
                ELSE IF do_recover THEN "recov"
                ELSE IF alockt # quickly THEN "remove" ELSE "envopen")
     /\ UNCHANGED <<kind, al_slot, scan, seen, locks, world>>

(* dbenv->remove(DB_FORCE): the environment has the wrong mode.            *)
Remove(p) ==
  /\ pc[p] = "remove"
  /\ env' = "none"
  /\ Goto(p, "envopen")
  /\ UNCHANGED <<locals, scan, locks, damage, starts, crashes>>

Mode(p) == IF quick[p] THEN "quick" ELSE "txn"

(* dbenv->open without recovery joins the environment or makes a new one.  *)
EnvOpen(p) ==
  /\ pc[p] = "envopen"
  /\ env' = IF env = "none" THEN Mode(p) ELSE env
  /\ Goto(p, "run")
  /\ UNCHANGED <<locals, scan, locks, damage, starts, crashes>>

(* dbenv->open with DB_RECOVER has returned: the work of the dead is       *)
(* undone, except what was done in quick mode, which writes no log.        *)
EnvRecovered(p) ==
  /\ pc[p] = "recov"
  /\ env' = Mode(p)
  /\ damage' = {s \in damage : file[s].nosave}
  /\ Goto(p, IF seen[p].dirty THEN "arec0" ELSE "run")
  /\ UNCHANGED <<locals, scan, locks, starts, crashes>>

(* dbenv->remove, dbenv->open or a step after it fails.                    *)
EnvFails(p) ==
  /\ pc[p] \in {"recov", "remove", "envopen"}
  /\ Goto(p, "close0")
  /\ UNCHANGED <<locals, scan, locks, world>>

(* bdb_db_close up to alock_close.                                         *)
bdb_db_close(p) ==
  /\ pc[p] = "run"
  /\ Goto(p, "close0")
  /\ UNCHANGED <<locals, scan, locks, world>>

(* bdb_db_close after alock_recover has failed: alock_close finds the file *)
(* closed and changes nothing.                                             *)
bdb_db_close_failed(p) ==
  /\ pc[p] = "failclose"
  /\ Gone(p)
  /\ UNCHANGED <<locks, world>>

(* The process is killed.                                                  *)
Crash(p) ==
  /\ pc[p] # "off" /\ crashes < MaxCrashes
  /\ crashes' = crashes + 1
  /\ held' = Dropped(p)
  /\ damage' = IF kind[p] # "reader" /\ pc[p] \in {"recov", "arec0", "arscan", "run"}
               THEN damage \cup {al_slot[p]} ELSE damage
  /\ Gone(p)
  /\ UNCHANGED <<file, max_slot, env, starts>>

-----------------------------------------------------------------------------
(* The steps a process takes by itself once it has started.                *)
Open(p) ==
  \/ alock_grab_lock(p)
  \/ alock_open_busy(p) \/ alock_open_scan(p) \/ alock_open_unstable(p)
  \/ alock_open_take(p) \/ alock_open_write(p) \/ alock_open_return(p)
  \/ \E changed \in BOOLEAN : bdb_db_open(p, changed)
  \/ Remove(p) \/ EnvOpen(p) \/ EnvRecovered(p) \/ EnvFails(p)
  \/ alock_recover_scan(p) \/ alock_recover_fail(p) \/ alock_recover_return(p)
  \/ alock_close_release(p) \/ alock_close_write(p) \/ bdb_db_close_failed(p)

Next ==
  \E p \in Procs :
    \/ \E k \in Kinds : Start(p, k)
    \/ Open(p) \/ bdb_db_close(p) \/ Crash(p)

Spec == Init /\ [][Next]_vars

FairSpec == Spec /\ \A p \in Procs : WF_vars(Open(p))
-----------------------------------------------------------------------------
(* From the return of alock_open to alock_close.                           *)
Admitted == {"opened", "recov", "remove", "envopen", "arec0", "arscan", "run",
             "close0", "closing"}

Writer(p) == kind[p] # "reader" /\ pc[p] \in Admitted

(* Every variable has its type, lock 0 is held exactly inside a critical   *)
(* section, and every process inside holds the lock of its own slot.       *)
TypeOK ==
  /\ pc \in [Procs -> Admitted \cup {"off", "open0", "scan", "write", "rel0",
                                    "closewr", "failclose"}]
  /\ kind \in [Procs -> Kinds]
  /\ al_slot \in [Procs -> 0 .. MaxSlots]
  /\ scan \in [Procs -> 1 .. MaxSlots + 1]
  /\ seen \in [Procs -> [dirty : BOOLEAN, live : BOOLEAN, nosave : BOOLEAN]]
  /\ slapMode \in [Procs -> BOOLEAN]
  /\ quick \in [Procs -> BOOLEAN]
  /\ file \in [Slots -> [lock : {"UNLOCKED", "LOCKED", "UNIQUE"}, nosave : BOOLEAN]]
  /\ max_slot \in 0 .. MaxSlots + 1
  /\ held \in [0 .. MaxSlots -> Procs \cup {None}]
  /\ env \in {"none", "txn", "quick"}
  /\ damage \subseteq Slots
  /\ starts \in 0 .. MaxStarts
  /\ crashes \in 0 .. MaxCrashes

(* Two processes that write are never admitted together (ALOCK_BUSY),      *)
(* whoever crashes, closes or recovers while the other one scans.          *)
WritersAlone ==
  \A p, q \in Procs : Writer(p) /\ Writer(q) => p = q

(* What a killed writer has left behind stays marked in its slot until a   *)
(* recovery has undone it: no scan, reuse of slots, alock_recover or second*)
(* crash loses the mark.                                                   *)
DamageMarked ==
  \A s \in damage : file[s].lock = "UNIQUE" /\ held[s] = None

(* A writer works only on an environment whose damage has been undone:     *)
(* alock_open's answer is still true when bdb_db_open acts on it.          *)
NoWorkOnDamage ==
  \A p \in Procs : pc[p] = "run" /\ kind[p] # "reader" => damage = {}

(* Every open and close comes to an end, also when processes are killed    *)
(* with lock 0 or a half written slot in their hands.                      *)
OpenCloseEnd ==
  \A p \in Procs : (pc[p] \notin {"off", "run"}) ~> (pc[p] \in {"off", "run"})

(* back-bdb/init.c:229: "If existing environment is clean but doesn't      *)
(* support currently requested modes, remove it": an environment a writer  *)
(* works in is not removed by a process that could use it as it is.        *)
RemovedIfUnsuited ==
  \A p, q \in Procs : pc[p] = "remove" /\ pc[q] = "run" /\ Writer(q) => env # Mode(p)
=============================================================================
