------------------------- MODULE ConnWriters_proofs -------------------------
(***************************************************************************)
(* The writers of a connection and its closing, for any number of          *)
(* operations.                                                             *)
(*                                                                         *)
(* IInv is the inductive invariant.  Besides the types it says what the    *)
(* return addresses of a thread that closes may be (StackAt), that such a  *)
(* thread has c_mutex (HeldAt), that an operation that is still to come    *)
(* back to its work is in c_ops (ListedAt), how c_writers relates to the   *)
(* operations that send (Counted), and that c_writers is negative only     *)
(* while some thread waits for the writers to leave (Turning).             *)
(***************************************************************************)
EXTENDS ConnWriters, FiniteSetTheorems, TLAPS

(* The thread turned c_writers and waits, holding c_mutex.                 *)
Turned == {"shut", "await", "wait_close", "woken_close"}

(* Labels inside connection_closing, connection_resched, connection_close. *)
Inner == Turned \cup {"wake", "rewake", "resched", "close"}

Calls == {<<"unlock_run">>, <<"unlock_done">>, <<"resched", "unlock_done">>}

CloseCalls == {<<"close">> \o ls : ls \in Calls}

StackAt(t) ==
  /\ pc[t] \in {"wake", "resched", "close"} => after[t] \in Calls
  /\ pc[t] = "rewake" => after[t] \in CloseCalls
  /\ pc[t] \in Turned => after[t] \in Calls \cup CloseCalls

Stack == \A t \in Threads : StackAt(t)

HeldAt(t) == pc[t] \in Inner \cup {"unlock_run", "unlock_done"} => c_mutex = t

Held == \A t \in Threads : HeldAt(t)

(* Labels of an operation outside the code that closes.                    *)
Sending == {"turn", "wait_turn", "woken_turn", "write", "poll", "ready", "timeout"}

Working == Sending \cup {"run", "fail"}

ListedAt(o) ==
  \/ pc[o] \in Working \cup {"unlock_run"}
  \/ pc[o] \in Inner /\ after[o] \in {<<"unlock_run">>, <<"close">> \o <<"unlock_run">>}
  => o \in c_ops

Listed == \A o \in Ops : ListedAt(o)

Senders == {o \in Ops : InSend(o)}

Counted ==
  /\ c_writers >= 0 => c_writers = Cardinality(Senders)
  /\ c_writers < 0 => c_writers <= -Cardinality(Senders)
  /\ c_writers < 0 /\ ~waitfails => c_writers = -Cardinality(Senders)

Turning == c_writers < 0 => \E t \in Threads : pc[t] \in Turned

Begun == \A t \in Threads : pc[t] \in Turned \cup {"wake", "rewake"} => c_conn_state # "ACTIVE"

Exclusive ==
  /\ OnePduAtATime
  /\ \A o \in Ops : InWrite(o) => c_writing
  /\ c_writing => \E o \in Ops : InWrite(o)
  /\ c_writewaiter => \E o \in Ops : pc[o] = "poll"

Patient == \A o \in Ops : pc[o] = "timeout" => waitfails

IInv ==
  /\ TypeOK /\ Stack /\ Held /\ Listed
  /\ Counted /\ Turning /\ Begun /\ Exclusive /\ Patient
  /\ DestroyedQuiet

-----------------------------------------------------------------------------
(* Thread t goes to l, and some threads that waited are woken.             *)
Moves(t, l) ==
  /\ pc' \in [Threads -> Pc] /\ pc'[t] = l
  /\ \A u \in Threads : u # t =>
       \/ pc'[u] = pc[u]
       \/ pc[u] = "wait_turn" /\ pc'[u] = "woken_turn"
       \/ pc[u] = "wait_close" /\ pc'[u] = "woken_close"

(* A step that goes on at one label, also one that signals or broadcasts   *)
(* c_write1_cv, moves its own thread there and wakes waiters only.         *)
LEMMA Moving ==
  ASSUME pc \in [Threads -> Pc], NEW t \in Threads, NEW l \in Pc,
         \/ Goto(t, l)
         \/ l \notin DOMAIN Waiting /\ (Signal([pc EXCEPT ![t] = l]) \/ Broadcast([pc EXCEPT ![t] = l]))
  PROVE  Moves(t, l)
<1> DEFINE p == [pc EXCEPT ![t] = l]
<1>1. p \in [Threads -> Pc] /\ p[t] = l /\ \A u \in Threads : u # t => p[u] = pc[u]
  BY Zenon
<1>2. DOMAIN Waiting = {"wait_turn", "wait_close"}
  BY Zenon DEF Waiting
<1>3. Waiting["wait_turn"] = "woken_turn" /\ Waiting["wait_close"] = "woken_close"
  BY Zenon DEF Waiting
<1>4. CASE pc' = p
  BY Zenon, <1>1, <1>4 DEF Moves
<1>5. CASE \E u \in Waiters(p) : l \notin DOMAIN Waiting /\ pc' = WakeOne(p, u)
  <2>1. PICK u \in Waiters(p) : l \notin DOMAIN Waiting /\ pc' = WakeOne(p, u)
    BY Zenon, <1>5
  <2>2. u \in Threads /\ u # t /\ p[u] = pc[u] /\ p[u] \in {"wait_turn", "wait_close"}
    BY Zenon, <1>1, <1>2, <2>1 DEF Waiters
  <2>3. pc' = [p EXCEPT ![u] = Waiting[p[u]]]
    BY Zenon, <2>1 DEF WakeOne
  <2>4. Waiting[p[u]] \in Pc
    BY Zenon, <1>3, <2>2 DEF Pc
  <2> HIDE DEF p
  <2> QED BY Zenon, <1>1, <1>3, <2>2, <2>3, <2>4 DEF Moves
<1>6. CASE l \notin DOMAIN Waiting /\ Broadcast(p)
  <2>1. pc' = [u \in Threads |-> IF u \in Waiters(p) THEN Waiting[p[u]] ELSE p[u]]
    BY Zenon, <1>6 DEF Broadcast
  <2>2. \A u \in Threads : u \in Waiters(p) <=> p[u] \in {"wait_turn", "wait_close"}
    BY Zenon, <1>2 DEF Waiters
  <2> HIDE DEF p
  <2>3. \A u \in Threads : u \in Waiters(p) => Waiting[p[u]] \in Pc
    BY Zenon, <1>3, <2>2 DEF Pc
  <2>4. pc' \in [Threads -> Pc]
    BY Zenon, <1>1, <2>1, <2>3
  <2>5. t \notin Waiters(p)
    BY Zenon, <1>1, <1>2, <1>6, <2>2
  <2> QED BY Zenon, <1>1, <1>3, <2>1, <2>2, <2>4, <2>5 DEF Moves
<1> QED BY Zenon, <1>4, <1>5, <1>6 DEF Goto, Signal

(* The invariants about single threads survive a step of t that brings     *)
(* only t itself to a new state.                                           *)
LEMMA Frame ==
  ASSUME IInv, NEW t \in Threads, NEW l, Moves(t, l),
         \A u \in Threads : u # t => after'[u] = after[u],
         c_mutex' = c_mutex \/ c_mutex = Nobody \/ c_mutex = t,
         c_ops \ {t} \subseteq c_ops',
         c_conn_state = "ACTIVE" \/ c_conn_state' # "ACTIVE",
         waitfails' = waitfails,
         StackAt(t)', HeldAt(t)', t \in Ops => ListedAt(t)',
         l \in Turned \cup {"wake", "rewake"} => c_conn_state' # "ACTIVE",
         l = "timeout" => waitfails
  PROVE  Stack' /\ Held' /\ Listed' /\ Begun' /\ Patient'
<1>t. Ops \subseteq Threads /\ Nobody \notin Threads
  BY Zenon, ConnWritersAssumption DEF Threads
<1>m. \A u \in Threads : u # t =>
        /\ pc'[u] \in Turned <=> pc[u] \in Turned
        /\ pc'[u] \in Sending <=> pc[u] \in Sending
        /\ pc'[u] = pc[u] \/ pc'[u] \in {"woken_turn", "woken_close"}
  BY Zenon DEF Moves, Turned, Sending
<1>1. Stack'
  <2> SUFFICES ASSUME NEW u \in Threads, u # t PROVE StackAt(u)'
    BY Zenon DEF Stack
  <2>1. StackAt(u) /\ after'[u] = after[u]
    BY Zenon DEF IInv, Stack
  <2> QED BY Zenon, <1>m, <2>1 DEF StackAt
<1>2. Held'
  <2> SUFFICES ASSUME NEW u \in Threads, u # t PROVE HeldAt(u)'
    BY Zenon DEF Held
  <2>1. HeldAt(u)
    BY Zenon DEF IInv, Held
  <2>2. pc'[u] \in Inner \cup {"unlock_run", "unlock_done"} => pc[u] \in Inner \cup {"unlock_run", "unlock_done"}
    BY Zenon, <1>m DEF Inner, Turned
  <2> QED BY Zenon, <1>t, <2>1, <2>2 DEF HeldAt
<1>3. Listed'
  <2> SUFFICES ASSUME NEW u \in Ops, u # t PROVE ListedAt(u)'
    BY Zenon DEF Listed
  <2>1. ListedAt(u) /\ after'[u] = after[u] /\ u \in Threads
    BY Zenon, <1>t DEF IInv, Listed
  <2>2. /\ pc'[u] \in Working \cup {"unlock_run"} => pc[u] \in Working \cup {"unlock_run"}
        /\ pc'[u] \in Inner => pc[u] \in Inner
    BY Zenon, <1>m, <2>1 DEF Inner, Working, Turned, Sending
  <2>3. u \in c_ops => u \in c_ops'
    BY Zenon
  <2> QED BY Zenon, <2>1, <2>2, <2>3 DEF ListedAt
<1>4. Begun'
  <2> SUFFICES ASSUME NEW u \in Threads, u # t, pc'[u] \in Turned \cup {"wake", "rewake"}
               PROVE  c_conn_state' # "ACTIVE"
    BY Zenon DEF Begun, Moves
  <2>1. pc[u] \in Turned \cup {"wake", "rewake"}
    BY Zenon, <1>m DEF Turned
  <2> QED BY Zenon, <2>1 DEF IInv, Begun
<1>5. Patient'
  <2> SUFFICES ASSUME NEW u \in Ops, u # t, pc'[u] = "timeout" PROVE waitfails
    BY Zenon DEF Patient, Moves
  <2> QED BY Zenon, <1>t, <1>m DEF IInv, Patient
<1> QED BY Zenon, <1>1, <1>2, <1>3, <1>4, <1>5

(* The set of senders changes by the thread that moves, and so does its    *)
(* cardinality.                                                            *)
LEMMA SendersChange ==
  ASSUME TypeOK, NEW t \in Threads, NEW l, Moves(t, l)
  PROVE  /\ Cardinality(Senders) \in Nat
         /\ t \in Ops /\ pc[t] \in Sending => Cardinality(Senders) > 0
         /\ t \notin Ops \/ (l \in Sending <=> pc[t] \in Sending) => Senders' = Senders
         /\ t \in Ops /\ l \in Sending /\ pc[t] \notin Sending
              => Cardinality(Senders)' = Cardinality(Senders) + 1
         /\ t \in Ops /\ l \notin Sending /\ pc[t] \in Sending
              => Cardinality(Senders)' = Cardinality(Senders) - 1
<1>t. Ops \subseteq Threads /\ IsFiniteSet(Ops)
  BY Zenon, ConnWritersAssumption DEF Threads
<1>1. Senders = {o \in Ops : pc[o] \in Sending} /\ Senders' = {o \in Ops : pc'[o] \in Sending}
  BY Zenon DEF Senders, InSend, InWrite, Sending
<1>2. \A u \in Ops : u # t => (pc'[u] \in Sending <=> pc[u] \in Sending)
  BY Zenon, <1>t DEF Moves, Sending
<1>3. pc'[t] = l
  BY Zenon DEF Moves
<1>4. IsFiniteSet(Senders)
  BY Zenon, <1>t, <1>1, FS_Subset
<1>5. Cardinality(Senders) \in Nat
  BY Zenon, <1>4, FS_CardinalityType
<1>6. ASSUME t \in Ops, pc[t] \in Sending PROVE Cardinality(Senders) > 0
  <2>1. Senders # {}
    BY Zenon, <1>1, <1>6
  <2> QED BY <1>4, <1>5, <2>1, FS_EmptySet
<1>7. t \notin Ops \/ (l \in Sending <=> pc[t] \in Sending) => Senders' = Senders
  BY Zenon, <1>1, <1>2, <1>3
<1>8. ASSUME t \in Ops, l \in Sending, pc[t] \notin Sending
      PROVE  Cardinality(Senders)' = Cardinality(Senders) + 1
  <2>1. t \notin Senders /\ Senders' = Senders \cup {t}
    BY Zenon, <1>1, <1>2, <1>3, <1>8
  <2> QED BY Zenon, <1>4, <2>1, FS_AddElement
<1>9. ASSUME t \in Ops, l \notin Sending, pc[t] \in Sending
      PROVE  Cardinality(Senders)' = Cardinality(Senders) - 1
  <2>1. t \in Senders /\ Senders' = Senders \ {t}
    BY Zenon, <1>1, <1>2, <1>3, <1>9
  <2> QED BY Zenon, <1>4, <2>1, FS_RemoveElement
<1> QED BY Zenon, <1>5, <1>6, <1>7, <1>8, <1>9

InWriting == {"write", "poll", "ready", "timeout"}

(* Another thread neither begins nor ends to write, nor does it take or    *)
(* leave c_write1_mutex.                                                   *)
LEMMA OthersKeep ==
  ASSUME TypeOK, NEW t \in Threads, NEW l, Moves(t, l)
  PROVE  /\ \A u \in Ops : u # t => (InWrite(u)' <=> InWrite(u)) /\ (pc'[u] = "poll" <=> pc[u] = "poll")
         /\ t \in Ops => (InWrite(t)' <=> l \in InWriting) /\ (InWrite(t) <=> pc[t] \in InWriting)
         /\ c_write1_mutex' = c_write1_mutex /\ c_write1_mutex # t
              => c_write1_mutex' \in {o \in Ops : pc'[o] \in {"turn", "write"}} \cup {Nobody}
<1>t. Ops \subseteq Threads
  BY Zenon DEF Threads
<1>1. \A u \in Ops : u # t =>
        /\ pc'[u] \in InWriting <=> pc[u] \in InWriting
        /\ pc'[u] = "poll" <=> pc[u] = "poll"
        /\ pc[u] \in {"turn", "write"} => pc'[u] = pc[u]
  BY Zenon, <1>t DEF Moves, InWriting
<1>2. pc'[t] = l
  BY DEF Moves
<1>3. c_write1_mutex \in {o \in Ops : pc[o] \in {"turn", "write"}} \cup {Nobody}
  BY Zenon DEF TypeOK
<1> QED BY Zenon, <1>1, <1>2, <1>3 DEF InWrite, InWriting

(* Nobody begins or ends to write.                                         *)
LEMMA ExclusiveKept ==
  ASSUME IInv, NEW t \in Threads, NEW l, Moves(t, l),
         t \in Ops => pc[t] \notin InWriting /\ l \notin InWriting,
         c_writing' = c_writing, c_writewaiter' = c_writewaiter
  PROVE  Exclusive'
<1>1. /\ \A u \in Ops : u # t => (InWrite(u)' <=> InWrite(u)) /\ (pc'[u] = "poll" <=> pc[u] = "poll")
      /\ t \in Ops => (InWrite(t)' <=> l \in InWriting) /\ (InWrite(t) <=> pc[t] \in InWriting)
  BY Zenon, OthersKeep DEF IInv
<1>2. /\ \A u \in Ops : (InWrite(u)' <=> InWrite(u))
      /\ \A u \in Ops : pc[u] = "poll" => pc'[u] = "poll"
  BY Zenon, <1>1 DEF InWriting
<1>3. Exclusive
  BY Zenon DEF IInv
<1> QED BY Zenon, <1>2, <1>3 DEF Exclusive, OnePduAtATime

(* A step that leaves the number of writers as it is.                      *)
LEMMA CountedKept ==
  ASSUME IInv, NEW t \in Threads, NEW l, Moves(t, l),
         t \notin Ops \/ (l \in Sending <=> pc[t] \in Sending),
         c_writers' = c_writers, waitfails' = waitfails
  PROVE  Counted'
<1>1. Senders' = Senders
  BY Zenon, SendersChange DEF IInv
<1> QED BY Zenon, <1>1 DEF IInv, Counted

(* What remains of IInv for a step of t to l.                              *)
LEMMA StepInv ==
  ASSUME IInv, NEW t \in Threads, NEW l, Moves(t, l),
         Stack' /\ Held' /\ Listed' /\ Begun' /\ Patient',
         TypeOK', Exclusive', Counted',
         c_writers' < 0 => c_writers < 0 \/ l \in Turned,
         pc[t] \in Turned => l \in Turned \/ c_writers' >= 0,
         c_conn_state' = "INVALID" => c_ops' = {} /\ c_writers' = 0 /\ ~c_writewaiter' /\ ~c_writing'
  PROVE  IInv'
<1>1. Turning'
  <2> SUFFICES ASSUME c_writers' < 0 PROVE \E u \in Threads : pc'[u] \in Turned
    BY Zenon DEF Turning
  <2>1. CASE l \in Turned
    BY Zenon, <2>1 DEF Moves
  <2>2. CASE l \notin Turned
    <3>1. PICK u \in Threads : pc[u] \in Turned
      BY Zenon, <2>2 DEF IInv, Turning
    <3>2. u # t
      BY <2>2, <3>1 DEF TypeOK
    <3> QED BY Zenon, <3>1, <3>2 DEF Moves, Turned
  <2> QED BY Zenon, <2>1, <2>2
<1>2. DestroyedQuiet'
  <2> SUFFICES ASSUME c_ops' = {}, NEW o \in Ops
               PROVE  ~InSend(o)' /\ pc'[o] \notin {"run", "fail"}
    BY Zenon DEF DestroyedQuiet
  <2> QED BY Zenon DEF Listed, ListedAt, Working, Sending, InSend, InWrite
<1> QED BY Zenon, <1>1, <1>2 DEF IInv

-----------------------------------------------------------------------------
(* A step inside send_ldap_ber keeps IInv if it keeps the counter and the  *)
(* exclusion of writers.                                                   *)
LEMMA WorkStep ==
  ASSUME IInv, NEW o \in Ops, NEW l \in Working, Moves(o, l), pc[o] \in Working,
         l = "timeout" => waitfails,
         UNCHANGED <<c_mutex, c_conn_state, c_ops, after, abandoned, shut, waitfails>>,
         \/ c_write1_mutex' = Nobody
         \/ c_write1_mutex' = o /\ l \in {"turn", "write"}
         \/ c_write1_mutex' = c_write1_mutex /\ c_write1_mutex # o,
         c_writers' \in Int, c_writing' \in BOOLEAN, c_writewaiter' \in BOOLEAN,
         sent' \in [Ops -> 0..MaxPdu],
         c_writers' < 0 => c_writers < 0,
         Exclusive', Counted'
  PROVE  IInv'
<1>t. o \in Threads
  BY Zenon DEF Threads
<1>1. o \in c_ops
  BY Zenon DEF IInv, Listed, ListedAt
<1>2. c_conn_state # "INVALID"
  BY Zenon, <1>1 DEF IInv, DestroyedQuiet
<1>3. TypeOK'
  <2>1. c_write1_mutex' \in {u \in Ops : pc'[u] \in {"turn", "write"}} \cup {Nobody}
    <3>1. CASE c_write1_mutex' = o /\ l \in {"turn", "write"}
      BY Zenon, <3>1 DEF Moves
    <3>2. CASE c_write1_mutex' = c_write1_mutex /\ c_write1_mutex # o
      BY Zenon, <1>t, <3>2, OthersKeep DEF IInv
    <3> QED BY Zenon, <3>1, <3>2
  <2>2. pc' \in [Threads -> Pc]
    BY Zenon DEF Moves
  <2> QED BY Zenon, <2>1, <2>2 DEF IInv, TypeOK
<1>4. StackAt(o)' /\ HeldAt(o)' /\ ListedAt(o)'
  <2>1. pc'[o] \in Working /\ pc'[o] \notin Inner \cup {"unlock_run", "unlock_done"}
    BY Zenon DEF Moves, Working, Inner, Turned, Sending
  <2> QED BY Zenon, <1>1, <2>1 DEF StackAt, HeldAt, ListedAt, Inner, Turned
<1>5. l \notin Turned \cup {"wake", "rewake"} /\ pc[o] \notin Turned
  BY Zenon DEF Working, Sending, Turned
<1>6. Stack' /\ Held' /\ Listed' /\ Begun' /\ Patient'
  BY Zenon, <1>t, <1>4, <1>5, Frame
<1> QED BY Zenon, <1>t, <1>2, <1>3, <1>5, <1>6, StepInv

(* send_ldap_ber up to the moment where it waits for its turn.             *)
LEMMA SendInv ==
  ASSUME IInv, NEW o \in Ops, send_ldap_ber(o), waitfails' = waitfails
  PROVE  IInv'
<1>t. o \in Threads /\ Nobody \notin Threads
  BY Zenon, ConnWritersAssumption DEF Threads
<1>1. /\ pc \in [Threads -> Pc] /\ pc[o] = "run" /\ c_writers \in Int /\ c_write1_mutex = Nobody
      /\ sent \in [Ops -> 0..MaxPdu] /\ sent[o] < MaxPdu /\ sent' = [sent EXCEPT ![o] = sent[o] + 1]
      /\ UNCHANGED <<c_mutex, c_conn_state, c_ops, after, abandoned, shut, c_writing, c_writewaiter>>
      /\ c_writing \in BOOLEAN /\ c_writewaiter \in BOOLEAN
  BY Zenon DEF send_ldap_ber, IInv, TypeOK
<1>2. sent' \in [Ops -> 0..MaxPdu]
  <2>1. sent[o] + 1 \in 0..MaxPdu
    BY <1>1, ConnWritersAssumption
  <2> QED BY Zenon, <1>1, <2>1
<1>3. CASE UNCHANGED <<c_write1_mutex, c_writers, pc>>
  <2>1. Moves(o, "run")
    BY Zenon, <1>1, <1>3 DEF Moves
  <2>2. Exclusive'
    BY Zenon, <1>t, <1>1, <2>1, ExclusiveKept DEF InWriting
  <2>3. Counted'
    BY Zenon, <1>t, <1>1, <1>3, <2>1, CountedKept
  <2> QED BY Zenon, <1>t, <1>1, <1>2, <1>3, <2>1, <2>2, <2>3, WorkStep DEF Working
<1>4. CASE ~Refused(o) /\ c_writers' = c_writers + 1 /\ c_write1_mutex' = o /\ Goto(o, "turn")
  <2>1. Moves(o, "turn")
    BY Zenon, <1>t, <1>1, <1>4, Moving DEF Pc
  <2>2. Exclusive'
    BY Zenon, <1>t, <1>1, <2>1, ExclusiveKept DEF InWriting
  <2>3. c_writers >= 0
    BY <1>1, <1>4 DEF Refused
  <2>4. Cardinality(Senders)' = Cardinality(Senders) + 1 /\ Cardinality(Senders) \in Nat
    BY Zenon, <1>t, <1>1, <2>1, SendersChange DEF IInv, Sending
  <2>5. Counted'
    BY <1>1, <1>4, <2>3, <2>4 DEF IInv, Counted
  <2>6. c_writers' \in Int /\ ~(c_writers' < 0)
    BY <1>1, <1>4, <2>3
  <2>7. "turn" \in Working /\ pc[o] \in Working
    BY Zenon, <1>1 DEF Working, Sending
  <2> QED BY Zenon, <1>t, <1>1, <1>2, <1>4, <2>1, <2>2, <2>5, <2>6, <2>7, WorkStep
<1> QED BY Zenon, <1>3, <1>4 DEF send_ldap_ber

(* The end of a write, by success, because the connection closes, or by an *)
(* error: the writer leaves, and no other one is writing.                  *)
LEMMA LeaveInv ==
  ASSUME IInv, NEW o \in Ops, pc[o] \in {"write", "ready", "timeout"},
         EndWrite(o) \/ (FailWrite(o) /\ (waitfails \/ c_conn_state = "ACTIVE")),
         c_write1_mutex' = Nobody, c_writewaiter' = c_writewaiter, sent' = sent,
         UNCHANGED <<c_mutex, c_conn_state, c_ops, after, abandoned, shut, waitfails>>
  PROVE  IInv'
<1>t. o \in Threads
  BY Zenon DEF Threads
<1>1. /\ pc \in [Threads -> Pc] /\ c_writers \in Int /\ c_writewaiter \in BOOLEAN
      /\ sent \in [Ops -> 0..MaxPdu]
  BY Zenon DEF IInv, TypeOK
<1>2. PICK l \in {"run", "fail"} : Moves(o, l)
  BY Zenon, <1>t, <1>1, Moving DEF EndWrite, FailWrite, Pc, Waiting
<1>3. c_writing' = FALSE
  BY Zenon DEF EndWrite, FailWrite
<1>4. Exclusive'
  <2>1. \A u \in Ops : InWrite(u) => u = o
    BY Zenon DEF IInv, Exclusive, OnePduAtATime, InWrite
  <2>2. ~c_writewaiter
    BY Zenon, <2>1 DEF IInv, Exclusive, InWrite
  <2>3. \A u \in Ops : ~InWrite(u)'
    BY Zenon, <1>t, <1>2, <2>1, OthersKeep DEF IInv, InWriting
  <2> QED BY Zenon, <1>3, <2>2, <2>3 DEF Exclusive, OnePduAtATime
<1>5. /\ Cardinality(Senders)' = Cardinality(Senders) - 1
      /\ Cardinality(Senders) \in Nat /\ Cardinality(Senders) > 0
  BY Zenon, <1>t, <1>2, SendersChange DEF IInv, Sending
<1>6. c_conn_state = "ACTIVE" => c_writers >= 0
  BY <1>1 DEF IInv, Turning, Begun
<1>7. \/ c_writers' = IF c_writers < 0 THEN c_writers + 1 ELSE c_writers - 1
      \/ c_writers' = c_writers - 1 /\ (waitfails \/ c_writers >= 0)
  BY Zenon, <1>6 DEF EndWrite, FailWrite
<1>8. Counted' /\ c_writers' \in Int /\ (c_writers' < 0 => c_writers < 0)
  BY <1>1, <1>5, <1>7 DEF IInv, Counted
<1> QED BY Zenon, <1>1, <1>2, <1>3, <1>4, <1>8, WorkStep DEF Working, Sending

(* A writer comes to its turn: it waits on, leaves because the connection  *)
(* closes, or begins to write, alone.                                      *)
LEMMA TurnInv ==
  ASSUME IInv, NEW o \in Ops, Turn(o), waitfails' = waitfails
  PROVE  IInv'
<1>t. o \in Threads
  BY Zenon DEF Threads
<1>1. /\ pc \in [Threads -> Pc] /\ pc[o] \in {"turn", "woken_turn"} /\ c_writers \in Int
      /\ sent \in [Ops -> 0..MaxPdu] /\ c_writing \in BOOLEAN /\ c_writewaiter \in BOOLEAN
      /\ UNCHANGED <<c_mutex, c_conn_state, c_ops, after, abandoned, shut, c_writewaiter, sent>>
  BY Zenon DEF Turn, IInv, TypeOK
<1>2. pc[o] \in Working /\ pc[o] \in Sending /\ pc[o] \notin InWriting
  BY Zenon, <1>1 DEF Working, Sending, InWriting
<1>3. CASE WaitTurn(o) /\ UNCHANGED <<c_writers, c_writing>>
  <2>1. Moves(o, "wait_turn") /\ c_write1_mutex' = Nobody
    BY Zenon, <1>t, <1>1, <1>3, Moving DEF WaitTurn, Pc
  <2>2. Exclusive' /\ Counted'
    BY Zenon, <1>t, <1>1, <1>2, <1>3, <2>1, ExclusiveKept, CountedKept DEF InWriting, Sending
  <2>3. "wait_turn" \in Working
    BY Zenon DEF Working, Sending
  <2> QED BY Zenon, <1>1, <1>2, <1>3, <2>1, <2>2, <2>3, WorkStep
<1>4. CASE c_writers < 0 /\ LeaveClosed(o) /\ c_write1_mutex' = Nobody /\ UNCHANGED c_writing
  <2>1. Moves(o, "run")
    BY Zenon, <1>t, <1>1, <1>4, Moving DEF LeaveClosed, Pc, Waiting
  <2>2. Exclusive'
    BY Zenon, <1>t, <1>1, <1>2, <1>4, <2>1, ExclusiveKept DEF InWriting
  <2>3. /\ Cardinality(Senders)' = Cardinality(Senders) - 1
        /\ Cardinality(Senders) \in Nat /\ Cardinality(Senders) > 0
    BY <1>t, <1>2, <2>1, SendersChange DEF IInv, Sending
  <2>4. Counted' /\ c_writers' \in Int
    BY <1>1, <1>4, <2>3 DEF LeaveClosed, IInv, Counted
  <2>5. "run" \in Working
    BY Zenon DEF Working
  <2> QED BY Zenon, <1>1, <1>2, <1>4, <2>1, <2>2, <2>4, <2>5, WorkStep
<1>5. CASE ~MustWait /\ c_writers >= 0 /\ c_writing' = TRUE /\ c_write1_mutex' = o /\ Goto(o, "write")
           /\ UNCHANGED c_writers
  <2>1. Moves(o, "write")
    BY Zenon, <1>t, <1>1, <1>5, Moving DEF Pc
  <2>2. Counted'
    BY Zenon, <1>t, <1>1, <1>2, <1>5, <2>1, CountedKept DEF Sending
  <2>3. Cardinality(Senders) > 0
    BY Zenon, <1>t, <1>2, <2>1, SendersChange DEF IInv
  <2>4. ~c_writing
    BY Zenon, <1>1, <1>5, <2>3 DEF MustWait, IInv, Counted
  <2>5. /\ \A u \in Ops : ~InWrite(u)
        /\ ~c_writewaiter
    BY Zenon, <2>4 DEF IInv, Exclusive, InWrite
  <2>6. \A u \in Ops : InWrite(u)' <=> u = o
    BY Zenon, <1>t, <2>1, <2>5, OthersKeep DEF IInv, InWriting
  <2>7. Exclusive'
    BY Zenon, <1>1, <1>5, <2>5, <2>6 DEF Exclusive, OnePduAtATime
  <2>8. "write" \in Working
    BY Zenon DEF Working, Sending
  <2> QED BY Zenon, <1>1, <1>2, <1>5, <2>1, <2>2, <2>7, <2>8, WorkStep
<1> QED BY Zenon, <1>3, <1>4, <1>5 DEF Turn

(* ber_flush2 and the wait for the socket.                                 *)
LEMMA WriteInv ==
  ASSUME IInv, NEW o \in Ops, Write(o) \/ PollReturns(o) \/ AfterPoll(o), waitfails' = waitfails
  PROVE  IInv'
<1>t. o \in Threads /\ Nobody \notin Threads
  BY Zenon, ConnWritersAssumption DEF Threads
<1>1. /\ pc \in [Threads -> Pc] /\ pc[o] \in InWriting /\ c_writers \in Int
      /\ sent \in [Ops -> 0..MaxPdu] /\ c_writing \in BOOLEAN /\ c_writewaiter \in BOOLEAN
      /\ UNCHANGED <<c_mutex, c_conn_state, c_ops, after, abandoned, shut, sent>>
  BY Zenon DEF Write, PollReturns, AfterPoll, mutexes, IInv, TypeOK, InWriting
<1>2. pc[o] \in Working /\ pc[o] \in Sending
  BY Zenon, <1>1 DEF Working, Sending, InWriting
<1>3. ASSUME NEW l \in InWriting, Moves(o, l), UNCHANGED <<c_writers, c_writing>>,
             c_writewaiter' = (l = "poll"), l = "timeout" => waitfails,
             \/ c_write1_mutex' = Nobody
             \/ c_write1_mutex' = o /\ l = "write"
             \/ c_write1_mutex' = c_write1_mutex /\ c_write1_mutex # o
      PROVE  IInv'
  <2>1. Counted'
    BY Zenon, <1>t, <1>2, <1>3, CountedKept DEF Sending, InWriting
  <2>2. /\ \A u \in Ops : (InWrite(u)' <=> InWrite(u))
        /\ pc'[o] = l
    BY Zenon, <1>t, <1>1, <1>3, OthersKeep DEF IInv, Moves
  <2>3. Exclusive'
    BY Zenon, <1>3, <2>2 DEF IInv, Exclusive, OnePduAtATime
  <2>4. l \in Working
    BY Zenon, <1>3 DEF Working, Sending, InWriting
  <2> QED BY Zenon, <1>1, <1>2, <1>3, <2>1, <2>3, <2>4, WorkStep
<1>4. \/ /\ pc[o] \in {"write", "ready", "timeout"} /\ c_writewaiter' = c_writewaiter
         /\ EndWrite(o) \/ (FailWrite(o) /\ (waitfails \/ c_conn_state = "ACTIVE"))
         /\ c_write1_mutex' = Nobody
      \/ \E l \in InWriting :
           /\ Goto(o, l)
           /\ UNCHANGED <<c_writers, c_writing>> /\ (l = "timeout" => waitfails)
           /\ c_writewaiter' = (l = "poll") \/ (c_writewaiter' = c_writewaiter /\ l = "write" /\ pc[o] = "ready")
           /\ \/ c_write1_mutex' = Nobody
              \/ c_write1_mutex' = o /\ l = "write"
              \/ c_write1_mutex' = c_write1_mutex /\ pc[o] = "poll"
  BY Zenon DEF Write, PollReturns, AfterPoll, mutexes, IInv, Patient, InWriting
<1>5. pc[o] = "poll" => c_write1_mutex # o
  BY Zenon, <1>t DEF IInv, TypeOK
<1>6. pc[o] = "ready" => ~c_writewaiter
  BY Zenon DEF IInv, Exclusive, OnePduAtATime, InWrite
<1>7. \A l \in InWriting : Goto(o, l) => Moves(o, l)
  BY Zenon, <1>t, <1>1, Moving DEF InWriting, Pc
<1> QED BY Zenon, <1>1, <1>3, <1>4, <1>5, <1>6, <1>7, LeaveInv

-----------------------------------------------------------------------------
(* A step of the code that closes keeps IInv if the thread itself has a    *)
(* proper state after it.                                                  *)
LEMMA ClosingStep ==
  ASSUME IInv, NEW t \in Threads, NEW l, Moves(t, l), pc[t] \notin Sending, l \notin Sending,
         UNCHANGED <<c_write1_mutex, c_writing, c_writewaiter, sent, waitfails>>,
         c_mutex' \in Threads \cup {Nobody}, c_mutex' = c_mutex \/ c_mutex = Nobody \/ c_mutex = t,
         c_ops' \subseteq c_ops, c_ops \ {t} \subseteq c_ops', abandoned' \subseteq Ops,
         c_conn_state' \in {"ACTIVE", "CLOSING", "INVALID"},
         c_conn_state = "ACTIVE" \/ c_conn_state' # "ACTIVE",
         after' \in [Threads -> Seq(Pc)], \A u \in Threads : u # t => after'[u] = after[u],
         shut' \in BOOLEAN,
         c_writers' = c_writers \/ (c_writers > 0 /\ c_writers' = -c_writers /\ l \in Turned),
         pc[t] \in Turned => l \in Turned \/ c_writers' = 0,
         StackAt(t)', HeldAt(t)', t \in Ops => ListedAt(t)',
         l \in Turned \cup {"wake", "rewake"} => c_conn_state' # "ACTIVE",
         c_conn_state' = "INVALID" => c_ops' = {} /\ c_writers' = 0 /\ ~c_writewaiter /\ ~c_writing
  PROVE  IInv'
<1>1. l # "timeout" /\ pc[t] \notin InWriting /\ l \notin InWriting /\ pc[t] \notin {"turn", "write"}
  BY Zenon DEF Sending, InWriting
<1>2. Stack' /\ Held' /\ Listed' /\ Begun' /\ Patient'
  BY Zenon, <1>1, Frame
<1>3. Exclusive'
  BY Zenon, <1>1, ExclusiveKept
<1>4. Senders' = Senders /\ Cardinality(Senders) \in Nat
  BY Zenon, SendersChange DEF IInv
<1>5. c_writers \in Int
  BY Zenon DEF IInv, TypeOK
<1>6. Counted' /\ c_writers' \in Int
  BY <1>4, <1>5 DEF IInv, Counted
<1>7. c_write1_mutex # t
  BY Zenon, <1>1, ConnWritersAssumption DEF IInv, TypeOK
<1>8. c_write1_mutex' \in {o \in Ops : pc'[o] \in {"turn", "write"}} \cup {Nobody}
  BY Zenon, <1>7, OthersKeep DEF IInv
<1>9. TypeOK'
  <2>1. pc' \in [Threads -> Pc] /\ c_ops' \subseteq Ops
    BY Zenon DEF Moves, IInv, TypeOK
  <2> QED BY Zenon, <1>6, <1>8, <2>1 DEF IInv, TypeOK
<1>10. /\ c_writers' < 0 => c_writers < 0 \/ l \in Turned
       /\ pc[t] \in Turned => l \in Turned \/ c_writers' >= 0
  BY <1>5, <1>6
<1> QED BY Zenon, <1>2, <1>3, <1>6, <1>9, <1>10, StepInv

(* The return addresses of connection_closing and connection_close.        *)
LEMMA CallFacts ==
  ASSUME NEW ls \in Calls
  PROVE  /\ ls \in Seq(Pc) /\ Tail(ls) \in Seq(Pc)
         /\ Head(ls) \in {"unlock_run", "unlock_done", "resched"}
         /\ Head(ls) = "unlock_run" <=> ls = <<"unlock_run">>
         /\ Head(ls) = "resched" => Tail(ls) = <<"unlock_done">>
         /\ Head(ls) # "resched" => Tail(ls) = <<>>
<1>1. CASE ls = <<"unlock_run">>
  <2>1. Head(ls) = "unlock_run" /\ Tail(ls) = <<>>
    BY <1>1
  <2> QED BY <1>1, <2>1 DEF Pc
<1>2. CASE ls = <<"unlock_done">>
  <2>1. Head(ls) = "unlock_done" /\ Tail(ls) = <<>>
    BY <1>2
  <2> QED BY <1>2, <2>1 DEF Pc
<1>3. CASE ls = <<"resched", "unlock_done">>
  <2>1. Head(ls) = "resched" /\ Tail(ls) = <<"unlock_done">>
    BY <1>3
  <2> QED BY <1>3, <2>1 DEF Pc
<1> QED BY Zenon, <1>1, <1>2, <1>3 DEF Calls

(* A sequence with one more element in front.                              *)
LEMMA Push ==
  ASSUME NEW S, NEW c \in S, NEW ls \in Seq(S)
  PROVE  /\ <<c>> \o ls \in Seq(S) /\ <<c>> \o ls # <<>>
         /\ Head(<<c>> \o ls) = c /\ Tail(<<c>> \o ls) = ls
<1>1. <<c>> \o ls \in Seq(S) /\ <<c>> \o ls # <<>>
  OBVIOUS
<1>2. Head(<<c>> \o ls) = c
  OBVIOUS
<1>3. Tail(<<c>> \o ls) = ls
  OBVIOUS
<1> QED BY Zenon, <1>1, <1>2, <1>3

(* The return addresses after connection_resched called connection_close.  *)
LEMMA CloseCallFacts ==
  ASSUME NEW ls \in Calls
  PROVE  LET cs == <<"close">> \o ls
         IN  /\ cs \in Seq(Pc) /\ Head(cs) = "close" /\ Tail(cs) = ls
             /\ cs \in CloseCalls /\ cs \notin Calls /\ cs # <<>>
             /\ cs = <<"close">> \o <<"unlock_run">> <=> ls = <<"unlock_run">>
<1> DEFINE cs == <<"close">> \o ls
           r == <<"close">> \o <<"unlock_run">>
<1>1. "close" \in Pc /\ ls \in Seq(Pc) /\ <<"unlock_run">> \in Seq(Pc)
  BY CallFacts DEF Pc
<1>2. cs \in Seq(Pc) /\ Head(cs) = "close" /\ Tail(cs) = ls /\ cs # <<>>
  BY Zenon, <1>1, Push
<1>3. Tail(r) = <<"unlock_run">>
  BY Zenon, <1>1, Push
<1>4. cs \in CloseCalls
  BY Zenon DEF CloseCalls
<1> HIDE DEF cs, r
<1>5. cs \notin Calls
  BY Zenon, <1>2, CallFacts
<1>6. cs = r => ls = <<"unlock_run">>
  BY Zenon, <1>2, <1>3
<1> QED BY Zenon, <1>2, <1>4, <1>5, <1>6 DEF cs, r

(* connection_closing, entered with c_mutex, and connection_resched after  *)
(* an operation.                                                           *)
LEMMA CloseInv ==
  ASSUME IInv, waitfails' = waitfails,
         ListenerClosing \/ \E o \in Ops : FailClosing(o) \/ Finish(o)
  PROVE  IInv'
<1>1. PICK t \in Threads, ls \in Calls :
        /\ pc[t] \in {"fail", "listen", "run"} /\ c_mutex = Nobody /\ c_mutex' = t
        /\ c_ops' = c_ops \/ (c_ops' = c_ops \ {t} /\ ls = <<"resched", "unlock_done">>)
        /\ \/ connection_closing(t, ls)
           \/ /\ Goto(t, "resched") /\ after' = [after EXCEPT ![t] = <<"unlock_done">>]
              /\ ls = <<"resched", "unlock_done">>
              /\ UNCHANGED <<c_conn_state, abandoned>>
        /\ ls = <<"unlock_run">> => t \in c_ops
        /\ UNCHANGED <<c_write1_mutex, writing, shut, sent>>
  <2>1. ASSUME ListenerClosing PROVE Listener \in Threads /\ <<"unlock_done">> \in Calls
    BY Zenon DEF Threads, Calls
  <2>2. <<"unlock_done">> # <<"unlock_run">> /\ <<"unlock_run">> \in Calls
        /\ <<"resched", "unlock_done">> \in Calls /\ <<"resched", "unlock_done">> # <<"unlock_run">>
    BY Zenon DEF Calls
  <2>3. CASE ListenerClosing
    BY Zenon, <2>1, <2>2, <2>3 DEF ListenerClosing
  <2>4. CASE \E o \in Ops : FailClosing(o)
    <3>1. PICK o \in Ops : FailClosing(o)
      BY Zenon, <2>4
    <3>2. o \in Threads /\ pc[o] = "fail" /\ o \in c_ops
      BY Zenon, <3>1 DEF FailClosing, Threads, IInv, Listed, ListedAt, Working
    <3> QED BY Zenon, <2>2, <3>1, <3>2 DEF FailClosing
  <2>5. CASE \E o \in Ops : Finish(o)
    <3>1. PICK o \in Ops : Finish(o)
      BY Zenon, <2>5
    <3>2. o \in Threads
      BY Zenon DEF Threads
    <3> QED BY Zenon, <2>2, <3>1, <3>2 DEF Finish
  <2> QED BY Zenon, <2>3, <2>4, <2>5
<1> DEFINE l == pc'[t]
<1>2. /\ pc \in [Threads -> Pc] /\ after \in [Threads -> Seq(Pc)] /\ abandoned \subseteq Ops
      /\ c_ops \subseteq Ops /\ shut \in BOOLEAN
      /\ c_conn_state \in {"ACTIVE", "CLOSING", "INVALID"}
  BY Zenon DEF IInv, TypeOK
<1>3. UNCHANGED <<c_write1_mutex, c_writers, c_writing, c_writewaiter, sent, shut>>
  BY Zenon, <1>1 DEF writing
<1>4. \/ /\ c_conn_state = "ACTIVE" /\ c_conn_state' = "CLOSING" /\ abandoned' = c_ops'
         /\ Goto(t, "wake") /\ after' = [after EXCEPT ![t] = ls]
      \/ /\ Goto(t, Head(ls)) /\ after' = [after EXCEPT ![t] = Tail(ls)]
         /\ UNCHANGED <<c_conn_state, abandoned>>
  <2>1. CASE connection_closing(t, ls)
    BY Zenon, <2>1 DEF connection_closing
  <2>2. CASE /\ Goto(t, "resched") /\ after' = [after EXCEPT ![t] = <<"unlock_done">>]
             /\ ls = <<"resched", "unlock_done">>
             /\ UNCHANGED <<c_conn_state, abandoned>>
    <3>1. Head(ls) = "resched" /\ Tail(ls) = <<"unlock_done">>
      BY <2>2
    <3> QED BY Zenon, <2>2, <3>1
  <2> QED BY Zenon, <1>1, <2>1, <2>2
<1>5. /\ ls \in Seq(Pc) /\ Tail(ls) \in Seq(Pc) /\ Head(ls) \in {"unlock_run", "unlock_done", "resched"}
      /\ Head(ls) = "unlock_run" <=> ls = <<"unlock_run">>
      /\ Head(ls) = "resched" => Tail(ls) = <<"unlock_done">>
      /\ Head(ls) # "resched" => Tail(ls) = <<>>
      /\ \A cs \in CloseCalls : cs # ls /\ cs # Tail(ls)
  <2>1. \A cs \in CloseCalls : cs \notin Calls /\ cs # <<>>
    <3> SUFFICES ASSUME NEW cs \in CloseCalls PROVE cs \notin Calls /\ cs # <<>>
      BY Zenon
    <3>1. PICK cl \in Calls : cs = <<"close">> \o cl
      BY Zenon DEF CloseCalls
    <3> QED BY Zenon, <3>1, CloseCallFacts
  <2>2. <<"unlock_done">> \in Calls
    BY Zenon DEF Calls
  <2> QED BY Zenon, <2>1, <2>2, CallFacts
<1>6. l \in {"wake", "unlock_run", "unlock_done", "resched"} /\ Moves(t, l)
  BY Zenon, <1>2, <1>4, <1>5, Moving DEF Goto, Pc, Moves
<1>7. /\ after'[t] = IF l = "wake" THEN ls ELSE Tail(ls)
      /\ l # "wake" => l = Head(ls)
      /\ after' \in [Threads -> Seq(Pc)] /\ \A u \in Threads : u # t => after'[u] = after[u]
      /\ l = "wake" => c_conn_state' # "ACTIVE"
      /\ c_conn_state' = "INVALID" => c_conn_state = "INVALID"
      /\ c_conn_state' \in {"ACTIVE", "CLOSING", "INVALID"}
      /\ c_conn_state = "ACTIVE" \/ c_conn_state' # "ACTIVE"
      /\ abandoned' \subseteq Ops
  BY ZenonT(60), <1>1, <1>2, <1>4, <1>5 DEF Goto
<1> HIDE DEF l
<1>8. StackAt(t)' /\ HeldAt(t)'
  BY Zenon, <1>1, <1>5, <1>6, <1>7 DEF l, StackAt, HeldAt, Calls, Turned
<1>9. ListedAt(t)'
  <2>1. l \in {"unlock_run"} \/ after'[t] = <<"unlock_run">> => ls = <<"unlock_run">>
    BY <1>5, <1>6, <1>7
  <2>2. after'[t] # <<"close">> \o <<"unlock_run">>
    BY Zenon, <1>5, <1>6, <1>7, CloseCallFacts DEF Calls
  <2>3. ls = <<"unlock_run">> => t \in c_ops'
    BY <1>1
  <2> QED BY Zenon, <1>6, <2>1, <2>2, <2>3 DEF l, ListedAt, Working, Sending
<1>10. pc[t] \notin Sending /\ l \notin Sending /\ pc[t] \notin Turned /\ l \notin Turned
       /\ l # "rewake"
  BY Zenon, <1>1, <1>6 DEF Sending, Turned
<1>11. c_conn_state' = "INVALID" => c_ops' = {} /\ c_writers = 0 /\ ~c_writewaiter /\ ~c_writing
  BY Zenon, <1>1, <1>7 DEF IInv, DestroyedQuiet
<1>12. c_mutex' \in Threads \cup {Nobody} /\ c_ops' \subseteq c_ops /\ c_ops \ {t} \subseteq c_ops'
  BY Zenon, <1>1
<1> QED BY Zenon, <1>1, <1>2, <1>3, <1>6, <1>7, <1>8, <1>9, <1>10, <1>11, <1>12, ClosingStep

(* A function returns to its caller.                                       *)
LEMMA ReturnFacts ==
  ASSUME IInv, NEW t \in Threads, pc[t] \in Inner, Return(t), c_mutex' = c_mutex, c_ops' = c_ops
  PROVE  \E l \in {"unlock_run", "unlock_done", "resched", "close"} :
           /\ Moves(t, l)
           /\ StackAt(t)' /\ HeldAt(t)' /\ (t \in Ops => ListedAt(t)')
           /\ after' \in [Threads -> Seq(Pc)] /\ \A u \in Threads : u # t => after'[u] = after[u]
<1>1. /\ pc \in [Threads -> Pc] /\ after \in [Threads -> Seq(Pc)]
      /\ StackAt(t) /\ c_mutex = t /\ (t \in Ops => ListedAt(t))
  BY Zenon DEF IInv, TypeOK, Stack, Held, HeldAt, Listed
<1> DEFINE l == Head(after[t])
<1>2. /\ pc' = [pc EXCEPT ![t] = l] /\ after' = [after EXCEPT ![t] = Tail(after[t])]
  BY Zenon DEF Return, Goto
<1>3. /\ l \in {"unlock_run", "unlock_done", "resched", "close"} /\ Tail(after[t]) \in Seq(Pc)
      /\ l \in {"resched", "close"} => Tail(after[t]) \in Calls
      /\ l = "unlock_run" => after[t] = <<"unlock_run">>
      /\ l \in {"resched", "close"} /\ Tail(after[t]) = <<"unlock_run">> => after[t] = <<"close">> \o <<"unlock_run">>
      /\ Tail(after[t]) # <<"close">> \o <<"unlock_run">>
  <2>1. CASE after[t] \in Calls
    <3>1. <<"unlock_done">> \in Calls /\ <<"unlock_done">> # <<"unlock_run">> /\ <<"unlock_run">> \in Calls
      BY Zenon DEF Calls
    <3>2. /\ <<"close">> \o <<"unlock_run">> # <<>>
          /\ <<"close">> \o <<"unlock_run">> \notin Calls
      BY Zenon, <3>1, CloseCallFacts
    <3>3. /\ Tail(after[t]) \in Seq(Pc)
          /\ l \in {"unlock_run", "unlock_done", "resched"}
          /\ l = "unlock_run" <=> after[t] = <<"unlock_run">>
          /\ l = "resched" => Tail(after[t]) = <<"unlock_done">>
          /\ l # "resched" => Tail(after[t]) = <<>>
      BY Zenon, <2>1, CallFacts
    <3> HIDE DEF l
    <3> QED BY Zenon, <3>1, <3>2, <3>3
  <2>2. CASE after[t] \in CloseCalls
    <3>1. PICK ls \in Calls : after[t] = <<"close">> \o ls
      BY Zenon, <2>2 DEF CloseCalls
    <3>2. l = "close" /\ Tail(after[t]) = ls
      BY Zenon, <3>1, CloseCallFacts
    <3>3. ls \in Seq(Pc) /\ <<"unlock_run">> \in Calls
      BY Zenon, CallFacts DEF Calls
    <3>4. ls # <<"close">> \o <<"unlock_run">>
      BY Zenon, <3>3, CloseCallFacts
    <3> HIDE DEF l
    <3> QED BY Zenon, <3>1, <3>2, <3>3, <3>4
  <2> QED BY Zenon, <1>1, <2>1, <2>2 DEF StackAt, Inner
<1> HIDE DEF l
<1>4. Moves(t, l) /\ pc'[t] = l
  BY Zenon, <1>1, <1>2, <1>3, Moving DEF Goto, Pc, Moves
<1>5. /\ after' \in [Threads -> Seq(Pc)] /\ after'[t] = Tail(after[t])
      /\ \A u \in Threads : u # t => after'[u] = after[u]
  BY Zenon, <1>1, <1>2, <1>3
<1>6. StackAt(t)' /\ HeldAt(t)'
  BY Zenon, <1>1, <1>3, <1>4, <1>5 DEF StackAt, HeldAt, Turned
<1>7. ASSUME t \in Ops PROVE ListedAt(t)'
  <2>1. l \notin Working /\ (l \in Inner => l \in {"resched", "close"})
    BY Zenon, <1>3 DEF Working, Sending, Inner, Turned
  <2>2. after[t] \in {<<"unlock_run">>, <<"close">> \o <<"unlock_run">>} => t \in c_ops
    BY Zenon, <1>1, <1>7 DEF ListedAt
  <2>3. CASE l = "unlock_run"
    BY Zenon, <1>3, <2>2, <2>3 DEF ListedAt
  <2>4. CASE l \in Inner /\ after'[t] \in {<<"unlock_run">>, <<"close">> \o <<"unlock_run">>}
    BY Zenon, <1>3, <1>5, <2>1, <2>2, <2>4 DEF ListedAt
  <2> QED BY Zenon, <1>4, <2>1, <2>3, <2>4 DEF ListedAt
<1> QED BY Zenon, <1>3, <1>4, <1>5, <1>6, <1>7

(* connection_wake_writers, and the wait for the writers to leave.         *)
LEMMA WakeInv ==
  ASSUME IInv, NEW t \in Threads, waitfails' = waitfails,
         connection_wake_writers(t) \/ Shut(t) \/ AwaitWriters(t)
  PROVE  IInv'
<1>1. /\ pc \in [Threads -> Pc] /\ after \in [Threads -> Seq(Pc)] /\ abandoned \subseteq Ops
      /\ c_ops \subseteq Ops /\ shut \in BOOLEAN /\ c_writewaiter \in BOOLEAN /\ c_writers \in Int
      /\ c_conn_state \in {"ACTIVE", "CLOSING", "INVALID"} /\ c_mutex \in Threads \cup {Nobody}
  BY Zenon DEF IInv, TypeOK
<1>2. /\ pc[t] \in Turned \cup {"wake", "rewake"}
      /\ UNCHANGED <<c_mutex, c_write1_mutex, c_writing, c_writewaiter, sent, c_conn_state, c_ops, abandoned>>
  BY Zenon DEF connection_wake_writers, Shut, AwaitWriters, mutexes, writing, Turned
<1>3. /\ pc[t] \in Inner /\ pc[t] \notin Sending /\ c_mutex = t /\ c_conn_state # "ACTIVE"
      /\ StackAt(t) /\ (t \in Ops => ListedAt(t))
  BY Zenon, <1>2 DEF Inner, Turned, Sending, IInv, Held, HeldAt, Begun, Stack, Listed
<1>4. shut' \in BOOLEAN
  BY Zenon, <1>1 DEF connection_wake_writers, Shut, ShutSocket, AwaitWriters
<1>5. c_conn_state = "INVALID" => c_ops = {} /\ c_writers = 0 /\ ~c_writewaiter /\ ~c_writing
  BY Zenon DEF IInv, DestroyedQuiet
<1>6. ASSUME Return(t), c_writers' = c_writers, pc[t] \in Turned => c_writers = 0
      PROVE  IInv'
  <2>1. PICK l \in {"unlock_run", "unlock_done", "resched", "close"} :
           /\ Moves(t, l)
           /\ StackAt(t)' /\ HeldAt(t)' /\ (t \in Ops => ListedAt(t)')
           /\ after' \in [Threads -> Seq(Pc)] /\ \A u \in Threads : u # t => after'[u] = after[u]
    BY Zenon, <1>2, <1>3, <1>6, ReturnFacts
  <2>2. l \notin Sending /\ l \notin Turned \cup {"wake", "rewake"}
    BY Zenon DEF Sending, Turned
  <2> QED BY Zenon, <1>1, <1>2, <1>3, <1>4, <1>5, <1>6, <2>1, <2>2, ClosingStep
<1>7. ASSUME NEW l \in {"shut", "await", "wait_close", "resched"}, Moves(t, l), after' = after,
             c_writers' = c_writers \/ (c_writers > 0 /\ c_writers' = -c_writers /\ l = "shut"),
             l = "resched" => pc[t] = "wake"
      PROVE  IInv'
  <2>1. l \notin Sending /\ (l \in Turned <=> l # "resched") /\ l \in Inner /\ l \notin Working
    BY Zenon DEF Sending, Turned, Inner, Working
  <2>2. pc'[t] = l /\ (pc[t] \in Turned => l \in Turned)
    BY Zenon, <1>7, <2>1 DEF Moves, Turned
  <2>3. after[t] \in Calls \cup CloseCalls /\ (pc[t] = "wake" => after[t] \in Calls)
    BY Zenon, <1>2, <1>3 DEF StackAt
  <2>4. StackAt(t)' /\ HeldAt(t)'
    BY Zenon, <1>2, <1>3, <1>7, <2>1, <2>2, <2>3 DEF StackAt, HeldAt
  <2>5. t \in Ops => ListedAt(t)'
    BY Zenon, <1>2, <1>3, <1>7, <2>1, <2>2 DEF ListedAt
  <2>6. c_conn_state = "INVALID" => c_writers' = 0
    BY <1>1, <1>5, <1>7
  <2>7. c_writers' = c_writers \/ (c_writers > 0 /\ c_writers' = -c_writers /\ l \in Turned)
    BY Zenon, <1>7, <2>1
  <2> QED BY Zenon, <1>1, <1>2, <1>3, <1>4, <1>5, <1>7, <2>1, <2>2, <2>4, <2>5, <2>6, <2>7, ClosingStep
<1>8. CASE connection_wake_writers(t)
  <2>1. CASE c_writers > 0 /\ c_writers' = -c_writers /\ Broadcast([pc EXCEPT ![t] = "shut"]) /\ UNCHANGED after
    <3>1. Moves(t, "shut")
      BY Zenon, <1>1, <2>1, Moving DEF Pc, Waiting
    <3> QED BY Zenon, <1>7, <2>1, <3>1
  <2>2. CASE /\ pc[t] = "wake" /\ Goto(t, "resched") /\ UNCHANGED after /\ UNCHANGED c_writers
    <3>1. Moves(t, "resched")
      BY Zenon, <1>1, <2>2, Moving DEF Pc
    <3> QED BY Zenon, <1>7, <2>2, <3>1
  <2>3. CASE pc[t] = "rewake" /\ Return(t) /\ UNCHANGED c_writers
    BY Zenon, <1>6, <2>3 DEF Turned
  <2> QED BY Zenon, <1>8, <2>1, <2>2, <2>3 DEF connection_wake_writers
<1>9. CASE Shut(t)
  <2>1. Moves(t, "await") /\ c_writers' = c_writers /\ after' = after
    BY Zenon, <1>1, <1>9, Moving DEF Shut, Pc, writing
  <2> QED BY Zenon, <1>7, <2>1
<1>10. CASE AwaitWriters(t)
  <2>1. c_writers' = c_writers
    BY Zenon, <1>10 DEF AwaitWriters, writing
  <2>2. CASE c_writers = 0 /\ Return(t)
    BY Zenon, <1>6, <2>1, <2>2
  <2>3. CASE Goto(t, "wait_close") /\ UNCHANGED after
    <3>1. Moves(t, "wait_close")
      BY Zenon, <1>1, <2>3, Moving DEF Pc
    <3> QED BY Zenon, <1>7, <2>1, <2>3, <3>1
  <2> QED BY Zenon, <1>10, <2>2, <2>3 DEF AwaitWriters
<1> QED BY Zenon, <1>8, <1>9, <1>10

(* connection_resched and connection_close, and the release of c_mutex.    *)
LEMMA ReschedInv ==
  ASSUME IInv, NEW t \in Threads, waitfails' = waitfails,
         connection_resched(t) \/ connection_close(t) \/ Unlock(t)
  PROVE  IInv'
<1>1. /\ pc \in [Threads -> Pc] /\ after \in [Threads -> Seq(Pc)] /\ abandoned \subseteq Ops
      /\ c_ops \subseteq Ops /\ shut \in BOOLEAN /\ c_writewaiter \in BOOLEAN /\ c_writers \in Int
      /\ c_conn_state \in {"ACTIVE", "CLOSING", "INVALID"} /\ c_mutex \in Threads \cup {Nobody}
  BY DEF IInv, TypeOK
<1>2. /\ pc[t] \in {"resched", "close", "unlock_run", "unlock_done"}
      /\ UNCHANGED <<c_write1_mutex, c_writers, c_writing, c_writewaiter, sent, c_ops, abandoned, shut>>
  BY Zenon DEF connection_resched, connection_close, Unlock, mutexes, writing
<1>3. /\ pc[t] \notin Sending /\ pc[t] \notin Turned /\ c_mutex = t
      /\ StackAt(t) /\ (t \in Ops => ListedAt(t))
  BY Zenon, <1>2 DEF Inner, Turned, Sending, IInv, Held, HeldAt, Stack, Listed
<1>4. c_conn_state = "INVALID" => c_ops = {} /\ c_writers = 0 /\ ~c_writewaiter /\ ~c_writing
  BY DEF IInv, DestroyedQuiet
<1>5. ASSUME Return(t), pc[t] \in Inner, c_mutex' = c_mutex,
             c_conn_state' \in {"ACTIVE", "CLOSING", "INVALID"},
             c_conn_state = "ACTIVE" \/ c_conn_state' # "ACTIVE",
             c_conn_state' = "INVALID" => c_ops = {} /\ c_writers = 0 /\ ~c_writewaiter /\ ~c_writing
      PROVE  IInv'
  <2>1. PICK l \in {"unlock_run", "unlock_done", "resched", "close"} :
           /\ Moves(t, l)
           /\ StackAt(t)' /\ HeldAt(t)' /\ (t \in Ops => ListedAt(t)')
           /\ after' \in [Threads -> Seq(Pc)] /\ \A u \in Threads : u # t => after'[u] = after[u]
    BY Zenon, <1>2, <1>3, <1>5, ReturnFacts
  <2>2. l \notin Sending /\ l \notin Turned \cup {"wake", "rewake"}
    BY DEF Sending, Turned
  <2> QED BY Zenon, <1>1, <1>2, <1>3, <1>5, <2>1, <2>2, ClosingStep
<1>6. CASE connection_resched(t)
  <2>1. pc[t] = "resched" /\ pc[t] \in Inner /\ UNCHANGED <<c_mutex, c_conn_state>>
    BY Zenon, <1>6 DEF connection_resched, mutexes, Inner
  <2>2. CASE Return(t)
    BY Zenon, <1>1, <1>4, <1>5, <2>1, <2>2
  <2>3. CASE /\ c_conn_state = "CLOSING" /\ Goto(t, "rewake")
             /\ after' = [after EXCEPT ![t] = <<"close">> \o after[t]]
    <3>1. Moves(t, "rewake") /\ pc'[t] = "rewake"
      BY Zenon, <1>1, <2>3, Moving DEF Pc, Moves
    <3>2. after[t] \in Calls
      BY Zenon, <1>3, <2>1 DEF StackAt
    <3>3. /\ <<"close">> \o after[t] \in Seq(Pc) /\ <<"close">> \o after[t] \in CloseCalls
          /\ <<"close">> \o after[t] \notin Calls
          /\ <<"close">> \o after[t] = <<"close">> \o <<"unlock_run">> <=> after[t] = <<"unlock_run">>
      BY Zenon, <3>2, CloseCallFacts
    <3>4. /\ after' \in [Threads -> Seq(Pc)] /\ after'[t] = <<"close">> \o after[t]
          /\ \A u \in Threads : u # t => after'[u] = after[u]
      BY Zenon, <1>1, <2>3, <3>3
    <3>5. StackAt(t)' /\ HeldAt(t)'
      BY Zenon, <1>3, <2>1, <3>1, <3>3, <3>4 DEF StackAt, HeldAt, Turned
    <3>6. t \in Ops => ListedAt(t)'
      <4>1. "rewake" \notin Working \cup {"unlock_run"} /\ <<"unlock_run">> \in Calls
        BY Zenon DEF Working, Sending, Calls
      <4>2. after'[t] \in {<<"unlock_run">>, <<"close">> \o <<"unlock_run">>} => after[t] = <<"unlock_run">>
        BY Zenon, <3>3, <3>4, <4>1
      <4>3. t \in Ops /\ after[t] = <<"unlock_run">> => t \in c_ops
        BY Zenon, <1>3, <2>1 DEF ListedAt
      <4> QED BY Zenon, <1>2, <3>1, <4>1, <4>2, <4>3 DEF ListedAt
    <3>7. "rewake" \notin Sending
      BY Zenon DEF Sending
    <3> QED BY Zenon, <1>1, <1>2, <1>3, <1>4, <2>1, <2>3, <3>1, <3>4, <3>5, <3>6, <3>7, ClosingStep
  <2> QED BY Zenon, <1>1, <1>6, <2>2, <2>3 DEF connection_resched
<1>7. CASE connection_close(t)
  <2>1. pc[t] = "close" /\ pc[t] \in Inner /\ UNCHANGED c_mutex /\ Return(t)
    BY Zenon, <1>7 DEF connection_close, mutexes, Inner
  <2>2. CASE UNCHANGED c_conn_state
    BY Zenon, <1>1, <1>4, <1>5, <2>1, <2>2
  <2>3. CASE MayDestroy /\ c_conn_state' = "INVALID"
    <3>1. c_ops = {} /\ ~c_writing
      BY Zenon, <2>3 DEF MayDestroy
    <3>2. Senders = {} /\ ~c_writewaiter
      BY Zenon, <3>1 DEF Senders, InSend, InWrite, IInv, Listed, ListedAt, Working, Sending, Exclusive
    <3>3. Cardinality(Senders) = 0
      BY Zenon, <3>2, FS_EmptySet
    <3>4. c_writers >= 0
      <4> SUFFICES ASSUME c_writers < 0 PROVE FALSE
        BY <1>1
      <4>1. PICK u \in Threads : pc[u] \in Turned
        BY Zenon DEF IInv, Turning
      <4>2. u = t
        BY Zenon, <1>3, <4>1 DEF IInv, Held, HeldAt, Inner
      <4> QED BY Zenon, <1>3, <4>1, <4>2
    <3>5. c_writers = 0
      BY Zenon, <3>3, <3>4 DEF IInv, Counted
    <3> QED BY Zenon, <1>5, <2>1, <2>3, <3>1, <3>2, <3>5
  <2> QED BY Zenon, <1>7, <2>2, <2>3 DEF connection_close, connection_destroy
<1>8. CASE Unlock(t)
  <2>1. c_mutex' = Nobody /\ UNCHANGED <<c_conn_state, after>>
    BY Zenon, <1>8 DEF Unlock
  <2>2. PICK l \in {"run", "done"} : Moves(t, l) /\ pc'[t] = l /\ (l = "run" => pc[t] = "unlock_run")
    BY Zenon, <1>1, <1>8, Moving DEF Unlock, Pc, Moves
  <2>3. l \notin Sending /\ l \notin Turned \cup {"wake", "rewake"} /\ l \notin Inner
        /\ (l \in Working => l = "run")
    BY Zenon DEF Sending, Turned, Inner, Working
  <2>4. StackAt(t)' /\ HeldAt(t)'
    BY Zenon, <2>2, <2>3 DEF StackAt, HeldAt, Inner
  <2>5. t \in Ops => ListedAt(t)'
    BY Zenon, <1>2, <1>3, <2>2, <2>3 DEF ListedAt
  <2> QED BY Zenon, <1>1, <1>2, <1>3, <1>4, <2>1, <2>2, <2>3, <2>4, <2>5, ClosingStep
<1> QED BY <1>6, <1>7, <1>8

(* IInv holds in the initial state: nobody sends.                          *)
LEMMA InitInv == Init => IInv
<1> SUFFICES ASSUME Init PROVE IInv
  BY Zenon
<1>t. Ops \subseteq Threads /\ Listener \in Threads /\ Nobody \notin Threads /\ MaxPdu \in Nat
  BY Zenon, ConnWritersAssumption DEF Threads
<1>1. \A t \in Threads : pc[t] \in {"run", "listen"}
  BY Zenon DEF Init
<1>2. TypeOK
  <2>1. pc \in [Threads -> Pc] /\ after \in [Threads -> Seq(Pc)] /\ sent \in [Ops -> 0..MaxPdu]
    BY <1>t DEF Init, Pc
  <2>2. c_writers \in Int
    BY DEF Init
  <2>3. /\ c_mutex = Nobody /\ c_write1_mutex = Nobody /\ c_conn_state = "ACTIVE" /\ c_ops = Ops
        /\ c_writing = FALSE /\ c_writewaiter = FALSE /\ abandoned = {} /\ shut = FALSE
        /\ waitfails \in WaitFails
    BY Zenon DEF Init
  <2> QED BY Zenon, <2>1, <2>2, <2>3 DEF TypeOK
<1>3. Stack /\ Held /\ Begun
  BY Zenon, <1>1 DEF Stack, StackAt, Held, HeldAt, Begun, Inner, Turned
<1>4. Listed
  BY Zenon, <1>1 DEF Init, Listed, ListedAt
<1>5. \A o \in Ops : ~InSend(o) /\ ~InWrite(o) /\ pc[o] # "timeout"
  BY Zenon, <1>t, <1>1 DEF InSend, InWrite
<1>6. Senders = {}
  BY Zenon, <1>5 DEF Senders
<1>7. Counted /\ Turning
  BY <1>6, FS_EmptySet DEF Init, Counted, Turning
<1>8. Exclusive /\ Patient /\ DestroyedQuiet
  BY Zenon, <1>5 DEF Init, Exclusive, OnePduAtATime, Patient, DestroyedQuiet
<1> QED BY Zenon, <1>2, <1>3, <1>4, <1>7, <1>8 DEF IInv

(* Every step keeps IInv.                                                  *)
LEMMA NextInv == IInv /\ [Next]_vars => IInv'
<1> SUFFICES ASSUME IInv, [Next]_vars PROVE IInv'
  BY Zenon
<1>1. CASE UNCHANGED vars
  BY <1>1 DEF vars, moving, mutexes, writing, IInv, TypeOK, Stack, StackAt, Held, HeldAt, Listed, ListedAt,
     Counted, Senders, InSend, InWrite, Turning, Begun, Exclusive, OnePduAtATime, Patient, DestroyedQuiet
<1>2. ASSUME NEW o \in Ops, waitfails' = waitfails,
             send_ldap_ber(o) \/ Step(o) \/ PollReturns(o) \/ Finish(o)
      PROVE  IInv'
  BY Zenon, <1>2, SendInv, TurnInv, WriteInv, CloseInv DEF Step
<1>3. ASSUME NEW t \in Threads, waitfails' = waitfails, Closing(t)
      PROVE  IInv'
  BY Zenon, <1>3, WakeInv, ReschedInv DEF Closing
<1>4. ASSUME waitfails' = waitfails, ListenerClosing
      PROVE  IInv'
  BY Zenon, <1>4, CloseInv
<1> QED BY Zenon, <1>1, <1>2, <1>3, <1>4 DEF Next

(* send_ldap_ber writes "only one pdu at a time", for any number of        *)
(* operations and whether or not waits for the socket fail.                *)
THEOREM OneWriter == Spec => []OnePduAtATime
<1>1. IInv => OnePduAtATime
  BY Zenon DEF IInv, Exclusive
<1> QED BY <1>1, InitInv, NextInv, PTL DEF Spec

(* c_writers counts the operations in send_ldap_ber, negated by whoever    *)
(* closes the connection; the variables keep their types.                  *)
THEOREM WritersCountExact == Spec => []WritersCounted
<1>1. IInv => WritersCounted
  <2> SUFFICES ASSUME IInv PROVE WritersCounted
    BY Zenon
  <2>1. c_writers \in Int /\ TypeOK
    BY Zenon DEF IInv, TypeOK
  <2>2. ~waitfails => c_writers = Cardinality(Senders) \/ c_writers = -Cardinality(Senders)
    BY <2>1 DEF IInv, Counted
  <2> QED BY Zenon, <2>1, <2>2 DEF WritersCounted, Senders
<1> QED BY <1>1, InitInv, NextInv, PTL DEF Spec

(* When connection_destroy runs, its assertions hold, and no operation is  *)
(* left that could use the connection later.                               *)
THEOREM QuietAfterDestroy == Spec => []DestroyedQuiet
<1>1. IInv => DestroyedQuiet
  BY Zenon DEF IInv
<1> QED BY <1>1, InitInv, NextInv, PTL DEF Spec
=============================================================================
