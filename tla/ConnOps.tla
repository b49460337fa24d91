------------------------------- MODULE ConnOps -------------------------------
(***************************************************************************)
(* The operations of one client connection: connection.c from the arrival  *)
(* of a request to the release of its Operation, with the two operations   *)
(* that act on others, Abandon (abandon.c) and Cancel (cancel.c).          *)
(*                                                                         *)
(* c_mutex makes every handler one step.  The reader keeps it from         *)
(* connection_read to the end of its input loop, so nothing else that      *)
(* needs it runs between two requests of one batch.  The requests are      *)
(* numbered in order of arrival; the number is also the message ID.        *)
(* connection_closing waits for blocked writers (module ConnWriters), which*)
(* here is one step: the blocked operation is released.                    *)
(***************************************************************************)
EXTENDS Naturals, Sequences, FiniteSets

CONSTANTS MaxOps,       \* bound on the requests of the connection
          PoolMax,      \* connection_pool_max
          MaxPending,   \* slap_conn_max_pending
          Setups        \* what the client does and what can fail, see below

Tags == {"SEARCH", "BIND", "ABANDON", "CANCEL", "UNBIND"}

ASSUME ConnOpsAssumption ==
  /\ MaxOps \in Nat /\ PoolMax \in Nat /\ MaxPending \in Nat
  /\ Setups \subseteq
       [tags : SUBSET Tags,  \* the requests the client sends
        self : BOOLEAN,      \* a Cancel may name its own message ID
        events : BOOLEAN,    \* the socket reports writability (TLS)
        lose : BOOLEAN]      \* ldap_pvt_thread_pool_submit may fail

Ids == 1..MaxOps

VARIABLES
  c_conn_state,
  c_n_ops_received,
  c_n_ops_executing,
  c_n_ops_pending,
  c_ops,          \* the active operations
  c_pending_ops,  \* the deferred ones, in order
  op,             \* the Operation of each request
  writer,         \* the operation that waits for the socket (c_writewaiter), or 0
  cri,            \* the reader: in a batch or not, its first operation, submitted or not
  setup           \* the member of Setups that this behaviour follows

moving == <<c_conn_state, c_n_ops_received, c_n_ops_executing, c_n_ops_pending,
            c_ops, c_pending_ops, op, writer, cri>>
vars == <<moving, setup>>

counters == <<c_n_ops_received, c_n_ops_executing, c_n_ops_pending>>

Op == [tag : Tags \cup {"NONE", "LBER_ERROR"}, target : 0..MaxOps, o_abandon : 0..2,
       o_cancel : {"NONE", "REQ", "ACK", "TOO_LATE", "DONE"}, o_conn : BOOLEAN,
       waited : BOOLEAN,  \* has waited for the socket; bounded to once
       pc : {"none", "pending", "held", "queued", "lost", "run", "cancelling",
             "done", "ackwait", "freed"}]

NoOp == [tag |-> "NONE", target |-> 0, o_abandon |-> 0, o_cancel |-> "NONE",
         o_conn |-> FALSE, waited |-> FALSE, pc |-> "none"]

NotReading == [reading |-> FALSE, first |-> 0, nullop |-> FALSE]

Half == PoolMax \div 2

RangeOf(s) == {s[i] : i \in 1..Len(s)}

Init ==
  /\ c_conn_state = "INACTIVE"
  /\ c_n_ops_received = 0 /\ c_n_ops_executing = 0 /\ c_n_ops_pending = 0
  /\ c_ops = {} /\ c_pending_ops = <<>>
  /\ op = [o \in Ids |-> NoOp]
  /\ writer = 0
  /\ cri = NotReading
  /\ setup \in Setups

-----------------------------------------------------------------------------

(* The operation is taken from its connection and freed.                   *)
Freed(r) == [r EXCEPT !.pc = "freed", !.o_conn = FALSE]

(* connection_abandon: the active operations are marked, the pending ones  *)
(* are freed.                                                              *)
connection_abandon(f, active, pending) ==
  [o \in Ids |-> IF o \in active THEN [f[o] EXCEPT !.o_abandon = 2]
                 ELSE IF o \in RangeOf(pending) THEN Freed(f[o]) ELSE f[o]]

(* connection_closing, then connection_close.                              *)
connection_closing(f, active, pending) ==
  /\ op' = connection_abandon(f, active, pending)
  /\ c_ops' = active
  /\ c_pending_ops' = <<>>
  /\ c_conn_state' = IF active = {} THEN "INVALID" ELSE "CLOSING"
  /\ writer' = 0

(* connection_op_queue: what activating the operations S makes of the      *)
(* state of the connection.                                                *)
connection_op_queue(state, S) ==
  IF \E o \in S : op[o].tag = "BIND" THEN "BINDING"
  ELSE IF state = "INACTIVE" /\ S # {} THEN "ACTIVE" ELSE state

(* connection_op_activate: an operation whose submission fails stays       *)
(* among the active ones.                                                  *)
connection_op_activate(f, S, lost) ==
  [o \in Ids |-> IF o \in lost THEN [f[o] EXCEPT !.pc = "lost"]
                 ELSE IF o \in S THEN [f[o] EXCEPT !.pc = "queued"] ELSE f[o]]

Losses(S) == IF setup.lose THEN SUBSET S ELSE {{}}

-----------------------------------------------------------------------------
(* connection_read takes c_mutex for a batch, unless the connection is     *)
(* closing.                                                                *)
connection_read == cri.reading \/ c_conn_state \notin {"CLOSING", "INVALID"}

(* At the end of the batch the reader itself runs the first operation,     *)
(* unless that went to the pool.                                           *)
connection_read_thread(f) ==
  connection_op_activate(f, IF cri.nullop THEN {} ELSE {cri.first} \ {0}, {})

(* Mutant: a request does not wait for the pending ones.                   *)
DefersNotPending(t) ==
  /\ t # "UNBIND"
  /\ \/ t # "ABANDON" /\ writer # 0
     \/ c_n_ops_executing >= Half
     \/ c_conn_state = "BINDING"

Defers(t) ==
  /\ t # "UNBIND"
  /\ \/ t # "ABANDON" /\ (writer # 0 \/ c_n_ops_pending > 0)
     \/ c_n_ops_executing >= Half
     \/ c_conn_state = "BINDING"

(* The request is put at the tail of the pending list; too many of them    *)
(* close the connection.                                                   *)
Defer(f, pending, o) ==
  /\ c_n_ops_pending' = c_n_ops_pending + 1
  /\ c_n_ops_executing' = c_n_ops_executing
  /\ \/ /\ c_n_ops_pending + 1 <= MaxPending
        /\ c_pending_ops' = Append(pending, o)
        /\ op' = f
        /\ cri' = [cri EXCEPT !.reading = TRUE]
        /\ UNCHANGED <<c_conn_state, c_ops, writer>>
     \/ /\ c_n_ops_pending + 1 > MaxPending
        /\ connection_closing(connection_read_thread(f), c_ops, Append(pending, o))
        /\ cri' = NotReading

(* The first request of a batch is held for the reader itself; the second  *)
(* one sends it to the pool.                                               *)
Execute(f, pending, o) ==
  /\ c_n_ops_executing' = c_n_ops_executing + 1
  /\ c_n_ops_pending' = c_n_ops_pending
  /\ LET state == IF f[o].tag = "BIND" THEN "BINDING"
                  ELSE IF c_conn_state = "INACTIVE" THEN "ACTIVE" ELSE c_conn_state
     IN \/ /\ cri.first = 0
           /\ cri' = [cri EXCEPT !.reading = TRUE, !.first = o]
           /\ op' = [f EXCEPT ![o].pc = "held"]
           /\ c_ops' = c_ops \cup {o}
           /\ c_pending_ops' = pending
           /\ c_conn_state' = state
           /\ UNCHANGED writer
        \/ /\ cri.first # 0
           /\ LET S == {o} \cup (IF cri.nullop THEN {} ELSE {cri.first})
              IN \E lost \in Losses(S) :
                   LET g == connection_op_activate(f, S, lost)
                   IN \/ /\ ~cri.nullop /\ cri.first \in lost
                         /\ connection_closing(g, c_ops \cup {o}, pending)
                         /\ cri' = NotReading
                      \/ /\ cri.nullop \/ cri.first \notin lost
                         /\ cri' = [cri EXCEPT !.nullop = TRUE]
                         /\ op' = g
                         /\ c_ops' = c_ops \cup {o}
                         /\ c_pending_ops' = pending
                         /\ c_conn_state' = state
                         /\ UNCHANGED writer

(* connection_input: a Bind first abandons everything that came before.    *)
connection_input(t, target) ==
  LET o  == c_n_ops_received + 1
      f0 == IF t = "BIND" THEN connection_abandon(op, c_ops, c_pending_ops) ELSE op
      f  == [f0 EXCEPT ![o] = [NoOp EXCEPT !.tag = t, !.target = target,
                                           !.o_conn = TRUE, !.pc = "pending"]]
      pending == IF t = "BIND" THEN <<>> ELSE c_pending_ops
  IN /\ connection_read
     /\ c_n_ops_received < MaxOps
     /\ target # 0 <=> t \in {"ABANDON", "CANCEL"}
     /\ target <= o
     /\ target = o => setup.self
     /\ c_n_ops_received' = o
     /\ \/ Defers(t) /\ Defer(f, pending, o)
        \/ ~Defers(t) /\ Execute(f, pending, o)

(* No more input: the batch ends.                                          *)
EndRead ==
  /\ cri.reading
  /\ op' = connection_read_thread(op)
  /\ cri' = NotReading
  /\ UNCHANGED <<c_conn_state, counters, c_ops, c_pending_ops, writer>>

(* The client is gone or sends what is no LDAP message.                    *)
ReadError ==
  /\ connection_read
  /\ connection_closing(connection_read_thread(op), c_ops, c_pending_ops)
  /\ cri' = NotReading
  /\ UNCHANGED counters

-----------------------------------------------------------------------------
(* A pool thread, or the reader, enters connection_operation.              *)
Start(o) ==
  /\ op[o].pc = "queued"
  /\ op' = [op EXCEPT ![o].pc = "run"]
  /\ UNCHANGED <<c_conn_state, counters, c_ops, c_pending_ops, writer, cri>>

(* send_ldap_ber: the socket is full, the operation waits for it.          *)
BlockOnWrite(o) ==
  /\ op[o].pc = "run"
  /\ op[o].tag \in {"SEARCH", "BIND"}
  /\ writer = 0
  /\ c_conn_state \in {"ACTIVE", "BINDING"}
  /\ op[o].o_abandon = 0
  /\ ~op[o].waited
  /\ writer' = o
  /\ op' = [op EXCEPT ![o].waited = TRUE]
  /\ UNCHANGED <<c_conn_state, counters, c_ops, c_pending_ops, cri>>

SocketDrains ==
  /\ writer # 0
  /\ writer' = 0
  /\ UNCHANGED <<c_conn_state, counters, c_ops, c_pending_ops, op, cri>>

(* do_abandon: an active operation is marked, unless it is a Bind, Unbind  *)
(* or Abandon.  A pending one is unlinked and freed, but it is the Abandon *)
(* itself whose o_conn is cleared.                                         *)
do_abandon(o) ==
  LET t == op[o].target
  IN /\ op[o].pc = "run" /\ op[o].tag = "ABANDON" /\ ~cri.reading
     /\ \/ /\ t \in c_ops
           /\ op[t].tag \notin {"BIND", "UNBIND", "ABANDON"}
           /\ op' = [op EXCEPT ![o].pc = "done", ![t].o_abandon = 1]
           /\ UNCHANGED <<c_pending_ops, c_n_ops_pending>>
        \/ /\ \/ t \in c_ops /\ op[t].tag \in {"BIND", "UNBIND", "ABANDON"}
              \/ t \notin c_ops \cup RangeOf(c_pending_ops)
           /\ op' = [op EXCEPT ![o].pc = "done"]
           /\ UNCHANGED <<c_pending_ops, c_n_ops_pending>>
        \/ /\ \E i \in 1..Len(c_pending_ops) :
                /\ c_pending_ops[i] = t
                /\ c_pending_ops' = SubSeq(c_pending_ops, 1, i - 1)
                                       \o SubSeq(c_pending_ops, i + 1, Len(c_pending_ops))
           /\ c_n_ops_pending' = c_n_ops_pending - 1
           /\ op' = [op EXCEPT ![o].pc = "done", ![o].o_conn = FALSE, ![t].pc = "freed"]
     /\ UNCHANGED <<c_conn_state, c_n_ops_received, c_n_ops_executing, c_ops, writer, cri>>

(* cancel_extop up to the unlock of c_mutex.                               *)
cancel_extop(o) ==
  LET t == op[o].target
      Cancels == /\ op[o].o_abandon = 0
                 /\ t \in c_ops
                 /\ op[t].tag \notin {"BIND", "UNBIND", "ABANDON"}
                 /\ op[t].o_cancel = "NONE"
  IN /\ op[o].pc = "run" /\ op[o].tag = "CANCEL" /\ ~cri.reading
     /\ op' = IF Cancels
              THEN [[op EXCEPT ![t].o_cancel = "REQ", ![t].o_abandon = 1]
                          EXCEPT ![o].pc = "cancelling"]
              ELSE [op EXCEPT ![o].pc = "done"]
     /\ UNCHANGED <<c_conn_state, counters, c_ops, c_pending_ops, writer, cri>>

(* Mutant: the canceller does not tell the cancelled operation.            *)
CancelSilently(o) ==
  /\ op[o].pc = "cancelling" /\ ~cri.reading
  /\ op[op[o].target].o_cancel # "REQ"
  /\ op' = [op EXCEPT ![o].pc = "done"]
  /\ UNCHANGED <<c_conn_state, counters, c_ops, c_pending_ops, writer, cri>>

(* The canceller has spun until the cancelled operation answered.          *)
CancelAnswered(o) ==
  /\ op[o].pc = "cancelling" /\ ~cri.reading
  /\ op[op[o].target].o_cancel # "REQ"
  /\ op' = [[op EXCEPT ![op[o].target].o_cancel = "DONE"] EXCEPT ![o].pc = "done"]
  /\ UNCHANGED <<c_conn_state, counters, c_ops, c_pending_ops, writer, cri>>

-----------------------------------------------------------------------------
(* Mutant: a started Bind does not stop the loop.                          *)
StartsPastBind(executing, k) ==
  k <= Len(c_pending_ops) /\ executing + (k - 1) <= Half

(* The loop of connection_resched comes to its k-th operation: one is      *)
(* left, not too many execute, and the one before was no Bind.             *)
Starts(executing, k) ==
  /\ k <= Len(c_pending_ops)
  /\ executing + (k - 1) <= Half
  /\ k > 1 => op[c_pending_ops[k - 1]].tag # "BIND"

Started(executing, n) ==
  /\ \A k \in 1..n : Starts(executing, k)
  /\ ~Starts(executing, n + 1)

(* The first n pending operations are started.                             *)
StartPending(f, active, executing, state, n) ==
  LET S == {c_pending_ops[k] : k \in 1..n}
  IN /\ c_n_ops_pending' = c_n_ops_pending - n
     /\ c_n_ops_executing' = executing + n
     /\ c_pending_ops' = SubSeq(c_pending_ops, n + 1, Len(c_pending_ops))
     /\ c_ops' = active \cup S
     /\ c_conn_state' = connection_op_queue(state, S)
     /\ \E lost \in Losses(S) : op' = connection_op_activate(f, S, lost)
     /\ UNCHANGED writer

(* Mutant: the pending operations are not started.                         *)
NoResched(f, active, executing, state) ==
  \/ /\ state # "CLOSING"
     /\ StartPending(f, active, executing, state, 0)
  \/ /\ state = "CLOSING"
     /\ connection_closing(f, active, c_pending_ops)
     /\ c_n_ops_executing' = executing
     /\ UNCHANGED c_n_ops_pending

(* Mutant: the last operation does not close a closing connection.         *)
NoClose(f, active, executing, state) ==
  \E n \in 0..Len(c_pending_ops) :
    /\ IF writer = 0 /\ state = "ACTIVE" THEN Started(executing, n) ELSE n = 0
    /\ StartPending(f, active, executing, state, n)

connection_resched(f, active, executing, state) ==
  \/ /\ state # "CLOSING"
     /\ \E n \in 0..Len(c_pending_ops) :
          /\ IF writer = 0 /\ state = "ACTIVE" THEN Started(executing, n) ELSE n = 0
          /\ StartPending(f, active, executing, state, n)
  \/ /\ state = "CLOSING"
     /\ connection_closing(f, active, c_pending_ops)
     /\ c_n_ops_executing' = executing
     /\ UNCHANGED c_n_ops_pending

(* Mutant: the counter of executing operations is left alone on a close.   *)
LeaveUncounted(o, tag, state) ==
  LET now == IF tag \in {"UNBIND", "LBER_ERROR"} THEN "CLOSING" ELSE state
  IN /\ connection_resched([op EXCEPT ![o] = Freed(op[o])], c_ops \ {o},
                           IF now = "CLOSING" THEN c_n_ops_executing
                           ELSE c_n_ops_executing - 1, now)
     /\ UNCHANGED <<c_n_ops_received, cri>>

(* The operation leaves the connection; an Unbind or an error closes it,   *)
(* otherwise pending operations take its place; it is freed.               *)
Leave(o, tag, state) ==
  LET now == IF tag \in {"UNBIND", "LBER_ERROR"} THEN "CLOSING" ELSE state
  IN /\ connection_resched([op EXCEPT ![o] = Freed(op[o])], c_ops \ {o},
                           c_n_ops_executing - 1, now)
     /\ UNCHANGED <<c_n_ops_received, cri>>

(* The handler of the operation has returned.                              *)
Returned(o) ==
  \/ op[o].pc = "done"
  \/ op[o].pc = "run" /\ op[o].tag \in {"SEARCH", "BIND", "UNBIND"} /\ writer # o

(* Mutant: the operation does not wait for its canceller.                  *)
LeaveAtOnce(o, rc) ==
  /\ Returned(o) /\ ~cri.reading
  /\ rc = "ABANDON" => op[o].o_abandon # 0
  /\ Leave(o, IF rc = "DISCONNECT" THEN "LBER_ERROR" ELSE op[o].tag, c_conn_state)

(* connection_operation, from the return of the handler: an operation that *)
(* is being cancelled answers its canceller and waits for it.              *)
connection_operation(o, rc) ==
  LET tag   == IF rc = "DISCONNECT" THEN "LBER_ERROR" ELSE op[o].tag
      bound == IF op[o].tag = "BIND" /\ c_conn_state = "BINDING" THEN "ACTIVE" ELSE c_conn_state
  IN /\ Returned(o) /\ ~cri.reading
     /\ rc = "ABANDON" => op[o].o_abandon # 0
     /\ \/ /\ op[o].o_cancel \in {"NONE", "DONE"}
           /\ Leave(o, tag, bound)
        \/ /\ op[o].o_cancel = "REQ"
           /\ op' = [op EXCEPT ![o].pc = "ackwait", ![o].tag = tag,
                               ![o].o_cancel = IF rc = "ABANDON" THEN "ACK" ELSE "TOO_LATE"]
           /\ c_conn_state' = bound
           /\ UNCHANGED <<counters, c_ops, c_pending_ops, writer, cri>>

CancellerDone(o) ==
  /\ op[o].pc = "ackwait" /\ ~cri.reading
  /\ op[o].o_cancel \in {"NONE", "DONE"}
  /\ Leave(o, op[o].tag, c_conn_state)

(* connection_write: the socket became writable while an operation waits   *)
(* for it; one pending operation is started.                               *)
connection_write ==
  /\ setup.events
  /\ ~cri.reading
  /\ writer # 0
  /\ c_pending_ops # <<>>
  /\ c_n_ops_executing <= Half
  /\ StartPending(op, c_ops, c_n_ops_executing, c_conn_state, 1)
  /\ UNCHANGED <<c_n_ops_received, cri>>

(* The assert of slap_op_free ends the process when it fails.              *)
slap_op_free == \A o \in Ids : op[o].pc = "freed" => ~op[o].o_conn

Next ==
  /\ slap_op_free
  /\ \/ \E t \in setup.tags, target \in 0..MaxOps : connection_input(t, target)
     \/ EndRead \/ ReadError \/ SocketDrains \/ connection_write
     \/ \E o \in Ids : \/ Start(o) \/ BlockOnWrite(o)
                       \/ do_abandon(o) \/ cancel_extop(o) \/ CancelAnswered(o)
                       \/ \E rc \in {"DONE", "ABANDON", "DISCONNECT"} :
                            connection_operation(o, rc)
                       \/ CancellerDone(o)
  /\ UNCHANGED setup

Spec == Init /\ [][Next]_vars

(* What the pool and the operations themselves keep doing: a submitted     *)
(* operation is started (module TPool), a spinning thread sees the value   *)
(* it waits for, a handler returns, the reader ends its batch and the      *)
(* client reads what is sent.  Nobody is obliged to send or to close.      *)
Fairness ==
  /\ WF_moving(EndRead)
  /\ WF_moving(SocketDrains)
  /\ \A o \in Ids :
       /\ WF_moving(Start(o))
       /\ WF_moving(do_abandon(o))
       /\ WF_moving(cancel_extop(o))
       /\ WF_moving(CancelAnswered(o))
       /\ WF_moving(connection_operation(o, "DONE"))
       /\ WF_moving(CancellerDone(o))

FairSpec == Spec /\ Fairness

-----------------------------------------------------------------------------
Active == {"held", "queued", "lost", "run", "cancelling", "done", "ackwait"}

TypeOK ==
  /\ c_conn_state \in {"INVALID", "INACTIVE", "CLOSING", "ACTIVE", "BINDING"}
  /\ c_n_ops_received \in 0..MaxOps
  /\ c_n_ops_executing \in 0..MaxOps
  /\ c_n_ops_pending \in 0..MaxOps
  /\ c_pending_ops \in Seq(Ids)
  /\ op \in [Ids -> Op]
  /\ c_ops = {o \in Ids : op[o].pc \in Active}
  /\ RangeOf(c_pending_ops) = {o \in Ids : op[o].pc = "pending"}
  /\ writer \in c_ops \cup {0}
  /\ cri \in [reading : BOOLEAN, first : 0..MaxOps, nullop : BOOLEAN]

(* The counters on which connection_input and connection_resched decide    *)
(* follow the lists: c_n_ops_executing on every way in and out of c_ops,   *)
(* c_n_ops_pending until a Bind or closing frees the deferred requests.    *)
CountersExact ==
  /\ TypeOK
  /\ c_n_ops_executing = Cardinality(c_ops)
  /\ (/\ c_conn_state \notin {"CLOSING", "INVALID"}
      /\ \A o \in Ids : op[o].tag # "BIND") => c_n_ops_pending = Len(c_pending_ops)

(* A Bind runs alone: whatever else is active then was abandoned, or is an *)
(* Abandon or Unbind.  Write events start operations in spite of a Bind.   *)
BindAlone ==
  (c_conn_state = "BINDING" /\ ~setup.events) =>
    \A b, o \in c_ops :
      (op[b].tag = "BIND" /\ op[b].o_abandon = 0 /\ o # b) =>
        \/ op[o].tag \in {"ABANDON", "UNBIND"}
        \/ op[o].o_abandon # 0

(* A request that may be deferred never starts before a deferred one that  *)
(* arrived earlier, whichever of input, resched and write event starts it. *)
NoOvertaking ==
  [][\A o \in c_ops' \ c_ops : \A p \in RangeOf(c_pending_ops') :
       op'[o].tag \in {"ABANDON", "UNBIND"} \/ o < p]_vars

(* The operation that a Cancel spins on without c_mutex is not freed.      *)
CancelledStays ==
  \A o \in Ids : op[o].pc = "cancelling" => op[op[o].target].pc # "freed"

(* Every accepted request runs and is freed, or is dropped with its        *)
(* connection.                                                             *)
OpEnds ==
  \A o \in Ids : (op[o].pc # "none") ~> (op[o].pc = "freed")

(* It does when the pool accepts every operation, none cancels itself, and *)
(* there is no Bind to leave the pending counter wrong.                    *)
PlainOpEnds ==
  \A o \in Ids :
    (/\ op[o].pc # "none"
     /\ ~setup.lose /\ ~setup.self
     /\ setup.tags \cap {"BIND", "ABANDON"} = {}) ~> (op[o].pc = "freed")

(* A connection that is closing is destroyed by its last operation, unless *)
(* one was lost or waits for itself.                                       *)
ClosingDestroyed ==
  (c_conn_state = "CLOSING" /\ ~setup.lose /\ ~setup.self /\ slap_op_free)
     ~> (c_conn_state = "INVALID" \/ ~slap_op_free)
=============================================================================
