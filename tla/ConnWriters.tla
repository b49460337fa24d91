----------------------------- MODULE ConnWriters -----------------------------
(***************************************************************************)
(* The writers of one client connection and its closing: send_ldap_ber     *)
(* (result.c) against connection_closing, connection_close and             *)
(* connection_destroy (connection.c).                                      *)
(*                                                                         *)
(* Operations of the connection run in threads of the pool and send PDUs;  *)
(* one writes at a time, the others wait for their turn on c_write1_cv.    *)
(* Whoever closes the connection holds c_mutex, negates c_writers, wakes   *)
(* the writers and waits, on the same condition, until all have left.      *)
(* c_mutex and c_write1_mutex are kept over a step where the code keeps    *)
(* them; the idle state of the thread pool does not matter here.           *)
(***************************************************************************)
EXTENDS Integers, Sequences, FiniteSets

CONSTANTS Ops,          \* operations of the connection, all executing at first
          Listener,     \* closes the connection from outside (timeout, shutdown)
          Nobody,
          MaxPdu,       \* PDUs that one operation sends
          WaitFails     \* BOOLEAN or a part of it: whether poll() in
                        \* slapd_wait_writer may time out or be interrupted

Threads == Ops \cup {Listener}

ASSUME ConnWritersAssumption ==
  /\ Listener \notin Ops /\ Nobody \notin Threads
  /\ MaxPdu \in Nat
  /\ WaitFails \subseteq BOOLEAN
  /\ IsFiniteSet(Ops)

VARIABLES
  c_mutex, c_write1_mutex,   \* their holders
  c_conn_state,              \* "INVALID" once the connection is destroyed
  c_ops,
  c_writers, c_writing, c_writewaiter,
  abandoned,                 \* operations with o_abandon set
  shut,                      \* the socket was shut down
  pc,
  after,                     \* return addresses inside connection_closing
  sent,                      \* PDUs tried by each operation
  waitfails                  \* the member of WaitFails that this behaviour follows

mutexes == <<c_mutex, c_write1_mutex>>
writing == <<c_writers, c_writing, c_writewaiter>>
moving == <<mutexes, c_conn_state, c_ops, writing, abandoned, shut, pc, after, sent>>
vars == <<moving, waitfails>>

Init ==
  /\ c_mutex = Nobody /\ c_write1_mutex = Nobody
  /\ c_conn_state = "ACTIVE"
  /\ c_ops = Ops
  /\ c_writers = 0 /\ c_writing = FALSE /\ c_writewaiter = FALSE
  /\ abandoned = {} /\ shut = FALSE
  /\ pc = [t \in Threads |-> IF t \in Ops THEN "run" ELSE "listen"]
  /\ after = [t \in Threads |-> <<>>]
  /\ sent = [o \in Ops |-> 0]
  /\ waitfails \in WaitFails

Goto(t, l) == pc' = [pc EXCEPT ![t] = l]

(* A function of connection.c returns to its caller.                       *)
Return(t) == Goto(t, Head(after[t])) /\ after' = [after EXCEPT ![t] = Tail(@)]

Waiting == [wait_turn |-> "woken_turn", wait_close |-> "woken_close"]

Waiters(p) == {t \in Threads : p[t] \in DOMAIN Waiting}

WakeOne(p, t) == [p EXCEPT ![t] = Waiting[p[t]]]

(* pthread_cond_signal(&c->c_write1_cv)                                    *)
Signal(p) ==
  \/ Waiters(p) = {} /\ pc' = p
  \/ \E t \in Waiters(p) : pc' = WakeOne(p, t)

(* pthread_cond_broadcast(&c->c_write1_cv)                                 *)
Broadcast(p) ==
  pc' = [t \in Threads |-> IF t \in Waiters(p) THEN Waiting[p[t]] ELSE p[t]]

(* Thread t owns c_write1_mutex, or takes it now because it was woken.     *)
Holds1(t) == c_write1_mutex = t \/ (c_write1_mutex = Nobody /\ pc[t] \notin {"turn", "write"})

-----------------------------------------------------------------------------
(* send_ldap_ber                                                           *)

Refused(o) == o \in abandoned \/ c_conn_state # "ACTIVE" \/ c_writers < 0

send_ldap_ber(o) ==
  /\ pc[o] = "run" /\ sent[o] < MaxPdu
  /\ c_mutex = Nobody /\ c_write1_mutex = Nobody
  /\ sent' = [sent EXCEPT ![o] = @ + 1]
  /\ \/ /\ Refused(o)
        /\ UNCHANGED <<c_write1_mutex, c_writers, pc>>
     \/ /\ ~Refused(o)
        /\ c_writers' = c_writers + 1
        /\ c_write1_mutex' = o
        /\ Goto(o, "turn")
  /\ UNCHANGED <<c_mutex, c_conn_state, c_ops, c_writing, c_writewaiter, abandoned, shut, after>>

(* Mutant: the writer does not wait for its turn.                          *)
MustWaitNever == FALSE

MustWait == c_writers > 0 /\ c_writing

(* Mutant: the negated counter is taken down like the positive one.        *)
LeaveClosedDown(o) ==
  /\ c_writers' = c_writers - 1
  /\ Goto(o, "run")

LeaveClosed(o) ==
  /\ c_writers' = c_writers + 1
  /\ IF c_writers = -1 THEN Signal([pc EXCEPT ![o] = "run"]) ELSE Goto(o, "run")

WaitTurn(o) == Goto(o, "wait_turn") /\ c_write1_mutex' = Nobody

Turn(o) ==
  /\ pc[o] \in {"turn", "woken_turn"} /\ Holds1(o)
  /\ \/ /\ MustWait
        /\ WaitTurn(o)
        /\ UNCHANGED <<c_writers, c_writing>>
     \/ /\ ~MustWait /\ c_writers < 0
        /\ LeaveClosed(o)
        /\ c_write1_mutex' = Nobody
        /\ UNCHANGED c_writing
     \/ /\ ~MustWait /\ c_writers >= 0
        /\ c_writing' = TRUE
        /\ c_write1_mutex' = o
        /\ Goto(o, "write")
        /\ UNCHANGED c_writers
  /\ UNCHANGED <<c_mutex, c_conn_state, c_ops, c_writewaiter, abandoned, shut, after, sent>>

(* The PDU is out, or the connection is closing.                           *)
EndWrite(o) ==
  /\ c_writing' = FALSE
  /\ c_writers' = IF c_writers < 0 THEN c_writers + 1 ELSE c_writers - 1
  /\ IF c_writers >= -1 THEN Signal([pc EXCEPT ![o] = "run"]) ELSE Goto(o, "run")

(* Label fail: the writer leaves and goes to close the connection itself.  *)
FailWrite(o) ==
  /\ c_writing' = FALSE
  /\ c_writers' = c_writers - 1
  /\ Goto(o, "fail")

(* One call of ber_flush2: everything written, would block, or an error.   *)
Write(o) ==
  /\ pc[o] = "write" /\ Holds1(o)
  /\ c_write1_mutex' = Nobody
  /\ \/ /\ EndWrite(o)
        /\ UNCHANGED c_writewaiter
     \/ /\ c_conn_state = "ACTIVE"
        /\ FailWrite(o)
        /\ UNCHANGED c_writewaiter
     \/ /\ c_conn_state = "ACTIVE"
        /\ c_writewaiter' = TRUE
        /\ Goto(o, "poll")
        /\ UNCHANGED <<c_writers, c_writing>>
  /\ UNCHANGED <<c_mutex, c_conn_state, c_ops, abandoned, shut, after, sent>>

(* slapd_wait_writer returns: the socket is writable or shut down, or, if  *)
(* a write timeout is configured, the time is over.                        *)
PollReturns(o) ==
  /\ pc[o] = "poll"
  /\ c_writewaiter' = FALSE
  /\ \/ Goto(o, "ready")
     \/ waitfails /\ ~shut /\ Goto(o, "timeout")
  /\ UNCHANGED <<mutexes, c_conn_state, c_ops, c_writers, c_writing, abandoned, shut, after, sent>>

AfterPoll(o) ==
  /\ pc[o] \in {"ready", "timeout"} /\ Holds1(o)
  /\ \/ /\ pc[o] = "timeout"
        /\ FailWrite(o)
        /\ c_write1_mutex' = Nobody
     \/ /\ pc[o] = "ready" /\ c_writers < 0
        /\ EndWrite(o)
        /\ c_write1_mutex' = Nobody
     \/ /\ pc[o] = "ready" /\ c_writers >= 0
        /\ Goto(o, "write")
        /\ c_write1_mutex' = o
        /\ UNCHANGED <<c_writers, c_writing>>
  /\ UNCHANGED <<c_mutex, c_conn_state, c_ops, c_writewaiter, abandoned, shut, after, sent>>

-----------------------------------------------------------------------------
(* connection_closing, called with c_mutex held; it returns to the first   *)
(* label of ls.                                                            *)
connection_closing(t, ls) ==
  IF c_conn_state = "ACTIVE"
    THEN /\ c_conn_state' = "CLOSING"
         /\ abandoned' = c_ops'
         /\ Goto(t, "wake")
         /\ after' = [after EXCEPT ![t] = ls]
    ELSE /\ Goto(t, Head(ls))
         /\ after' = [after EXCEPT ![t] = Tail(ls)]
         /\ UNCHANGED <<c_conn_state, abandoned>>

(* The writer that failed.                                                 *)
FailClosing(o) ==
  /\ pc[o] = "fail" /\ c_mutex = Nobody
  /\ c_mutex' = o
  /\ c_ops' = c_ops
  /\ connection_closing(o, <<"unlock_run">>)
  /\ UNCHANGED <<c_write1_mutex, writing, shut, sent>>

(* The listener thread: idle timeout, shutdown of the server.              *)
ListenerClosing ==
  /\ pc[Listener] = "listen" /\ c_mutex = Nobody
  /\ c_mutex' = Listener
  /\ c_ops' = c_ops
  /\ connection_closing(Listener, <<"unlock_done">>)
  /\ UNCHANGED <<c_write1_mutex, writing, shut, sent>>

(* connection_operation after the operation: it leaves c_ops, an Unbind    *)
(* closes the connection, and connection_resched follows.                  *)
Finish(o) ==
  /\ pc[o] = "run" /\ c_mutex = Nobody
  /\ c_mutex' = o
  /\ c_ops' = c_ops \ {o}
  /\ \/ connection_closing(o, <<"resched", "unlock_done">>)
     \/ /\ Goto(o, "resched")
        /\ after' = [after EXCEPT ![o] = <<"unlock_done">>]
        /\ UNCHANGED <<c_conn_state, abandoned>>
  /\ UNCHANGED <<c_write1_mutex, writing, shut, sent>>

(* connection_wake_writers, from connection_closing ("wake", which goes on *)
(* with connection_resched if there are no writers) and from               *)
(* connection_close ("rewake").                                            *)
connection_wake_writers(t) ==
  /\ pc[t] \in {"wake", "rewake"} /\ c_write1_mutex = Nobody
  /\ \/ /\ c_writers > 0
        /\ c_writers' = -c_writers
        /\ Broadcast([pc EXCEPT ![t] = "shut"])
        /\ UNCHANGED after
     \/ /\ c_writers <= 0
        /\ IF pc[t] = "wake" THEN Goto(t, "resched") /\ UNCHANGED after ELSE Return(t)
        /\ UNCHANGED c_writers
  /\ UNCHANGED <<mutexes, c_conn_state, c_ops, c_writing, c_writewaiter, abandoned, shut, sent>>

(* Mutant: a writer that waits for the socket is left alone.               *)
NoShut(t) == UNCHANGED shut

ShutSocket(t) == shut' = (shut \/ c_writewaiter)

Shut(t) ==
  /\ pc[t] = "shut"
  /\ ShutSocket(t)
  /\ Goto(t, "await")
  /\ UNCHANGED <<mutexes, c_conn_state, c_ops, writing, abandoned, after, sent>>

(* Wait until c_writers is 0 again.                                        *)
AwaitWriters(t) ==
  /\ pc[t] \in {"await", "woken_close"} /\ c_write1_mutex = Nobody
  /\ IF c_writers = 0 THEN Return(t) ELSE Goto(t, "wait_close") /\ UNCHANGED after
  /\ UNCHANGED <<mutexes, c_conn_state, c_ops, writing, abandoned, shut, sent>>

(* connection_resched of a closing connection calls connection_close.      *)
connection_resched(t) ==
  /\ pc[t] = "resched"
  /\ IF c_writewaiter \/ c_conn_state # "CLOSING"
       THEN Return(t)
       ELSE Goto(t, "rewake") /\ after' = [after EXCEPT ![t] = <<"close">> \o @]
  /\ UNCHANGED <<mutexes, c_conn_state, c_ops, writing, abandoned, shut, sent>>

(* Mutant: operations are not waited for.                                  *)
MayDestroyEarly == ~c_writing

MayDestroy == c_ops = {} /\ ~c_writing

connection_destroy == c_conn_state' = "INVALID"

(* connection_close: connection_destroy, or leave it to a later operation. *)
connection_close(t) ==
  /\ pc[t] = "close"
  /\ IF MayDestroy THEN connection_destroy ELSE UNCHANGED c_conn_state
  /\ Return(t)
  /\ UNCHANGED <<mutexes, c_ops, writing, abandoned, shut, sent>>

Unlock(t) ==
  /\ pc[t] \in {"unlock_run", "unlock_done"}
  /\ c_mutex' = Nobody
  /\ Goto(t, IF pc[t] = "unlock_run" THEN "run" ELSE "done")
  /\ UNCHANGED <<c_write1_mutex, c_conn_state, c_ops, writing, abandoned, shut, after, sent>>

-----------------------------------------------------------------------------
Closing(t) ==
  \/ connection_wake_writers(t) \/ Shut(t) \/ AwaitWriters(t)
  \/ connection_resched(t) \/ connection_close(t) \/ Unlock(t)

Step(o) == Turn(o) \/ Write(o) \/ AfterPoll(o) \/ FailClosing(o)

Next ==
  /\ \/ \E o \in Ops : send_ldap_ber(o) \/ Step(o) \/ PollReturns(o) \/ Finish(o)
     \/ \E t \in Threads : Closing(t)
     \/ ListenerClosing
  /\ UNCHANGED waitfails

Spec == Init /\ [][Next]_vars

(* Threads run on; operations end; poll() returns at the latest when the   *)
(* socket was shut down.  Nothing makes a client read, nor the listener    *)
(* close the connection.                                                   *)
FairSpec ==
  /\ Spec
  /\ \A o \in Ops : /\ WF_moving(Step(o)) /\ WF_moving(Finish(o))
                    /\ WF_moving(PollReturns(o) /\ shut)
  /\ \A t \in Threads : WF_moving(Closing(t))

-----------------------------------------------------------------------------
Pc == {"run", "turn", "wait_turn", "woken_turn", "write", "poll", "ready", "timeout", "fail",
       "listen", "wake", "rewake", "shut", "await", "wait_close", "woken_close", "resched", "close",
       "unlock_run", "unlock_done", "done"}

TypeOK ==
  /\ c_mutex \in Threads \cup {Nobody}
  /\ c_write1_mutex \in {o \in Ops : pc[o] \in {"turn", "write"}} \cup {Nobody}
  /\ c_conn_state \in {"ACTIVE", "CLOSING", "INVALID"}
  /\ c_ops \subseteq Ops /\ abandoned \subseteq Ops
  /\ c_writers \in Int
  /\ c_writing \in BOOLEAN /\ c_writewaiter \in BOOLEAN /\ shut \in BOOLEAN
  /\ pc \in [Threads -> Pc]
  /\ after \in [Threads -> Seq(Pc)]
  /\ sent \in [Ops -> 0..MaxPdu]
  /\ waitfails \in WaitFails

InWrite(o) == pc[o] \in {"write", "poll", "ready", "timeout"}

InSend(o) == InWrite(o) \/ pc[o] \in {"turn", "wait_turn", "woken_turn"}

(* "write only one pdu at a time": two operations never have the socket    *)
(* buffer together, also when the first waits for the client to read.      *)
OnePduAtATime == \A o, p \in Ops : (InWrite(o) /\ InWrite(p)) => o = p

(* c_writers counts the operations inside send_ldap_ber, positive while    *)
(* the connection is open, negative once the closer has turned it, as long *)
(* as no wait for the socket fails.                                        *)
WritersCounted ==
  LET n == Cardinality({o \in Ops : InSend(o)})
  IN TypeOK /\ (~waitfails => c_writers \in {n, -n})

(* connection_destroy asserts c_writers == 0, c_writewaiter == 0 and empty *)
(* lists: no operation is left that could touch the connection after it.   *)
DestroyedQuiet ==
  c_conn_state = "INVALID" =>
    /\ c_ops = {} /\ c_writers = 0 /\ ~c_writewaiter /\ ~c_writing
    /\ \A o \in Ops : ~InSend(o) /\ pc[o] \notin {"run", "fail"}

(* A connection that starts to close is destroyed: its writers leave, the  *)
(* closer continues ("we're the last waiter, let the closer continue"),    *)
(* and the last operation does the rest.                                   *)
ClosingEnds == c_conn_state = "CLOSING" ~> c_conn_state = "INVALID"

(* That holds as long as no wait for the socket fails.                     *)
PatientClosingEnds ==
  (c_conn_state = "CLOSING" /\ ~waitfails) ~> c_conn_state = "INVALID"
=============================================================================
