---------------------------- MODULE CtxCsn_proofs ----------------------------
(* Proofs about the pending-CSN list for any number of operations, SIDs    *)
(* and timestamps.                                                         *)
EXTENDS CtxCsn, TLAPS

(* Timestamps in order.                                                    *)
LEMMA Between ==
  ASSUME NEW a \in Nat, NEW b \in Nat, NEW c \in Nat, a < b, b <= c
  PROVE  a <= c
OBVIOUS

(* t is s with e before position k.                                        *)
Inserted(t, s, k, e) ==
  /\ Len(t) = Len(s) + 1
  /\ \A i \in 1..(Len(s) + 1) : t[i] = IF i < k THEN s[i] ELSE IF i = k THEN e ELSE s[i - 1]

(* What the two TAILQ operations return.                                   *)
LEMMA InsertType ==
  ASSUME NEW S, NEW s \in Seq(S), NEW k \in 1..(Len(s) + 1), NEW e \in S
  PROVE  InsertBefore(s, k, e) \in Seq(S) /\ Inserted(InsertBefore(s, k, e), s, k, e)
<1>1. Len(s) \in Nat
  OBVIOUS
<1>2. \A i \in 1..(Len(s) + 1) : InsertBefore(s, k, e)[i] \in S
  BY <1>1 DEF InsertBefore
<1>3. QED
  BY <1>1, <1>2 DEF InsertBefore, Inserted

(* The same for a removal.                                                 *)
LEMMA RemoveType ==
  ASSUME NEW S, NEW s \in Seq(S), NEW k \in 1..Len(s)
  PROVE  /\ RemovePos(s, k) \in Seq(S)
         /\ Len(RemovePos(s, k)) = Len(s) - 1
         /\ \A i \in 1..(Len(s) - 1) : RemovePos(s, k)[i] =
              IF i < k THEN s[i] ELSE s[i + 1]
<1>1. Len(s) \in Nat
  OBVIOUS
<1>2. Len(s) - 1 \in Nat
  BY <1>1
<1>3. \A i \in 1..(Len(s) - 1) : RemovePos(s, k)[i] \in S
  BY <1>1 DEF RemovePos
<1>4. QED
  BY <1>1, <1>2, <1>3 DEF RemovePos

(* Committing an entry changes its state alone.                            *)
LEMMA MarkType ==
  ASSUME NEW s \in Seq(Entry), NEW o \in Ops
  PROVE  /\ MarkCommit(s, o) \in Seq(Entry)
         /\ Len(MarkCommit(s, o)) = Len(s)
         /\ \A i \in 1..Len(s) : /\ MarkCommit(s, o)[i].op = s[i].op
                                 /\ MarkCommit(s, o)[i].csn = s[i].csn
                                 /\ MarkCommit(s, o)[i].state =
                                      IF s[i].op = o THEN "COMMIT" ELSE s[i].state
<1>1. Len(s) \in Nat /\ \A i \in 1..Len(s) : s[i] \in Entry
  OBVIOUS
<1>2. \A i \in 1..Len(s) :
         /\ MarkCommit(s, o)[i] \in Entry
         /\ MarkCommit(s, o)[i].op = s[i].op
         /\ MarkCommit(s, o)[i].csn = s[i].csn
         /\ MarkCommit(s, o)[i].state =
              IF s[i].op = o THEN "COMMIT" ELSE s[i].state
  BY <1>1 DEF MarkCommit, Entry
<1>3. QED
  BY <1>1, <1>2 DEF MarkCommit

-----------------------------------------------------------------------------
(* Types at the start.                                                     *)
LEMMA InitType == Init => TypeOK
  BY CtxCsnAssumption DEF Init, TypeOK, Csn, NoCsn, Phase

(* Every step keeps the types.                                             *)
LEMMA NextType == TypeOK /\ [Next]_vars => TypeOK'
<1> SUFFICES ASSUME TypeOK, [Next]_vars PROVE TypeOK'
  OBVIOUS
<1> USE CtxCsnAssumption DEF TypeOK, Phase
<1>1. ASSUME NEW o \in Ops, Begin(o) PROVE TypeOK'
  BY <1>1 DEF Begin
<1>2. ASSUME NEW o \in Ops, Stamp(o) PROVE TypeOK'
  BY <1>2 DEF Stamp, Csn
<1>3. ASSUME NEW o \in Ops, Receive(o) PROVE TypeOK'
  BY <1>3 DEF Receive, Csn
<1>4. ASSUME NEW o \in Ops, slap_queue_csn(o) PROVE TypeOK'
  <2>1. PICK k \in 1..(Len(List) + 1) :
          be_pending_csn_list' =
            InsertBefore(List, k, [op |-> o, csn |-> csn[o], state |-> "PENDING"])
    BY <1>4 DEF slap_queue_csn
  <2>2. [op |-> o, csn |-> csn[o], state |-> "PENDING"] \in Entry
    BY DEF Entry
  <2>3. be_pending_csn_list' \in Seq(Entry)
    BY <2>1, <2>2, InsertType DEF List
  <2>4. QED
    BY <1>4, <2>3 DEF slap_queue_csn
<1>5. ASSUME NEW o \in Ops, Write(o) PROVE TypeOK'
  BY <1>5 DEF Write
<1>6. ASSUME NEW o \in Ops, Fail(o) PROVE TypeOK'
  BY <1>6 DEF Fail
<1>7. ASSUME NEW o \in Ops, syncprov_op_response(o) PROVE TypeOK'
  <2>1. be_pending_csn_list' = MarkCommit(List, o)
    BY <1>7 DEF syncprov_op_response
  <2>2. be_pending_csn_list' \in Seq(Entry)
    BY <2>1, MarkType DEF List
  <2>3. cookie' \in [Sids -> Nat]
    <3>1. CASE cookie' = cookie
      BY <3>1
    <3>2. ASSUME NEW k \in 1..Len(MarkCommit(List, o)),
                 cookie' = slap_cookie_merge_csn(cookie, csn[o].sid,
                                                 MarkCommit(List, o)[k].csn.ts)
          PROVE  cookie' \in [Sids -> Nat]
      <4>1. MarkCommit(List, o)[k] \in Entry
        BY MarkType DEF List
      <4>2. MarkCommit(List, o)[k].csn.ts \in Nat /\ csn[o].sid \in Sids
        BY Zenon, <4>1 DEF Entry, Csn
      <4>3. QED
        BY <3>2, <4>2 DEF slap_cookie_merge_csn
    <3>3. QED
      BY <1>7, <3>1, <3>2 DEF syncprov_op_response, CommitCandidates
  <2>4. QED
    BY <1>7, <2>2, <2>3 DEF syncprov_op_response
<1>8. ASSUME NEW o \in Ops, slap_graduate_commit_csn(o) PROVE TypeOK'
  <2>1. be_pending_csn_list' \in Seq(Entry)
    BY <1>8, RemoveType DEF slap_graduate_commit_csn, List
  <2>2. NoCsn \in Csn
    BY DEF NoCsn, Csn
  <2>3. QED
    BY <1>8, <2>1, <2>2 DEF slap_graduate_commit_csn
<1>9. CASE UNCHANGED vars
  BY <1>9 DEF vars
<1>10. QED
  BY <1>1, <1>2, <1>3, <1>4, <1>5, <1>6, <1>7, <1>8, <1>9 DEF Next

(* Every variable keeps the type the C declarations give it.               *)
THEOREM CtxCsnTypeCorrect == Spec => []TypeOK
<1>1. QED
  BY InitType, NextType, PTL DEF Spec

-----------------------------------------------------------------------------
(* The inductive invariant.  Each part says what the list remembers of the *)
(* operations that are under way.                                          *)
EntryOfOp ==
  \A i \in 1..Len(List) : /\ List[i].csn = csn[List[i].op]
                          /\ pc[List[i].op] \in {"queued", "written", "answered", "failed"}

OneEntryPerOp ==
  \A i, j \in 1..Len(List) : List[i].op = List[j].op => i = j

QueuedHasEntry ==
  \A o \in Ops : pc[o] \in {"queued", "written", "answered"}
                    => \E i \in 1..Len(List) : List[i].op = o

CommitIsStored ==
  /\ \A o \in Ops : pc[o] = "written" => csn[o] \in stored
  /\ \A i \in 1..Len(List) : List[i].state = "COMMIT" => List[i].csn \in stored

ListInv ==
  /\ TypeOK
  /\ EntryOfOp
  /\ OneEntryPerOp
  /\ QueuedHasEntry
  /\ PendingListOrdered
  /\ CommitIsStored
  /\ PublishedIsStored

(* What the types say of the pending list.                                 *)
LEMMA ListFacts ==
  ASSUME TypeOK
  PROVE  /\ Len(List) \in Nat
         /\ \A i \in 1..Len(List) : /\ List[i] \in Entry
                                    /\ List[i].op \in Ops
                                    /\ List[i].csn \in Csn
                                    /\ List[i].csn.ts \in Nat
                                    /\ List[i].csn.sid \in Sids
<1>1. Len(List) \in Nat /\ \A i \in 1..Len(List) : List[i] \in Entry
  BY DEF TypeOK, List
<1>2. QED
  BY <1>1 DEF Entry, Csn

(* What insertion and removal do to the entries.                           *)
LEMMA QueueStep ==
  ASSUME TypeOK, NEW o \in Ops, slap_queue_csn(o)
  PROVE  \E k \in 1..(Len(List) + 1) :
           /\ IsQueuePos(List, csn[o], k)
           /\ Len(List') = Len(List) + 1
           /\ List'[k] = [op |-> o, csn |-> csn[o], state |-> "PENDING"]
           /\ \A i \in 1..Len(List) : i < k => List'[i] = List[i]
           /\ \A i \in 1..Len(List) : i >= k => List'[i + 1] = List[i]
           /\ \A i \in 1..Len(List') : i < k => List'[i] = List[i] /\ i \in 1..Len(List)
           /\ \A i \in 1..Len(List') : i > k => List'[i] = List[i - 1] /\ i - 1 \in 1..Len(List)
<1> DEFINE e == [op |-> o, csn |-> csn[o], state |-> "PENDING"]
<1>1. PICK k \in 1..(Len(List) + 1) :
        /\ IsQueuePos(List, csn[o], k)
        /\ be_pending_csn_list' = InsertBefore(List, k, e)
  BY DEF slap_queue_csn
<1>2. e \in Entry /\ List \in Seq(Entry) /\ Len(List) \in Nat
  BY DEF Entry, TypeOK, List
<1> HIDE DEF e
<1>3. /\ Len(List') = Len(List) + 1
      /\ \A i \in 1..(Len(List) + 1) : List'[i] =
            IF i < k THEN List[i] ELSE IF i = k THEN e ELSE List[i - 1]
  <2>1. List' = InsertBefore(List, k, e)
    BY <1>1 DEF List
  <2>2. Inserted(InsertBefore(List, k, e), List, k, e)
    BY Zenon, <1>2, InsertType
  <2>3. QED
    BY Zenon, <2>1, <2>2 DEF Inserted
<1>4. List'[k] = e
  BY <1>2, <1>3
<1>5. \A i \in 1..Len(List) : i < k => List'[i] = List[i]
  BY <1>2, <1>3
<1>6. \A i \in 1..Len(List) : i >= k => List'[i + 1] = List[i]
  <2> SUFFICES ASSUME NEW i \in 1..Len(List), i >= k PROVE List'[i + 1] = List[i]
    OBVIOUS
  <2>1. i + 1 \in 1..(Len(List) + 1) /\ ~(i + 1 < k) /\ i + 1 # k /\ (i + 1) - 1 = i
    BY <1>2
  <2>2. QED
    BY <1>3, <2>1
<1>7. \A i \in 1..Len(List') : i < k => List'[i] = List[i] /\ i \in 1..Len(List)
  BY <1>2, <1>3
<1>8. \A i \in 1..Len(List') : i > k => List'[i] = List[i - 1] /\ i - 1 \in 1..Len(List)
  BY <1>2, <1>3
<1>9. QED
  BY <1>1, <1>3, <1>4, <1>5, <1>6, <1>7, <1>8 DEF e

(* Graduating takes at most one entry of the operation off the list.       *)
LEMMA GraduateStep ==
  ASSUME TypeOK, NEW o \in Ops, slap_graduate_commit_csn(o)
  PROVE  \/ /\ UNCHANGED be_pending_csn_list
            /\ \A i \in 1..Len(List) : List[i].op # o
         \/ \E k \in 1..Len(List) :
              /\ List[k].op = o
              /\ Len(List') = Len(List) - 1
              /\ \A i \in 1..Len(List) : i < k => List'[i] = List[i] /\ i \in 1..Len(List')
              /\ \A i \in 1..Len(List) : i > k => List'[i - 1] = List[i] /\ i - 1 \in 1..Len(List')
              /\ \A i \in 1..Len(List') : i < k => List'[i] = List[i] /\ i \in 1..Len(List)
              /\ \A i \in 1..Len(List') : i >= k => List'[i] = List[i + 1] /\ i + 1 \in 1..Len(List)
<1>1. List \in Seq(Entry) /\ Len(List) \in Nat
  BY DEF TypeOK, List
<1>2. ASSUME NEW k \in 1..Len(List), List[k].op = o,
             be_pending_csn_list' = RemovePos(List, k)
      PROVE  /\ Len(List') = Len(List) - 1
             /\ \A i \in 1..Len(List) : i < k => List'[i] = List[i] /\ i \in 1..Len(List')
             /\ \A i \in 1..Len(List) : i > k => List'[i - 1] = List[i] /\ i - 1 \in 1..Len(List')
             /\ \A i \in 1..Len(List') : i < k => List'[i] = List[i] /\ i \in 1..Len(List)
             /\ \A i \in 1..Len(List') : i >= k => List'[i] = List[i + 1] /\ i + 1 \in 1..Len(List)
  <2>1. /\ Len(List') = Len(List) - 1
        /\ \A i \in 1..(Len(List) - 1) : List'[i] =
             IF i < k THEN List[i] ELSE List[i + 1]
    BY Zenon, <1>1, <1>2, RemoveType DEF List
  <2>2. QED
    BY <1>1, <2>1
<1>3. QED
  BY Zenon, <1>2 DEF slap_graduate_commit_csn, List

-----------------------------------------------------------------------------
(* The list is empty at the start.                                         *)
LEMMA InitListInv == Init => ListInv
<1> SUFFICES ASSUME Init PROVE ListInv
  OBVIOUS
<1>1. Len(List) = 0 /\ TypeOK
  BY InitType DEF Init, List
<1>2. QED
  BY <1>1 DEF Init, ListInv, EntryOfOp, OneEntryPerOp, QueuedHasEntry,
              PendingListOrdered, CommitIsStored, PublishedIsStored

(* Queueing: the new entry goes behind every smaller or equal timestamp of *)
(* its SID and before every larger one.                                    *)
LEMMA QueuePreserves ==
  ASSUME ListInv, NEW o \in Ops, slap_queue_csn(o), TypeOK'
  PROVE  ListInv'
<1> USE DEF ListInv
<1> DEFINE e == [op |-> o, csn |-> csn[o], state |-> "PENDING"]
<1>1. /\ pc[o] = "stamped" /\ pc' = [pc EXCEPT ![o] = "queued"]
      /\ UNCHANGED <<csn, cookie, stored>>
  BY DEF slap_queue_csn
<1>2. PICK k \in 1..(Len(List) + 1) :
           /\ IsQueuePos(List, csn[o], k)
           /\ Len(List') = Len(List) + 1
           /\ List'[k] = e
           /\ \A i \in 1..Len(List) : i < k => List'[i] = List[i]
           /\ \A i \in 1..Len(List) : i >= k => List'[i + 1] = List[i]
           /\ \A i \in 1..Len(List') : i < k => List'[i] = List[i] /\ i \in 1..Len(List)
           /\ \A i \in 1..Len(List') : i > k => List'[i] = List[i - 1] /\ i - 1 \in 1..Len(List)
  BY QueueStep
<1>3. Len(List) \in Nat /\ \A i \in 1..Len(List) : List[i] \in Entry
  BY DEF TypeOK, List
<1>4. \A i \in 1..Len(List) : List[i].op # o /\ List[i].op \in Ops
  BY <1>1, <1>3 DEF EntryOfOp, Entry
<1>5. e.op = o /\ e.csn = csn[o] /\ e.state = "PENDING"
  OBVIOUS
<1> HIDE DEF e
<1>6. EntryOfOp'
  <2> SUFFICES ASSUME NEW i \in 1..Len(List')
               PROVE  /\ List'[i].csn = csn[List'[i].op]
                      /\ pc'[List'[i].op] \in {"queued", "written", "answered", "failed"}
    BY <1>1 DEF EntryOfOp
  <2>1. CASE i = k
    BY <1>1, <1>2, <1>5, <2>1 DEF TypeOK
  <2>2. CASE i < k
    <3>1. List'[i] = List[i] /\ i \in 1..Len(List)
      BY <1>2, <2>2
    <3>2. QED
      BY <1>1, <1>4, <3>1 DEF EntryOfOp, TypeOK
  <2>3. CASE i > k
    <3>1. List'[i] = List[i - 1] /\ i - 1 \in 1..Len(List)
      BY <1>2, <2>3
    <3>2. QED
      BY <1>1, <1>4, <3>1 DEF EntryOfOp, TypeOK
  <2>4. QED
    BY <1>2, <1>3, <2>1, <2>2, <2>3
<1>7. OneEntryPerOp'
  <2> SUFFICES ASSUME NEW i \in 1..Len(List'), NEW j \in 1..Len(List'),
                      List'[i].op = List'[j].op
               PROVE  i = j
    BY DEF OneEntryPerOp
  <2>1. \A m \in 1..Len(List') : m # k => List'[m].op # o
    <3>1. \A m \in 1..Len(List') : m < k => List'[m].op # o
      BY <1>2, <1>4
    <3>2. \A m \in 1..Len(List') : m > k => List'[m].op # o
      BY <1>2, <1>4
    <3>3. QED
      BY <1>2, <1>3, <3>1, <3>2
  <2>2. CASE i = k \/ j = k
    BY <1>2, <1>5, <2>1, <2>2
  <2>3. CASE i # k /\ j # k
    <3> DEFINE old(m) == IF m < k THEN m ELSE m - 1
    <3>1. \A m \in 1..Len(List') : m # k => old(m) \in 1..Len(List) /\ List'[m] = List[old(m)]
      BY <1>2, <1>3
    <3>2. /\ old(i) \in 1..Len(List) /\ old(j) \in 1..Len(List)
          /\ List[old(i)].op = List[old(j)].op
      BY Zenon, <2>3, <3>1
    <3>3. old(i) = old(j)
      BY Zenon, <3>2 DEF OneEntryPerOp
    <3>4. QED
      BY <1>2, <1>3, <2>3, <3>3
  <2>4. QED
    BY <2>2, <2>3
<1>8. QueuedHasEntry'
  <2> SUFFICES ASSUME NEW p \in Ops, pc'[p] \in {"queued", "written", "answered"}
               PROVE  \E i \in 1..Len(List') : List'[i].op = p
    BY DEF QueuedHasEntry
  <2>1. CASE p = o
    BY <1>2, <1>5, <2>1
  <2>2. CASE p # o
    <3>1. PICK i \in 1..Len(List) : List[i].op = p
      BY <1>1, <2>2 DEF QueuedHasEntry, TypeOK
    <3>2. CASE i < k
      BY <1>2, <1>3, <3>1, <3>2
    <3>3. CASE i >= k
      BY <1>2, <1>3, <3>1, <3>3
    <3>4. QED
      BY <1>2, <1>3, <3>2, <3>3
  <2>3. QED
    BY <2>1, <2>2
<1>9. PendingListOrdered'
  <2> SUFFICES ASSUME NEW i \in 1..Len(List'), NEW j \in 1..Len(List'), i < j,
                      List'[i].csn.sid = List'[j].csn.sid
               PROVE  List'[i].csn.ts <= List'[j].csn.ts
    BY DEF PendingListOrdered
  <2>1. csn[o].ts \in Nat /\ \A m \in 1..Len(List) : List[m].csn.ts \in Nat
    BY Zenon, <1>3 DEF TypeOK, Entry, Csn
  <2>2. \A m \in 1..Len(List) :
          (List[m].csn.sid = csn[o].sid /\ m < k) => List[m].csn.ts <= csn[o].ts
    <3> SUFFICES ASSUME NEW m \in 1..Len(List), List[m].csn.sid = csn[o].sid, m < k
                 PROVE  List[m].csn.ts <= csn[o].ts
      OBVIOUS
    <3>1. m \notin Later(List, csn[o])
      BY <1>2, <1>3 DEF IsQueuePos
    <3>2. QED
      BY <2>1, <3>1 DEF Later
  <2>3. \A m \in 1..Len(List) :
          (List[m].csn.sid = csn[o].sid /\ m >= k) => csn[o].ts <= List[m].csn.ts
    <3> SUFFICES ASSUME NEW m \in 1..Len(List), List[m].csn.sid = csn[o].sid, m >= k
                 PROVE  csn[o].ts <= List[m].csn.ts
      OBVIOUS
    <3>1. k \in Later(List, csn[o])
      BY <1>2, <1>3 DEF IsQueuePos
    <3>2. /\ k \in 1..Len(List) /\ List[k].csn.sid = csn[o].sid
          /\ csn[o].ts < List[k].csn.ts
      BY <3>1 DEF Later
    <3>3. List[k].csn.ts <= List[m].csn.ts
      <4>1. CASE m = k
        BY <2>1, <3>2, <4>1
      <4>2. CASE k < m
        BY <3>2, <4>2 DEF PendingListOrdered
      <4>3. QED
        BY <1>3, <4>1, <4>2
    <3>4. csn[o].ts \in Nat /\ List[k].csn.ts \in Nat /\ List[m].csn.ts \in Nat
      BY Zenon, <2>1, <3>2
    <3>5. QED
      BY Zenon, <3>2, <3>3, <3>4, Between
  <2>4. CASE i = k
    <3>1. List'[j] = List[j - 1] /\ j - 1 \in 1..Len(List)
      BY <1>2, <2>4
    <3>2. j - 1 >= k
      BY <1>2, <1>3, <2>4
    <3>3. List[j - 1].csn.sid = csn[o].sid /\ List'[i].csn = csn[o]
      BY <1>2, <1>5, <2>4, <3>1
    <3>4. QED
      BY <2>3, <3>1, <3>2, <3>3
  <2>5. CASE j = k
    <3>1. List'[i] = List[i] /\ i \in 1..Len(List)
      BY <1>2, <2>5
    <3>2. List[i].csn.sid = csn[o].sid /\ List'[j].csn = csn[o]
      BY <1>2, <1>5, <2>5, <3>1
    <3>3. QED
      BY <2>2, <2>5, <3>1, <3>2
  <2>6. CASE i # k /\ j # k
    <3>1. CASE j < k
      BY <1>2, <1>3, <3>1 DEF PendingListOrdered
    <3>2. CASE i < k /\ j > k
      <4>1. /\ i \in 1..Len(List) /\ j - 1 \in 1..Len(List) /\ i < j - 1
            /\ List'[i] = List[i] /\ List'[j] = List[j - 1]
        BY <1>2, <1>3, <3>2
      <4>2. QED
        BY <4>1 DEF PendingListOrdered
    <3>3. CASE i > k
      <4>1. /\ i - 1 \in 1..Len(List) /\ j - 1 \in 1..Len(List) /\ i - 1 < j - 1
            /\ List'[i] = List[i - 1] /\ List'[j] = List[j - 1]
        BY <1>2, <1>3, <3>3
      <4>2. QED
        BY <4>1 DEF PendingListOrdered
    <3>4. QED
      BY <1>2, <1>3, <2>6, <3>1, <3>2, <3>3
  <2>7. QED
    BY <2>4, <2>5, <2>6
<1>10. CommitIsStored'
  <2>1. \A p \in Ops : pc'[p] = "written" => csn'[p] \in stored'
    BY <1>1 DEF CommitIsStored, TypeOK
  <2>2. ASSUME NEW i \in 1..Len(List'), List'[i].state = "COMMIT"
        PROVE  List'[i].csn \in stored'
    <3>1. i # k
      BY <1>2, <1>5, <2>2
    <3>2. CASE i < k
      BY <1>1, <1>2, <2>2, <3>2 DEF CommitIsStored
    <3>3. CASE i > k
      BY <1>1, <1>2, <2>2, <3>3 DEF CommitIsStored
    <3>4. QED
      BY <1>2, <1>3, <3>1, <3>2, <3>3
  <2>3. QED
    BY <2>1, <2>2 DEF CommitIsStored
<1>11. PublishedIsStored'
  BY <1>1 DEF PublishedIsStored
<1>12. QED
  BY <1>6, <1>7, <1>8, <1>9, <1>10, <1>11

(* Reporting a commit changes one entry's state; the value it publishes is *)
(* that of a committed entry.                                              *)
LEMMA RespondStep ==
  ASSUME ListInv, NEW o \in Ops, syncprov_op_response(o)
  PROVE  /\ Len(List') = Len(List)
         /\ \A i \in 1..Len(List) :
              /\ List'[i].op = List[i].op
              /\ List'[i].csn = List[i].csn
              /\ List'[i].state = IF List[i].op = o THEN "COMMIT" ELSE List[i].state
              /\ List'[i].state = "COMMIT" => List'[i].csn \in stored
         /\ \/ cookie' = cookie
            \/ \E k \in 1..Len(List) :
                 /\ List'[k].csn.sid = csn[o].sid
                 /\ List'[k].state = "COMMIT"
                 /\ \A j \in 1..(k - 1) :
                      List'[j].csn.sid = csn[o].sid => List'[j].state = "COMMIT"
                 /\ cookie' = [cookie EXCEPT ![csn[o].sid] = List'[k].csn.ts]
<1> USE DEF ListInv
<1>1. /\ be_pending_csn_list' = MarkCommit(List, o)
      /\ pc[o] = "written"
      /\ \/ cookie' = cookie
         \/ \E k \in CommitCandidates(MarkCommit(List, o), o, csn[o].sid) :
              cookie' = slap_cookie_merge_csn(cookie, csn[o].sid, MarkCommit(List, o)[k].csn.ts)
  BY DEF syncprov_op_response
<1>2. /\ Len(List') = Len(List)
      /\ \A i \in 1..Len(List) :
           /\ List'[i].op = List[i].op
           /\ List'[i].csn = List[i].csn
           /\ List'[i].state = IF List[i].op = o THEN "COMMIT" ELSE List[i].state
  BY ZenonT(60), <1>1, MarkType DEF TypeOK, List
<1>3. \A i \in 1..Len(List) : List'[i].state = "COMMIT" => List'[i].csn \in stored
  BY <1>1, <1>2 DEF CommitIsStored, EntryOfOp
<1>4. ASSUME NEW k \in CommitCandidates(List', o, csn[o].sid),
             cookie' = slap_cookie_merge_csn(cookie, csn[o].sid, List'[k].csn.ts)
      PROVE  \/ cookie' = cookie
             \/ /\ k \in 1..Len(List)
                /\ List'[k].csn.sid = csn[o].sid
                /\ List'[k].state = "COMMIT"
                /\ \A j \in 1..(k - 1) :
                     List'[j].csn.sid = csn[o].sid => List'[j].state = "COMMIT"
                /\ cookie' = [cookie EXCEPT ![csn[o].sid] = List'[k].csn.ts]
  BY <1>2, <1>4 DEF CommitCandidates, slap_cookie_merge_csn
<1>5. List' = MarkCommit(List, o)
  BY <1>1 DEF List
<1>6. CASE cookie' = cookie
  BY <1>2, <1>3, <1>6
<1>7. CASE cookie' # cookie
  <2>1. PICK k \in CommitCandidates(List', o, csn[o].sid) :
           cookie' = slap_cookie_merge_csn(cookie, csn[o].sid, List'[k].csn.ts)
    BY <1>1, <1>5, <1>7
  <2>2. QED
    BY Zenon, <1>2, <1>3, <1>4, <1>7, <2>1
<1>8. QED
  BY <1>6, <1>7

(* The answer commits the entry and may publish a CSN.                     *)
LEMMA RespondPreserves ==
  ASSUME ListInv, NEW o \in Ops, syncprov_op_response(o), TypeOK'
  PROVE  ListInv'
<1> USE DEF ListInv
<1>1. /\ pc[o] = "written" /\ pc' = [pc EXCEPT ![o] = "answered"]
      /\ UNCHANGED <<csn, stored>>
  BY DEF syncprov_op_response
<1>2. /\ Len(List') = Len(List)
      /\ \A i \in 1..Len(List) :
           /\ List'[i].op = List[i].op
           /\ List'[i].csn = List[i].csn
           /\ List'[i].state = "COMMIT" => List'[i].csn \in stored
  BY RespondStep
<1>3. \A i \in 1..Len(List) : List[i].op \in Ops
  BY ListFacts
<1>4. EntryOfOp'
  BY Zenon, <1>1, <1>2, <1>3 DEF EntryOfOp, TypeOK
<1>5. OneEntryPerOp'
  BY <1>2 DEF OneEntryPerOp
<1>6. QueuedHasEntry'
  <2> SUFFICES ASSUME NEW p \in Ops, pc'[p] \in {"queued", "written", "answered"}
               PROVE  \E i \in 1..Len(List') : List'[i].op = p
    BY DEF QueuedHasEntry
  <2>1. pc[p] \in {"queued", "written", "answered"}
    BY <1>1 DEF TypeOK
  <2>2. QED
    BY <1>2, <2>1 DEF QueuedHasEntry
<1>7. PendingListOrdered'
  BY <1>2 DEF PendingListOrdered
<1>8. CommitIsStored'
  BY <1>1, <1>2 DEF CommitIsStored, TypeOK
<1>9. PublishedIsStored'
  <2> SUFFICES ASSUME NEW s \in Sids, cookie'[s] # 0
               PROVE  [sid |-> s, ts |-> cookie'[s]] \in stored
    BY <1>1 DEF PublishedIsStored
  <2>1. CASE cookie'[s] = cookie[s]
    BY <2>1 DEF PublishedIsStored
  <2>2. CASE cookie'[s] # cookie[s]
    <3>1. PICK k \in 1..Len(List) :
                 /\ List'[k].csn.sid = csn[o].sid
                 /\ List'[k].state = "COMMIT"
                 /\ cookie' = [cookie EXCEPT ![csn[o].sid] = List'[k].csn.ts]
      BY <2>2, RespondStep
    <3>2. s = csn[o].sid /\ cookie'[s] = List'[k].csn.ts
      BY <2>2, <3>1 DEF TypeOK
    <3>3. List'[k].csn \in stored /\ List'[k].csn \in Csn
      BY <1>2, <3>1 DEF TypeOK
    <3>4. List'[k].csn = [sid |-> List'[k].csn.sid, ts |-> List'[k].csn.ts]
      BY <3>3 DEF Csn
    <3>5. QED
      BY <3>1, <3>2, <3>3, <3>4
  <2>3. QED
    BY <2>1, <2>2
<1>10. QED
  BY <1>4, <1>5, <1>6, <1>7, <1>8, <1>9

(* Leaving the list keeps the order of the entries that stay.              *)
LEMMA GraduatePreserves ==
  ASSUME ListInv, NEW o \in Ops, slap_graduate_commit_csn(o), TypeOK'
  PROVE  ListInv'
<1> USE DEF ListInv
<1>1. /\ pc[o] \in {"answered", "failed"} /\ pc' = [pc EXCEPT ![o] = "idle"]
      /\ csn' = [csn EXCEPT ![o] = NoCsn]
      /\ UNCHANGED <<cookie, stored>>
  BY DEF slap_graduate_commit_csn
<1>2. Len(List) \in Nat /\ \A i \in 1..Len(List) : List[i].op \in Ops
  BY ListFacts
<1>3. /\ Len(List') \in Nat
      /\ \A i \in 1..Len(List') : \E m \in 1..Len(List) :
           List'[i] = List[m] /\ List[m].op # o
      /\ \A m \in 1..Len(List) : List[m].op # o => \E i \in 1..Len(List') : List'[i] = List[m]
      /\ \A i, j \in 1..Len(List') : i < j =>
           \E m, n \in 1..Len(List) : m < n /\ List'[i] = List[m] /\ List'[j] = List[n]
  <2>1. CASE UNCHANGED be_pending_csn_list /\ \A i \in 1..Len(List) : List[i].op # o
    BY <1>2, <2>1 DEF List
  <2>2. ASSUME NEW k \in 1..Len(List),
               /\ List[k].op = o
               /\ Len(List') = Len(List) - 1
               /\ \A i \in 1..Len(List) : i < k => List'[i] = List[i] /\ i \in 1..Len(List')
               /\ \A i \in 1..Len(List) : i > k => List'[i - 1] = List[i] /\ i - 1 \in 1..Len(List')
               /\ \A i \in 1..Len(List') : i < k => List'[i] = List[i] /\ i \in 1..Len(List)
               /\ \A i \in 1..Len(List') : i >= k => List'[i] = List[i + 1] /\ i + 1 \in 1..Len(List)
        PROVE  /\ Len(List') \in Nat
               /\ \A i \in 1..Len(List') : \E m \in 1..Len(List) :
                    List'[i] = List[m] /\ List[m].op # o
               /\ \A m \in 1..Len(List) : List[m].op # o =>
                    \E i \in 1..Len(List') : List'[i] = List[m]
               /\ \A i, j \in 1..Len(List') : i < j =>
                    \E m, n \in 1..Len(List) : m < n /\ List'[i] = List[m] /\ List'[j] = List[n]
    <3> DEFINE old(i) == IF i < k THEN i ELSE i + 1
    <3>1. \A i \in 1..Len(List') : old(i) \in 1..Len(List) /\ old(i) # k /\ List'[i] = List[old(i)]
      BY <1>2, <2>2
    <3>2. \A i, j \in 1..Len(List') : i < j => old(i) < old(j)
      BY <1>2, <2>2
    <3>3. \A m \in 1..Len(List) : m # k => List[m].op # o
      BY <2>2 DEF OneEntryPerOp
    <3>4. \A m \in 1..Len(List) : m # k => \E i \in 1..Len(List') : List'[i] = List[m]
      <4> SUFFICES ASSUME NEW m \in 1..Len(List), m # k
                   PROVE  \E i \in 1..Len(List') : List'[i] = List[m]
        OBVIOUS
      <4>1. CASE m < k
        BY <2>2, <4>1
      <4>2. CASE m > k
        BY <2>2, <4>2
      <4>3. QED
        BY <1>2, <4>1, <4>2
    <3> HIDE DEF old
    <3>5. \A i \in 1..Len(List') : \E m \in 1..Len(List) :
             List'[i] = List[m] /\ List[m].op # o
      BY <3>1, <3>3
    <3>6. \A m \in 1..Len(List) : List[m].op # o =>
             \E i \in 1..Len(List') : List'[i] = List[m]
      BY <2>2, <3>4
    <3>7. \A i, j \in 1..Len(List') : i < j =>
             \E m, n \in 1..Len(List) : m < n /\ List'[i] = List[m] /\ List'[j] = List[n]
      BY Zenon, <3>1, <3>2
    <3>8. Len(List') \in Nat
      BY <1>2, <2>2
    <3>9. QED
      BY <3>5, <3>6, <3>7, <3>8
  <2>3. QED
    BY Zenon, <2>1, <2>2, GraduateStep
<1>4. EntryOfOp'
  <2> SUFFICES ASSUME NEW i \in 1..Len(List')
               PROVE  /\ List'[i].csn = csn'[List'[i].op]
                      /\ pc'[List'[i].op] \in {"queued", "written", "answered", "failed"}
    BY DEF EntryOfOp
  <2>1. PICK m \in 1..Len(List) : List'[i] = List[m] /\ List[m].op # o
    BY Zenon, <1>3
  <2>2. QED
    BY <1>1, <1>2, <2>1 DEF EntryOfOp, TypeOK
<1>5. OneEntryPerOp'
  <2> SUFFICES ASSUME NEW i \in 1..Len(List'), NEW j \in 1..Len(List'), i < j,
                      List'[i].op = List'[j].op
               PROVE  FALSE
    BY <1>3 DEF OneEntryPerOp
  <2>1. PICK m \in 1..Len(List), n \in 1..Len(List) :
            m < n /\ List'[i] = List[m] /\ List'[j] = List[n]
    BY Zenon, <1>3
  <2>2. QED
    BY <1>2, <2>1 DEF OneEntryPerOp
<1>6. QueuedHasEntry'
  <2> SUFFICES ASSUME NEW p \in Ops, pc'[p] \in {"queued", "written", "answered"}
               PROVE  \E i \in 1..Len(List') : List'[i].op = p
    BY DEF QueuedHasEntry
  <2>1. p # o /\ pc[p] \in {"queued", "written", "answered"}
    BY <1>1 DEF TypeOK
  <2>2. PICK m \in 1..Len(List) : List[m].op = p
    BY <2>1 DEF QueuedHasEntry
  <2>3. QED
    BY Zenon, <1>3, <2>1, <2>2
<1>7. PendingListOrdered'
  <2> SUFFICES ASSUME NEW i \in 1..Len(List'), NEW j \in 1..Len(List'), i < j,
                      List'[i].csn.sid = List'[j].csn.sid
               PROVE  List'[i].csn.ts <= List'[j].csn.ts
    BY DEF PendingListOrdered
  <2>1. PICK m \in 1..Len(List), n \in 1..Len(List) :
            m < n /\ List'[i] = List[m] /\ List'[j] = List[n]
    BY <1>3
  <2>2. QED
    BY <2>1 DEF PendingListOrdered
<1>8. CommitIsStored'
  <2>1. ASSUME NEW i \in 1..Len(List'), List'[i].state = "COMMIT"
        PROVE  List'[i].csn \in stored'
    <3>1. PICK m \in 1..Len(List) : List'[i] = List[m]
      BY <1>3
    <3>2. QED
      BY <1>1, <2>1, <3>1 DEF CommitIsStored
  <2>2. \A p \in Ops : pc'[p] = "written" => csn'[p] \in stored'
    BY <1>1 DEF CommitIsStored, TypeOK
  <2>3. QED
    BY <2>1, <2>2 DEF CommitIsStored
<1>9. PublishedIsStored'
  BY <1>1 DEF PublishedIsStored
<1>10. QED
  BY <1>4, <1>5, <1>6, <1>7, <1>8, <1>9

(* Every step keeps the list invariant.                                    *)
LEMMA NextListInv == ListInv /\ [Next]_vars => ListInv'
<1> SUFFICES ASSUME ListInv, [Next]_vars PROVE ListInv'
  OBVIOUS
<1>0. TypeOK'
  BY NextType DEF ListInv
<1>1. \A i \in 1..Len(List) : List[i].op \in Ops
  BY ListFacts DEF ListInv
<1>2. ASSUME NEW o \in Ops, Begin(o) \/ Fail(o) \/ Stamp(o) \/ Receive(o) \/ Write(o)
      PROVE  ListInv'
  <2>1. /\ UNCHANGED <<be_pending_csn_list, cookie>>
        /\ stored \subseteq stored'
        /\ \A p \in Ops : p # o => pc'[p] = pc[p] /\ csn'[p] = csn[p]
    BY <1>2 DEF ListInv, TypeOK, Begin, Fail, Stamp, Receive, Write
  <2>2. \/ /\ pc[o] \in {"idle", "begun"} /\ pc'[o] \in {"begun", "stamped", "failed"}
        \/ /\ pc[o] = "queued" /\ pc'[o] \in {"failed", "written"} /\ csn'[o] = csn[o]
           /\ pc'[o] = "written" => csn[o] \in stored'
    BY <1>2 DEF ListInv, TypeOK, Begin, Fail, Stamp, Receive, Write
  <2>3. EntryOfOp'
    BY <1>1, <2>1, <2>2 DEF ListInv, EntryOfOp, List
  <2>4. OneEntryPerOp' /\ PendingListOrdered'
    BY <2>1 DEF ListInv, OneEntryPerOp, PendingListOrdered, List
  <2>5. QueuedHasEntry'
    BY <2>1, <2>2 DEF ListInv, QueuedHasEntry, List
  <2>6. CommitIsStored'
    BY <2>1, <2>2 DEF ListInv, CommitIsStored, List
  <2>7. PublishedIsStored'
    BY <2>1 DEF ListInv, PublishedIsStored
  <2>8. QED
    BY <1>0, <2>3, <2>4, <2>5, <2>6, <2>7 DEF ListInv
<1>3. CASE UNCHANGED vars
  BY <1>0, <1>3 DEF vars, ListInv, TypeOK, List, EntryOfOp, OneEntryPerOp,
       QueuedHasEntry, PendingListOrdered, CommitIsStored, PublishedIsStored
<1>4. QED
  BY <1>0, <1>2, <1>3, QueuePreserves, RespondPreserves, GraduatePreserves
     DEF Next

(* The list invariant holds in every state.                                *)
LEMMA ListInvCorrect == Spec => []ListInv
  BY InitListInv, NextListInv, PTL DEF Spec

(* The entries of one SID always stand in timestamp order, for any number  *)
(* of operations and SIDs: slap_get_commit_csn never meets assert(0).      *)
THEOREM ListAlwaysOrdered == Spec => []PendingListOrdered
<1>1. ListInv => PendingListOrdered
  BY DEF ListInv
<1>2. QED
  BY <1>1, ListInvCorrect, PTL

(* What syncprov_op_response publishes is always the CSN of a change that  *)
(* the backend has committed.                                              *)
THEOREM PublishedAlwaysStored == Spec => []PublishedIsStored
<1>1. ListInv => PublishedIsStored
  BY DEF ListInv
<1>2. QED
  BY <1>1, ListInvCorrect, PTL

(* No step publishes a timestamp beyond a change of that SID that is still *)
(* pending on the list, with or without the big lock.                      *)
THEOREM PublishNeverOvertakes == Spec => PublishOvertakesNoPending
<1> DEFINE A == \A s \in Sids : cookie'[s] # cookie[s] =>
                  \A i \in 1..Len(List') :
                    (List'[i].csn.sid = s /\ List'[i].state = "PENDING")
                       => List'[i].csn.ts >= cookie'[s]
<1>1. ListInv /\ ListInv' /\ [Next]_vars => [A]_vars
  <2> SUFFICES ASSUME ListInv, ListInv', Next, NEW s \in Sids, cookie'[s] # cookie[s],
                      NEW i \in 1..Len(List'), List'[i].csn.sid = s,
                      List'[i].state = "PENDING"
               PROVE  List'[i].csn.ts >= cookie'[s]
    OBVIOUS
  <2>1. PICK o \in Ops : syncprov_op_response(o)
    BY Zenon DEF Next, Begin, Stamp, Receive, slap_queue_csn, Write, Fail, slap_graduate_commit_csn
  <2>2. /\ Len(List') = Len(List)
        /\ \E k \in 1..Len(List) :
             /\ List'[k].csn.sid = csn[o].sid
             /\ List'[k].state = "COMMIT"
             /\ \A j \in 1..(k - 1) :
                  List'[j].csn.sid = csn[o].sid => List'[j].state = "COMMIT"
             /\ cookie' = [cookie EXCEPT ![csn[o].sid] = List'[k].csn.ts]
    BY Zenon, <2>1, RespondStep
  <2>3. PICK k \in 1..Len(List') :
             /\ List'[k].csn.sid = csn[o].sid
             /\ List'[k].state = "COMMIT"
             /\ \A j \in 1..(k - 1) :
                  List'[j].csn.sid = csn[o].sid => List'[j].state = "COMMIT"
             /\ cookie' = [cookie EXCEPT ![csn[o].sid] = List'[k].csn.ts]
    BY Zenon, <2>2
  <2>4. s = csn[o].sid /\ cookie'[s] = List'[k].csn.ts
    BY <2>3 DEF ListInv, TypeOK
  <2>5. Len(List') \in Nat /\ \A j \in 1..Len(List') : List'[j].csn.ts \in Nat
    <3>1. Len(List') \in Nat /\ \A j \in 1..Len(List') : List'[j] \in Entry
      BY DEF ListInv, TypeOK, List
    <3>2. QED
      BY <3>1 DEF Entry, Csn
  <2>6. i > k
    BY <2>2, <2>3, <2>4, <2>5
  <2>7. List'[k].csn.ts <= List'[i].csn.ts
    BY <2>3, <2>4, <2>6 DEF ListInv, PendingListOrdered
  <2>8. QED
    BY <2>4, <2>5, <2>7
<1>2. QED
  BY <1>1, ListInvCorrect, PTL DEF Spec, PublishOvertakesNoPending

-----------------------------------------------------------------------------
(* Under the big lock: one write at a time from its stamp to its           *)
(* graduation, hence one entry on the list at most.                        *)
OneWriter == \A o \in Ops : pc[o] # "idle" => owner = o

LocalStampBound ==
  /\ cookie[LocalSid] <= clock
  /\ \A o \in Ops : csn[o].sid = LocalSid => csn[o].ts <= clock

StoredIsPublished ==
  \A c \in stored : \/ c.ts <= cookie[c.sid]
                    \/ \E o \in Ops : pc[o] = "written" /\ csn[o] = c

LockInv == /\ ListInv
           /\ OneWriter
           /\ LocalStampBound
           /\ NoWriteBehindCookie
           /\ StoredIsPublished

(* With a single writer the response publishes the writer's own CSN.       *)
LEMMA LockedRespondStep ==
  ASSUME LockInv, NEW o \in Ops, syncprov_op_response(o)
  PROVE  /\ \A s \in Sids : cookie'[s] \in Nat /\ cookie[s] <= cookie'[s]
         /\ \A s \in Sids : s # csn[o].sid => cookie'[s] = cookie[s]
         /\ csn[o].ts <= cookie'[csn[o].sid]
         /\ cookie'[csn[o].sid] \in {cookie[csn[o].sid], csn[o].ts}
<1> USE DEF LockInv, ListInv
<1> DEFINE m == MarkCommit(List, o)
           cand == CommitCandidates(m, o, csn[o].sid)
<1>1. /\ pc[o] = "written"
      /\ \/ cand = {}
         \/ \E k \in cand : cookie' = slap_cookie_merge_csn(cookie, csn[o].sid, m[k].csn.ts)
  BY DEF syncprov_op_response
<1>2. /\ csn[o] \in Csn /\ csn[o].ts \in Nat /\ csn[o].sid \in Sids
      /\ cookie \in [Sids -> Nat]
  BY DEF TypeOK, Csn
<1>3. PICK i \in 1..Len(List) : List[i].op = o
  BY <1>1 DEF QueuedHasEntry
<1>4. \A j \in 1..Len(List) : j = i
  BY <1>1, <1>3, ListFacts DEF EntryOfOp, OneEntryPerOp, OneWriter
<1>5. /\ Len(m) = Len(List) /\ m[i].op = o /\ m[i].csn = csn[o] /\ m[i].state = "COMMIT"
  <2>1. List \in Seq(Entry) /\ List[i].csn = csn[o]
    BY <1>3 DEF TypeOK, List, EntryOfOp
  <2>2. QED
    BY Zenon, <1>3, <2>1, MarkType
<1>6. Len(List) \in Nat
  BY ListFacts
<1>7. i = 1 /\ Len(List) = 1
  BY <1>3, <1>4, <1>6
<1> HIDE DEF m
<1>8. i \in cand
  BY <1>2, <1>5, <1>7 DEF CommitCandidates
<1>9. cand \subseteq {i}
  BY <1>5, <1>7 DEF CommitCandidates
<1>10. cookie' = slap_cookie_merge_csn(cookie, csn[o].sid, csn[o].ts)
  BY <1>1, <1>5, <1>8, <1>9
<1>11. QED
  BY <1>2, <1>10 DEF slap_cookie_merge_csn

(* Nothing is published or stored at the start.                            *)
LEMMA InitLockInv == Init => LockInv
  BY CtxCsnAssumption, InitListInv
     DEF Init, LockInv, OneWriter, LocalStampBound, NoWriteBehindCookie,
         StoredIsPublished, NoCsn

(* With one writer at a time every step keeps the lock invariant.          *)
LEMMA NextLockInv == biglock /\ LockInv /\ [Next]_vars => LockInv'
<1> SUFFICES ASSUME biglock, LockInv, [Next]_vars PROVE LockInv'
  OBVIOUS
<1> USE CtxCsnAssumption DEF LockInv
<1>0. ListInv' /\ TypeOK /\ TypeOK'
  BY NextListInv DEF ListInv
<1>1. /\ \A o \in Ops : csn[o].ts \in Nat /\ csn[o].sid \in Sids
      /\ clock \in Nat /\ cookie[LocalSid] \in Nat
  BY Zenon, <1>0 DEF TypeOK, Csn
<1>2. ASSUME NEW o \in Ops, Begin(o) PROVE LockInv'
  BY <1>0, <1>1, <1>2 DEF Begin, TypeOK, OneWriter, LocalStampBound, NoWriteBehindCookie,
                          StoredIsPublished
<1>3. ASSUME NEW o \in Ops, Stamp(o) PROVE LockInv'
  BY <1>0, <1>1, <1>3 DEF Stamp, TypeOK, OneWriter, LocalStampBound, NoWriteBehindCookie,
                          StoredIsPublished
<1>4. ASSUME NEW o \in Ops, Receive(o) PROVE LockInv'
  BY <1>0, <1>1, <1>4 DEF Receive, TypeOK, OneWriter, LocalStampBound, NoWriteBehindCookie,
                          StoredIsPublished
<1>5. ASSUME NEW o \in Ops, slap_queue_csn(o) PROVE LockInv'
  BY <1>0, <1>1, <1>5 DEF slap_queue_csn, TypeOK, OneWriter, LocalStampBound,
                          NoWriteBehindCookie, StoredIsPublished
<1>6. ASSUME NEW o \in Ops, Write(o) PROVE LockInv'
  BY <1>0, <1>1, <1>6 DEF Write, TypeOK, OneWriter, LocalStampBound, NoWriteBehindCookie,
                          StoredIsPublished
<1>7. ASSUME NEW o \in Ops, Fail(o) PROVE LockInv'
  BY <1>0, <1>1, <1>7 DEF Fail, TypeOK, OneWriter, LocalStampBound, NoWriteBehindCookie,
                          StoredIsPublished
<1>8. ASSUME NEW o \in Ops, syncprov_op_response(o) PROVE LockInv'
  <2>1. /\ pc[o] = "written" /\ pc' = [pc EXCEPT ![o] = "answered"]
        /\ UNCHANGED <<clock, csn, stored, owner>>
    BY <1>8 DEF syncprov_op_response
  <2>2. OneWriter'
    BY <1>0, <2>1 DEF OneWriter, TypeOK
  <2>3. \A p \in Ops : p # o => pc[p] = "idle" /\ pc'[p] = "idle"
    BY <1>0, <2>1 DEF OneWriter, TypeOK
  <2>4. LocalStampBound'
    BY <1>1, <1>8, <2>1, LockedRespondStep DEF LocalStampBound
  <2>5. NoWriteBehindCookie'
    BY <1>0, <2>1, <2>3 DEF NoWriteBehindCookie, TypeOK
  <2>6. StoredIsPublished'
    <3> SUFFICES ASSUME NEW c \in stored PROVE c.ts <= cookie'[c.sid]
      BY <2>1 DEF StoredIsPublished
    <3>1. c.ts \in Nat /\ c.sid \in Sids /\ cookie[c.sid] \in Nat
      BY Zenon, <1>0 DEF TypeOK, Csn
    <3>2. CASE c.ts <= cookie[c.sid]
      BY <1>8, <3>1, <3>2, LockedRespondStep
    <3>3. CASE csn[o] = c
      BY <1>8, <3>3, LockedRespondStep
    <3>4. QED
      BY <2>3, <3>2, <3>3 DEF StoredIsPublished
  <2>7. QED
    BY <1>0, <2>2, <2>4, <2>5, <2>6
<1>9. ASSUME NEW o \in Ops, slap_graduate_commit_csn(o) PROVE LockInv'
  <2>1. /\ pc[o] # "written" /\ pc' = [pc EXCEPT ![o] = "idle"]
        /\ csn' = [csn EXCEPT ![o] = NoCsn]
        /\ owner' = NoOp
        /\ UNCHANGED <<clock, cookie, stored>>
    BY <1>9 DEF slap_graduate_commit_csn
  <2>2. \A p \in Ops : pc'[p] = "idle"
    BY <1>0, <1>9, <2>1 DEF slap_graduate_commit_csn, OneWriter, TypeOK
  <2>3. OneWriter' /\ NoWriteBehindCookie'
    BY <2>2 DEF OneWriter, NoWriteBehindCookie
  <2>4. LocalStampBound'
    BY <1>0, <1>1, <2>1 DEF LocalStampBound, TypeOK, NoCsn
  <2>5. StoredIsPublished'
    <3>1. \A p \in Ops : pc[p] = "written" => FALSE
      BY <1>0, <1>9, <2>1, <2>2 DEF TypeOK
    <3>2. QED
      BY <2>1, <3>1 DEF StoredIsPublished
  <2>6. QED
    BY <1>0, <2>3, <2>4, <2>5
<1>10. CASE UNCHANGED vars
  BY Zenon, <1>0, <1>10 DEF vars, OneWriter, LocalStampBound, NoWriteBehindCookie, StoredIsPublished
<1>11. QED
  BY <1>2, <1>3, <1>4, <1>5, <1>6, <1>7, <1>8, <1>9, <1>10 DEF Next

(* The big lock is configured once and for all.                            *)
LEMMA LockStays == [Next]_vars => biglock' = biglock
BY Zenon DEF vars, Next, Begin, Stamp, Receive, slap_queue_csn, Write, Fail, syncprov_op_response,
       slap_graduate_commit_csn

(* With `biglock local` a local change is always committed ahead of the    *)
(* published timestamp, so that no consumer that holds the vector can miss *)
(* it, and whenever no write is under way the vector covers every          *)
(* committed change.                                                       *)
THEOREM LockedCookieStaysExact == Spec => []LockedCookieExact
<1> DEFINE Inv == biglock => LockInv
<1>1. Init => Inv
  BY InitLockInv
<1>2. Inv /\ [Next]_vars => Inv'
  BY NextLockInv, LockStays
<1>3. Inv => LockedCookieExact
  BY DEF LockInv, LockedCookieExact, IdleCookieExact, StoredIsPublished
<1>4. QED
  BY <1>1, <1>2, <1>3, PTL DEF Spec
=============================================================================
