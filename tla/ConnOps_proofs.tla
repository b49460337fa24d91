--------------------------- MODULE ConnOps_proofs ---------------------------
(***************************************************************************)
(* The operations of one connection, for any number of requests, any pool  *)
(* size, any limit on pending requests and any setups together.            *)
(*                                                                         *)
(* IInv is the inductive invariant.  OpAt and CancelAt say what the record *)
(* of one request holds at each label, and what a Cancel that spins knows  *)
(* of its target.  Counts relates the counters to the lists, Reader the    *)
(* batch to the operation it holds, Closing what is left of a connection   *)
(* that is closing, and Binding how a Bind relates to the state of the     *)
(* connection, to the other active operations and to the pending list.     *)
(***************************************************************************)
EXTENDS ConnOps, Integers, TLAPS

(* The leaves are proved by Zenon, except those that cite another prover.  *)
USE ZenonT(60)

Closed == c_conn_state \in {"CLOSING", "INVALID"}

OpAt(o) ==
  /\ op[o].pc = "none" <=> o > c_n_ops_received
  /\ op[o].pc = "none" => op[o].tag = "NONE"
  /\ op[o].tag \in {"ABANDON", "CANCEL"} => op[o].target # 0
  /\ op[o].o_cancel # "NONE" => op[o].tag # "BIND" /\ op[o].o_abandon # 0
  /\ op[o].pc = "cancelling" => op[o].tag = "CANCEL"

CancelAt(o) ==
  op[o].pc = "cancelling" =>
    /\ op[o].target \in c_ops
    /\ op[op[o].target].o_cancel \in {"REQ", "ACK", "TOO_LATE"}
    /\ \A p \in Ids : op[p].pc = "cancelling" /\ op[p].target = op[o].target => p = o

Increasing(s) == \A i, j \in 1..Len(s) : i < j => s[i] < s[j]

Counts ==
  /\ c_n_ops_executing = Cardinality(c_ops)
  /\ Len(c_pending_ops) <= c_n_ops_pending
  /\ c_n_ops_pending <= c_n_ops_received
  /\ ~Closed /\ (\A o \in Ids : op[o].tag # "BIND") => c_n_ops_pending = Len(c_pending_ops)

Reader ==
  /\ ~cri.reading => cri = NotReading
  /\ cri.reading => ~Closed
  /\ cri.nullop => cri.first # 0
  /\ \A o \in Ids : op[o].pc = "held" <=> (cri.first = o /\ ~cri.nullop)

Closing ==
  /\ Closed => c_pending_ops = <<>> /\ writer = 0
  /\ c_conn_state \in {"INVALID", "INACTIVE"} => c_ops = {}
  /\ writer # 0 => op[writer].pc = "run" /\ op[writer].tag \in {"SEARCH", "BIND"}

Harmless(r) == r.tag \in {"ABANDON", "UNBIND"} \/ r.o_abandon # 0

(* A Bind that is active without write events has the state BINDING to     *)
(* itself; a pending one is the first of the list, because its arrival     *)
(* emptied it.                                                             *)
BindingAt(state, f, active) ==
  /\ \A b \in active : f[b].tag = "BIND" => state \in {"BINDING", "CLOSING"}
  /\ state = "BINDING" => \A b, o \in active : f[b].tag = "BIND" /\ f[o].tag = "BIND" => b = o
  /\ \A b, o \in active : f[b].tag = "BIND" /\ f[b].o_abandon = 0 /\ o # b => Harmless(f[o])

FirstAt(f, active, pending) ==
  /\ \A i \in 2..Len(pending) : f[pending[i]].tag # "BIND"
  /\ pending # <<>> /\ f[pending[1]].tag = "BIND" => \A o \in active : Harmless(f[o])

Binding ==
  /\ ~setup.events => BindingAt(c_conn_state, op, c_ops)
  /\ FirstAt(op, c_ops, c_pending_ops)

IInv ==
  /\ TypeOK /\ setup \in Setups
  /\ \A o \in Ids : OpAt(o) /\ CancelAt(o)
  /\ Increasing(c_pending_ops) /\ Counts /\ Reader /\ Closing /\ Binding

-----------------------------------------------------------------------------
(* Sequences.                                                              *)

(* The sequence that is empty.                                             *)
LEMMA SeqNone ==
  ASSUME NEW S
  PROVE  /\ <<>> \in Seq(S) /\ Len(<<>>) = 0
         /\ \A s \in Seq(S) : s # <<>> => Len(s) \in Nat \ {0}
BY SMT

(* The places of a sequence.                                               *)
LEMMA SeqPlaces ==
  ASSUME NEW S, NEW s \in Seq(S)
  PROVE  /\ Len(s) \in Nat /\ DOMAIN s = 1..Len(s)
         /\ s \in [1..Len(s) -> S]
BY SMT

(* What is at a place.                                                     *)
LEMMA SeqPlace ==
  ASSUME NEW S, NEW s \in Seq(S), NEW i \in 1..Len(s)
  PROVE  s[i] \in S
BY SMT

(* Append adds a place at the end.                                         *)
LEMMA SeqAppend ==
  ASSUME NEW S, NEW s \in Seq(S), NEW e \in S
  PROVE  /\ Append(s, e) \in Seq(S) /\ Len(Append(s, e)) = Len(s) + 1
         /\ Append(s, e)[Len(s) + 1] = e /\ \A i \in 1..Len(s) : Append(s, e)[i] = s[i]
BY SMT

(* The places of two sequences joined.                                     *)
LEMMA SeqConcat ==
  ASSUME NEW S, NEW s \in Seq(S), NEW u \in Seq(S)
  PROVE  /\ s \o u \in Seq(S) /\ Len(s \o u) = Len(s) + Len(u)
         /\ \A j \in 1..(Len(s) + Len(u)) :
              (s \o u)[j] = IF j <= Len(s) THEN s[j] ELSE u[j - Len(s)]
BY SMT

(* The places of a part of a sequence.                                     *)
LEMMA SeqPart ==
  ASSUME NEW S, NEW s, NEW m \in Int, NEW n \in Int, \A i \in m..n : s[i] \in S
  PROVE  /\ SubSeq(s, m, n) \in Seq(S)
         /\ Len(SubSeq(s, m, n)) = IF m <= n THEN n - m + 1 ELSE 0
         /\ \A i \in 1..(n - m + 1) : SubSeq(s, m, n)[i] = s[m + i - 1]
BY SMT

-----------------------------------------------------------------------------
(* Facts about lists of requests.                                          *)

(* A request is put at the tail (connection_input).                        *)
LEMMA AppendList ==
  ASSUME NEW s \in Seq(Ids), NEW o \in Ids
  PROVE  /\ Append(s, o) \in Seq(Ids) /\ Append(s, o) # <<>> /\ Len(Append(s, o)) = Len(s) + 1
         /\ \A i \in 1..Len(s) : Append(s, o)[i] = s[i]
         /\ Append(s, o)[Len(s) + 1] = o
         /\ RangeOf(Append(s, o)) = RangeOf(s) \cup {o}
         /\ Increasing(s) /\ (\A x \in RangeOf(s) : x < o) => Increasing(Append(s, o))
<1> DEFINE t == Append(s, o)
<1>1. /\ t \in Seq(Ids) /\ t # <<>> /\ Len(t) = Len(s) + 1
      /\ \A i \in 1..Len(s) : t[i] = s[i]
      /\ t[Len(s) + 1] = o
  BY SMT, SeqAppend
<1>2. Len(s) \in Nat /\ 1..(Len(s) + 1) = 1..Len(s) \cup {Len(s) + 1}
  BY SMT, SeqPlaces
<1> HIDE DEF t
<1>3. RangeOf(t) = RangeOf(s) \cup {o}
  BY ZenonT(60), <1>1, <1>2 DEF RangeOf
<1>4. ASSUME Increasing(s), \A x \in RangeOf(s) : x < o
      PROVE  Increasing(t)
  <2> SUFFICES ASSUME NEW i \in 1..Len(t), NEW j \in 1..Len(t), i < j
               PROVE  t[i] < t[j]
    BY DEF Increasing
  <2>1. i \in 1..Len(s)
    BY SMT, <1>1, <1>2
  <2>2. CASE j \in 1..Len(s)
    BY <1>1, <1>4, <2>1, <2>2 DEF Increasing
  <2>3. CASE j = Len(s) + 1
    BY <1>1, <1>4, <2>1, <2>3 DEF RangeOf
  <2> QED BY SMT, <1>1, <1>2, <2>2, <2>3
<1> QED BY <1>1, <1>3, <1>4 DEF t

(* The list t is s without the request at i.                               *)
LEMMA WithoutOne ==
  ASSUME NEW s \in Seq(Ids), Increasing(s), NEW i \in 1..Len(s), NEW t \in Seq(Ids),
         Len(t) = Len(s) - 1,
         \A j \in 1..Len(t) : j < i => t[j] = s[j],
         \A j \in 1..Len(t) : j >= i => t[j] = s[j + 1]
  PROVE  Increasing(t) /\ RangeOf(t) = RangeOf(s) \ {s[i]}
<1>0. Len(s) \in Nat /\ i \in Nat /\ i >= 1 /\ i <= Len(s) /\ Len(t) \in Nat
  BY SMT, SeqPlaces
<1>1. \A j \in 1..Len(s) : s[j] \in Int
  <2>1. \A j \in 1..Len(s) : s[j] \in Ids
    BY SeqPlace
  <2> QED BY SMT, <2>1, ConnOpsAssumption DEF Ids
<1>2. \A j, k \in 1..Len(s) : j < k => s[j] < s[k]
  BY DEF Increasing
<1>5. Increasing(t)
  <2> SUFFICES ASSUME NEW j \in 1..Len(t), NEW k \in 1..Len(t), j < k
               PROVE  t[j] < t[k]
    BY DEF Increasing
  <2>1. /\ j \in 1..Len(s) /\ j + 1 \in 1..Len(s) /\ k \in 1..Len(s) /\ k + 1 \in 1..Len(s)
        /\ j < k + 1 /\ j + 1 < k + 1
    BY SMT, <1>0
  <2>2. CASE k < i
    BY SMT, <1>2, <2>1, <2>2
  <2>3. CASE j >= i
    BY SMT, <1>2, <2>1, <2>3
  <2>4. CASE j < i /\ k >= i
    BY <1>2, <2>1, <2>4
  <2> QED BY SMT, <1>0, <2>2, <2>3, <2>4
<1>6. ASSUME NEW j \in 1..Len(s), j # i PROVE s[j] # s[i]
  <2>1. j < i \/ i < j
    BY SMT, <1>0, <1>6
  <2>2. s[j] < s[i] \/ s[i] < s[j]
    BY <1>2, <2>1
  <2> QED BY SMT, <1>1, <2>2
<1>7. ASSUME NEW j \in 1..Len(t) PROVE t[j] \in RangeOf(s) \ {s[i]}
  <2>1. j \in 1..Len(s) /\ j + 1 \in 1..Len(s)
    BY SMT, <1>0
  <2>2. CASE j < i
    <3>1. j # i
      BY SMT, <1>0, <2>2
    <3> QED BY <1>6, <2>1, <2>2, <3>1 DEF RangeOf
  <2>3. CASE j >= i
    <3>1. j + 1 # i
      BY SMT, <1>0, <2>3
    <3> QED BY <1>6, <2>1, <2>3, <3>1 DEF RangeOf
  <2> QED BY SMT, <1>0, <2>2, <2>3
<1>8. ASSUME NEW j \in 1..Len(s), s[j] # s[i] PROVE s[j] \in RangeOf(t)
  <2>0. j # i
    BY <1>8
  <2>1. CASE j < i
    <3>1. j \in 1..Len(t)
      BY SMT, <1>0, <2>1
    <3> QED BY <2>1, <3>1 DEF RangeOf
  <2>2. CASE j > i
    <3>1. j - 1 \in 1..Len(t) /\ j - 1 >= i /\ (j - 1) + 1 = j
      BY SMT, <1>0, <2>2
    <3>2. t[j - 1] = s[j]
      BY <3>1
    <3> QED BY <3>1, <3>2 DEF RangeOf
  <2> QED BY SMT, <1>0, <2>0, <2>1, <2>2
<1>9. RangeOf(t) = RangeOf(s) \ {s[i]}
  BY <1>7, <1>8 DEF RangeOf
<1> QED BY <1>5, <1>9

(* The list t is a, what precedes i in s, and then b, what follows it.     *)
LEMMA Joined ==
  ASSUME NEW s \in Seq(Ids), NEW i \in 1..Len(s), NEW t \in Seq(Ids),
         NEW a \in Seq(Ids), Len(a) = i - 1, \A j \in 1..(i - 1) : a[j] = s[j],
         NEW b \in Seq(Ids), Len(b) = Len(s) - i, \A j \in 1..(Len(s) - i) : b[j] = s[i + j],
         Len(t) = Len(a) + Len(b),
         \A j \in 1..(Len(a) + Len(b)) : t[j] = IF j <= Len(a) THEN a[j] ELSE b[j - Len(a)]
  PROVE  /\ Len(t) = Len(s) - 1
         /\ \A j \in 1..Len(t) : j < i => t[j] = s[j]
         /\ \A j \in 1..Len(t) : j >= i => t[j] = s[j + 1]
<1>0. Len(s) \in Nat /\ i \in Nat /\ i >= 1 /\ i <= Len(s)
  BY SMT, SeqPlaces
<1>4. Len(t) = Len(s) - 1
  BY SMT, <1>0
<1>5. ASSUME NEW j \in 1..Len(t), j < i PROVE t[j] = s[j]
  <2>1. j \in 1..(Len(a) + Len(b)) /\ j <= Len(a) /\ j \in 1..(i - 1)
    BY SMT, <1>0, <1>4, <1>5
  <2>2. t[j] = a[j]
    BY <2>1
  <2> QED BY <2>1, <2>2
<1>6. ASSUME NEW j \in 1..Len(t), j >= i PROVE t[j] = s[j + 1]
  <2>1. /\ j \in 1..(Len(a) + Len(b)) /\ ~(j <= Len(a)) /\ j - Len(a) \in 1..(Len(s) - i)
        /\ i + (j - Len(a)) = j + 1
    BY SMT, <1>0, <1>4, <1>6
  <2>2. t[j] = b[j - Len(a)]
    BY <2>1
  <2>3. b[j - Len(a)] = s[i + (j - Len(a))]
    BY <2>1
  <2> QED BY <2>1, <2>2, <2>3
<1> QED BY <1>4, <1>5, <1>6

Removed(t, s, i) ==
  /\ t \in Seq(Ids) /\ Len(t) = Len(s) - 1 /\ Increasing(t)
  /\ RangeOf(t) = RangeOf(s) \ {s[i]}
  /\ \A j \in 1..Len(t) : j < i => t[j] = s[j]
  /\ \A j \in 1..Len(t) : j >= i => t[j] = s[j + 1]

(* One request is taken out of the list (do_abandon).                      *)
LEMMA RemoveFromList ==
  ASSUME NEW s \in Seq(Ids), Increasing(s), NEW i \in 1..Len(s)
  PROVE  \A t : t = SubSeq(s, 1, i - 1) \o SubSeq(s, i + 1, Len(s)) => Removed(t, s, i)
<1> DEFINE a == SubSeq(s, 1, i - 1)
           b == SubSeq(s, i + 1, Len(s))
           t == a \o b
<1>0. Len(s) \in Nat /\ i \in Nat /\ i >= 1 /\ i <= Len(s) /\ \A j \in 1..Len(s) : s[j] \in Ids
  BY SMT, SeqPlaces, SeqPlace
<1>1. a \in Seq(Ids) /\ Len(a) = i - 1 /\ \A j \in 1..(i - 1) : a[j] = s[j]
  <2>1. \A j \in 1..(i - 1) : s[j] \in Ids
    BY SMT, <1>0
  <2>2. /\ a \in Seq(Ids) /\ Len(a) = IF 1 <= i - 1 THEN (i - 1) - 1 + 1 ELSE 0
        /\ \A j \in 1..((i - 1) - 1 + 1) : a[j] = s[1 + j - 1]
    BY SMT, <1>0, <2>1, SeqPart
  <2> HIDE DEF a
  <2> QED BY SMT, <1>0, <2>2
<1>2. b \in Seq(Ids) /\ Len(b) = Len(s) - i /\ \A j \in 1..(Len(s) - i) : b[j] = s[i + j]
  <2>1. \A j \in (i + 1)..Len(s) : s[j] \in Ids
    BY SMT, <1>0
  <2>2. /\ b \in Seq(Ids) /\ Len(b) = IF i + 1 <= Len(s) THEN Len(s) - (i + 1) + 1 ELSE 0
        /\ \A j \in 1..(Len(s) - (i + 1) + 1) : b[j] = s[(i + 1) + j - 1]
    BY SMT, <1>0, <2>1, SeqPart
  <2> HIDE DEF b
  <2> QED BY SMT, <1>0, <2>2
<1> HIDE DEF a, b
<1>3. /\ t \in Seq(Ids) /\ Len(t) = Len(a) + Len(b)
      /\ \A j \in 1..(Len(a) + Len(b)) : t[j] = IF j <= Len(a) THEN a[j] ELSE b[j - Len(a)]
  BY <1>1, <1>2, SeqConcat
<1> HIDE DEF t
<1>4. t \in Seq(Ids) /\ a \in Seq(Ids) /\ b \in Seq(Ids)
  BY <1>1, <1>2, <1>3
<1>5. /\ Len(t) = Len(s) - 1
      /\ \A j \in 1..Len(t) : j < i => t[j] = s[j]
      /\ \A j \in 1..Len(t) : j >= i => t[j] = s[j + 1]
  BY <1>1, <1>2, <1>3, <1>4, Joined
<1>6. Increasing(t) /\ RangeOf(t) = RangeOf(s) \ {s[i]}
  BY <1>4, <1>5, WithoutOne
<1> QED BY <1>4, <1>5, <1>6 DEF t, a, b, Removed

(* Requests are numbered.                                                  *)
LEMMA LessDiffers ==
  ASSUME NEW x \in Ids, NEW y \in Ids, x < y
  PROVE  x # y
BY SMT, ConnOpsAssumption DEF Ids

Dropped(t, s, n) ==
  /\ t \in Seq(Ids) /\ Len(t) = Len(s) - n /\ Increasing(t)
  /\ \A j \in 1..Len(t) : t[j] = s[n + j]
  /\ RangeOf(t) = RangeOf(s) \ {s[k] : k \in 1..n}
  /\ \A k \in 1..n, x \in RangeOf(t) : s[k] < x

(* The first n requests leave the list (connection_resched).               *)
LEMMA DropFromList ==
  ASSUME NEW s \in Seq(Ids), Increasing(s), NEW n \in 0..Len(s)
  PROVE  \A t : t = SubSeq(s, n + 1, Len(s)) => Dropped(t, s, n)
<1> DEFINE t == SubSeq(s, n + 1, Len(s))
<1>0. Len(s) \in Nat /\ n \in Nat /\ n <= Len(s) /\ \A j \in 1..Len(s) : s[j] \in Ids
  BY SMT, SeqPlaces, SeqPlace
<1>1. \A j \in (n + 1)..Len(s) : s[j] \in Ids
  BY SMT, <1>0
<1>2. /\ t \in Seq(Ids) /\ Len(t) = IF n + 1 <= Len(s) THEN Len(s) - (n + 1) + 1 ELSE 0
      /\ \A j \in 1..(Len(s) - (n + 1) + 1) : t[j] = s[(n + 1) + j - 1]
  BY SMT, <1>0, <1>1, SeqPart
<1> HIDE DEF t
<1>3. Len(t) = Len(s) - n /\ \A j \in 1..Len(t) : t[j] = s[n + j]
  BY SMT, <1>0, <1>2
<1>4. Increasing(t)
  BY SMTT(60), <1>0, <1>2, <1>3 DEF Increasing
<1>5. ASSUME NEW k \in 1..n, NEW j \in 1..Len(t) PROVE s[k] < t[j] /\ s[k] # t[j]
  <2>1. k \in 1..Len(s) /\ n + j \in 1..Len(s) /\ k < n + j
    BY SMT, <1>0, <1>3
  <2>2. s[k] < s[n + j] /\ t[j] = s[n + j]
    BY <1>3, <2>1 DEF Increasing
  <2>3. s[k] \in Ids /\ s[n + j] \in Ids
    BY <1>0, <2>1
  <2>5. s[k] # s[n + j]
    BY <2>2, <2>3, LessDiffers
  <2> QED BY <2>2, <2>5
<1>6. ASSUME NEW j \in 1..Len(t) PROVE t[j] \in RangeOf(s) \ {s[k] : k \in 1..n}
  <2>1. n + j \in 1..Len(s) /\ t[j] = s[n + j]
    BY SMT, <1>0, <1>3
  <2> QED BY <1>5, <2>1 DEF RangeOf
<1>7. ASSUME NEW j \in 1..Len(s), s[j] \notin {s[k] : k \in 1..n} PROVE s[j] \in RangeOf(t)
  <2>1. j - n \in 1..Len(t) /\ t[j - n] = s[j]
    BY SMT, <1>0, <1>3, <1>7
  <2> QED BY <2>1 DEF RangeOf
<1>8. RangeOf(t) = RangeOf(s) \ {s[k] : k \in 1..n}
  <2>1. RangeOf(t) \subseteq RangeOf(s) \ {s[k] : k \in 1..n}
    BY <1>6 DEF RangeOf
  <2>2. RangeOf(s) \ {s[k] : k \in 1..n} \subseteq RangeOf(t)
    BY <1>7 DEF RangeOf
  <2> QED BY <2>1, <2>2
<1>9. \A k \in 1..n, x \in RangeOf(t) : s[k] < x
  BY <1>5 DEF RangeOf
<1> QED BY <1>2, <1>3, <1>4, <1>8, <1>9 DEF t, Dropped

(* What counting requests by Cardinality relies on; RequestSets, at the    *)
(* end, proves it of the MaxOps requests.                                  *)
Counting ==
  /\ Cardinality({}) = 0
  /\ \A S \in SUBSET Ids :
       /\ Cardinality(S) \in 0..MaxOps
       /\ \A o \in Ids \ S : Cardinality(S \cup {o}) = Cardinality(S) + 1
       /\ \A o \in S : Cardinality(S \ {o}) = Cardinality(S) - 1
       /\ \A T \in SUBSET Ids :
            S \cap T = {} => Cardinality(S \cup T) = Cardinality(S) + Cardinality(T)
  /\ \A s \in Seq(Ids) : Increasing(s) =>
       \A n \in 0..Len(s) : Cardinality({s[k] : k \in 1..n}) = n

-----------------------------------------------------------------------------
(* What a step does to the records.                                        *)

ActiveIn(f) == {o \in Ids : f[o].pc \in Active}

PendingIn(f) == {o \in Ids : f[o].pc = "pending"}

(* The record r follows s; the request of r has just arrived.              *)
Kept(r, s) ==
  /\ r.tag = s.tag /\ r.target = s.target /\ r.o_cancel = s.o_cancel
  /\ s.o_abandon # 0 => r.o_abandon # 0
  /\ r.pc = "none" => s.pc = "none"
  /\ r.pc = "cancelling" => s.pc = "cancelling"
  /\ s.pc \in Active /\ s.o_cancel \notin {"NONE", "DONE"} => r.pc \in Active

New(r, s) ==
  /\ s.pc = "none"
  /\ r.pc \notin {"none", "cancelling"} /\ r.o_cancel = "NONE"
  /\ r.tag \in {"ABANDON", "CANCEL"} => r.target # 0

Follows(f, n) ==
  /\ f \in [Ids -> Op]
  /\ \A o \in Ids : Kept(f[o], op[o]) \/ New(f[o], op[o])
  /\ \A o \in Ids : f[o].pc = "none" <=> o > n

(* A step after which the records follow keeps OpAt and CancelAt.          *)
LEMMA OpsKept ==
  ASSUME IInv, Follows(op', c_n_ops_received'), c_ops' = ActiveIn(op')
  PROVE  \A o \in Ids : OpAt(o)' /\ CancelAt(o)'
<1> SUFFICES ASSUME NEW o \in Ids PROVE OpAt(o)' /\ CancelAt(o)'
  OBVIOUS
<1>0. "none" \notin Active
  BY DEF Active
<1>1. OpAt(o)'
  <2>1. OpAt(o) /\ (op'[o].pc = "none" <=> o > c_n_ops_received')
    BY DEF IInv, Follows
  <2>2. CASE Kept(op'[o], op[o])
    BY <2>1, <2>2 DEF OpAt, Kept
  <2>3. CASE New(op'[o], op[o])
    BY <2>1, <2>3 DEF OpAt, New
  <2> QED BY <2>2, <2>3 DEF Follows
<1>2. CancelAt(o)'
  <2> SUFFICES ASSUME op'[o].pc = "cancelling" PROVE CancelAt(o)'
    BY DEF CancelAt
  <2> DEFINE t == op[o].target
  <2>1. \A p \in Ids : op'[p].pc = "cancelling" => op[p].pc = "cancelling" /\ op'[p].target = op[p].target
    BY DEF Follows, Kept, New
  <2>2. CancelAt(o) /\ op[o].pc = "cancelling"
    BY <2>1 DEF IInv
  <2>3. /\ t \in c_ops /\ op[t].o_cancel \in {"REQ", "ACK", "TOO_LATE"}
        /\ \A p \in Ids : op[p].pc = "cancelling" /\ op[p].target = t => p = o
    BY <2>2 DEF CancelAt
  <2>4. t \in Ids /\ op[t].pc \in Active
    BY <2>3 DEF IInv, TypeOK
  <2>5. Kept(op'[t], op[t])
    BY <1>0, <2>4 DEF Follows, New
  <2>6. op[t].o_cancel \notin {"NONE", "DONE"}
    BY <2>3
  <2>7. op'[t].o_cancel = op[t].o_cancel /\ op'[t].pc \in Active
    BY <2>4, <2>5, <2>6 DEF Kept
  <2>8. t \in c_ops'
    BY <2>4, <2>7 DEF ActiveIn
  <2>9. op'[o].target = t
    BY <2>1
  <2> HIDE DEF t
  <2> QED BY <2>1, <2>3, <2>7, <2>8, <2>9 DEF CancelAt
<1> QED BY <1>1, <1>2

(* A record is freed (slap_op_free).                                       *)
LEMMA FreedOp ==
  ASSUME NEW r \in Op
  PROVE  /\ Freed(r) \in Op /\ Freed(r).pc = "freed" /\ Freed(r).tag = r.tag
         /\ Freed(r).target = r.target /\ Freed(r).o_cancel = r.o_cancel
         /\ Freed(r).o_abandon = r.o_abandon
<1> DEFINE h == [r EXCEPT !.pc = "freed"]
<1>1. /\ h \in Op /\ h.pc = "freed" /\ h.tag = r.tag /\ h.target = r.target
      /\ h.o_cancel = r.o_cancel /\ h.o_abandon = r.o_abandon
  BY SMT DEF Op
<1>2. Freed(r) = [h EXCEPT !.o_conn = FALSE]
  BY DEF Freed
<1> HIDE DEF h
<1>3. FALSE \in BOOLEAN
  OBVIOUS
<1> QED BY <1>1, <1>2, <1>3 DEF Op

(* connection_abandon marks what is active and frees what is pending.      *)
LEMMA Abandoned ==
  ASSUME NEW f \in [Ids -> Op], NEW pending \in Seq(Ids), RangeOf(pending) = PendingIn(f),
         NEW g, g = connection_abandon(f, ActiveIn(f), pending)
  PROVE  /\ g \in [Ids -> Op]
         /\ \A o \in Ids : /\ g[o].tag = f[o].tag /\ g[o].target = f[o].target
                           /\ g[o].o_cancel = f[o].o_cancel
                           /\ f[o].o_abandon # 0 => g[o].o_abandon # 0
                           /\ o \in ActiveIn(f) => g[o].pc = f[o].pc /\ g[o].o_abandon # 0
                           /\ o \in PendingIn(f) => g[o].pc = "freed"
                           /\ o \notin PendingIn(f) => g[o].pc = f[o].pc
         /\ ActiveIn(g) = ActiveIn(f) /\ PendingIn(g) = {}
         /\ \A n : Follows(f, n) => Follows(g, n)
<1>0. "pending" \notin Active /\ "freed" \notin Active
  BY DEF Active
<1>1. ASSUME NEW o \in Ids, o \in ActiveIn(f)
      PROVE  /\ g[o] \in Op /\ g[o].tag = f[o].tag /\ g[o].target = f[o].target
             /\ g[o].o_cancel = f[o].o_cancel /\ g[o].o_abandon = 2 /\ g[o].pc = f[o].pc
  <2>1. g[o] = [f[o] EXCEPT !.o_abandon = 2]
    BY <1>1 DEF connection_abandon
  <2> QED BY SMT, <2>1 DEF Op
<1>2. ASSUME NEW o \in Ids, o \in PendingIn(f)
      PROVE  /\ g[o] \in Op /\ g[o].tag = f[o].tag /\ g[o].target = f[o].target
             /\ g[o].o_cancel = f[o].o_cancel /\ g[o].o_abandon = f[o].o_abandon /\ g[o].pc = "freed"
  <2>1. o \notin ActiveIn(f)
    BY <1>0, <1>2 DEF ActiveIn, PendingIn
  <2>2. g[o] = Freed(f[o]) /\ f[o] \in Op
    BY <1>2, <2>1 DEF connection_abandon
  <2> QED BY <2>2, FreedOp
<1>3. ASSUME NEW o \in Ids, o \notin ActiveIn(f), o \notin PendingIn(f)
      PROVE  g[o] = f[o] /\ g[o] \in Op
  BY <1>3 DEF connection_abandon
<1>4. g \in [Ids -> Op]
  BY <1>1, <1>2, <1>3 DEF connection_abandon
<1>5. \A o \in Ids : /\ g[o].tag = f[o].tag /\ g[o].target = f[o].target
                     /\ g[o].o_cancel = f[o].o_cancel
                     /\ f[o].o_abandon # 0 => g[o].o_abandon # 0
                     /\ o \in ActiveIn(f) => g[o].pc = f[o].pc /\ g[o].o_abandon # 0
                     /\ o \in PendingIn(f) => g[o].pc = "freed"
                     /\ o \notin PendingIn(f) => g[o].pc = f[o].pc
  <2> SUFFICES ASSUME NEW o \in Ids
               PROVE  /\ g[o].tag = f[o].tag /\ g[o].target = f[o].target
                      /\ g[o].o_cancel = f[o].o_cancel
                      /\ f[o].o_abandon # 0 => g[o].o_abandon # 0
                      /\ o \in ActiveIn(f) => g[o].pc = f[o].pc /\ g[o].o_abandon # 0
                      /\ o \in PendingIn(f) => g[o].pc = "freed"
                      /\ o \notin PendingIn(f) => g[o].pc = f[o].pc
    OBVIOUS
  <2>0. o \in ActiveIn(f) => o \notin PendingIn(f)
    BY <1>0 DEF ActiveIn, PendingIn
  <2>1. CASE o \in ActiveIn(f)
    BY SMT, <1>1, <2>0, <2>1
  <2>2. CASE o \in PendingIn(f)
    BY SMT, <1>2, <2>0, <2>2
  <2>3. CASE o \notin ActiveIn(f) /\ o \notin PendingIn(f)
    BY <1>3, <2>3
  <2> QED BY <2>1, <2>2, <2>3
<1>6. ActiveIn(g) = ActiveIn(f) /\ PendingIn(g) = {}
  BY SMTT(60), <1>0, <1>5 DEF ActiveIn, PendingIn
<1>7. ASSUME NEW n, Follows(f, n) PROVE Follows(g, n)
  <2>1. ASSUME NEW o \in Ids PROVE (Kept(g[o], op[o]) \/ New(g[o], op[o])) /\ (g[o].pc = "none" <=> o > n)
    <3>1. (Kept(f[o], op[o]) \/ New(f[o], op[o])) /\ (f[o].pc = "none" <=> o > n)
      BY <1>7 DEF Follows
    <3>2. g[o].pc = f[o].pc \/ (f[o].pc = "pending" /\ g[o].pc = "freed")
      BY <1>5 DEF PendingIn
    <3> QED BY SMTT(60), <1>0, <1>5, <3>1, <3>2 DEF Kept, New
  <2> QED BY <1>4, <2>1 DEF Follows
<1> QED BY <1>4, <1>5, <1>6, <1>7

Submitted(g, f, S) ==
  /\ g \in [Ids -> Op]
  /\ \A o \in Ids : /\ g[o].tag = f[o].tag /\ g[o].target = f[o].target
                    /\ g[o].o_cancel = f[o].o_cancel /\ g[o].o_abandon = f[o].o_abandon
  /\ \A o \in S : g[o].pc \in {"queued", "lost"}
  /\ \A o \in Ids \ S : g[o] = f[o]
  /\ ActiveIn(g) = ActiveIn(f) \cup S /\ PendingIn(g) = PendingIn(f) \ S
  /\ \A n : Follows(f, n) => Follows(g, n)

(* connection_op_activate submits operations that wait, or loses them.     *)
LEMMA Activated ==
  ASSUME NEW f \in [Ids -> Op], NEW S \in SUBSET Ids, NEW lost \in SUBSET S,
         \A o \in S : f[o].pc \in {"held", "pending"},
         NEW g, g = connection_op_activate(f, S, lost)
  PROVE  Submitted(g, f, S)
<1>1. ASSUME NEW o \in S
      PROVE  /\ g[o] \in Op /\ g[o].tag = f[o].tag /\ g[o].target = f[o].target
             /\ g[o].o_cancel = f[o].o_cancel /\ g[o].o_abandon = f[o].o_abandon
             /\ g[o].pc \in {"queued", "lost"}
  <2>1. o \in Ids
    OBVIOUS
  <2>2. g[o] = [f[o] EXCEPT !.pc = "lost"] \/ g[o] = [f[o] EXCEPT !.pc = "queued"]
    BY <2>1 DEF connection_op_activate
  <2> QED BY SMT, <2>1, <2>2 DEF Op
<1>2. \A o \in Ids \ S : g[o] = f[o] /\ g[o] \in Op
  BY DEF connection_op_activate
<1>3. g \in [Ids -> Op]
  BY <1>1, <1>2 DEF connection_op_activate
<1>4. \A o \in Ids : /\ g[o].tag = f[o].tag /\ g[o].target = f[o].target
                     /\ g[o].o_cancel = f[o].o_cancel /\ g[o].o_abandon = f[o].o_abandon
  BY <1>1, <1>2
<1>5. {"queued", "lost"} \subseteq Active /\ "pending" \notin {"queued", "lost"}
  BY DEF Active
<1>6. ActiveIn(g) = ActiveIn(f) \cup S /\ PendingIn(g) = PendingIn(f) \ S
  BY SMTT(60), <1>1, <1>2, <1>5 DEF ActiveIn, PendingIn
<1>7. ASSUME NEW n, Follows(f, n) PROVE Follows(g, n)
  <2>1. ASSUME NEW o \in Ids PROVE (Kept(g[o], op[o]) \/ New(g[o], op[o])) /\ (g[o].pc = "none" <=> o > n)
    <3>1. (Kept(f[o], op[o]) \/ New(f[o], op[o])) /\ (f[o].pc = "none" <=> o > n)
      BY <1>7 DEF Follows
    <3>2. CASE o \in S
      <4>1. g[o].pc \in {"queued", "lost"} /\ f[o].pc \in {"held", "pending"}
        BY <1>1, <3>2
      <4>2. g[o].pc \in Active /\ g[o].pc # "none" /\ g[o].pc # "cancelling" /\ f[o].pc # "none"
        BY <1>5, <4>1
      <4> QED BY <1>4, <3>1, <4>2 DEF Kept, New
    <3>3. CASE o \notin S
      BY <1>2, <3>1, <3>3
    <3> QED BY <3>2, <3>3
  <2> QED BY <1>3, <2>1 DEF Follows
<1> QED BY <1>1, <1>2, <1>3, <1>4, <1>6, <1>7 DEF Submitted

-----------------------------------------------------------------------------
(* Steps by what they do to the lists.                                     *)

(* The lists, the counters and the state stay.                             *)
LEMMA ShiftInv ==
  ASSUME IInv, op' \in [Ids -> Op], \A o \in Ids : OpAt(o)' /\ CancelAt(o)',
         ActiveIn(op') = ActiveIn(op), PendingIn(op') = PendingIn(op),
         \A o \in Ids : op'[o].tag = op[o].tag \/ (op[o].tag # "BIND" /\ op'[o].tag # "BIND" /\ op'[o].o_abandon # 0),
         \A o \in Ids : op[o].o_abandon # 0 => op'[o].o_abandon # 0,
         cri' \in [reading : BOOLEAN, first : 0..MaxOps, nullop : BOOLEAN], Reader',
         writer' \in c_ops \cup {0},
         writer' # 0 => ~Closed /\ op'[writer'].pc = "run" /\ op'[writer'].tag \in {"SEARCH", "BIND"},
         UNCHANGED <<c_conn_state, counters, c_ops, c_pending_ops, setup>>
  PROVE  IInv'
<1> USE DEF counters
<1>1. /\ c_ops = ActiveIn(op) /\ RangeOf(c_pending_ops) = PendingIn(op) /\ c_pending_ops \in Seq(Ids)
  BY DEF IInv, TypeOK, ActiveIn, PendingIn
<1>2. TypeOK'
  BY SMTT(60), <1>1 DEF IInv, TypeOK, ActiveIn, PendingIn, RangeOf
<1>3. Increasing(c_pending_ops)'
  BY DEF IInv, Increasing
<1>4. \A o \in Ids : op'[o].tag = "BIND" <=> op[o].tag = "BIND"
  OBVIOUS
<1>5. Counts'
  BY <1>4 DEF IInv, Counts, Closed
<1>6. Closing'
  BY DEF IInv, Closing, Closed
<1>7. \A o \in Ids : Harmless(op[o]) => Harmless(op'[o])
  BY DEF Harmless
<1>8. \A o \in Ids : op'[o].o_abandon = 0 => op[o].o_abandon = 0
  OBVIOUS
<1>9. ~setup.events => BindingAt(c_conn_state, op', c_ops)
  BY <1>1, <1>4, <1>7, <1>8 DEF IInv, Binding, BindingAt, ActiveIn
<1>10. \A i \in 1..Len(c_pending_ops) : c_pending_ops[i] \in Ids
  BY <1>1, SeqPlace
<1>11. FirstAt(op', c_ops, c_pending_ops)
  <2>1. Len(c_pending_ops) \in Nat /\ 2..Len(c_pending_ops) \subseteq 1..Len(c_pending_ops)
    BY SMT, <1>1, SeqPlaces
  <2>2. c_pending_ops # <<>> => 1 \in 1..Len(c_pending_ops)
    BY SMT, <1>1, SeqNone
  <2>3. FirstAt(op, c_ops, c_pending_ops)
    BY DEF IInv, Binding
  <2> QED BY <1>1, <1>4, <1>7, <1>10, <2>1, <2>2, <2>3 DEF FirstAt, ActiveIn
<1>12. Binding'
  BY <1>9, <1>11 DEF Binding
<1> QED BY <1>2, <1>3, <1>5, <1>6, <1>12 DEF IInv

(* The connection starts to close, or is destroyed.                        *)
LEMMA ClosingInv ==
  ASSUME Counting, IInv, NEW f, NEW pending \in Seq(Ids), Follows(f, c_n_ops_received'),
         RangeOf(pending) = PendingIn(f), \A o \in Ids : f[o].pc # "held",
         NEW active, active = ActiveIn(f),
         connection_closing(f, active, pending), cri' = NotReading, setup' = setup,
         c_n_ops_received' \in 0..MaxOps, c_n_ops_executing' = Cardinality(active),
         c_n_ops_pending' \in Nat, c_n_ops_pending' <= c_n_ops_received'
  PROVE  IInv'
<1>0. MaxOps \in Nat
  BY ConnOpsAssumption
<1>1. f \in [Ids -> Op]
  BY DEF Follows
<1>2. op' = connection_abandon(f, ActiveIn(f), pending)
  BY DEF connection_closing
<1>3. /\ op' \in [Ids -> Op] /\ ActiveIn(op') = active /\ PendingIn(op') = {}
      /\ Follows(op', c_n_ops_received')
      /\ \A o \in Ids : /\ o \in active => op'[o].o_abandon # 0
                        /\ op'[o].pc \in {f[o].pc, "freed"}
  BY SMTT(60), <1>1, <1>2, Abandoned
<1>4. /\ c_ops' = active /\ c_pending_ops' = <<>> /\ writer' = 0
      /\ c_conn_state' \in {"INVALID", "CLOSING"}
      /\ active # {} => c_conn_state' = "CLOSING"
  BY DEF connection_closing
<1>5. \A o \in Ids : OpAt(o)' /\ CancelAt(o)'
  BY <1>3, <1>4, OpsKept
<1>6. active \subseteq Ids /\ Cardinality(active) \in 0..MaxOps
  BY DEF ActiveIn, Counting
<1>7. c_pending_ops' \in Seq(Ids) /\ Len(c_pending_ops') = 0 /\ RangeOf(c_pending_ops') = {}
  <2>1. <<>> \in Seq(Ids) /\ Len(<<>>) = 0
    BY SeqNone
  <2>2. RangeOf(<<>>) = {}
    BY SMT, <2>1 DEF RangeOf
  <2> QED BY <1>4, <2>1, <2>2
<1>8. TypeOK'
  <2>1. c_n_ops_pending' \in 0..MaxOps
    BY SMT, <1>0
  <2>2. cri' \in [reading : BOOLEAN, first : 0..MaxOps, nullop : BOOLEAN]
    BY SMT, <1>0 DEF NotReading
  <2> QED BY <1>3, <1>4, <1>6, <1>7, <2>1, <2>2 DEF TypeOK, ActiveIn, PendingIn
<1>9. Increasing(c_pending_ops)'
  BY SMT, <1>7 DEF Increasing
<1>10. Counts'
  <2>1. Len(c_pending_ops') <= c_n_ops_pending'
    BY SMT, <1>7
  <2>2. Closed'
    BY <1>4 DEF Closed
  <2> QED BY <1>4, <2>1, <2>2 DEF Counts
<1>11. Reader'
  <2>1. cri'.reading = FALSE /\ cri'.first = 0 /\ cri'.nullop = FALSE
    BY SMT DEF NotReading
  <2>2. \A o \in Ids : o # 0
    BY SMT, <1>0 DEF Ids
  <2>3. \A o \in Ids : op'[o].pc # "held"
    BY <1>3
  <2> QED BY <2>1, <2>2, <2>3 DEF Reader
<1>12. Closing'
  BY <1>4 DEF Closing
<1>13. Binding'
  <2>1. BindingAt(c_conn_state', op', c_ops')
    BY <1>3, <1>4, <1>6 DEF BindingAt
  <2>2. FirstAt(op', c_ops', c_pending_ops')
    BY SMT, <1>4, <1>7 DEF FirstAt
  <2> QED BY <2>1, <2>2 DEF Binding
<1> QED BY <1>5, <1>8, <1>9, <1>10, <1>11, <1>12, <1>13 DEF IInv

(* What connection_op_queue makes of the state.                            *)
LEMMA QueueState ==
  ASSUME NEW state, state \in {"ACTIVE", "BINDING"}, NEW S
  PROVE  /\ connection_op_queue(state, S) \in {"ACTIVE", "BINDING"}
         /\ (\E o \in S : op[o].tag = "BIND") => connection_op_queue(state, S) = "BINDING"
         /\ (\A o \in S : op[o].tag # "BIND") => connection_op_queue(state, S) = state
BY DEF connection_op_queue

(* The first n pending operations are started.                             *)
LEMMA StartInv ==
  ASSUME Counting, IInv, NEW f, Follows(f, c_n_ops_received),
         NEW active, active = ActiveIn(f), active \subseteq c_ops, PendingIn(f) = PendingIn(op),
         \A o \in Ids : f[o].tag = op[o].tag /\ f[o].o_abandon = op[o].o_abandon,
         \A o \in active : f[o] = op[o],
         NEW executing, executing = Cardinality(active),
         NEW state, state \in {"ACTIVE", "BINDING"}, ~Closed, writer \in active \cup {0},
         ~setup.events => BindingAt(state, f, active),
         NEW n \in 0..Len(c_pending_ops),
         \/ n = 0
         \/ setup.events
         \/ state = "ACTIVE" /\ \A k \in 1..(n - 1) : op[c_pending_ops[k]].tag # "BIND",
         StartPending(f, active, executing, state, n),
         ~cri.reading, UNCHANGED <<c_n_ops_received, cri, setup>>
  PROVE  IInv' /\ \A o \in c_ops' \ c_ops : \A p \in RangeOf(c_pending_ops') : o < p
<1> DEFINE S == {c_pending_ops[k] : k \in 1..n}
<1>0. MaxOps \in Nat
  BY ConnOpsAssumption
<1>1. /\ c_ops = ActiveIn(op) /\ RangeOf(c_pending_ops) = PendingIn(op) /\ c_pending_ops \in Seq(Ids)
      /\ Increasing(c_pending_ops) /\ c_n_ops_pending \in 0..MaxOps /\ c_n_ops_received \in 0..MaxOps
  BY DEF IInv, TypeOK, ActiveIn, PendingIn
<1>2. Len(c_pending_ops) \in Nat /\ n \in Nat /\ n <= Len(c_pending_ops) /\ 1..n \subseteq 1..Len(c_pending_ops)
  BY SMT, <1>1, SeqPlaces
<1>3. PICK lost \in Losses(S) : op' = connection_op_activate(f, S, lost)
  BY DEF StartPending
<1>4. /\ c_n_ops_pending' = c_n_ops_pending - n /\ c_n_ops_executing' = executing + n
      /\ c_pending_ops' = SubSeq(c_pending_ops, n + 1, Len(c_pending_ops))
      /\ c_ops' = active \cup S
      /\ c_conn_state' = connection_op_queue(state, S)
      /\ writer' = writer
  BY DEF StartPending
<1>5. S \subseteq RangeOf(c_pending_ops)
  BY <1>2 DEF RangeOf
<1>6. Cardinality(S) = n /\ (n = 0 => S = {})
  <2>1. n = 0 => 1..n = {}
    BY SMT
  <2> QED BY <1>1, <2>1 DEF Counting
<1>7. /\ c_pending_ops' \in Seq(Ids) /\ Len(c_pending_ops') = Len(c_pending_ops) - n
      /\ Increasing(c_pending_ops')
      /\ \A j \in 1..Len(c_pending_ops') : c_pending_ops'[j] = c_pending_ops[n + j]
      /\ RangeOf(c_pending_ops') = RangeOf(c_pending_ops) \ S
      /\ \A k \in 1..n, x \in RangeOf(c_pending_ops') : c_pending_ops[k] < x
  <2>1. Dropped(c_pending_ops', c_pending_ops, n)
    BY <1>1, <1>4, DropFromList
  <2> QED BY <2>1 DEF Dropped
<1>f. lost \in SUBSET S
  BY <1>3 DEF Losses
<1> HIDE DEF S
<1>8. S \subseteq Ids /\ \A o \in S : f[o].pc = "pending" /\ op[o].pc = "pending"
  BY <1>1, <1>5 DEF PendingIn
<1>9. f \in [Ids -> Op]
  BY DEF Follows
<1>10. /\ op' \in [Ids -> Op]
       /\ \A o \in Ids : op'[o].tag = f[o].tag /\ op'[o].o_abandon = f[o].o_abandon
       /\ \A o \in S : op'[o].pc \in {"queued", "lost"}
       /\ \A o \in Ids \ S : op'[o] = f[o]
       /\ ActiveIn(op') = active \cup S /\ PendingIn(op') = PendingIn(op) \ S
       /\ Follows(op', c_n_ops_received)
  <2>1. (\A o \in S : f[o].pc \in {"held", "pending"}) /\ S \in SUBSET Ids
    BY <1>8
  <2>2. op' = connection_op_activate(f, S, lost)
    BY <1>3
  <2>3. Submitted(op', f, S)
    BY <1>f, <1>9, <2>1, <2>2, Activated
  <2> QED BY <2>3 DEF Submitted
<1>11. \A o \in Ids : OpAt(o)' /\ CancelAt(o)'
  <2>1. Follows(op', c_n_ops_received')
    BY <1>10
  <2> QED BY <1>4, <1>10, <2>1, OpsKept
<1>12. active \cap S = {}
  <2>1. "pending" \notin Active
    BY DEF Active
  <2> QED BY <1>8, <2>1 DEF ActiveIn
<1>13. c_ops' \subseteq Ids /\ active \subseteq Ids
  BY <1>4, <1>8 DEF ActiveIn
<1>14. c_n_ops_executing' = Cardinality(c_ops') /\ Cardinality(c_ops') \in 0..MaxOps
  <2>1. Cardinality(active) \in 0..MaxOps /\ Cardinality(c_ops') \in 0..MaxOps
    BY <1>13 DEF Counting
  <2>2. Cardinality(c_ops') = Cardinality(active) + Cardinality(S)
    BY <1>4, <1>12, <1>13 DEF Counting
  <2> QED BY SMT, <1>2, <1>4, <1>6, <2>1, <2>2
<1>15. c_conn_state' \in {"ACTIVE", "BINDING"}
  BY <1>4, QueueState
<1>16. Len(c_pending_ops') <= c_n_ops_pending' /\ c_n_ops_pending' <= c_n_ops_received' /\ c_n_ops_pending' \in 0..MaxOps
  <2>1. Len(c_pending_ops) <= c_n_ops_pending /\ c_n_ops_pending <= c_n_ops_received
    BY DEF IInv, Counts
  <2> QED BY SMT, <1>0, <1>1, <1>2, <1>4, <1>7, <2>1
<1>17. writer' # 0 => op'[writer'].pc = "run" /\ op'[writer'].tag \in {"SEARCH", "BIND"}
  <2> SUFFICES ASSUME writer # 0 PROVE op'[writer].pc = "run" /\ op'[writer].tag \in {"SEARCH", "BIND"}
    BY <1>4
  <2>1. writer \in active /\ writer \notin S /\ writer \in Ids
    BY <1>12, <1>13
  <2>2. op'[writer] = op[writer]
    BY <1>10, <2>1
  <2> QED BY <2>2 DEF IInv, Closing
<1>18. TypeOK'
  <2>1. writer' \in c_ops' \cup {0}
    BY <1>4
  <2>2. cri' \in [reading : BOOLEAN, first : 0..MaxOps, nullop : BOOLEAN]
    BY DEF IInv, TypeOK
  <2>3. c_ops' = ActiveIn(op') /\ RangeOf(c_pending_ops') = PendingIn(op')
    BY <1>1, <1>4, <1>7, <1>10
  <2> QED BY <1>1, <1>7, <1>10, <1>14, <1>15, <1>16, <2>1, <2>2, <2>3 DEF TypeOK, ActiveIn, PendingIn
<1>19. Counts'
  <2>1. ASSUME \A o \in Ids : op'[o].tag # "BIND"
        PROVE  c_n_ops_pending' = Len(c_pending_ops')
    <3>1. \A o \in Ids : op[o].tag # "BIND"
      BY <1>10, <2>1
    <3>2. c_n_ops_pending = Len(c_pending_ops)
      BY <3>1 DEF IInv, Counts
    <3> QED BY SMT, <1>4, <1>7, <3>2
  <2> QED BY <1>14, <1>16, <2>1 DEF Counts
<1>20. Reader'
  <2>1. cri = NotReading /\ Reader
    BY DEF IInv, Reader
  <2>2. \A o \in Ids : op'[o].pc = "held" => op[o].pc = "held"
    <3> SUFFICES ASSUME NEW o \in Ids, op'[o].pc = "held" PROVE op[o].pc = "held"
      OBVIOUS
    <3>1. o \notin S
      BY <1>10
    <3>2. f[o].pc = "held" /\ o \in active
      BY <1>10, <3>1 DEF ActiveIn, Active
    <3> QED BY <3>2
  <2>3. cri.first = 0 /\ \A o \in Ids : o # 0
    BY SMT, <1>0, <2>1 DEF NotReading, Ids
  <2>4. \A o \in Ids : op'[o].pc # "held"
    BY <2>1, <2>2, <2>3 DEF Reader
  <2> QED BY <2>1, <2>3, <2>4 DEF Reader
<1>21. Closing'
  BY <1>15, <1>17 DEF Closing, Closed
<1>22. \A o \in Ids : op'[o].tag = op[o].tag /\ op'[o].o_abandon = op[o].o_abandon /\ (Harmless(op[o]) <=> Harmless(op'[o]))
  BY <1>10 DEF Harmless
<1>23. FirstAt(op, c_ops, c_pending_ops) /\ \A i \in 1..Len(c_pending_ops) : c_pending_ops[i] \in Ids
  BY <1>1, SeqPlace DEF IInv, Binding
<1>24. FirstAt(op', c_ops', c_pending_ops')
  <2>1. ASSUME NEW i \in 2..Len(c_pending_ops') PROVE op'[c_pending_ops'[i]].tag # "BIND"
    <3>1. n + i \in 2..Len(c_pending_ops) /\ n + i \in 1..Len(c_pending_ops) /\ i \in 1..Len(c_pending_ops')
      BY SMT, <1>2, <1>7
    <3> QED BY <1>7, <1>22, <1>23, <3>1 DEF FirstAt
  <2>2. ASSUME c_pending_ops' # <<>>, op'[c_pending_ops'[1]].tag = "BIND", NEW o \in c_ops'
        PROVE  Harmless(op'[o])
    <3>1. 1 \in 1..Len(c_pending_ops') /\ n + 1 \in 1..Len(c_pending_ops)
      BY SMT, <1>2, <1>7, <2>2, SeqNone
    <3>2. c_pending_ops'[1] = c_pending_ops[n + 1] /\ op[c_pending_ops[n + 1]].tag = "BIND"
      BY <1>7, <1>22, <1>23, <2>2, <3>1
    <3>3. n + 1 \notin 2..Len(c_pending_ops)
      BY <1>23, <3>2 DEF FirstAt
    <3>4. n = 0
      BY SMT, <1>2, <3>1, <3>3
    <3>5. n + 1 = 1 /\ S = {} /\ c_pending_ops # <<>>
      <4>1. S = {}
        BY <1>6, <3>4
      <4>2. c_pending_ops # <<>>
        BY SMT, <1>1, <3>1, SeqNone
      <4> QED BY SMT, <3>4, <4>1, <4>2
    <3>6. op[c_pending_ops[1]].tag = "BIND"
      BY <3>2, <3>5
    <3>7. o \in active /\ o \in Ids /\ o \in c_ops
      BY <1>4, <1>13, <2>2, <3>5
    <3> QED BY <1>22, <1>23, <3>5, <3>6, <3>7 DEF FirstAt
  <2> QED BY <2>1, <2>2 DEF FirstAt
<1>25. ASSUME ~setup.events PROVE BindingAt(c_conn_state', op', c_ops')
  <2>0. BindingAt(state, op, active)
    <3>1. BindingAt(state, f, active)
      BY <1>25
    <3>2. \A o \in active : f[o] = op[o]
      OBVIOUS
    <3> QED BY SMTT(60), <3>1, <3>2 DEF BindingAt
  <2>1. CASE \A o \in S : op[o].tag # "BIND"
    <3>1. c_conn_state' = state
      BY <1>4, <2>1, QueueState
    <3>2. CASE n = 0
      <4>1. S = {}
        BY <1>6, <3>2
      <4>2. c_ops' = active
        BY <1>4, <4>1
      <4> QED BY SMTT(60), <1>13, <1>22, <2>0, <3>1, <4>2 DEF BindingAt
    <3>3. CASE state = "ACTIVE"
      <4>1. \A b \in active : op[b].tag # "BIND"
        BY <2>0, <3>3 DEF BindingAt
      <4>2. \A b \in c_ops' : op'[b].tag # "BIND"
        BY <1>4, <1>13, <1>22, <2>1, <4>1
      <4> QED BY <4>2 DEF BindingAt
    <3> QED BY <1>25, <3>2, <3>3
  <2>2. CASE \E o \in S : op[o].tag = "BIND"
    <3>1. PICK k \in 1..n : op[c_pending_ops[k]].tag = "BIND"
      BY <2>2 DEF S
    <3>2. k \notin 2..Len(c_pending_ops)
      BY <1>23, <3>1 DEF FirstAt
    <3>3. k = 1 /\ n # 0
      BY SMT, <1>2, <3>1, <3>2
    <3>4. state = "ACTIVE" /\ \A j \in 1..(n - 1) : op[c_pending_ops[j]].tag # "BIND"
      BY <1>25, <3>3
    <3>5. n = 1
      <4>1. 1 \notin 1..(n - 1)
        BY <3>1, <3>3, <3>4
      <4> QED BY SMT, <1>2, <3>3, <4>1
    <3>6. S = {c_pending_ops[1]}
      <4>1. 1..n = {1}
        BY SMT, <3>5
      <4> QED BY <4>1 DEF S
    <3>7. c_conn_state' = "BINDING"
      BY <1>4, <2>2, QueueState
    <3>8. \A b \in active : op[b].tag # "BIND"
      BY <2>0, <3>4 DEF BindingAt
    <3>9. c_pending_ops # <<>>
      BY SMT, <1>1, <1>2, <3>5, SeqNone
    <3>10. \A o \in active : Harmless(op[o])
      BY <1>23, <3>1, <3>3, <3>9 DEF FirstAt
    <3>11. \A b \in c_ops' : op'[b].tag = "BIND" => b = c_pending_ops[1]
      BY <1>4, <1>13, <1>22, <3>6, <3>8
    <3>12. \A o \in c_ops' : o # c_pending_ops[1] => Harmless(op'[o])
      BY <1>4, <1>13, <1>22, <3>6, <3>10
    <3> QED BY <3>7, <3>11, <3>12 DEF BindingAt
  <2> QED BY <2>1, <2>2
<1>26. Binding'
  BY <1>24, <1>25 DEF Binding
<1>27. ASSUME NEW o \in c_ops' \ c_ops, NEW p \in RangeOf(c_pending_ops') PROVE o < p
  <2>1. o \in S
    BY <1>4, <1>27
  <2> QED BY <1>7, <2>1 DEF S
<1> QED BY <1>7, <1>11, <1>18, <1>19, <1>20, <1>21, <1>26, <1>27 DEF IInv

-----------------------------------------------------------------------------
(* The actions.                                                            *)

Pcs == {"none", "pending", "held", "queued", "lost", "run", "cancelling", "done", "ackwait", "freed"}

(* What IInv says of the lists and of the waiting writer.                  *)
LEMMA Lists ==
  ASSUME IInv
  PROVE  /\ c_ops = ActiveIn(op) /\ c_ops \subseteq Ids
         /\ RangeOf(c_pending_ops) = PendingIn(op) /\ c_pending_ops \in Seq(Ids)
         /\ op \in [Ids -> Op] /\ 0 \notin Ids
         /\ cri \in [reading : BOOLEAN, first : 0..MaxOps, nullop : BOOLEAN]
         /\ writer \in c_ops \cup {0}
         /\ writer # 0 => ~Closed /\ op[writer].pc = "run" /\ op[writer].tag \in {"SEARCH", "BIND"}
<1>1. 0 \notin Ids
  BY SMT, ConnOpsAssumption DEF Ids
<1> QED BY <1>1 DEF IInv, TypeOK, ActiveIn, PendingIn, Closing

Relabelled(g, f, o, l) ==
  /\ g \in [Ids -> Op]
  /\ g[o].pc = l /\ g[o].tag = f[o].tag /\ g[o].target = f[o].target
  /\ g[o].o_cancel = f[o].o_cancel /\ g[o].o_abandon = f[o].o_abandon
  /\ \A x \in Ids : x # o => g[x] = f[x]

(* One label changes.                                                      *)
LEMMA OnePc ==
  ASSUME NEW f \in [Ids -> Op], NEW o \in Ids, NEW l \in Pcs, NEW g, g = [f EXCEPT ![o].pc = l]
  PROVE  Relabelled(g, f, o, l)
<1>1. g[o] = [f[o] EXCEPT !.pc = l] /\ \A x \in Ids : x # o => g[x] = f[x]
  OBVIOUS
<1>2. f[o] \in Op
  OBVIOUS
<1>3. /\ g[o] \in Op /\ g[o].pc = l /\ g[o].tag = f[o].tag /\ g[o].target = f[o].target
      /\ g[o].o_cancel = f[o].o_cancel /\ g[o].o_abandon = f[o].o_abandon
  BY SMT, <1>1, <1>2 DEF Op, Pcs
<1>4. g \in [Ids -> Op]
  BY <1>3
<1> QED BY <1>1, <1>3, <1>4 DEF Relabelled

(* An active operation goes on and stays active.                           *)
LEMMA OneActive ==
  ASSUME IInv, NEW o \in Ids, op[o].pc \in Active, op[o].pc # "held",
         op' \in [Ids -> Op], \A x \in Ids : x # o => op'[x] = op[x],
         op'[o].pc \in Active, op'[o].pc # "held", op'[o].pc # "cancelling",
         op'[o].tag = op[o].tag, op'[o].target = op[o].target, op'[o].o_cancel = op[o].o_cancel,
         op'[o].o_abandon = op[o].o_abandon,
         writer' \in c_ops \cup {0},
         writer' # 0 => ~Closed /\ op'[writer'].pc = "run" /\ op'[writer'].tag \in {"SEARCH", "BIND"},
         UNCHANGED <<c_conn_state, counters, c_ops, c_pending_ops, cri, setup>>
  PROVE  IInv'
<1>1. "pending" \notin Active /\ "none" \notin Active
  BY DEF Active
<1>2. ActiveIn(op') = ActiveIn(op)
  <2>1. \A x \in Ids : op'[x].pc \in Active <=> op[x].pc \in Active
    OBVIOUS
  <2> QED BY <2>1 DEF ActiveIn
<1>3. PendingIn(op') = PendingIn(op)
  <2>1. \A x \in Ids : op'[x].pc = "pending" <=> op[x].pc = "pending"
    BY <1>1
  <2> QED BY <2>1 DEF PendingIn
<1>4. Follows(op', c_n_ops_received')
  <2>1. \A x \in Ids : Kept(op'[x], op[x])
    BY <1>1 DEF Kept
  <2>2. \A x \in Ids : op'[x].pc = "none" <=> op[x].pc = "none"
    BY <1>1
  <2>3. \A x \in Ids : op[x].pc = "none" <=> x > c_n_ops_received'
    BY DEF IInv, OpAt, counters
  <2> QED BY <2>1, <2>2, <2>3 DEF Follows
<1>5. \A x \in Ids : OpAt(x)' /\ CancelAt(x)'
  <2>1. c_ops' = ActiveIn(op')
    BY <1>2, Lists
  <2> QED BY <1>4, <2>1, OpsKept
<1>6. Reader'
  <2>1. \A x \in Ids : op'[x].pc = "held" <=> op[x].pc = "held"
    OBVIOUS
  <2> QED BY <2>1 DEF IInv, Reader, Closed
<1>7. cri' \in [reading : BOOLEAN, first : 0..MaxOps, nullop : BOOLEAN]
  BY Lists
<1>8. /\ \A x \in Ids : op'[x].tag = op[x].tag
      /\ \A x \in Ids : op[x].o_abandon # 0 => op'[x].o_abandon # 0
  OBVIOUS
<1>9. UNCHANGED <<c_conn_state, counters, c_ops, c_pending_ops, setup>>
  OBVIOUS
<1> QED BY <1>2, <1>3, <1>5, <1>6, <1>7, <1>8, <1>9, ShiftInv

(* Operations start and wait for the socket.                               *)
LEMMA RunSteps ==
  ASSUME IInv, setup' = setup,
         NEW o \in Ids, Start(o) \/ BlockOnWrite(o)
  PROVE  IInv'
<1>0. {"queued", "run"} \subseteq Active /\ {"queued", "run"} \subseteq Pcs
  BY DEF Active, Pcs
<1>1. CASE Start(o)
  <2>1. op[o].pc = "queued" /\ op' = [op EXCEPT ![o].pc = "run"] /\ writer' = writer
    BY <1>1 DEF Start
  <2>2. /\ op' \in [Ids -> Op]
        /\ op'[o].pc = "run" /\ op'[o].tag = op[o].tag /\ op'[o].target = op[o].target
        /\ op'[o].o_cancel = op[o].o_cancel /\ op'[o].o_abandon = op[o].o_abandon
        /\ \A x \in Ids : x # o => op'[x] = op[x]
    <3>1. op \in [Ids -> Op] /\ "run" \in Pcs
      BY <1>0, Lists
    <3>2. Relabelled(op', op, o, "run")
      BY <2>1, <3>1, OnePc
    <3> QED BY <3>2 DEF Relabelled
  <2>3. writer' # 0 => ~Closed /\ op'[writer'].pc = "run" /\ op'[writer'].tag \in {"SEARCH", "BIND"}
    BY <2>1, <2>2, Lists
  <2>4. writer' \in c_ops \cup {0}
    BY <2>1, Lists
  <2>5. UNCHANGED <<c_conn_state, counters, c_ops, c_pending_ops, cri, setup>>
    BY <1>1 DEF Start
  <2>6. op[o].pc \in Active /\ op[o].pc # "held" /\ op'[o].pc \in Active /\ op'[o].pc # "held" /\ op'[o].pc # "cancelling"
    BY <1>0, <2>1, <2>2
  <2> QED BY <2>2, <2>3, <2>4, <2>5, <2>6, OneActive
<1>2. CASE BlockOnWrite(o)
  <2>1. op[o].pc = "run" /\ op' = [op EXCEPT ![o].waited = TRUE] /\ writer' = o /\ op[o].tag \in {"SEARCH", "BIND"}
        /\ c_conn_state \in {"ACTIVE", "BINDING"}
    BY <1>2 DEF BlockOnWrite
  <2>2. /\ op' \in [Ids -> Op]
        /\ op'[o].pc = "run" /\ op'[o].tag = op[o].tag /\ op'[o].target = op[o].target
        /\ op'[o].o_cancel = op[o].o_cancel /\ op'[o].o_abandon = op[o].o_abandon
        /\ \A x \in Ids : x # o => op'[x] = op[x]
    <3>1. op'[o] = [op[o] EXCEPT !.waited = TRUE] /\ \A x \in Ids : x # o => op'[x] = op[x]
      BY <2>1, Lists
    <3>2. op[o] \in Op
      BY Lists
    <3>3. /\ op'[o] \in Op
          /\ op'[o].pc = op[o].pc /\ op'[o].tag = op[o].tag /\ op'[o].target = op[o].target
          /\ op'[o].o_cancel = op[o].o_cancel /\ op'[o].o_abandon = op[o].o_abandon
      BY ZenonT(60), <3>1, <3>2 DEF Op
    <3>4. op' \in [Ids -> Op]
      BY <2>1, <3>3, Lists
    <3> QED BY <2>1, <3>1, <3>3, <3>4
  <2>3. writer' # 0 => ~Closed /\ op'[writer'].pc = "run" /\ op'[writer'].tag \in {"SEARCH", "BIND"}
    BY <2>1, <2>2 DEF Closed
  <2>4. writer' \in c_ops \cup {0}
    BY <1>0, <2>1, Lists DEF ActiveIn
  <2>5. UNCHANGED <<c_conn_state, counters, c_ops, c_pending_ops, cri, setup>>
    BY <1>2 DEF BlockOnWrite
  <2>6. op[o].pc \in Active /\ op[o].pc # "held" /\ op'[o].pc \in Active /\ op'[o].pc # "held" /\ op'[o].pc # "cancelling"
    BY <1>0, <2>1, <2>2
  <2> QED BY <2>2, <2>3, <2>4, <2>5, <2>6, OneActive
<1> QED BY <1>1, <1>2

(* The socket takes what the operation had to write.                       *)
LEMMA DrainInv ==
  ASSUME IInv, setup' = setup, SocketDrains
  PROVE  IInv'
<1>1. op' = op /\ writer' = 0 /\ UNCHANGED <<c_conn_state, counters, c_ops, c_pending_ops, cri, setup>>
  BY DEF SocketDrains
<1>2. \A x \in Ids : OpAt(x)' /\ CancelAt(x)'
  BY <1>1 DEF IInv, OpAt, CancelAt, counters
<1>3. Reader' /\ cri' \in [reading : BOOLEAN, first : 0..MaxOps, nullop : BOOLEAN]
  BY <1>1, Lists DEF IInv, Reader, Closed
<1>4. /\ op' \in [Ids -> Op] /\ ActiveIn(op') = ActiveIn(op) /\ PendingIn(op') = PendingIn(op)
      /\ \A x \in Ids : op'[x].tag = op[x].tag
      /\ \A x \in Ids : op[x].o_abandon # 0 => op'[x].o_abandon # 0
      /\ writer' \in c_ops \cup {0} /\ ~(writer' # 0)
      /\ UNCHANGED <<c_conn_state, counters, c_ops, c_pending_ops, setup>>
  BY <1>1, Lists
<1> QED BY <1>2, <1>3, <1>4, ShiftInv

(* What the end of the batch does to the operation that the reader holds.  *)
LEMMA ReadEnds ==
  ASSUME IInv, NEW f, Follows(f, c_n_ops_received'),
         \A o \in Ids : f[o].pc = "held" <=> op[o].pc = "held",
         NEW g, g = connection_read_thread(f)
  PROVE  /\ Follows(g, c_n_ops_received')
         /\ ActiveIn(g) = ActiveIn(f) /\ PendingIn(g) = PendingIn(f)
         /\ \A o \in Ids : /\ g[o].pc # "held" /\ g[o].tag = f[o].tag
                           /\ g[o].o_abandon = f[o].o_abandon /\ g[o].o_cancel = f[o].o_cancel
<1> DEFINE S == IF cri.nullop THEN {} ELSE {cri.first} \ {0}
<1>1. S \subseteq Ids
  BY SMT, Lists, ConnOpsAssumption DEF Ids
<1>2. g = connection_op_activate(f, S, {})
  BY DEF connection_read_thread
<1>3. \A o \in Ids : o \in S <=> op[o].pc = "held"
  BY Lists DEF IInv, Reader
<1> HIDE DEF S
<1>4. {} \in SUBSET S /\ f \in [Ids -> Op] /\ \A o \in S : f[o].pc \in {"held", "pending"}
  BY <1>1, <1>3 DEF Follows
<1>5. /\ \A o \in Ids : g[o].tag = f[o].tag /\ g[o].o_cancel = f[o].o_cancel /\ g[o].o_abandon = f[o].o_abandon
      /\ \A o \in S : g[o].pc \in {"queued", "lost"}
      /\ \A o \in Ids \ S : g[o] = f[o]
      /\ ActiveIn(g) = ActiveIn(f) \cup S /\ PendingIn(g) = PendingIn(f) \ S
      /\ Follows(g, c_n_ops_received')
  <2>1. S \in SUBSET Ids /\ {} \in SUBSET S /\ f \in [Ids -> Op]
    BY <1>1, <1>4
  <2>2. \A o \in S : f[o].pc \in {"held", "pending"}
    BY <1>4
  <2>3. Submitted(g, f, S)
    BY <1>2, <2>1, <2>2, Activated
  <2> QED BY <2>3 DEF Submitted
<1>6. S \subseteq ActiveIn(f) /\ S \cap PendingIn(f) = {}
  BY <1>1, <1>3 DEF ActiveIn, PendingIn, Active
<1>7. \A o \in Ids : g[o].pc # "held"
  BY <1>3, <1>5
<1> QED BY <1>5, <1>6, <1>7

(* The records follow themselves.                                          *)
LEMMA SameFollows ==
  ASSUME IInv, c_n_ops_received' = c_n_ops_received
  PROVE  Follows(op, c_n_ops_received')
BY Lists DEF Follows, Kept, IInv, OpAt

(* The reader ends its batch, with or without an error.                    *)
LEMMA ReadSteps ==
  ASSUME Counting, IInv, setup' = setup, EndRead \/ ReadError
  PROVE  IInv'
<1>1. CASE EndRead
  <2>1. /\ op' = connection_read_thread(op) /\ cri' = NotReading
        /\ UNCHANGED <<c_conn_state, counters, c_ops, c_pending_ops, writer>>
        /\ c_n_ops_received' = c_n_ops_received
    BY <1>1 DEF EndRead, counters
  <2>2. /\ Follows(op', c_n_ops_received')
        /\ ActiveIn(op') = ActiveIn(op) /\ PendingIn(op') = PendingIn(op)
        /\ \A o \in Ids : /\ op'[o].pc # "held" /\ op'[o].tag = op[o].tag
                          /\ op'[o].o_abandon = op[o].o_abandon
    BY <2>1, ReadEnds, SameFollows
  <2>3. \A x \in Ids : OpAt(x)' /\ CancelAt(x)'
    BY <2>1, <2>2, OpsKept, Lists
  <2>4. cri' \in [reading : BOOLEAN, first : 0..MaxOps, nullop : BOOLEAN]
    BY SMT, <2>1, ConnOpsAssumption DEF NotReading
  <2>5. Reader'
    <3>1. cri'.reading = FALSE /\ cri'.first = 0 /\ cri'.nullop = FALSE
      BY SMT, <2>1 DEF NotReading
    <3> QED BY <2>1, <2>2, <3>1, Lists DEF Reader
  <2>6. writer' # 0 => ~Closed /\ op'[writer'].pc = "run" /\ op'[writer'].tag \in {"SEARCH", "BIND"}
    <3> SUFFICES ASSUME writer # 0 PROVE ~Closed /\ op'[writer].pc = "run" /\ op'[writer].tag \in {"SEARCH", "BIND"}
      BY <2>1
    <3>1. writer \in Ids /\ ~Closed /\ op[writer].pc = "run" /\ op[writer].tag \in {"SEARCH", "BIND"}
      BY Lists
    <3>2. op'[writer].pc = "run"
      <4>1. op'[writer] = IF writer \in (IF cri.nullop THEN {} ELSE {cri.first} \ {0})
                          THEN [op[writer] EXCEPT !.pc = "queued"] ELSE op[writer]
        BY <2>1, <3>1 DEF connection_read_thread, connection_op_activate
      <4>2. ~(cri.first = writer /\ ~cri.nullop)
        BY <3>1 DEF IInv, Reader
      <4> QED BY <3>1, <4>1, <4>2
    <3> QED BY <2>2, <3>1, <3>2
  <2>7. writer' \in c_ops \cup {0} /\ op' \in [Ids -> Op]
    BY <2>1, <2>2, Lists DEF Follows
  <2>8. UNCHANGED <<c_conn_state, counters, c_ops, c_pending_ops, setup>>
    BY <2>1
  <2>9. /\ \A x \in Ids : op'[x].tag = op[x].tag
        /\ \A x \in Ids : op[x].o_abandon # 0 => op'[x].o_abandon # 0
    BY <2>2
  <2> QED BY <2>2, <2>3, <2>4, <2>5, <2>6, <2>7, <2>8, <2>9, ShiftInv
<1>2. CASE ReadError
  <2> DEFINE f == connection_read_thread(op)
  <2>1. /\ connection_closing(f, c_ops, c_pending_ops) /\ cri' = NotReading
        /\ c_n_ops_received' = c_n_ops_received /\ c_n_ops_executing' = c_n_ops_executing
        /\ c_n_ops_pending' = c_n_ops_pending
    BY <1>2 DEF ReadError, counters
  <2>2. /\ Follows(f, c_n_ops_received')
        /\ ActiveIn(f) = ActiveIn(op) /\ PendingIn(f) = PendingIn(op)
        /\ \A o \in Ids : f[o].pc # "held"
    BY <2>1, ReadEnds, SameFollows
  <2> HIDE DEF f
  <2>3. c_ops = ActiveIn(f) /\ RangeOf(c_pending_ops) = PendingIn(f) /\ c_pending_ops \in Seq(Ids)
    BY <2>2, Lists
  <2>4. /\ c_n_ops_received' \in 0..MaxOps /\ c_n_ops_executing' = Cardinality(c_ops)
        /\ c_n_ops_pending' \in 0..MaxOps /\ c_n_ops_pending' <= c_n_ops_received'
    BY <2>1 DEF IInv, TypeOK, Counts
  <2>5. c_n_ops_pending' \in Nat
    BY SMT, <2>4
  <2> QED BY <2>1, <2>2, <2>3, <2>4, <2>5, ClosingInv
<1> QED BY <1>1, <1>2

(* The operations stay in the lists, and the reader is not in a batch.     *)
LEMMA MarkInv ==
  ASSUME IInv, op' \in [Ids -> Op], \A o \in Ids : OpAt(o)' /\ CancelAt(o)',
         \A x \in Ids : op'[x].pc = op[x].pc \/ (op[x].pc \in Active \ {"held"} /\ op'[x].pc \in Active \ {"held"}),
         \A x \in Ids : op'[x].tag = op[x].tag \/ (op[x].tag # "BIND" /\ op'[x].tag # "BIND" /\ op'[x].o_abandon # 0),
         \A x \in Ids : op[x].o_abandon # 0 => op'[x].o_abandon # 0,
         writer # 0 => op'[writer].pc = "run" /\ op'[writer].tag = op[writer].tag,
         UNCHANGED <<c_conn_state, counters, c_ops, c_pending_ops, writer, cri, setup>>
  PROVE  IInv'
<1>1. "pending" \notin Active
  BY DEF Active
<1>2. \A x \in Ids : /\ op'[x].pc \in Active <=> op[x].pc \in Active
                     /\ op'[x].pc = "pending" <=> op[x].pc = "pending"
                     /\ op'[x].pc = "held" <=> op[x].pc = "held"
  BY <1>1
<1>3. ActiveIn(op') = ActiveIn(op) /\ PendingIn(op') = PendingIn(op)
  BY <1>2 DEF ActiveIn, PendingIn
<1>4. Reader' /\ cri' \in [reading : BOOLEAN, first : 0..MaxOps, nullop : BOOLEAN]
  BY <1>2, Lists DEF IInv, Reader, Closed
<1>5. /\ writer' \in c_ops \cup {0}
      /\ writer' # 0 => ~Closed /\ op'[writer'].pc = "run" /\ op'[writer'].tag \in {"SEARCH", "BIND"}
  BY Lists
<1>6. UNCHANGED <<c_conn_state, counters, c_ops, c_pending_ops, setup>>
  OBVIOUS
<1> QED BY <1>3, <1>4, <1>5, <1>6, ShiftInv

(* An Abandon or a Cancel that runs is not the waiting writer, and its     *)
(* target is a message ID.                                                 *)
LEMMA Caller ==
  ASSUME IInv, NEW o \in Ids, op[o].pc \in {"run", "cancelling"}, op[o].tag \in {"ABANDON", "CANCEL"}
  PROVE  writer # o /\ op[o].target \in Ids /\ o \in c_ops
<1>1. writer # o
  BY Lists
<1>2. op[o] \in Op /\ op[o].target # 0
  BY Lists DEF IInv, OpAt
<1>3. op[o].target \in Ids
  BY SMT, <1>2, ConnOpsAssumption DEF Op, Ids
<1>4. o \in c_ops
  BY Lists DEF ActiveIn, Active
<1> QED BY <1>1, <1>3, <1>4

(* An Abandon ends: it marks an active operation, unlinks a pending one or *)
(* does nothing.                                                           *)
LEMMA AbandonInv ==
  ASSUME IInv, setup' = setup, NEW o \in Ids, do_abandon(o)
  PROVE  IInv'
<1> DEFINE t == op[o].target
<1>0. {"run", "done"} \subseteq Active /\ "done" \in Pcs /\ "pending" \notin Active /\ "freed" \notin Active /\ "none" \notin Active
  BY DEF Active, Pcs
<1>1. /\ op[o].pc = "run" /\ op[o].tag = "ABANDON" /\ ~cri.reading
      /\ UNCHANGED <<c_conn_state, c_n_ops_received, c_n_ops_executing, c_ops, writer, cri, setup>>
  BY DEF do_abandon
<1>2. writer # o /\ t \in Ids /\ o \in c_ops
  BY <1>1, Caller
<1>3. CASE /\ t \in c_ops /\ op[t].tag \notin {"BIND", "UNBIND", "ABANDON"}
           /\ op' = [op EXCEPT ![o].pc = "done", ![t].o_abandon = 1]
           /\ UNCHANGED <<c_pending_ops, c_n_ops_pending>>
  <2>1. t # o
    BY <1>1, <1>3
  <2> HIDE DEF t
  <2>2. /\ op'[o] = [op[o] EXCEPT !.pc = "done"] /\ op'[t] = [op[t] EXCEPT !.o_abandon = 1]
        /\ \A x \in Ids : x # o /\ x # t => op'[x] = op[x]
    BY <1>2, <1>3, <2>1, Lists
  <2>3. op[o] \in Op /\ op[t] \in Op
    BY <1>2, Lists
  <2>4. /\ op'[o] \in Op /\ op'[o].pc = "done" /\ op'[o].tag = op[o].tag /\ op'[o].target = op[o].target
        /\ op'[o].o_cancel = op[o].o_cancel /\ op'[o].o_abandon = op[o].o_abandon
    BY SMT, <2>2, <2>3 DEF Op
  <2>5. /\ op'[t] \in Op /\ op'[t].pc = op[t].pc /\ op'[t].tag = op[t].tag /\ op'[t].target = op[t].target
        /\ op'[t].o_cancel = op[t].o_cancel /\ op'[t].o_abandon # 0
    BY SMT, <2>2, <2>3 DEF Op
  <2>6. op' \in [Ids -> Op]
    BY <1>2, <1>3, <2>4, <2>5, Lists
  <2>7. \A x \in Ids : op'[x].tag = op[x].tag /\ op'[x].target = op[x].target /\ op'[x].o_cancel = op[x].o_cancel
                      /\ (op[x].o_abandon # 0 => op'[x].o_abandon # 0)
                      /\ (x # o => op'[x].pc = op[x].pc)
    BY <2>2, <2>4, <2>5
  <2>8. Follows(op', c_n_ops_received')
    <3>1. \A x \in Ids : Kept(op'[x], op[x])
      BY <1>0, <2>4, <2>7 DEF Kept
    <3>2. \A x \in Ids : op'[x].pc = "none" <=> x > c_n_ops_received'
      BY <1>0, <1>1, <2>4, <2>7 DEF IInv, OpAt
    <3> QED BY <2>6, <3>1, <3>2 DEF Follows
  <2>9. c_ops' = ActiveIn(op')
    <3>1. \A x \in Ids : op'[x].pc \in Active <=> op[x].pc \in Active
      BY <1>0, <1>1, <2>4, <2>7
    <3> QED BY <1>1, <3>1, Lists DEF ActiveIn
  <2>10. \A x \in Ids : OpAt(x)' /\ CancelAt(x)'
    BY <2>8, <2>9, OpsKept
  <2>11. \A x \in Ids : op'[x].pc = op[x].pc \/ (op[x].pc \in Active \ {"held"} /\ op'[x].pc \in Active \ {"held"})
    BY <1>0, <1>1, <2>4, <2>7
  <2>12. writer # 0 => op'[writer].pc = "run" /\ op'[writer].tag = op[writer].tag
    BY <1>2, <2>7, Lists
  <2>13. UNCHANGED <<c_conn_state, counters, c_ops, c_pending_ops, writer, cri, setup>>
    BY <1>1, <1>3 DEF counters
  <2> QED BY <2>6, <2>7, <2>10, <2>11, <2>12, <2>13, MarkInv
<1>4. CASE op' = [op EXCEPT ![o].pc = "done"] /\ UNCHANGED <<c_pending_ops, c_n_ops_pending>>
  <2>1. /\ op' \in [Ids -> Op]
        /\ op'[o].pc = "done" /\ op'[o].tag = op[o].tag /\ op'[o].target = op[o].target
        /\ op'[o].o_cancel = op[o].o_cancel /\ op'[o].o_abandon = op[o].o_abandon
        /\ \A x \in Ids : x # o => op'[x] = op[x]
    <3>1. op \in [Ids -> Op] /\ "done" \in Pcs /\ op' = [op EXCEPT ![o].pc = "done"]
      BY <1>0, <1>4, Lists
    <3>2. Relabelled(op', op, o, "done")
      BY <3>1, OnePc
    <3> QED BY <3>2 DEF Relabelled
  <2>2. /\ writer' \in c_ops \cup {0}
        /\ writer' # 0 => ~Closed /\ op'[writer'].pc = "run" /\ op'[writer'].tag \in {"SEARCH", "BIND"}
    BY <1>1, <1>2, <2>1, Lists
  <2>3. UNCHANGED <<c_conn_state, counters, c_ops, c_pending_ops, cri, setup>>
    BY <1>1, <1>4 DEF counters
  <2>4. op[o].pc \in Active /\ op[o].pc # "held" /\ op'[o].pc \in Active /\ op'[o].pc # "held" /\ op'[o].pc # "cancelling"
    BY <1>0, <1>1, <2>1
  <2> QED BY <2>1, <2>2, <2>3, <2>4, OneActive
<1>5. CASE /\ \E i \in 1..Len(c_pending_ops) :
                /\ c_pending_ops[i] = t
                /\ c_pending_ops' = SubSeq(c_pending_ops, 1, i - 1)
                                       \o SubSeq(c_pending_ops, i + 1, Len(c_pending_ops))
           /\ c_n_ops_pending' = c_n_ops_pending - 1
           /\ op' = [op EXCEPT ![o].pc = "done", ![o].o_conn = FALSE, ![t].pc = "freed"]
  <2>1. PICK i \in 1..Len(c_pending_ops) :
                /\ c_pending_ops[i] = t
                /\ c_pending_ops' = SubSeq(c_pending_ops, 1, i - 1)
                                       \o SubSeq(c_pending_ops, i + 1, Len(c_pending_ops))
    BY <1>5
  <2>2. t \in PendingIn(op) /\ op[t].pc = "pending" /\ t # o
    <3>1. t \in RangeOf(c_pending_ops)
      BY <2>1 DEF RangeOf
    <3> QED BY <1>1, <3>1, Lists DEF PendingIn
  <2> HIDE DEF t
  <2>3. /\ op'[o] = [[op[o] EXCEPT !.pc = "done"] EXCEPT !.o_conn = FALSE]
        /\ op'[t] = [op[t] EXCEPT !.pc = "freed"]
        /\ \A x \in Ids : x # o /\ x # t => op'[x] = op[x]
    BY <1>2, <1>5, <2>2, Lists
  <2>4. op[o] \in Op /\ op[t] \in Op
    BY <1>2, Lists
  <2>5. /\ op'[o] \in Op /\ op'[o].pc = "done" /\ op'[o].tag = op[o].tag /\ op'[o].target = op[o].target
        /\ op'[o].o_cancel = op[o].o_cancel /\ op'[o].o_abandon = op[o].o_abandon
    BY ZenonT(60), <2>3, <2>4 DEF Op
  <2>6. /\ op'[t] \in Op /\ op'[t].pc = "freed" /\ op'[t].tag = op[t].tag /\ op'[t].target = op[t].target
        /\ op'[t].o_cancel = op[t].o_cancel /\ op'[t].o_abandon = op[t].o_abandon
    BY SMT, <2>3, <2>4 DEF Op
  <2>7. op' \in [Ids -> Op]
    BY <1>2, <1>5, <2>5, <2>6, Lists
  <2>8. \A x \in Ids : op'[x].tag = op[x].tag /\ op'[x].target = op[x].target /\ op'[x].o_cancel = op[x].o_cancel
                      /\ op'[x].o_abandon = op[x].o_abandon
                      /\ (x # o /\ x # t => op'[x].pc = op[x].pc)
    BY <2>3, <2>5, <2>6
  <2>9. Follows(op', c_n_ops_received')
    <3>1. \A x \in Ids : Kept(op'[x], op[x])
      BY <1>0, <2>2, <2>5, <2>6, <2>8 DEF Kept
    <3>2. \A x \in Ids : op'[x].pc = "none" <=> x > c_n_ops_received'
      BY <1>0, <1>1, <2>2, <2>5, <2>6, <2>8 DEF IInv, OpAt
    <3> QED BY <2>7, <3>1, <3>2 DEF Follows
  <2>10. c_ops' = ActiveIn(op') /\ PendingIn(op') = PendingIn(op) \ {t}
    <3>1. \A x \in Ids : op'[x].pc \in Active <=> op[x].pc \in Active
      BY <1>0, <1>1, <2>2, <2>5, <2>6, <2>8
    <3>2. \A x \in Ids : op'[x].pc = "pending" <=> op[x].pc = "pending" /\ x # t
      BY <1>0, <1>1, <2>2, <2>5, <2>6, <2>8
    <3>3. c_ops' = ActiveIn(op')
      BY <1>1, <3>1, Lists DEF ActiveIn
    <3>4. PendingIn(op') = PendingIn(op) \ {t}
      BY <3>2 DEF PendingIn
    <3> QED BY <3>3, <3>4
  <2>11. \A x \in Ids : OpAt(x)' /\ CancelAt(x)'
    BY <2>9, <2>10, OpsKept
  <2>12. c_pending_ops \in Seq(Ids) /\ Increasing(c_pending_ops) /\ Len(c_pending_ops) \in Nat /\ i \in 1..Len(c_pending_ops)
    BY SeqPlaces, Lists DEF IInv
  <2>13. /\ c_pending_ops' \in Seq(Ids) /\ Len(c_pending_ops') = Len(c_pending_ops) - 1
         /\ Increasing(c_pending_ops')
         /\ RangeOf(c_pending_ops') = RangeOf(c_pending_ops) \ {c_pending_ops[i]}
         /\ \A j \in 1..Len(c_pending_ops') : j < i => c_pending_ops'[j] = c_pending_ops[j]
         /\ \A j \in 1..Len(c_pending_ops') : j >= i => c_pending_ops'[j] = c_pending_ops[j + 1]
    <3>1. c_pending_ops' = SubSeq(c_pending_ops, 1, i - 1) \o SubSeq(c_pending_ops, i + 1, Len(c_pending_ops))
      BY <2>1
    <3>2. c_pending_ops \in Seq(Ids) /\ Increasing(c_pending_ops) /\ i \in 1..Len(c_pending_ops)
      BY <2>12
    <3>3. Removed(c_pending_ops', c_pending_ops, i)
      BY <3>1, <3>2, RemoveFromList
    <3> QED BY <3>3 DEF Removed
  <2>14. RangeOf(c_pending_ops') = PendingIn(op')
    BY <2>1, <2>10, <2>13, Lists
  <2>15. /\ c_n_ops_pending' \in 0..MaxOps
         /\ Len(c_pending_ops') <= c_n_ops_pending' /\ c_n_ops_pending' <= c_n_ops_received'
    <3>1. /\ Len(c_pending_ops) <= c_n_ops_pending /\ c_n_ops_pending <= c_n_ops_received
          /\ c_n_ops_pending \in 0..MaxOps /\ c_n_ops_received \in 0..MaxOps
      BY DEF IInv, Counts, TypeOK
    <3> QED BY SMTT(60), <1>1, <1>5, <2>12, <2>13, <3>1, ConnOpsAssumption
  <2>16. Counts'
    <3>1. ASSUME ~Closed', \A x \in Ids : op'[x].tag # "BIND"
          PROVE  c_n_ops_pending' = Len(c_pending_ops')
      <4>1. ~Closed /\ \A x \in Ids : op[x].tag # "BIND"
        BY <1>1, <2>8, <3>1 DEF Closed
      <4>2. c_n_ops_pending = Len(c_pending_ops)
        BY <4>1 DEF IInv, Counts
      <4> QED BY SMT, <1>5, <2>12, <2>13, <4>2
    <3>2. c_n_ops_executing' = Cardinality(c_ops')
      BY <1>1 DEF IInv, Counts
    <3> QED BY <2>15, <3>1, <3>2 DEF Counts
  <2>17. TypeOK'
    <3>1. c_ops' = {x \in Ids : op'[x].pc \in Active} /\ RangeOf(c_pending_ops') = {x \in Ids : op'[x].pc = "pending"}
      BY <2>10, <2>14 DEF ActiveIn, PendingIn
    <3> QED BY <1>1, <2>7, <2>13, <2>15, <3>1 DEF IInv, TypeOK
  <2>18. Reader'
    <3>1. \A x \in Ids : op'[x].pc = "held" <=> op[x].pc = "held"
      BY <1>1, <2>2, <2>5, <2>6, <2>8
    <3> QED BY <1>1, <3>1 DEF IInv, Reader, Closed
  <2>19. Closing'
    <3>1. writer # 0 => writer \in Ids /\ writer # o /\ writer # t
      BY <1>2, <2>2, Lists
    <3>2. writer' # 0 => op'[writer'].pc = "run" /\ op'[writer'].tag \in {"SEARCH", "BIND"}
      BY <1>1, <2>8, <3>1, Lists
    <3>3. ~Closed
      <4>1. c_pending_ops # <<>>
        BY SMT, <2>12, SeqNone
      <4> QED BY <4>1 DEF IInv, Closing
    <3> QED BY <1>1, <3>2, <3>3 DEF IInv, Closing, Closed
  <2>20. Binding'
    <3>1. \A x \in Ids : Harmless(op[x]) <=> Harmless(op'[x])
      BY <2>8 DEF Harmless
    <3>2. c_ops \subseteq Ids /\ \A j \in 1..Len(c_pending_ops) : c_pending_ops[j] \in Ids
      BY <2>12, Lists, SeqPlace
    <3>3. ~setup'.events => BindingAt(c_conn_state', op', c_ops')
      BY SMTT(60), <1>1, <2>8, <3>1, <3>2 DEF IInv, Binding, BindingAt
    <3>4. FirstAt(op, c_ops, c_pending_ops)
      BY DEF IInv, Binding
    <3>5. ASSUME NEW j \in 2..Len(c_pending_ops') PROVE op'[c_pending_ops'[j]].tag # "BIND"
      <4>1. PICK k \in 2..Len(c_pending_ops) : c_pending_ops'[j] = c_pending_ops[k]
        <5>1. /\ j \in 1..Len(c_pending_ops') /\ j \in 2..Len(c_pending_ops) /\ j + 1 \in 2..Len(c_pending_ops)
          BY SMT, <2>12, <2>13
        <5>2. j < i \/ j >= i
          BY SMT, <2>12, <5>1
        <5> QED BY <2>13, <5>1, <5>2
      <4>2. k \in 1..Len(c_pending_ops)
        BY SMT, <2>12
      <4> QED BY <2>8, <3>2, <3>4, <4>1, <4>2 DEF FirstAt
    <3>6. ASSUME c_pending_ops' # <<>>, op'[c_pending_ops'[1]].tag = "BIND", NEW x \in c_ops'
          PROVE  Harmless(op'[x])
      <4>1. 1 \in 1..Len(c_pending_ops') /\ 1 \in 1..Len(c_pending_ops) /\ 1 + 1 \in 2..Len(c_pending_ops)
              /\ 1 + 1 \in 1..Len(c_pending_ops)
        BY SMT, <2>12, <2>13, <3>6, SeqNone
      <4>2. c_pending_ops'[1] = c_pending_ops[1] \/ c_pending_ops'[1] = c_pending_ops[1 + 1]
        <5>1. 1 < i \/ 1 >= i
          BY SMT, <2>12
        <5> QED BY <2>13, <4>1, <5>1
      <4>3. op[c_pending_ops[1 + 1]].tag # "BIND" /\ c_pending_ops[1 + 1] \in Ids /\ c_pending_ops[1] \in Ids
        BY <3>2, <3>4, <4>1 DEF FirstAt
      <4>4. op[c_pending_ops[1]].tag = "BIND"
        BY <2>8, <3>6, <4>2, <4>3
      <4>5. c_pending_ops # <<>>
        BY SMT, <2>12, SeqNone
      <4> QED BY <1>1, <3>1, <3>2, <3>4, <3>6, <4>4, <4>5 DEF FirstAt
    <3>7. FirstAt(op', c_ops', c_pending_ops')
      BY <3>5, <3>6 DEF FirstAt
    <3> QED BY <3>3, <3>7 DEF Binding
  <2>21. setup' \in Setups
    BY DEF IInv
  <2> QED BY <2>11, <2>13, <2>16, <2>17, <2>18, <2>19, <2>20, <2>21 DEF IInv
<1> QED BY <1>3, <1>4, <1>5 DEF do_abandon

Cancelled(g, o, t, c, a, l) ==
  /\ g \in [Ids -> Op]
  /\ \A x \in Ids : /\ g[x].tag = op[x].tag /\ g[x].target = op[x].target
                    /\ x = o => g[x].pc = l
                    /\ x # o => g[x].pc = op[x].pc
                    /\ x = t => g[x].o_cancel = c
                    /\ x # t => g[x].o_cancel = op[x].o_cancel
                    /\ x = t => g[x].o_abandon = a
                    /\ x # t => g[x].o_abandon = op[x].o_abandon

(* What a Cancel does to its target and to itself.                         *)
LEMMA TargetMarked ==
  ASSUME IInv, NEW o \in Ids, NEW t \in Ids, NEW c \in {"REQ", "DONE"}, NEW a \in 0..2, NEW l \in Pcs,
         NEW g, g = [[op EXCEPT ![t].o_cancel = c, ![t].o_abandon = a] EXCEPT ![o].pc = l]
  PROVE  Cancelled(g, o, t, c, a, l)
<1> DEFINE h == [op EXCEPT ![t].o_cancel = c, ![t].o_abandon = a]
<1>1. op[t] \in Op /\ op \in [Ids -> Op]
  BY Lists
<1>2. h[t] = [[op[t] EXCEPT !.o_cancel = c] EXCEPT !.o_abandon = a] /\ \A x \in Ids : x # t => h[x] = op[x]
  BY <1>1
<1>3. /\ h[t] \in Op /\ h[t].tag = op[t].tag /\ h[t].target = op[t].target /\ h[t].pc = op[t].pc
      /\ h[t].o_cancel = c /\ h[t].o_abandon = a
  BY ZenonT(60), <1>1, <1>2 DEF Op
<1>4. h \in [Ids -> Op]
  BY <1>1, <1>3
<1>5. g = [h EXCEPT ![o].pc = l]
  OBVIOUS
<1> HIDE DEF h
<1>6. /\ g \in [Ids -> Op]
      /\ g[o].pc = l /\ g[o].tag = h[o].tag /\ g[o].target = h[o].target
      /\ g[o].o_cancel = h[o].o_cancel /\ g[o].o_abandon = h[o].o_abandon
      /\ \A x \in Ids : x # o => g[x] = h[x]
  <2>1. Relabelled(g, h, o, l)
    BY <1>4, <1>5, OnePc
  <2> QED BY <2>1 DEF Relabelled
<1>7. ASSUME NEW x \in Ids
      PROVE  /\ g[x].tag = op[x].tag /\ g[x].target = op[x].target
             /\ x = o => g[x].pc = l
             /\ x # o => g[x].pc = op[x].pc
             /\ x = t => g[x].o_cancel = c
             /\ x # t => g[x].o_cancel = op[x].o_cancel
             /\ x = t => g[x].o_abandon = a
             /\ x # t => g[x].o_abandon = op[x].o_abandon
  <2>1. /\ h[x].tag = op[x].tag /\ h[x].target = op[x].target /\ h[x].pc = op[x].pc
        /\ x = t => h[x].o_cancel = c /\ h[x].o_abandon = a
        /\ x # t => h[x].o_cancel = op[x].o_cancel /\ h[x].o_abandon = op[x].o_abandon
    BY <1>2, <1>3
  <2>2. /\ g[x].tag = h[x].tag /\ g[x].target = h[x].target
        /\ x = o => g[x].pc = l
        /\ x # o => g[x].pc = h[x].pc
        /\ g[x].o_cancel = h[x].o_cancel /\ g[x].o_abandon = h[x].o_abandon
    BY <1>6
  <2> QED BY <2>1, <2>2
<1> QED BY <1>6, <1>7 DEF Cancelled

(* A Cancel marks its target and waits for it, or ends at once.            *)
LEMMA CancelInv ==
  ASSUME IInv, setup' = setup, NEW o \in Ids, cancel_extop(o)
  PROVE  IInv'
<1> DEFINE t == op[o].target
           Cancels == /\ op[o].o_abandon = 0
                      /\ t \in c_ops
                      /\ op[t].tag \notin {"BIND", "UNBIND", "ABANDON"}
                      /\ op[t].o_cancel = "NONE"
<1>0. /\ {"run", "done", "cancelling"} \subseteq Active /\ {"done", "cancelling"} \subseteq Pcs
      /\ "none" \notin Active
  BY DEF Active, Pcs
<1>1. /\ op[o].pc = "run" /\ op[o].tag = "CANCEL"
      /\ op' = IF Cancels
               THEN [[op EXCEPT ![t].o_cancel = "REQ", ![t].o_abandon = 1] EXCEPT ![o].pc = "cancelling"]
               ELSE [op EXCEPT ![o].pc = "done"]
      /\ UNCHANGED <<c_conn_state, counters, c_ops, c_pending_ops, writer, cri, setup>>
  BY DEF cancel_extop
<1>2. writer # o /\ t \in Ids /\ o \in c_ops
  BY <1>1, Caller
<1>3. CASE ~Cancels
  <2>1. op' = [op EXCEPT ![o].pc = "done"]
    BY <1>1, <1>3
  <2>2. /\ op' \in [Ids -> Op]
        /\ op'[o].pc = "done" /\ op'[o].tag = op[o].tag /\ op'[o].target = op[o].target
        /\ op'[o].o_cancel = op[o].o_cancel /\ op'[o].o_abandon = op[o].o_abandon
        /\ \A x \in Ids : x # o => op'[x] = op[x]
    <3>1. op \in [Ids -> Op] /\ "done" \in Pcs
      BY <1>0, Lists
    <3>2. Relabelled(op', op, o, "done")
      BY <2>1, <3>1, OnePc
    <3> QED BY <3>2 DEF Relabelled
  <2>3. /\ writer' \in c_ops \cup {0}
        /\ writer' # 0 => ~Closed /\ op'[writer'].pc = "run" /\ op'[writer'].tag \in {"SEARCH", "BIND"}
    BY <1>1, <1>2, <2>2, Lists
  <2>4. UNCHANGED <<c_conn_state, counters, c_ops, c_pending_ops, cri, setup>>
    BY <1>1
  <2>5. op[o].pc \in Active /\ op[o].pc # "held" /\ op'[o].pc \in Active /\ op'[o].pc # "held" /\ op'[o].pc # "cancelling"
    BY <1>0, <1>1, <2>2
  <2> QED BY <2>2, <2>3, <2>4, <2>5, OneActive
<1>4. CASE Cancels
  <2>1. op' = [[op EXCEPT ![t].o_cancel = "REQ", ![t].o_abandon = 1] EXCEPT ![o].pc = "cancelling"]
    BY <1>1, <1>4
  <2>2. t \in c_ops /\ op[t].tag \notin {"BIND", "UNBIND", "ABANDON"} /\ op[t].o_cancel = "NONE"
    BY <1>4
  <2> HIDE DEF t, Cancels
  <2>3. 1 \in 0..2
    BY SMT
  <2>4. /\ op' \in [Ids -> Op]
        /\ \A x \in Ids : /\ op'[x].tag = op[x].tag /\ op'[x].target = op[x].target
                          /\ x = o => op'[x].pc = "cancelling"
                          /\ x # o => op'[x].pc = op[x].pc
                          /\ x = t => op'[x].o_cancel = "REQ"
                          /\ x # t => op'[x].o_cancel = op[x].o_cancel
                          /\ x = t => op'[x].o_abandon = 1
                          /\ x # t => op'[x].o_abandon = op[x].o_abandon
    <3>1. t \in Ids /\ "REQ" \in {"REQ", "DONE"} /\ "cancelling" \in Pcs
      BY <1>0, <1>2
    <3>2. Cancelled(op', o, t, "REQ", 1, "cancelling")
      BY <2>1, <2>3, <3>1, TargetMarked
    <3> QED BY <3>2 DEF Cancelled
  <2>5. 1 # 0
    BY SMT
  <2>6. \A x \in Ids : OpAt(x) /\ CancelAt(x)
    BY DEF IInv
  <2>7. ASSUME NEW x \in Ids PROVE OpAt(x)'
    <3>1. op'[x].pc = "none" <=> op[x].pc = "none"
      BY SMTT(60), <1>1, <2>4
    <3>2. c_n_ops_received' = c_n_ops_received
      BY <1>1 DEF counters
    <3>3. OpAt(x) /\ op'[x].tag = op[x].tag /\ op'[x].target = op[x].target
      BY <2>4, <2>6
    <3>4. op'[x].o_cancel # "NONE" => op'[x].tag # "BIND" /\ op'[x].o_abandon # 0
      <4>1. CASE x = t
        BY <2>2, <2>4, <2>5, <4>1
      <4>2. CASE x # t
        BY <2>4, <3>3, <4>2 DEF OpAt
      <4> QED BY <4>1, <4>2
    <3>5. op'[x].pc = "cancelling" => op'[x].tag = "CANCEL"
      <4>1. CASE x = o
        BY <1>1, <3>3, <4>1
      <4>2. CASE x # o
        BY <2>4, <3>3, <4>2 DEF OpAt
      <4> QED BY <4>1, <4>2
    <3> QED BY <3>1, <3>2, <3>3, <3>4, <3>5 DEF OpAt
  <2>8. ASSUME NEW x \in Ids, op[x].pc = "cancelling" PROVE op[x].target # t
    BY <2>2, <2>6, <2>8 DEF CancelAt
  <2>9. op[o].target = t
    BY DEF t
  <2>10. ASSUME NEW x \in Ids PROVE CancelAt(x)'
    <3> SUFFICES ASSUME op'[x].pc = "cancelling" PROVE CancelAt(x)'
      BY DEF CancelAt
    <3>1. CASE x = o
      <4>1. \A p \in Ids : op'[p].pc = "cancelling" /\ op'[p].target = t => p = o
        BY <2>4, <2>8
      <4>2. op'[o].target = t /\ op'[t].o_cancel = "REQ" /\ t \in c_ops'
        BY <1>1, <1>2, <2>2, <2>4, <2>9
      <4> QED BY <3>1, <4>1, <4>2 DEF CancelAt
    <3>2. CASE x # o
      <4> DEFINE y == op[x].target
      <4>1. op[x].pc = "cancelling" /\ op'[x].target = y
        BY <2>4, <3>2
      <4>2. /\ y \in c_ops /\ op[y].o_cancel \in {"REQ", "ACK", "TOO_LATE"}
            /\ \A p \in Ids : op[p].pc = "cancelling" /\ op[p].target = y => p = x
        BY <2>6, <4>1 DEF CancelAt
      <4>3. y # t /\ y \in Ids
        BY <2>8, <4>1, <4>2, Lists
      <4> HIDE DEF y
      <4>4. op'[y].o_cancel = op[y].o_cancel
        BY <2>4, <4>3
      <4>5. ASSUME NEW p \in Ids, op'[p].pc = "cancelling", op'[p].target = y
            PROVE  p = x
        <5>1. CASE p = o
          BY <2>4, <2>9, <4>3, <4>5, <5>1
        <5>2. CASE p # o
          BY <2>4, <4>2, <4>5, <5>2
        <5> QED BY <5>1, <5>2
      <4> QED BY <1>1, <4>1, <4>2, <4>4, <4>5 DEF CancelAt
    <3> QED BY <3>1, <3>2
  <2>11. \A x \in Ids : op'[x].pc = op[x].pc \/ (op[x].pc \in Active \ {"held"} /\ op'[x].pc \in Active \ {"held"})
    BY SMTT(60), <1>0, <1>1, <2>4
  <2>12. writer # 0 => op'[writer].pc = "run" /\ op'[writer].tag = op[writer].tag
    BY <1>2, <2>4, Lists
  <2>13. \A x \in Ids : op'[x].tag = op[x].tag /\ (op[x].o_abandon # 0 => op'[x].o_abandon # 0)
    BY <2>4, <2>5
  <2>14. \A x \in Ids : OpAt(x)' /\ CancelAt(x)'
    BY <2>7, <2>10
  <2> QED BY <1>1, <2>4, <2>11, <2>12, <2>13, <2>14, MarkInv
<1> QED BY <1>3, <1>4

(* The canceller has its answer and ends.                                  *)
LEMMA AnsweredInv ==
  ASSUME IInv, setup' = setup, NEW o \in Ids, CancelAnswered(o)
  PROVE  IInv'
<1> DEFINE t == op[o].target
<1>0. /\ {"run", "done", "cancelling"} \subseteq Active /\ "done" \in Pcs /\ "none" \notin Active
  BY DEF Active, Pcs
<1>1. /\ op[o].pc = "cancelling"
      /\ op' = [[op EXCEPT ![t].o_cancel = "DONE"] EXCEPT ![o].pc = "done"]
      /\ UNCHANGED <<c_conn_state, counters, c_ops, c_pending_ops, writer, cri, setup>>
  BY DEF CancelAnswered
<1>2. \A x \in Ids : OpAt(x) /\ CancelAt(x)
  BY DEF IInv
<1>3. op[o].tag = "CANCEL"
  BY <1>1, <1>2 DEF OpAt
<1>4. writer # o /\ t \in Ids /\ o \in c_ops
  BY <1>1, <1>3, Caller
<1>5. /\ op[t].o_cancel \in {"REQ", "ACK", "TOO_LATE"}
      /\ \A p \in Ids : op[p].pc = "cancelling" /\ op[p].target = t => p = o
  BY <1>1, <1>2 DEF CancelAt
<1>6. op[t].tag # "BIND" /\ op[t].o_abandon # 0
  BY <1>2, <1>4, <1>5 DEF OpAt
<1> HIDE DEF t
<1>7. /\ op' \in [Ids -> Op]
      /\ \A x \in Ids : /\ op'[x].tag = op[x].tag /\ op'[x].target = op[x].target
                        /\ op'[x].pc = IF x = o THEN "done" ELSE op[x].pc
                        /\ op'[x].o_cancel = IF x = t THEN "DONE" ELSE op[x].o_cancel
                        /\ op'[x].o_abandon = op[x].o_abandon
  <2> DEFINE h == [op EXCEPT ![t].o_cancel = "DONE"]
  <2>1. op[t] \in Op /\ op \in [Ids -> Op]
    BY <1>4, Lists
  <2>2. h[t] = [op[t] EXCEPT !.o_cancel = "DONE"] /\ \A x \in Ids : x # t => h[x] = op[x]
    BY <1>4, <2>1
  <2>3. /\ h[t] \in Op /\ h[t].tag = op[t].tag /\ h[t].target = op[t].target /\ h[t].pc = op[t].pc
        /\ h[t].o_cancel = "DONE" /\ h[t].o_abandon = op[t].o_abandon
    BY SMT, <2>1, <2>2 DEF Op
  <2>4. h \in [Ids -> Op]
    BY <2>1, <2>3
  <2>5. op' = [h EXCEPT ![o].pc = "done"]
    BY <1>1
  <2> HIDE DEF h
  <2>6. /\ op' \in [Ids -> Op]
        /\ op'[o].pc = "done" /\ op'[o].tag = h[o].tag /\ op'[o].target = h[o].target
        /\ op'[o].o_cancel = h[o].o_cancel /\ op'[o].o_abandon = h[o].o_abandon
        /\ \A x \in Ids : x # o => op'[x] = h[x]
    <3>1. Relabelled(op', h, o, "done")
      BY <1>0, <2>4, <2>5, OnePc
    <3> QED BY <3>1 DEF Relabelled
  <2>7. ASSUME NEW x \in Ids
        PROVE  /\ h[x].tag = op[x].tag /\ h[x].target = op[x].target /\ h[x].pc = op[x].pc
               /\ h[x].o_cancel = (IF x = t THEN "DONE" ELSE op[x].o_cancel)
               /\ h[x].o_abandon = op[x].o_abandon
    <3>1. CASE x = t
      BY <2>3, <3>1
    <3>2. CASE x # t
      BY <2>2, <3>2
    <3> QED BY <3>1, <3>2
  <2>8. ASSUME NEW x \in Ids
        PROVE  /\ op'[x].tag = op[x].tag /\ op'[x].target = op[x].target
               /\ op'[x].pc = (IF x = o THEN "done" ELSE op[x].pc)
               /\ op'[x].o_cancel = (IF x = t THEN "DONE" ELSE op[x].o_cancel)
               /\ op'[x].o_abandon = op[x].o_abandon
    <3>1. CASE x = o
      BY <2>6, <2>7, <3>1
    <3>2. CASE x # o
      BY <2>6, <2>7, <3>2
    <3> QED BY <3>1, <3>2
  <2> QED BY <2>6, <2>8
<1>8. ASSUME NEW x \in Ids PROVE OpAt(x)'
  <2>1. op'[x].pc = "none" <=> op[x].pc = "none"
    BY SMTT(60), <1>1, <1>7
  <2>2. c_n_ops_received' = c_n_ops_received
    BY <1>1 DEF counters
  <2>3. op'[x].pc = "cancelling" => op[x].pc = "cancelling"
    BY <1>7
  <2> QED BY SMTT(60), <1>2, <1>6, <1>7, <2>1, <2>2, <2>3 DEF OpAt
<1>9. ASSUME NEW x \in Ids PROVE CancelAt(x)'
  <2> SUFFICES ASSUME op'[x].pc = "cancelling" PROVE CancelAt(x)'
    BY DEF CancelAt
  <2> DEFINE y == op[x].target
  <2>1. op[x].pc = "cancelling" /\ op'[x].target = y /\ x # o
    BY <1>7
  <2>2. /\ y \in c_ops /\ op[y].o_cancel \in {"REQ", "ACK", "TOO_LATE"}
        /\ \A p \in Ids : op[p].pc = "cancelling" /\ op[p].target = y => p = x
    BY <1>2, <2>1 DEF CancelAt
  <2>3. y # t /\ y \in Ids
    BY <1>5, <2>1, <2>2, Lists
  <2> HIDE DEF y
  <2>4. op'[y].o_cancel = op[y].o_cancel
    BY <1>7, <2>3
  <2>5. \A p \in Ids : op'[p].pc = "cancelling" /\ op'[p].target = y => p = x
    BY <1>7, <2>2
  <2> QED BY <1>1, <2>1, <2>2, <2>4, <2>5 DEF CancelAt
<1>10. \A x \in Ids : op'[x].pc = op[x].pc \/ (op[x].pc \in Active \ {"held"} /\ op'[x].pc \in Active \ {"held"})
  BY SMTT(60), <1>0, <1>1, <1>7
<1>11. writer # 0 => op'[writer].pc = "run" /\ op'[writer].tag = op[writer].tag
  BY <1>4, <1>7, Lists
<1>12. \A x \in Ids : OpAt(x)' /\ CancelAt(x)'
  BY <1>8, <1>9
<1> QED BY <1>1, <1>7, <1>10, <1>11, <1>12, MarkInv

(* A cancelled operation answers and waits for its canceller.              *)
LEMMA AnswerInv ==
  ASSUME IInv, setup' = setup, NEW o \in Ids, Returned(o), op[o].o_cancel = "REQ",
         NEW tag \in {op[o].tag, "LBER_ERROR"}, NEW c \in {"ACK", "TOO_LATE"},
         op' = [op EXCEPT ![o].pc = "ackwait", ![o].tag = tag, ![o].o_cancel = c],
         UNCHANGED <<c_conn_state, counters, c_ops, c_pending_ops, writer, cri>>
  PROVE  IInv'
<1>0. {"run", "done", "ackwait"} \subseteq Active /\ "none" \notin Active
  BY DEF Active
<1>1. op[o].pc \in {"run", "done"} /\ writer # o
  BY Lists DEF Returned
<1>2. \A x \in Ids : OpAt(x) /\ CancelAt(x)
  BY DEF IInv
<1>3. op[o].tag # "BIND" /\ op[o].o_abandon # 0
  BY <1>2 DEF OpAt
<1>4. op[o] \in Op /\ op \in [Ids -> Op]
  BY Lists
<1>5. /\ op'[o] = [[[op[o] EXCEPT !.pc = "ackwait"] EXCEPT !.tag = tag] EXCEPT !.o_cancel = c]
      /\ \A x \in Ids : x # o => op'[x] = op[x]
  BY <1>4
<1>6. /\ op'[o] \in Op /\ op'[o].pc = "ackwait" /\ op'[o].tag = tag /\ op'[o].o_cancel = c
      /\ op'[o].target = op[o].target /\ op'[o].o_abandon = op[o].o_abandon
  BY SMT, <1>4, <1>5 DEF Op
<1>7. op' \in [Ids -> Op]
  BY <1>4, <1>6
<1>8. ASSUME NEW x \in Ids PROVE OpAt(x)'
  <2>1. c_n_ops_received' = c_n_ops_received
    BY DEF counters
  <2>2. CASE x = o
    <3>1. op[x].pc # "none" /\ op'[x].pc # "none" /\ op'[x].pc # "cancelling"
      BY <1>1, <1>6, <2>2
    <3>2. tag # "BIND" /\ (tag \in {"ABANDON", "CANCEL"} => tag = op[o].tag)
      BY <1>3
    <3> QED BY SMTT(60), <1>2, <1>3, <1>6, <2>1, <2>2, <3>1, <3>2 DEF OpAt
  <2>3. CASE x # o
    BY <1>2, <1>5, <2>1, <2>3 DEF OpAt
  <2> QED BY <2>2, <2>3
<1>9. ASSUME NEW x \in Ids PROVE CancelAt(x)'
  <2> SUFFICES ASSUME op'[x].pc = "cancelling" PROVE CancelAt(x)'
    BY DEF CancelAt
  <2> DEFINE y == op[x].target
  <2>1. op[x].pc = "cancelling" /\ op'[x].target = y
    BY <1>5, <1>6
  <2>2. /\ y \in c_ops /\ op[y].o_cancel \in {"REQ", "ACK", "TOO_LATE"}
        /\ \A p \in Ids : op[p].pc = "cancelling" /\ op[p].target = y => p = x
    BY <1>2, <2>1 DEF CancelAt
  <2>3. y \in Ids
    BY <2>2, Lists
  <2> HIDE DEF y
  <2>4. op'[y].o_cancel \in {"REQ", "ACK", "TOO_LATE"}
    BY <1>5, <1>6, <2>2, <2>3
  <2>5. \A p \in Ids : op'[p].pc = "cancelling" => op[p].pc = "cancelling" /\ op'[p].target = op[p].target
    BY <1>5, <1>6
  <2>6. \A p \in Ids : op'[p].pc = "cancelling" /\ op'[p].target = y => p = x
    BY <2>2, <2>5
  <2> QED BY <2>1, <2>2, <2>4, <2>6 DEF CancelAt
<1>10. \A x \in Ids : op'[x].pc = op[x].pc \/ (op[x].pc \in Active \ {"held"} /\ op'[x].pc \in Active \ {"held"})
  BY <1>0, <1>1, <1>5, <1>6
<1>11. writer # 0 => op'[writer].pc = "run" /\ op'[writer].tag = op[writer].tag
  BY <1>1, <1>5, Lists
<1>12. \A x \in Ids : OpAt(x)' /\ CancelAt(x)'
  BY <1>8, <1>9
<1>13. \A x \in Ids : op'[x].tag = op[x].tag \/ (op[x].tag # "BIND" /\ op'[x].tag # "BIND" /\ op'[x].o_abandon # 0)
  BY <1>3, <1>5, <1>6
<1>14. \A x \in Ids : op[x].o_abandon # 0 => op'[x].o_abandon # 0
  BY <1>5, <1>6
<1> QED BY <1>7, <1>10, <1>11, <1>12, <1>13, <1>14, MarkInv

(* The requests that a step starts are Abandons and Unbinds, or older than *)
(* every request that stays deferred.                                      *)
InOrder ==
  \A o \in c_ops' \ c_ops : \A p \in RangeOf(c_pending_ops') : op'[o].tag \in {"ABANDON", "UNBIND"} \/ o < p

(* An operation leaves the connection, which closes or starts others.      *)
LEMMA LeaveInv ==
  ASSUME Counting, IInv, setup' = setup, NEW o \in Ids, op[o].pc \in Active, op[o].o_cancel \in {"NONE", "DONE"},
         writer # o, ~cri.reading, NEW tag, NEW state,
         \/ state = c_conn_state
         \/ op[o].tag = "BIND" /\ c_conn_state = "BINDING" /\ state = "ACTIVE",
         Leave(o, tag, state)
  PROVE  IInv' /\ InOrder
<1> DEFINE f == [op EXCEPT ![o] = Freed(op[o])]
           active == c_ops \ {o}
           executing == c_n_ops_executing - 1
           now == IF tag \in {"UNBIND", "LBER_ERROR"} THEN "CLOSING" ELSE state
<1>0. "freed" \notin Active /\ "pending" \notin Active /\ "none" \notin Active
  BY DEF Active
<1>1. connection_resched(f, active, executing, now) /\ UNCHANGED <<c_n_ops_received, cri, setup>>
  BY DEF Leave
<1>2. op[o] \in Op /\ op \in [Ids -> Op] /\ c_ops = ActiveIn(op) /\ o \in c_ops /\ c_ops \subseteq Ids
  BY Lists DEF ActiveIn
<1>3. f[o] = Freed(op[o]) /\ \A x \in Ids : x # o => f[x] = op[x]
  BY <1>2
<1>4. /\ f[o] \in Op /\ f[o].pc = "freed" /\ f[o].tag = op[o].tag /\ f[o].target = op[o].target
      /\ f[o].o_cancel = op[o].o_cancel /\ f[o].o_abandon = op[o].o_abandon
  BY <1>2, <1>3, FreedOp
<1>5. f \in [Ids -> Op]
  BY <1>2, <1>4
<1> HIDE DEF f
<1>6. Follows(f, c_n_ops_received)
  <2>1. ASSUME NEW x \in Ids PROVE Kept(f[x], op[x]) /\ (f[x].pc = "none" <=> x > c_n_ops_received)
    <3>1. op[x].pc = "none" <=> x > c_n_ops_received
      BY DEF IInv, OpAt
    <3>2. CASE x = o
      <4>1. op[o].pc # "none" /\ f[o].pc # "none" /\ f[o].pc # "cancelling"
        BY <1>0, <1>4
      <4> QED BY <1>4, <3>1, <3>2, <4>1 DEF Kept
    <3>3. CASE x # o
      BY <1>3, <3>1, <3>3 DEF Kept
    <3> QED BY <3>2, <3>3
  <2> QED BY <1>5, <2>1 DEF Follows
<1>7. active = ActiveIn(f) /\ PendingIn(f) = PendingIn(op)
  <2>1. \A x \in Ids : f[x].pc \in Active <=> op[x].pc \in Active /\ x # o
    BY <1>0, <1>3, <1>4
  <2>2. \A x \in Ids : f[x].pc = "pending" <=> op[x].pc = "pending"
    BY <1>0, <1>3, <1>4
  <2>3. active = ActiveIn(f)
    BY <1>2, <2>1 DEF ActiveIn
  <2>4. PendingIn(f) = PendingIn(op)
    BY <2>2 DEF PendingIn
  <2> QED BY <2>3, <2>4
<1>8. executing = Cardinality(active)
  <2>1. c_n_ops_executing = Cardinality(c_ops)
    BY DEF IInv, Counts
  <2>2. Cardinality(c_ops \ {o}) = Cardinality(c_ops) - 1
    BY <1>2 DEF Counting
  <2> QED BY SMT, <2>1, <2>2
<1>9. /\ \A x \in Ids : f[x].tag = op[x].tag /\ f[x].o_abandon = op[x].o_abandon
      /\ \A x \in active : f[x] = op[x]
      /\ active \subseteq c_ops
  BY <1>2, <1>3, <1>4
<1>10. cri = NotReading
  BY DEF IInv, Reader
<1>11. RangeOf(c_pending_ops) = PendingIn(op) /\ c_pending_ops \in Seq(Ids) /\ writer \in c_ops \cup {0}
  BY Lists
<1> HIDE DEF executing, active, now
<1>12. CASE now = "CLOSING"
  <2>1. /\ connection_closing(f, active, c_pending_ops) /\ c_n_ops_executing' = executing
        /\ c_n_ops_pending' = c_n_ops_pending
    BY <1>1, <1>12 DEF connection_resched
  <2>2. \A x \in Ids : f[x].pc # "held"
    <3>1. cri.first = 0 /\ 0 \notin Ids
      BY SMT, <1>10, ConnOpsAssumption DEF NotReading, Ids
    <3>2. \A x \in Ids : op[x].pc # "held"
      BY <3>1 DEF IInv, Reader
    <3> QED BY <1>3, <1>4, <3>2
  <2>3. /\ c_n_ops_received' \in 0..MaxOps /\ c_n_ops_pending' \in 0..MaxOps
        /\ c_n_ops_pending' <= c_n_ops_received'
    BY <1>1, <2>1 DEF IInv, TypeOK, Counts
  <2>4. c_n_ops_pending' \in Nat
    BY SMT, <2>3
  <2>5. Follows(f, c_n_ops_received') /\ cri' = NotReading /\ setup' = setup
    BY <1>1, <1>6, <1>10
  <2>6. RangeOf(c_pending_ops) = PendingIn(f) /\ c_n_ops_executing' = Cardinality(active)
    BY <1>7, <1>8, <1>11, <2>1
  <2>7. IInv'
    BY <1>7, <1>11, <2>1, <2>2, <2>3, <2>4, <2>5, <2>6, ClosingInv
  <2>8. c_ops' = active
    BY <2>1 DEF connection_closing
  <2>9. InOrder
    BY <1>9, <2>8 DEF InOrder
  <2> QED BY <2>7, <2>9
<1>13. CASE now # "CLOSING"
  <2>1. PICK n \in 0..Len(c_pending_ops) :
          /\ IF writer = 0 /\ now = "ACTIVE" THEN Started(executing, n) ELSE n = 0
          /\ StartPending(f, active, executing, now, n)
    BY <1>1, <1>13 DEF connection_resched
  <2>2. now = state
    BY <1>13 DEF now
  <2>3. c_conn_state \notin {"INVALID", "INACTIVE"}
    BY <1>2 DEF IInv, Closing
  <2>4. c_conn_state \in {"ACTIVE", "BINDING"} /\ now \in {"ACTIVE", "BINDING"} /\ ~Closed
    BY <1>13, <2>2, <2>3 DEF IInv, TypeOK, Closed
  <2>5. ASSUME ~setup.events PROVE BindingAt(now, f, active)
    <3>1. BindingAt(c_conn_state, op, c_ops)
      BY <2>5 DEF IInv, Binding
    <3>2. BindingAt(c_conn_state, f, active)
      BY SMTT(60), <1>9, <3>1 DEF BindingAt
    <3>3. CASE now = c_conn_state
      BY <3>2, <3>3
    <3>4. CASE op[o].tag = "BIND" /\ c_conn_state = "BINDING" /\ now = "ACTIVE"
      <4>1. \A b \in active : op[b].tag # "BIND"
        BY <1>2, <3>1, <3>4 DEF BindingAt, active
      <4>2. \A b \in active : f[b].tag # "BIND"
        BY <1>9, <4>1
      <4> QED BY <4>2 DEF BindingAt
    <3> QED BY <2>2, <3>3, <3>4
  <2>6. \/ n = 0
        \/ now = "ACTIVE" /\ \A k \in 1..(n - 1) : op[c_pending_ops[k]].tag # "BIND"
    <3> SUFFICES ASSUME n # 0 PROVE now = "ACTIVE" /\ \A k \in 1..(n - 1) : op[c_pending_ops[k]].tag # "BIND"
      OBVIOUS
    <3>1. now = "ACTIVE" /\ \A k \in 1..n : Starts(executing, k)
      BY <2>1 DEF Started
    <3>2. ASSUME NEW k \in 1..(n - 1) PROVE op[c_pending_ops[k]].tag # "BIND"
      <4>1. k + 1 \in 1..n /\ k + 1 > 1 /\ (k + 1) - 1 = k
        BY SMT, <1>11, SeqPlaces
      <4>2. op[c_pending_ops[(k + 1) - 1]].tag # "BIND"
        BY <3>1, <4>1 DEF Starts
      <4> QED BY <4>1, <4>2
    <3> QED BY <3>1, <3>2
  <2>7. writer \in active \cup {0}
    BY <1>11 DEF active
  <2>8. UNCHANGED <<c_n_ops_received, cri, setup>>
    BY <1>1
  <2>9. IInv' /\ \A x \in c_ops' \ c_ops : \A p \in RangeOf(c_pending_ops') : x < p
    <3>1. StartPending(f, active, executing, now, n)
      BY <2>1
    <3> QED BY SMTT(60), <1>6, <1>7, <1>8, <1>9, <2>4, <2>5, <2>6, <2>7, <2>8, <3>1, StartInv
  <2> QED BY <2>9 DEF InOrder
<1> QED BY <1>12, <1>13

(* connection_operation, CancellerDone.                                    *)
LEMMA OperationInv ==
  ASSUME Counting, IInv, setup' = setup, NEW o \in Ids, NEW rc \in {"DONE", "ABANDON", "DISCONNECT"},
         connection_operation(o, rc) \/ CancellerDone(o)
  PROVE  IInv' /\ InOrder
<1>0. {"run", "done", "ackwait"} \subseteq Active
  BY DEF Active
<1>1. CASE connection_operation(o, rc)
  <2> DEFINE tag == IF rc = "DISCONNECT" THEN "LBER_ERROR" ELSE op[o].tag
             bound == IF op[o].tag = "BIND" /\ c_conn_state = "BINDING" THEN "ACTIVE" ELSE c_conn_state
             c == IF rc = "ABANDON" THEN "ACK" ELSE "TOO_LATE"
  <2>1. Returned(o) /\ ~cri.reading
    BY <1>1 DEF connection_operation
  <2>2. op[o].pc \in Active /\ writer # o
    BY <1>0, <2>1, Lists DEF Returned
  <2>3. CASE op[o].o_cancel \in {"NONE", "DONE"} /\ Leave(o, tag, bound)
    <3>1. bound = c_conn_state \/ (op[o].tag = "BIND" /\ c_conn_state = "BINDING" /\ bound = "ACTIVE")
      OBVIOUS
    <3> HIDE DEF tag, bound
    <3> QED BY <2>1, <2>2, <2>3, <3>1, LeaveInv
  <2>4. CASE /\ op[o].o_cancel = "REQ"
             /\ op' = [op EXCEPT ![o].pc = "ackwait", ![o].tag = tag, ![o].o_cancel = c]
             /\ c_conn_state' = bound
             /\ UNCHANGED <<counters, c_ops, c_pending_ops, writer, cri>>
    <3>1. op[o].tag # "BIND"
      BY <2>4 DEF IInv, OpAt
    <3>2. UNCHANGED <<c_conn_state, counters, c_ops, c_pending_ops, writer, cri>>
      BY <2>4, <3>1
    <3>3. tag \in {op[o].tag, "LBER_ERROR"} /\ c \in {"ACK", "TOO_LATE"}
      OBVIOUS
    <3> HIDE DEF tag, bound, c
    <3>4. IInv'
      BY <2>1, <2>4, <3>2, <3>3, AnswerInv
    <3>5. InOrder
      BY <3>2 DEF InOrder
    <3> QED BY <3>4, <3>5
  <2> QED BY <1>1, <2>3, <2>4 DEF connection_operation
<1>2. CASE CancellerDone(o)
  <2>1. /\ op[o].pc = "ackwait" /\ ~cri.reading /\ op[o].o_cancel \in {"NONE", "DONE"}
        /\ Leave(o, op[o].tag, c_conn_state)
    BY <1>2 DEF CancellerDone
  <2>2. op[o].pc \in Active /\ writer # o
    BY <1>0, <2>1, Lists
  <2> QED BY <2>1, <2>2, LeaveInv
<1> QED BY <1>1, <1>2

(* A write event starts one pending operation.                             *)
LEMMA WriteInv ==
  ASSUME Counting, IInv, setup' = setup, connection_write
  PROVE  IInv' /\ InOrder
<1>1. /\ setup.events /\ ~cri.reading /\ writer # 0 /\ c_pending_ops # <<>>
      /\ StartPending(op, c_ops, c_n_ops_executing, c_conn_state, 1)
      /\ UNCHANGED <<c_n_ops_received, cri, setup>>
  BY DEF connection_write
<1>2. Follows(op, c_n_ops_received)
  BY Lists DEF Follows, Kept, IInv, OpAt
<1>3. writer \in c_ops /\ ~Closed
  BY <1>1, Lists
<1>4. c_conn_state \in {"ACTIVE", "BINDING"}
  <2>1. c_conn_state \notin {"INVALID", "INACTIVE"}
    BY <1>3 DEF IInv, Closing
  <2> QED BY <1>3, <2>1 DEF IInv, TypeOK, Closed
<1>5. 1 \in 0..Len(c_pending_ops)
  <2>1. c_pending_ops \in Seq(Ids)
    BY Lists
  <2>2. Len(c_pending_ops) \in Nat /\ Len(c_pending_ops) # 0
    BY <1>1, <2>1, SeqPlaces, SeqNone
  <2> QED BY SMT, <2>2
<1>6. c_n_ops_executing = Cardinality(c_ops) /\ c_ops = ActiveIn(op)
  BY Lists DEF IInv, Counts
<1>7. /\ \A o \in Ids : op[o].tag = op[o].tag /\ op[o].o_abandon = op[o].o_abandon
      /\ \A o \in c_ops : op[o] = op[o]
      /\ c_ops \subseteq c_ops /\ PendingIn(op) = PendingIn(op) /\ writer \in c_ops \cup {0}
  BY <1>3
<1>8. IInv' /\ \A x \in c_ops' \ c_ops : \A p \in RangeOf(c_pending_ops') : x < p
  BY <1>1, <1>2, <1>3, <1>4, <1>5, <1>6, <1>7, StartInv
<1> QED BY <1>8 DEF InOrder

-----------------------------------------------------------------------------
(* connection_input.                                                       *)

(* The records once the request o has arrived, with what a Bind did to the *)
(* earlier ones, and the pending list without o.                           *)
Arrived(f, pending, o, t) ==
  /\ Follows(f, o)
  /\ f[o].tag = t /\ f[o].pc = "pending"
  /\ \A x \in Ids : x # o => /\ f[x].tag = op[x].tag
                             /\ op[x].o_abandon # 0 => f[x].o_abandon # 0
                             /\ f[x].pc = "held" <=> op[x].pc = "held"
  /\ \A x \in c_ops : f[x].pc = op[x].pc /\ (t = "BIND" => f[x].o_abandon # 0)
  /\ ActiveIn(f) = c_ops /\ PendingIn(f) = RangeOf(pending) \cup {o}
  /\ pending \in Seq(Ids) /\ Increasing(pending)
  /\ \A x \in RangeOf(pending) : x < o
  /\ pending = IF t = "BIND" THEN <<>> ELSE c_pending_ops

(* What connection_input makes of the records and of the pending list.     *)
Received(f0, f, pending, o, t, target) ==
  /\ o = c_n_ops_received + 1
  /\ f0 = IF t = "BIND" THEN connection_abandon(op, c_ops, c_pending_ops) ELSE op
  /\ f = [f0 EXCEPT ![o] = [NoOp EXCEPT !.tag = t, !.target = target,
                                       !.o_conn = TRUE, !.pc = "pending"]]
  /\ pending = IF t = "BIND" THEN <<>> ELSE c_pending_ops

(* What connection_input makes is a request that has arrived.              *)
LEMMA InputArrives ==
  ASSUME IInv, c_n_ops_received < MaxOps, NEW t \in Tags, NEW target \in 0..MaxOps,
         target # 0 <=> t \in {"ABANDON", "CANCEL"},
         NEW o, NEW f0, NEW f, NEW pending, Received(f0, f, pending, o, t, target)
  PROVE  o \in Ids /\ o \notin c_ops /\ op[o].pc = "none" /\ Arrived(f, pending, o, t)
<1>r. /\ o = c_n_ops_received + 1
      /\ f0 = IF t = "BIND" THEN connection_abandon(op, c_ops, c_pending_ops) ELSE op
      /\ f = [f0 EXCEPT ![o] = [NoOp EXCEPT !.tag = t, !.target = target,
                                           !.o_conn = TRUE, !.pc = "pending"]]
      /\ pending = IF t = "BIND" THEN <<>> ELSE c_pending_ops
  BY DEF Received
<1> USE <1>r
<1> DEFINE r == [NoOp EXCEPT !.tag = t, !.target = target, !.o_conn = TRUE, !.pc = "pending"]
<1>0. "none" \notin Active /\ "pending" \notin Active /\ "freed" \notin Active
  BY DEF Active
<1>1. c_n_ops_received \in 0..MaxOps /\ MaxOps \in Nat
  BY ConnOpsAssumption DEF IInv, TypeOK
<1>2. o \in Ids /\ o > c_n_ops_received /\ \A x \in Ids : x # o => (x > c_n_ops_received <=> x > o)
  BY SMT, <1>1 DEF Ids
<1>3. ~(o > o) /\ \A x \in Ids : ~(x > c_n_ops_received) => x < o
  BY SMT, <1>1 DEF Ids
<1>4. \A x \in Ids : op[x].pc = "none" <=> x > c_n_ops_received
  BY DEF IInv, OpAt
<1>5. op[o].pc = "none" /\ o \notin c_ops
  BY <1>0, <1>2, <1>4, Lists DEF ActiveIn
<1>6. Follows(op, c_n_ops_received)
  BY Lists DEF Follows, Kept, IInv, OpAt
<1>7. /\ f0 \in [Ids -> Op] /\ Follows(f0, c_n_ops_received) /\ ActiveIn(f0) = c_ops
      /\ \A x \in Ids : /\ f0[x].tag = op[x].tag
                        /\ op[x].o_abandon # 0 => f0[x].o_abandon # 0
                        /\ f0[x].pc = "held" <=> op[x].pc = "held"
      /\ \A x \in c_ops : f0[x].pc = op[x].pc /\ (t = "BIND" => f0[x].o_abandon # 0)
      /\ PendingIn(f0) = RangeOf(pending)
      /\ pending \in Seq(Ids) /\ Increasing(pending) /\ RangeOf(pending) \subseteq PendingIn(op)
  <2>1. CASE t # "BIND"
    <3>1. f0 = op /\ pending = c_pending_ops
      BY <2>1
    <3> QED BY <1>6, <2>1, <3>1, Lists DEF IInv
  <2>2. CASE t = "BIND"
    <3>1. f0 = connection_abandon(op, ActiveIn(op), c_pending_ops) /\ pending = <<>>
      BY <2>2, Lists
    <3>2. /\ f0 \in [Ids -> Op]
          /\ \A x \in Ids : /\ f0[x].tag = op[x].tag
                            /\ op[x].o_abandon # 0 => f0[x].o_abandon # 0
                            /\ x \in ActiveIn(op) => f0[x].pc = op[x].pc /\ f0[x].o_abandon # 0
                            /\ x \in PendingIn(op) => f0[x].pc = "freed"
                            /\ x \notin PendingIn(op) => f0[x].pc = op[x].pc
          /\ ActiveIn(f0) = ActiveIn(op) /\ PendingIn(f0) = {}
          /\ Follows(f0, c_n_ops_received)
      BY SMTT(60), <1>6, <3>1, Abandoned, Lists
    <3>3. \A x \in Ids : f0[x].pc = "held" <=> op[x].pc = "held"
      BY <3>2 DEF PendingIn
    <3>4. pending \in Seq(Ids) /\ Increasing(pending) /\ RangeOf(pending) = {}
      <4>1. <<>> \in Seq(Ids) /\ Len(<<>>) = 0
        BY SeqNone
      <4>2. RangeOf(<<>>) = {} /\ Increasing(<<>>)
        BY SMT, <4>1 DEF RangeOf, Increasing
      <4> QED BY <3>1, <4>1, <4>2
    <3> QED BY <3>2, <3>3, <3>4, Lists
  <2> QED BY <2>1, <2>2
<1>8. /\ r \in Op /\ r.tag = t /\ r.target = target /\ r.o_cancel = "NONE" /\ r.pc = "pending"
  <2> DEFINE z == [NoOp EXCEPT !.tag = t, !.target = target]
             y == [z EXCEPT !.o_conn = TRUE]
  <2>1. z \in Op /\ z.tag = t /\ z.target = target /\ z.o_cancel = "NONE"
    <3> DEFINE w == [NoOp EXCEPT !.tag = t]
    <3>1. NoOp \in Op /\ NoOp.o_cancel = "NONE"
      BY SMT, ConnOpsAssumption DEF NoOp, Op
    <3>2. z = [w EXCEPT !.target = target]
      OBVIOUS
    <3>3. w \in Op /\ w.tag = t /\ w.o_cancel = "NONE"
      BY SMT, <3>1 DEF Op
    <3> HIDE DEF w, z
    <3> QED BY SMT, <3>2, <3>3 DEF Op
  <2>2. r = [y EXCEPT !.pc = "pending"]
    OBVIOUS
  <2> HIDE DEF z
  <2>3. TRUE \in BOOLEAN
    OBVIOUS
  <2>4. y \in Op /\ y.tag = t /\ y.target = target /\ y.o_cancel = "NONE"
    BY <2>1, <2>3 DEF Op
  <2> HIDE DEF y, r
  <2> QED BY SMT, <2>2, <2>4 DEF Op
<1> HIDE DEF r
<1>9. f[o] = r /\ f \in [Ids -> Op] /\ \A x \in Ids : x # o => f[x] = f0[x]
  BY <1>2, <1>7, <1>8 DEF r
<1>10. Follows(f, o)
  <2>1. New(f[o], op[o]) /\ f[o].pc # "none"
    BY <1>5, <1>8, <1>9 DEF New
  <2>2. \A x \in Ids : x # o => /\ Kept(f[x], op[x]) \/ New(f[x], op[x])
                                /\ f[x].pc = "none" <=> x > c_n_ops_received
    BY <1>7, <1>9 DEF Follows
  <2>3. \A x \in Ids : f[x].pc = "none" <=> x > o
    BY <1>2, <1>3, <2>1, <2>2
  <2> QED BY <1>9, <2>1, <2>2, <2>3 DEF Follows
<1>11. ActiveIn(f) = c_ops
  <2>1. \A x \in Ids : f[x].pc \in Active <=> f0[x].pc \in Active /\ x # o
    BY <1>0, <1>8, <1>9
  <2>2. ActiveIn(f) = ActiveIn(f0) \ {o}
    BY <2>1 DEF ActiveIn
  <2>3. ActiveIn(f0) = c_ops /\ o \notin c_ops
    BY <1>5, <1>7
  <2> QED BY <2>2, <2>3
<1>12. PendingIn(f) = RangeOf(pending) \cup {o}
  <2>1. \A x \in Ids : f[x].pc = "pending" <=> f0[x].pc = "pending" \/ x = o
    BY <1>8, <1>9
  <2>2. PendingIn(f) = PendingIn(f0) \cup {o}
    BY <1>2, <2>1 DEF PendingIn
  <2> QED BY <1>7, <2>2
<1>13. \A x \in RangeOf(pending) : x < o
  <2> SUFFICES ASSUME NEW x \in RangeOf(pending) PROVE x < o
    OBVIOUS
  <2>1. x \in Ids /\ op[x].pc = "pending"
    BY <1>7 DEF PendingIn
  <2> QED BY <1>3, <1>4, <2>1
<1>14. \A x \in c_ops : x \in Ids /\ x # o
  BY <1>5, Lists
<1> QED BY <1>2, <1>5, <1>7, <1>8, <1>9, <1>10, <1>11, <1>12, <1>13, <1>14 DEF Arrived

(* The request is deferred, or is one too many.                            *)
LEMMA DeferInv ==
  ASSUME Counting, IInv, setup' = setup, NEW t \in Tags, NEW f, NEW pending, NEW o \in Ids, op[o].pc = "none",
         o = c_n_ops_received + 1, c_n_ops_received' = o, ~Closed,
         Arrived(f, pending, o, t), Defer(f, pending, o)
  PROVE  IInv' /\ InOrder
<1> DEFINE list == Append(pending, o)
<1>1. /\ Follows(f, o) /\ f[o].tag = t /\ f[o].pc = "pending"
      /\ \A x \in Ids : x # o => /\ f[x].tag = op[x].tag
                                 /\ op[x].o_abandon # 0 => f[x].o_abandon # 0
                                 /\ f[x].pc = "held" <=> op[x].pc = "held"
      /\ \A x \in c_ops : f[x].pc = op[x].pc /\ (t = "BIND" => f[x].o_abandon # 0)
      /\ ActiveIn(f) = c_ops /\ PendingIn(f) = RangeOf(pending) \cup {o}
      /\ pending \in Seq(Ids) /\ Increasing(pending) /\ \A x \in RangeOf(pending) : x < o
      /\ pending = IF t = "BIND" THEN <<>> ELSE c_pending_ops
  BY DEF Arrived
<1>2. /\ list \in Seq(Ids) /\ list # <<>> /\ Len(list) = Len(pending) + 1
      /\ \A i \in 1..Len(pending) : list[i] = pending[i]
      /\ list[Len(pending) + 1] = o
      /\ RangeOf(list) = RangeOf(pending) \cup {o} /\ Increasing(list)
  <2>1. pending \in Seq(Ids) /\ Increasing(pending) /\ \A x \in RangeOf(pending) : x < o
    BY <1>1
  <2> QED BY <2>1, AppendList
<1> HIDE DEF list
<1>3. /\ Len(pending) \in Nat /\ Len(c_pending_ops) \in Nat /\ Len(pending) <= Len(c_pending_ops)
      /\ t = "BIND" => Len(pending) = 0
  <2>1. c_pending_ops \in Seq(Ids) /\ Len(<<>>) = 0
    BY Lists, SeqNone
  <2>2. Len(pending) \in Nat /\ Len(c_pending_ops) \in Nat
    BY <1>1, <2>1, SeqPlaces
  <2> QED BY SMT, <1>1, <2>1, <2>2
<1>4. /\ c_n_ops_pending' = c_n_ops_pending + 1 /\ c_n_ops_executing' = c_n_ops_executing
  BY DEF Defer
<1>5. /\ c_n_ops_pending \in 0..MaxOps /\ c_n_ops_received \in 0..MaxOps /\ MaxOps \in Nat
      /\ c_n_ops_executing \in 0..MaxOps /\ c_n_ops_executing = Cardinality(c_ops)
      /\ Len(c_pending_ops) <= c_n_ops_pending /\ c_n_ops_pending <= c_n_ops_received
  BY ConnOpsAssumption DEF IInv, TypeOK, Counts
<1>6. /\ c_n_ops_received' \in 0..MaxOps /\ c_n_ops_pending' \in 0..MaxOps /\ c_n_ops_pending' \in Nat
      /\ c_n_ops_pending' <= c_n_ops_received' /\ Len(list) <= c_n_ops_pending'
  BY SMTT(60), <1>2, <1>3, <1>4, <1>5 DEF Ids
<1>7. CASE /\ c_pending_ops' = list /\ op' = f /\ cri' = [cri EXCEPT !.reading = TRUE]
           /\ UNCHANGED <<c_conn_state, c_ops, writer>>
  <2>1. \A x \in Ids : OpAt(x)' /\ CancelAt(x)'
    BY <1>1, <1>7, OpsKept
  <2>2. op' \in [Ids -> Op]
    BY <1>1, <1>7 DEF Follows
  <2>3. /\ cri' \in [reading : BOOLEAN, first : 0..MaxOps, nullop : BOOLEAN]
        /\ cri'.reading = TRUE /\ cri'.first = cri.first /\ cri'.nullop = cri.nullop
    <3>1. cri \in [reading : BOOLEAN, first : 0..MaxOps, nullop : BOOLEAN]
      BY Lists
    <3> QED BY ZenonT(60), <1>7, <3>1
  <2>4. TypeOK'
    <3>1. c_ops' = {x \in Ids : op'[x].pc \in Active} /\ RangeOf(c_pending_ops') = {x \in Ids : op'[x].pc = "pending"}
      BY <1>1, <1>2, <1>7 DEF ActiveIn, PendingIn
    <3>2. c_n_ops_executing' \in 0..MaxOps /\ c_pending_ops' \in Seq(Ids) /\ writer' \in c_ops' \cup {0}
      BY <1>2, <1>4, <1>5, <1>7, Lists
    <3>3. c_conn_state' \in {"INVALID", "INACTIVE", "CLOSING", "ACTIVE", "BINDING"}
      BY <1>7 DEF IInv, TypeOK
    <3> QED BY <1>6, <2>2, <2>3, <3>1, <3>2, <3>3 DEF TypeOK
  <2>5. Counts'
    <3>1. ASSUME \A x \in Ids : op'[x].tag # "BIND" PROVE c_n_ops_pending' = Len(c_pending_ops')
      <4>1. t # "BIND" /\ pending = c_pending_ops
        BY <1>1, <1>7, <3>1
      <4>2. \A x \in Ids : op[x].tag # "BIND"
        <5>1. op[o].tag = "NONE"
          BY DEF IInv, OpAt
        <5> QED BY <1>1, <1>7, <3>1, <5>1
      <4>3. c_n_ops_pending = Len(c_pending_ops)
        BY <4>2 DEF IInv, Counts
      <4> QED BY SMT, <1>2, <1>3, <1>4, <1>7, <4>1, <4>3
    <3> QED BY <1>4, <1>5, <1>6, <1>7, <3>1 DEF Counts
  <2>6. Reader'
    <3>1. \A x \in Ids : op'[x].pc = "held" <=> op[x].pc = "held"
      BY <1>1, <1>7
    <3> QED BY <1>7, <2>3, <3>1 DEF IInv, Reader, Closed
  <2>7. Closing'
    <3>1. writer' # 0 => op'[writer'].pc = "run" /\ op'[writer'].tag \in {"SEARCH", "BIND"}
      BY <1>1, <1>7, Lists
    <3> QED BY <1>7, <3>1 DEF IInv, Closing, Closed
  <2>8. \A x \in c_ops : /\ x \in Ids /\ x # o /\ op'[x].tag = op[x].tag
                         /\ op'[x].o_abandon = 0 => op[x].o_abandon = 0
                         /\ Harmless(op[x]) => Harmless(op'[x])
                         /\ t = "BIND" => Harmless(op'[x])
    <3>1. \A x \in c_ops : x \in Ids /\ x # o
      BY Lists DEF ActiveIn, Active
    <3> QED BY <1>1, <1>7, <3>1 DEF Harmless
  <2>9. ~setup'.events => BindingAt(c_conn_state', op', c_ops')
    BY SMTT(60), <1>7, <2>8 DEF IInv, Binding, BindingAt
  <2>10. FirstAt(op, c_ops, c_pending_ops) /\ \A i \in 1..Len(pending) : pending[i] \in RangeOf(pending)
    BY DEF IInv, Binding, RangeOf
  <2>11. \A x \in RangeOf(pending) : x \in Ids /\ x # o
    <3>1. RangeOf(pending) \subseteq Ids
      BY <1>1 DEF PendingIn
    <3>2. \A x \in Ids : x < o => x # o
      BY SMT, <1>5 DEF Ids
    <3> QED BY <1>1, <3>1, <3>2
  <2>12. ASSUME NEW i \in 2..Len(list) PROVE op'[list[i]].tag # "BIND"
    <3>1. Len(pending) # 0 /\ (i = Len(pending) + 1 \/ (i \in 2..Len(pending) /\ i \in 1..Len(pending)))
      BY SMT, <1>2, <1>3
    <3>2. t # "BIND" /\ pending = c_pending_ops
      BY <1>1, <1>3, <3>1
    <3>3. CASE i = Len(pending) + 1
      BY <1>1, <1>2, <1>7, <3>2, <3>3
    <3>4. CASE i \in 2..Len(pending) /\ i \in 1..Len(pending)
      <4>1. list[i] = pending[i] /\ pending[i] \in Ids /\ pending[i] # o
        BY <1>2, <2>10, <2>11, <3>4
      <4>2. op[pending[i]].tag # "BIND"
        BY <2>10, <3>2, <3>4 DEF FirstAt
      <4> QED BY <1>1, <1>7, <4>1, <4>2
    <3> QED BY <3>1, <3>3, <3>4
  <2>13. ASSUME op'[list[1]].tag = "BIND", NEW x \in c_ops PROVE Harmless(op'[x])
    <3>1. CASE Len(pending) = 0
      <4>1. Len(pending) + 1 = 1
        BY SMT, <3>1
      <4>2. list[1] = o
        BY <1>2, <4>1
      <4> QED BY <1>1, <1>7, <2>8, <2>13, <4>2
    <3>2. CASE Len(pending) # 0
      <4>1. 1 \in 1..Len(pending)
        BY SMT, <1>3, <3>2
      <4>2. list[1] = pending[1] /\ pending[1] \in Ids /\ pending[1] # o
        BY <1>2, <2>10, <2>11, <4>1
      <4>3. t # "BIND" /\ pending = c_pending_ops
        BY <1>1, <1>3, <3>2
      <4>4. pending # <<>>
        BY SMT, <1>1, <3>2, SeqNone
      <4>5. op[pending[1]].tag = "BIND"
        BY <1>1, <1>7, <2>13, <4>2
      <4>6. Harmless(op[x])
        BY <2>10, <4>3, <4>4, <4>5 DEF FirstAt
      <4> QED BY <2>8, <4>6
    <3> QED BY <3>1, <3>2
  <2>14. Binding'
    <3>1. FirstAt(op', c_ops', c_pending_ops')
      BY <1>7, <2>12, <2>13 DEF FirstAt
    <3> QED BY <2>9, <3>1 DEF Binding
  <2>15. Increasing(c_pending_ops)' /\ setup' \in Setups
    BY <1>2, <1>7 DEF IInv
  <2>16. IInv'
    BY <2>1, <2>4, <2>5, <2>6, <2>7, <2>14, <2>15 DEF IInv
  <2>17. InOrder
    BY <1>7 DEF InOrder
  <2> QED BY <2>16, <2>17
<1>8. CASE connection_closing(connection_read_thread(f), c_ops, list) /\ cri' = NotReading
  <2> DEFINE g == connection_read_thread(f)
  <2>1. Follows(f, c_n_ops_received')
    BY <1>1
  <2>2. \A x \in Ids : f[x].pc = "held" <=> op[x].pc = "held"
    <3>1. f[o].pc # "held" /\ op[o].pc # "held"
      BY <1>1
    <3> QED BY <1>1, <3>1
  <2>3. /\ Follows(g, c_n_ops_received') /\ ActiveIn(g) = ActiveIn(f) /\ PendingIn(g) = PendingIn(f)
        /\ \A x \in Ids : g[x].pc # "held"
    BY SMTT(60), <2>1, <2>2, ReadEnds
  <2>4. connection_closing(g, c_ops, list)
    BY <1>8
  <2> HIDE DEF g
  <2>5. c_ops = ActiveIn(g) /\ RangeOf(list) = PendingIn(g) /\ c_n_ops_executing' = Cardinality(c_ops)
    BY <1>1, <1>2, <1>4, <1>5, <2>3
  <2>6. IInv'
    BY <1>2, <1>6, <1>8, <2>3, <2>4, <2>5, ClosingInv
  <2>7. c_ops' = c_ops
    BY <2>4 DEF connection_closing
  <2>8. InOrder
    BY <2>7 DEF InOrder
  <2> QED BY <2>6, <2>8
<1> QED BY <1>7, <1>8 DEF Defer, list

Executed(f, pending, o, t) ==
  /\ c_n_ops_executing' = c_n_ops_executing + 1 /\ c_n_ops_pending' = c_n_ops_pending
  /\ Follows(op', o) /\ ActiveIn(op') = c_ops \cup {o} /\ PendingIn(op') = RangeOf(pending)
  /\ \A x \in Ids : op'[x].tag = f[x].tag /\ op'[x].o_abandon = f[x].o_abandon
  /\ \A x \in Ids : f[x].pc = "run" => op'[x].pc = "run"
  /\ Reader' /\ cri' \in [reading : BOOLEAN, first : 0..MaxOps, nullop : BOOLEAN]
  /\ c_ops' = c_ops \cup {o} /\ c_pending_ops' = pending /\ writer' = writer
  /\ c_conn_state' = IF t = "BIND" THEN "BINDING"
                     ELSE IF c_conn_state = "INACTIVE" THEN "ACTIVE" ELSE c_conn_state

(* The request is executed and the connection stays open.                  *)
LEMMA ExecuteOpen ==
  ASSUME Counting, IInv, setup' = setup, NEW t \in Tags, NEW f, NEW pending, NEW o \in Ids, op[o].pc = "none",
         o = c_n_ops_received + 1, c_n_ops_received' = o, ~Closed, ~Defers(t),
         Arrived(f, pending, o, t), Executed(f, pending, o, t)
  PROVE  IInv' /\ InOrder
<1>0. /\ c_n_ops_executing' = c_n_ops_executing + 1 /\ c_n_ops_pending' = c_n_ops_pending
      /\ Follows(op', o) /\ ActiveIn(op') = c_ops \cup {o} /\ PendingIn(op') = RangeOf(pending)
      /\ \A x \in Ids : op'[x].tag = f[x].tag /\ op'[x].o_abandon = f[x].o_abandon
      /\ \A x \in Ids : f[x].pc = "run" => op'[x].pc = "run"
      /\ Reader' /\ cri' \in [reading : BOOLEAN, first : 0..MaxOps, nullop : BOOLEAN]
      /\ c_ops' = c_ops \cup {o} /\ c_pending_ops' = pending /\ writer' = writer
      /\ c_conn_state' = IF t = "BIND" THEN "BINDING"
                         ELSE IF c_conn_state = "INACTIVE" THEN "ACTIVE" ELSE c_conn_state
  BY DEF Executed
<1> USE <1>0
<1>1. /\ f[o].tag = t
      /\ \A x \in Ids : x # o => f[x].tag = op[x].tag /\ (op[x].o_abandon # 0 => f[x].o_abandon # 0)
      /\ \A x \in c_ops : f[x].pc = op[x].pc /\ (t = "BIND" => f[x].o_abandon # 0)
      /\ pending \in Seq(Ids) /\ Increasing(pending)
      /\ pending = IF t = "BIND" THEN <<>> ELSE c_pending_ops
  BY DEF Arrived
<1>2. c_ops \subseteq Ids /\ o \notin c_ops /\ \A x \in c_ops : x # o
  BY Lists DEF ActiveIn, Active
<1>3. /\ c_n_ops_pending \in 0..MaxOps /\ c_n_ops_received \in 0..MaxOps /\ MaxOps \in Nat
      /\ c_n_ops_executing = Cardinality(c_ops)
      /\ Len(c_pending_ops) <= c_n_ops_pending /\ c_n_ops_pending <= c_n_ops_received
  BY ConnOpsAssumption DEF IInv, TypeOK, Counts
<1>4. /\ Len(pending) \in Nat /\ Len(c_pending_ops) \in Nat /\ Len(pending) <= Len(c_pending_ops)
  <2>1. c_pending_ops \in Seq(Ids) /\ Len(<<>>) = 0
    BY SMT, Lists, SeqNone
  <2>2. Len(pending) \in Nat /\ Len(c_pending_ops) \in Nat
    BY SMT, <1>1, <2>1, SeqPlaces
  <2> QED BY SMT, <1>1, <2>1, <2>2
<1>5. /\ c_n_ops_received' \in 0..MaxOps /\ c_n_ops_pending' \in 0..MaxOps
      /\ c_n_ops_pending' <= c_n_ops_received' /\ Len(pending) <= c_n_ops_pending'
  BY SMT, <1>3, <1>4 DEF Ids
<1>6. c_n_ops_executing' = Cardinality(c_ops') /\ Cardinality(c_ops') \in 0..MaxOps
  <2>2. Cardinality(c_ops \cup {o}) = Cardinality(c_ops) + 1
    BY <1>2 DEF Counting
  <2>3. c_ops' \subseteq Ids
    BY <1>2
  <2>4. Cardinality(c_ops') \in 0..MaxOps
    BY <2>3 DEF Counting
  <2> QED BY SMT, <1>3, <2>2, <2>4
<1>7. \A x \in Ids : OpAt(x)' /\ CancelAt(x)'
  BY OpsKept
<1>8. c_conn_state \in {"INACTIVE", "ACTIVE", "BINDING"} /\ c_conn_state' \in {"ACTIVE", "BINDING"}
  BY DEF IInv, TypeOK, Closed
<1>9. TypeOK'
  <2>1. c_ops' = {x \in Ids : op'[x].pc \in Active} /\ RangeOf(c_pending_ops') = {x \in Ids : op'[x].pc = "pending"}
    BY DEF ActiveIn, PendingIn
  <2>2. c_n_ops_executing' \in 0..MaxOps /\ c_pending_ops' \in Seq(Ids) /\ writer' \in c_ops' \cup {0}
    BY <1>1, <1>6, Lists
  <2>3. op' \in [Ids -> Op] /\ c_conn_state' \in {"INVALID", "INACTIVE", "CLOSING", "ACTIVE", "BINDING"}
    BY <1>8 DEF Follows
  <2> QED BY <1>5, <2>1, <2>2, <2>3 DEF TypeOK
<1>10. Counts'
  <2>1. ASSUME \A x \in Ids : op'[x].tag # "BIND" PROVE c_n_ops_pending' = Len(c_pending_ops')
    <3>1. t # "BIND" /\ pending = c_pending_ops
      BY <1>1, <2>1
    <3>2. \A x \in Ids : op[x].tag # "BIND"
      <4>1. op[o].tag = "NONE"
        BY DEF IInv, OpAt
      <4> QED BY <1>1, <2>1, <4>1
    <3> QED BY <3>1, <3>2 DEF IInv, Counts
  <2>2. Len(c_pending_ops') <= c_n_ops_pending' /\ c_n_ops_pending' <= c_n_ops_received'
    BY <1>5
  <2> QED BY <1>6, <2>1, <2>2 DEF Counts
<1>11. Closing'
  <2>1. writer' # 0 => op'[writer'].pc = "run" /\ op'[writer'].tag \in {"SEARCH", "BIND"}
    BY ZenonT(60), <1>1, <1>2, Lists
  <2> QED BY <1>8, <2>1 DEF Closing, Closed
<1>12. op'[o].tag = t /\ \A x \in c_ops : /\ op'[x].tag = op[x].tag
                                          /\ op'[x].o_abandon = 0 => op[x].o_abandon = 0
                                          /\ Harmless(op[x]) => Harmless(op'[x])
                                          /\ t = "BIND" => Harmless(op'[x])
  BY <1>1, <1>2 DEF Harmless
<1>13. ASSUME t \notin {"ABANDON", "UNBIND"}
       PROVE  c_conn_state # "BINDING" /\ RangeOf(pending) = {} /\ pending = <<>>
  <2>1. c_conn_state # "BINDING" /\ ~(c_n_ops_pending > 0)
    BY <1>13 DEF Defers
  <2>2. Len(pending) = 0
    BY SMT, <1>3, <1>4, <2>1
  <2>3. pending = <<>>
    BY SMT, <1>1, <2>2, SeqNone
  <2>4. RangeOf(pending) = {}
    BY SMT, <2>2 DEF RangeOf
  <2> QED BY <2>1, <2>3, <2>4
<1>14. ASSUME ~setup.events PROVE BindingAt(c_conn_state', op', c_ops')
  <2>1. BindingAt(c_conn_state, op, c_ops)
    BY <1>14 DEF IInv, Binding
  <2>2. CASE t \notin {"ABANDON", "UNBIND"}
    <3>1. \A b \in c_ops : op[b].tag # "BIND"
      BY <1>8, <1>13, <2>1, <2>2 DEF BindingAt
    <3>2. \A b \in c_ops' : op'[b].tag = "BIND" => b = o /\ t = "BIND"
      BY <1>12, <3>1
    <3>3. \A x \in c_ops' : t = "BIND" /\ x # o => Harmless(op'[x])
      BY <1>12
    <3>4. t = "BIND" => c_conn_state' = "BINDING"
      OBVIOUS
    <3> QED BY <3>2, <3>3, <3>4 DEF BindingAt
  <2>3. CASE t \in {"ABANDON", "UNBIND"}
    <3>1. t # "BIND" /\ Harmless(op'[o])
      BY <1>12, <2>3 DEF Harmless
    <3>2. \A b \in c_ops' : op'[b].tag = "BIND" => b \in c_ops /\ op[b].tag = "BIND"
      BY <1>12, <3>1
    <3>3. \A b \in c_ops : op[b].tag = "BIND" => c_conn_state' = c_conn_state
      BY <1>8, <2>1, <3>1 DEF BindingAt
    <3>4. \A b \in c_ops' : op'[b].tag = "BIND" => c_conn_state' \in {"BINDING", "CLOSING"}
      BY <2>1, <3>2, <3>3 DEF BindingAt
    <3>5. c_conn_state' = "BINDING" => \A b, x \in c_ops' : op'[b].tag = "BIND" /\ op'[x].tag = "BIND" => b = x
      BY SMTT(60), <2>1, <3>2, <3>3 DEF BindingAt
    <3>6. \A b, x \in c_ops' : op'[b].tag = "BIND" /\ op'[b].o_abandon = 0 /\ x # b => Harmless(op'[x])
      BY SMTT(60), <1>12, <2>1, <3>1, <3>2 DEF BindingAt
    <3> QED BY <3>4, <3>5, <3>6 DEF BindingAt
  <2> QED BY <2>2, <2>3
<1>15. FirstAt(op', c_ops', c_pending_ops')
  <2>1. CASE t \notin {"ABANDON", "UNBIND"}
    <3>1. c_pending_ops' = <<>> /\ Len(<<>>) = 0
      BY SMT, <1>13, <2>1, SeqNone
    <3> QED BY SMT, <3>1 DEF FirstAt
  <2>2. CASE t \in {"ABANDON", "UNBIND"}
    <3>1. t # "BIND" /\ Harmless(op'[o]) /\ pending = c_pending_ops
      BY <1>1, <1>12, <2>2 DEF Harmless
    <3>2. FirstAt(op, c_ops, c_pending_ops)
      BY DEF IInv, Binding
    <3>3. \A i \in 1..Len(c_pending_ops) : c_pending_ops[i] \in Ids /\ op'[c_pending_ops[i]].tag = op[c_pending_ops[i]].tag
      <4>1. \A x \in PendingIn(op) : x \in Ids /\ x # o
        BY DEF PendingIn
      <4>2. \A i \in 1..Len(c_pending_ops) : c_pending_ops[i] \in PendingIn(op)
        BY Lists DEF RangeOf
      <4> QED BY <1>1, <4>1, <4>2
    <3>4. 2..Len(c_pending_ops) \subseteq 1..Len(c_pending_ops)
      BY SMT, <1>4
    <3>5. c_pending_ops # <<>> => 1 \in 1..Len(c_pending_ops)
      BY SMT, <1>4, Lists, SeqNone
    <3> QED BY <1>12, <3>1, <3>2, <3>3, <3>4, <3>5 DEF FirstAt
  <2> QED BY <2>1, <2>2
<1>16. Binding'
  BY <1>14, <1>15 DEF Binding
<1>17. Increasing(c_pending_ops)' /\ setup' \in Setups
  BY <1>1 DEF IInv
<1>18. InOrder
  <2>1. \A x \in c_ops' \ c_ops : x = o
    OBVIOUS
  <2> QED BY <1>12, <1>13, <2>1 DEF InOrder
<1> QED BY <1>7, <1>9, <1>10, <1>11, <1>16, <1>17, <1>18 DEF IInv

(* The request is executed: it is held, submitted, or lost with the first  *)
(* one, which closes the connection.                                       *)
LEMMA ExecuteInv ==
  ASSUME Counting, IInv, setup' = setup, NEW t \in Tags, NEW f, NEW pending, NEW o \in Ids, op[o].pc = "none",
         o = c_n_ops_received + 1, c_n_ops_received' = o, ~Closed, ~Defers(t),
         Arrived(f, pending, o, t), Execute(f, pending, o)
  PROVE  IInv' /\ InOrder
<1> DEFINE state == IF f[o].tag = "BIND" THEN "BINDING"
                    ELSE IF c_conn_state = "INACTIVE" THEN "ACTIVE" ELSE c_conn_state
<1>0. /\ {"held", "queued", "lost", "run"} \subseteq Active /\ "held" \in Pcs
      /\ "pending" \notin Active /\ "none" \notin Active
  BY DEF Active, Pcs
<1>1. /\ Follows(f, o) /\ f \in [Ids -> Op] /\ f[o].tag = t /\ f[o].pc = "pending"
      /\ \A x \in Ids : x # o => (f[x].pc = "held" <=> op[x].pc = "held")
      /\ ActiveIn(f) = c_ops /\ PendingIn(f) = RangeOf(pending) \cup {o}
      /\ pending \in Seq(Ids) /\ \A x \in RangeOf(pending) : x < o
  BY DEF Arrived, Follows
<1>2. o \notin RangeOf(pending)
  <2>1. ~(o < o)
    BY SMT, ConnOpsAssumption DEF Ids
  <2> QED BY <1>1, <2>1
<1>3. c_n_ops_executing' = c_n_ops_executing + 1 /\ c_n_ops_pending' = c_n_ops_pending
  BY DEF Execute
<1>4. /\ cri \in [reading : BOOLEAN, first : 0..MaxOps, nullop : BOOLEAN] /\ 0 \notin Ids
      /\ o \in 0..MaxOps /\ o # 0
  BY SMT, Lists, ConnOpsAssumption DEF Ids
<1>5. /\ cri.nullop => cri.first # 0
      /\ \A x \in Ids : op[x].pc = "held" <=> (cri.first = x /\ ~cri.nullop)
      /\ ~cri.reading => cri = NotReading
  BY DEF IInv, Reader
<1>6. state = IF t = "BIND" THEN "BINDING" ELSE IF c_conn_state = "INACTIVE" THEN "ACTIVE" ELSE c_conn_state
  BY <1>1
<1>7. \A x \in Ids : f[x].pc = "held" <=> op[x].pc = "held"
  <2>1. f[o].pc # "held" /\ op[o].pc # "held"
    BY <1>1
  <2> QED BY <1>1, <2>1
<1> HIDE DEF state
<1>8. ASSUME cri.first = 0, cri' = [cri EXCEPT !.reading = TRUE, !.first = o],
             op' = [f EXCEPT ![o].pc = "held"], c_ops' = c_ops \cup {o},
             c_pending_ops' = pending, c_conn_state' = state, UNCHANGED writer
      PROVE  IInv' /\ InOrder
  <2>1. /\ op' \in [Ids -> Op] /\ op'[o].pc = "held" /\ op'[o].tag = f[o].tag
        /\ op'[o].target = f[o].target /\ op'[o].o_cancel = f[o].o_cancel
        /\ op'[o].o_abandon = f[o].o_abandon /\ \A x \in Ids : x # o => op'[x] = f[x]
    <3>1. f \in [Ids -> Op] /\ "held" \in Pcs /\ op' = [f EXCEPT ![o].pc = "held"]
      BY <1>0, <1>1, <1>8
    <3>2. Relabelled(op', f, o, "held")
      BY <3>1, OnePc
    <3> QED BY <3>2 DEF Relabelled
  <2>2. /\ cri' \in [reading : BOOLEAN, first : 0..MaxOps, nullop : BOOLEAN]
        /\ cri'.reading = TRUE /\ cri'.first = o /\ cri'.nullop = cri.nullop
    BY ZenonT(60), <1>4, <1>8
  <2>3. Follows(op', o)
    <3>1. New(f[o], op[o])
      <4>1. f[o].tag # op[o].tag
        <5>1. op[o].tag = "NONE"
          BY DEF IInv, OpAt
        <5>2. "NONE" \notin Tags
          BY DEF Tags
        <5> QED BY <1>1, <5>1, <5>2
      <4> QED BY <1>1, <4>1 DEF Follows, Kept
    <3>2. New(op'[o], op[o])
      BY <2>1, <3>1 DEF New
    <3>3. \A x \in Ids : op'[x].pc = "none" <=> f[x].pc = "none"
      BY <1>1, <2>1
    <3> QED BY <1>1, <2>1, <3>2, <3>3 DEF Follows
  <2>4. ActiveIn(op') = c_ops \cup {o}
    <3>1. \A x \in Ids : op'[x].pc \in Active <=> f[x].pc \in Active \/ x = o
      BY <1>0, <2>1
    <3>2. ActiveIn(op') = ActiveIn(f) \cup {o}
      BY <3>1 DEF ActiveIn
    <3> QED BY <1>1, <3>2
  <2>5. PendingIn(op') = RangeOf(pending)
    <3>1. \A x \in Ids : op'[x].pc = "pending" <=> f[x].pc = "pending" /\ x # o
      BY <2>1
    <3>2. PendingIn(op') = PendingIn(f) \ {o}
      BY <3>1 DEF PendingIn
    <3> QED BY <1>1, <1>2, <3>2
  <2>6. Reader'
    <3>1. ~cri.nullop /\ \A x \in Ids : op[x].pc # "held"
      BY <1>4, <1>5, <1>8
    <3>2. \A x \in Ids : op'[x].pc = "held" <=> x = o
      BY <1>7, <2>1, <3>1
    <3>3. ~Closed'
      BY <1>6, <1>8 DEF Closed
    <3> QED BY <1>4, <2>2, <3>1, <3>2, <3>3 DEF Reader
  <2>7. /\ \A x \in Ids : op'[x].tag = f[x].tag /\ op'[x].o_abandon = f[x].o_abandon
        /\ \A x \in Ids : f[x].pc = "run" => op'[x].pc = "run"
    BY <1>1, <2>1
  <2>8. c_conn_state' = IF t = "BIND" THEN "BINDING" ELSE IF c_conn_state = "INACTIVE" THEN "ACTIVE" ELSE c_conn_state
    BY <1>6, <1>8
  <2>9. /\ cri' \in [reading : BOOLEAN, first : 0..MaxOps, nullop : BOOLEAN]
        /\ c_ops' = c_ops \cup {o} /\ c_pending_ops' = pending /\ writer' = writer
    BY <1>8, <2>2
  <2>10. Executed(f, pending, o, t)
    BY <1>3, <2>3, <2>4, <2>5, <2>6, <2>7, <2>8, <2>9 DEF Executed
  <2> QED BY <2>10, ExecuteOpen
<1>9. ASSUME cri.first # 0,
             NEW S, S = {o} \cup (IF cri.nullop THEN {} ELSE {cri.first}),
             NEW lost \in Losses(S), NEW g, g = connection_op_activate(f, S, lost),
             \/ connection_closing(g, c_ops \cup {o}, pending) /\ cri' = NotReading
             \/ /\ cri' = [cri EXCEPT !.nullop = TRUE] /\ op' = g /\ c_ops' = c_ops \cup {o}
                /\ c_pending_ops' = pending /\ c_conn_state' = state /\ UNCHANGED writer
      PROVE  IInv' /\ InOrder
  <2>1. cri.first \in Ids /\ cri.reading
    <3>1. NotReading.first = 0
      BY SMT DEF NotReading
    <3>2. cri.first \in Ids
      BY SMT, <1>4, <1>9, ConnOpsAssumption DEF Ids
    <3> QED BY <1>5, <1>9, <3>1, <3>2
  <2>2. S \subseteq Ids /\ lost \in SUBSET S
    BY <1>9, <2>1 DEF Losses
  <2>3. \A x \in S : x = o \/ (~cri.nullop /\ x = cri.first /\ op[x].pc = "held" /\ f[x].pc = "held")
    BY <1>5, <1>7, <1>9, <2>1
  <2>4. \A x \in S : f[x].pc \in {"held", "pending"}
    BY <1>1, <2>3
  <2>5. /\ g \in [Ids -> Op]
        /\ \A x \in Ids : g[x].tag = f[x].tag /\ g[x].o_abandon = f[x].o_abandon
        /\ \A x \in S : g[x].pc \in {"queued", "lost"}
        /\ \A x \in Ids \ S : g[x] = f[x]
        /\ ActiveIn(g) = ActiveIn(f) \cup S /\ PendingIn(g) = PendingIn(f) \ S
        /\ Follows(g, o)
    <3>1. S \in SUBSET Ids /\ lost \in SUBSET S /\ f \in [Ids -> Op]
      BY <1>1, <2>2
    <3>2. g = connection_op_activate(f, S, lost)
      BY <1>9
    <3>3. Submitted(g, f, S)
      BY <2>4, <3>1, <3>2, Activated
    <3> QED BY <1>1, <3>3 DEF Submitted
  <2>6. o \in S /\ \A x \in S : x # o => x \in c_ops /\ x \notin RangeOf(pending)
    <3>1. o \in S
      BY <1>9
    <3>2. \A x \in S : x # o => x \in ActiveIn(f) /\ x \notin PendingIn(f)
      BY <1>0, <2>2, <2>3 DEF ActiveIn, PendingIn
    <3> QED BY <1>1, <3>1, <3>2
  <2>7. ActiveIn(g) = c_ops \cup {o} /\ PendingIn(g) = RangeOf(pending)
    <3>1. /\ ActiveIn(g) = c_ops \cup S /\ PendingIn(g) = (RangeOf(pending) \cup {o}) \ S
          /\ o \notin RangeOf(pending)
      BY <1>1, <1>2, <2>5
    <3> QED BY <2>6, <3>1
  <2>8. \A x \in Ids : g[x].pc # "held"
    <3>1. \A x \in Ids : op[x].pc = "held" => x \in S
      BY <1>5, <1>9
    <3> QED BY <1>7, <2>5, <3>1
  <2>9. CASE connection_closing(g, c_ops \cup {o}, pending) /\ cri' = NotReading
    <3>1. /\ c_n_ops_pending \in 0..MaxOps /\ c_n_ops_received \in 0..MaxOps /\ MaxOps \in Nat
          /\ c_n_ops_executing = Cardinality(c_ops) /\ c_n_ops_pending <= c_n_ops_received
      BY ConnOpsAssumption DEF IInv, TypeOK, Counts
    <3>2. /\ c_n_ops_received' \in 0..MaxOps /\ c_n_ops_pending' \in Nat
          /\ c_n_ops_pending' <= c_n_ops_received'
      BY SMT, <1>3, <3>1 DEF Ids
    <3>3. c_n_ops_executing' = Cardinality(c_ops \cup {o})
      <4>1. c_ops \subseteq Ids /\ o \notin c_ops
        BY <1>0, Lists DEF ActiveIn
      <4>2. Cardinality(c_ops \cup {o}) = Cardinality(c_ops) + 1
        BY <1>0, <4>1 DEF Counting
      <4> QED BY SMT, <1>3, <3>1, <4>2
    <3>4. Follows(g, c_n_ops_received')
      BY <2>5
    <3>5. IInv'
      <4> DEFINE active == c_ops \cup {o}
      <4>1. active = ActiveIn(g) /\ connection_closing(g, active, pending) /\ c_n_ops_executing' = Cardinality(active)
        BY <2>7, <2>9, <3>3
      <4> HIDE DEF active
      <4> QED BY <1>1, <2>7, <2>8, <2>9, <3>2, <3>4, <4>1, ClosingInv
    <3>6. RangeOf(c_pending_ops') = {}
      <4>1. c_pending_ops' = <<>> /\ Len(<<>>) = 0
        BY SMT, <2>9, SeqNone DEF connection_closing
      <4> QED BY SMT, <4>1 DEF RangeOf
    <3>7. InOrder
      BY <3>6 DEF InOrder
    <3> QED BY <3>5, <3>7
  <2>10. CASE /\ cri' = [cri EXCEPT !.nullop = TRUE] /\ op' = g /\ c_ops' = c_ops \cup {o}
              /\ c_pending_ops' = pending /\ c_conn_state' = state /\ UNCHANGED writer
    <3>1. /\ cri' \in [reading : BOOLEAN, first : 0..MaxOps, nullop : BOOLEAN]
          /\ cri'.reading = cri.reading /\ cri'.first = cri.first /\ cri'.nullop = TRUE
      BY ZenonT(60), <1>4, <2>10
    <3>2. ~Closed'
      BY <1>6, <2>10 DEF Closed
    <3>3. Reader'
      BY <1>9, <2>1, <2>8, <2>10, <3>1, <3>2 DEF Reader
    <3>4. /\ \A x \in Ids : op'[x].tag = f[x].tag /\ op'[x].o_abandon = f[x].o_abandon
          /\ \A x \in Ids : f[x].pc = "run" => op'[x].pc = "run"
      BY <2>4, <2>5, <2>10
    <3>5. c_conn_state' = IF t = "BIND" THEN "BINDING" ELSE IF c_conn_state = "INACTIVE" THEN "ACTIVE" ELSE c_conn_state
      BY <1>6, <2>10
    <3>6. Follows(op', o) /\ ActiveIn(op') = c_ops \cup {o} /\ PendingIn(op') = RangeOf(pending)
      BY <2>5, <2>7, <2>10
    <3>7. Executed(f, pending, o, t)
      BY <1>3, <2>10, <3>1, <3>3, <3>4, <3>5, <3>6 DEF Executed
    <3> QED BY <3>7, ExecuteOpen
  <2> QED BY <1>9, <2>9, <2>10
<1> QED BY <1>8, <1>9 DEF Execute, state

(* A request arrives.                                                      *)
LEMMA InputInv ==
  ASSUME Counting, IInv, setup' = setup, NEW t \in setup.tags, NEW target \in 0..MaxOps, connection_input(t, target)
  PROVE  IInv' /\ InOrder
<1> DEFINE o == c_n_ops_received + 1
           f0 == IF t = "BIND" THEN connection_abandon(op, c_ops, c_pending_ops) ELSE op
           f == [f0 EXCEPT ![o] = [NoOp EXCEPT !.tag = t, !.target = target,
                                               !.o_conn = TRUE, !.pc = "pending"]]
           pending == IF t = "BIND" THEN <<>> ELSE c_pending_ops
<1>1. /\ connection_read /\ c_n_ops_received < MaxOps
      /\ target # 0 <=> t \in {"ABANDON", "CANCEL"}
      /\ c_n_ops_received' = o
      /\ (Defers(t) /\ Defer(f, pending, o)) \/ (~Defers(t) /\ Execute(f, pending, o))
  BY DEF connection_input
<1>2. t \in Tags
  <2>1. setup \in [tags : SUBSET Tags, self : BOOLEAN, events : BOOLEAN, lose : BOOLEAN]
    BY ConnOpsAssumption DEF IInv
  <2>2. setup.tags \subseteq Tags
    BY SMT, <2>1
  <2> QED BY <2>2
<1>3. ~Closed
  BY <1>1 DEF connection_read, IInv, Reader, Closed
<1>4. o \in Ids /\ o \notin c_ops /\ op[o].pc = "none" /\ Arrived(f, pending, o, t)
  <2>1. Received(f0, f, pending, o, t, target)
    BY DEF Received
  <2>3. c_n_ops_received < MaxOps /\ (target # 0 <=> t \in {"ABANDON", "CANCEL"})
    BY <1>1
  <2> HIDE DEF o, f0, f, pending
  <2> QED BY <1>2, <2>1, <2>3, InputArrives
<1>5. o = c_n_ops_received + 1
  OBVIOUS
<1> HIDE DEF o, f0, f, pending
<1>6. CASE Defers(t) /\ Defer(f, pending, o)
  BY <1>1, <1>2, <1>3, <1>4, <1>5, <1>6, DeferInv
<1>7. CASE ~Defers(t) /\ Execute(f, pending, o)
  BY <1>1, <1>2, <1>3, <1>4, <1>5, <1>7, ExecuteInv
<1> QED BY <1>1, <1>6, <1>7

-----------------------------------------------------------------------------

(* A new connection has no operations.                                     *)
LEMMA InitInv == Counting /\ Init => IInv
<1> SUFFICES ASSUME Counting, Init PROVE IInv
  BY SMT
<1>0. MaxOps \in Nat
  BY SMT, ConnOpsAssumption
<1>1. /\ c_conn_state = "INACTIVE" /\ c_n_ops_received = 0 /\ c_n_ops_executing = 0 /\ c_n_ops_pending = 0
      /\ c_ops = {} /\ c_pending_ops = <<>> /\ op = [o \in Ids |-> NoOp] /\ writer = 0
      /\ cri = NotReading /\ setup \in Setups
  BY DEF Init
<1>2. /\ NoOp \in Op /\ NoOp.pc = "none" /\ NoOp.tag = "NONE" /\ NoOp.o_cancel = "NONE"
  BY SMT, <1>0 DEF NoOp, Op
<1>3. op \in [Ids -> Op] /\ \A o \in Ids : op[o] = NoOp
  BY <1>1, <1>2
<1>4. c_pending_ops \in Seq(Ids) /\ Len(c_pending_ops) = 0 /\ RangeOf(c_pending_ops) = {}
  <2>1. <<>> \in Seq(Ids) /\ Len(<<>>) = 0
    BY SMT, SeqNone
  <2>2. RangeOf(<<>>) = {}
    BY SMT, <2>1 DEF RangeOf
  <2> QED BY <1>1, <2>1, <2>2
<1>5. cri \in [reading : BOOLEAN, first : 0..MaxOps, nullop : BOOLEAN]
      /\ cri.reading = FALSE /\ cri.first = 0 /\ cri.nullop = FALSE
  BY SMT, <1>0, <1>1 DEF NotReading
<1>6. "none" \notin Active
  BY DEF Active
<1>7. TypeOK
  <2>1. c_ops = {o \in Ids : op[o].pc \in Active} /\ RangeOf(c_pending_ops) = {o \in Ids : op[o].pc = "pending"}
    BY <1>1, <1>2, <1>3, <1>4, <1>6
  <2>2. 0 \in 0..MaxOps
    BY SMT, <1>0
  <2> QED BY <1>1, <1>3, <1>4, <1>5, <2>1, <2>2 DEF TypeOK
<1>8. ASSUME NEW o \in Ids PROVE OpAt(o) /\ CancelAt(o)
  <2>1. o > c_n_ops_received /\ o # 0
    BY SMT, <1>0, <1>1 DEF Ids
  <2> QED BY <1>2, <1>3, <2>1 DEF OpAt, CancelAt
<1>9. Increasing(c_pending_ops)
  BY SMT, <1>4 DEF Increasing
<1>10. Counts
  <2>1. Cardinality({}) = 0
    BY DEF Counting
  <2>2. Len(c_pending_ops) <= c_n_ops_pending /\ c_n_ops_pending <= c_n_ops_received
    BY SMT, <1>1, <1>4
  <2> QED BY <1>1, <1>4, <2>1, <2>2 DEF Counts
<1>11. Reader
  <2>1. \A o \in Ids : o # 0
    BY SMT, <1>0 DEF Ids
  <2> QED BY <1>1, <1>2, <1>3, <1>5, <2>1 DEF Reader
<1>12. Closing
  BY <1>1 DEF Closing, Closed
<1>13. Binding
  <2>1. FirstAt(op, c_ops, c_pending_ops)
    BY SMT, <1>1, <1>4 DEF FirstAt
  <2> QED BY <1>1, <2>1 DEF Binding, BindingAt
<1> QED BY <1>1, <1>7, <1>8, <1>9, <1>10, <1>11, <1>12, <1>13 DEF IInv

(* Every step keeps IInv and starts requests in order.                     *)
LEMMA NextInv == Counting /\ IInv /\ [Next]_vars => IInv' /\ (InOrder \/ UNCHANGED vars)
<1> SUFFICES ASSUME Counting, IInv, [Next]_vars PROVE IInv' /\ (InOrder \/ UNCHANGED vars)
  BY SMT
<1>1. CASE UNCHANGED vars
  <2>1. UNCHANGED <<c_conn_state, c_n_ops_received, c_n_ops_executing, c_n_ops_pending,
                    c_ops, c_pending_ops, op, writer, cri, setup>>
    BY <1>1 DEF vars, moving
  <2>2. TypeOK' /\ setup' \in Setups
    BY <2>1 DEF IInv, TypeOK
  <2>3. ASSUME NEW o \in Ids PROVE OpAt(o)' /\ CancelAt(o)'
    BY <2>1 DEF IInv, OpAt, CancelAt
  <2>4. Increasing(c_pending_ops)'
    BY <2>1 DEF IInv, Increasing
  <2>6. Counts'
    <3>1. Closed' = Closed
      BY <2>1 DEF Closed
    <3>2. Counts
      BY DEF IInv
    <3> QED BY <2>1, <3>1, <3>2 DEF Counts
  <2>7. Reader'
    <3>1. Closed' = Closed
      BY <2>1 DEF Closed
    <3>2. Reader
      BY DEF IInv
    <3> QED BY <2>1, <3>1, <3>2 DEF Reader
  <2>5. Closing' /\ Binding'
    BY <2>1 DEF IInv, Closing, Closed, Binding
  <2> QED BY <1>1, <2>2, <2>3, <2>4, <2>5, <2>6, <2>7 DEF IInv
<1>2. CASE Next
  <2>0. setup' = setup
    BY <1>2 DEF Next
  <2>1. ASSUME NEW t \in setup.tags, NEW target \in 0..MaxOps, connection_input(t, target)
        PROVE  IInv' /\ InOrder
    BY <2>0, <2>1, InputInv
  <2>2. ASSUME EndRead \/ ReadError PROVE IInv' /\ InOrder
    <3>1. IInv'
      BY <2>0, <2>2, ReadSteps
    <3>2. c_ops' = c_ops
      BY <2>2 DEF EndRead, ReadError, connection_closing
    <3> QED BY <3>1, <3>2 DEF InOrder
  <2>3. ASSUME SocketDrains PROVE IInv' /\ InOrder
    <3>1. IInv'
      BY <2>0, <2>3, DrainInv
    <3>2. c_ops' = c_ops
      BY <2>3 DEF SocketDrains
    <3> QED BY <3>1, <3>2 DEF InOrder
  <2>4. ASSUME connection_write PROVE IInv' /\ InOrder
    BY <2>0, <2>4, WriteInv
  <2>5. ASSUME NEW o \in Ids, Start(o) \/ BlockOnWrite(o) PROVE IInv' /\ InOrder
    <3>1. IInv'
      BY <2>0, <2>5, RunSteps
    <3>2. c_ops' = c_ops
      BY <2>5 DEF Start, BlockOnWrite
    <3> QED BY <3>1, <3>2 DEF InOrder
  <2>6. ASSUME NEW o \in Ids, do_abandon(o) \/ cancel_extop(o) \/ CancelAnswered(o) PROVE IInv' /\ InOrder
    <3>1. IInv'
      BY <2>0, <2>6, AbandonInv, CancelInv, AnsweredInv
    <3>2. c_ops' = c_ops
      BY <2>6 DEF do_abandon, cancel_extop, CancelAnswered
    <3> QED BY <3>1, <3>2 DEF InOrder
  <2>7. ASSUME NEW o \in Ids, NEW rc \in {"DONE", "ABANDON", "DISCONNECT"}, connection_operation(o, rc)
        PROVE  IInv' /\ InOrder
    BY <2>0, <2>7, OperationInv
  <2>8. ASSUME NEW o \in Ids, CancellerDone(o) PROVE IInv' /\ InOrder
    <3>1. "DONE" \in {"DONE", "ABANDON", "DISCONNECT"}
      OBVIOUS
    <3> QED BY <2>0, <2>8, <3>1, OperationInv
  <2> QED BY <1>2, <2>1, <2>2, <2>3, <2>4, <2>5, <2>6, <2>7, <2>8 DEF Next
<1> QED BY <1>1, <1>2

(* What IInv says of the counters.                                         *)
LEMMA CountsFollow == IInv => CountersExact
BY DEF IInv, CountersExact, Counts, Closed

-----------------------------------------------------------------------------
(* Counting.  The theorems on finite sets are instantiated only here: what *)
(* they bring into view slows every proof that follows.  The instance has  *)
(* a copy of its own of Cardinality.                                       *)

Number(S) == Cardinality(S)

(* What the number of a set is.                                            *)
LEMMA NumberIs ==
  \A S : Number(S) = LET CS[T \in SUBSET S] ==
                           IF T = {} THEN 0 ELSE 1 + CS[T \ {CHOOSE x : x \in T}]
                     IN  CS[S]
BY DEF Cardinality, Number

(* Counting, said of Number.                                               *)
LEMMA CountingIs ==
  ASSUME /\ Number({}) = 0
         /\ \A S \in SUBSET Ids :
              /\ Number(S) \in 0..MaxOps
              /\ \A o \in Ids \ S : Number(S \cup {o}) = Number(S) + 1
              /\ \A o \in S : Number(S \ {o}) = Number(S) - 1
              /\ \A T \in SUBSET Ids : S \cap T = {} => Number(S \cup T) = Number(S) + Number(T)
         /\ \A s \in Seq(Ids) : Increasing(s) =>
              \A n \in 0..Len(s) : Number({s[k] : k \in 1..n}) = n
  PROVE  Counting
BY DEF Number, Counting

LOCAL INSTANCE FiniteSetTheorems

(* The two copies agree.                                                   *)
LEMMA SameNumber == \A S : Number(S) = Cardinality(S)
BY NumberIs DEF Cardinality

(* The first n requests of a list are n requests.                          *)
LEMMA CardList ==
  ASSUME NEW s \in Seq(Ids), Increasing(s), NEW n \in 0..Len(s)
  PROVE  Cardinality({s[k] : k \in 1..n}) = n
<1> DEFINE S == {s[k] : k \in 1..n}
           f == [k \in 1..n |-> s[k]]
<1>0. Len(s) \in Nat /\ n \in Nat /\ n <= Len(s) /\ \A j \in 1..Len(s) : s[j] \in Ids
  BY SMT, SeqPlaces, SeqPlace
<1>1. IsFiniteSet(1..n) /\ Cardinality(1..n) = n
  BY SMT, <1>0, FS_Interval
<1>2. \A k, j \in 1..n : s[k] = s[j] => k = j
  <2> SUFFICES ASSUME NEW k \in 1..n, NEW j \in 1..n, s[k] = s[j] PROVE k = j
    OBVIOUS
  <2>1. k \in 1..Len(s) /\ j \in 1..Len(s) /\ s[k] \in Int /\ s[j] \in Int
    BY SMT, <1>0, ConnOpsAssumption DEF Ids
  <2> QED BY SMT, <2>1 DEF Increasing
<1>3. f \in Bijection(1..n, S)
  BY <1>2, Zenon DEF Bijection, Injection, Surjection, IsInjective
<1>4. ExistsBijection(1..n, S)
  BY <1>3 DEF ExistsBijection
<1> QED BY <1>1, <1>4, FS_Bijection

(* A set of requests is finite and has at most MaxOps members.             *)
LEMMA CardIds ==
  ASSUME NEW S \in SUBSET Ids
  PROVE  IsFiniteSet(S) /\ Cardinality(S) \in 0..MaxOps
<1>1. MaxOps \in Nat
  BY ConnOpsAssumption
<1>2. IsFiniteSet(Ids) /\ Cardinality(Ids) = MaxOps
  BY SMT, <1>1, FS_Interval DEF Ids
<1>3. IsFiniteSet(S) /\ Cardinality(S) <= Cardinality(Ids) /\ Cardinality(S) \in Nat
  BY <1>2, FS_Subset, FS_CardinalityType
<1> QED BY SMT, <1>1, <1>2, <1>3

(* There are MaxOps requests, so their sets can be counted.                *)
LEMMA RequestSets == Counting
<1>1. Cardinality({}) = 0
  BY SMT, FS_EmptySet
<1>2. ASSUME NEW S \in SUBSET Ids, NEW o \in Ids \ S PROVE Cardinality(S \cup {o}) = Cardinality(S) + 1
  <2>1. IsFiniteSet(S) /\ o \notin S
    BY CardIds
  <2> QED BY <2>1, FS_AddElement
<1>3. ASSUME NEW S \in SUBSET Ids, NEW o \in S PROVE Cardinality(S \ {o}) = Cardinality(S) - 1
  <2>1. IsFiniteSet(S)
    BY CardIds
  <2> QED BY <2>1, FS_RemoveElement
<1>4. ASSUME NEW S \in SUBSET Ids, NEW T \in SUBSET Ids, S \cap T = {}
      PROVE  Cardinality(S \cup T) = Cardinality(S) + Cardinality(T)
  <2>1. /\ IsFiniteSet(S) /\ Cardinality(S) \in 0..MaxOps
        /\ IsFiniteSet(T) /\ Cardinality(T) \in 0..MaxOps
    BY CardIds
  <2>2. Cardinality(S \cup T) = Cardinality(S) + Cardinality(T) - Cardinality(S \cap T)
    BY <2>1, FS_Union
  <2>3. Cardinality(S \cap T) = 0
    BY <1>1, <1>4
  <2> QED BY SMTT(60), <2>1, <2>2, <2>3
<1> QED BY <1>1, <1>2, <1>3, <1>4, CardIds, CardList, SameNumber, CountingIs

(* IInv holds in every behaviour.                                          *)
THEOREM Invariant == Spec => []IInv
<1>1. Init => IInv
  BY InitInv, RequestSets
<1>2. IInv /\ [Next]_vars => IInv'
  BY NextInv, RequestSets
<1> QED BY <1>1, <1>2, PTL DEF Spec

(* The counters of executing and of pending operations follow the lists,   *)
(* on every way in and out of them, for any number of requests.            *)
THEOREM OpCountersExact == Spec => []CountersExact
<1>1. IInv => CountersExact
  BY CountsFollow
<1> QED BY Invariant, <1>1, PTL

(* While a Bind is executed, what else is active was abandoned or is an    *)
(* Abandon or Unbind, unless write events start operations.                *)
THEOREM BindRunsAlone == Spec => []BindAlone
<1>1. IInv => BindAlone
  BY DEF IInv, BindAlone, Binding, BindingAt, Harmless
<1> QED BY Invariant, <1>1, PTL

(* The operation on which a Cancel spins without c_mutex is not freed.     *)
THEOREM CancelTargetStays == Spec => []CancelledStays
<1>1. IInv => CancelledStays
  <2> SUFFICES ASSUME IInv, NEW o \in Ids, op[o].pc = "cancelling" PROVE op[op[o].target].pc # "freed"
    BY DEF CancelledStays
  <2>1. op[o].target \in c_ops
    BY DEF IInv, CancelAt
  <2> QED BY <2>1, Lists DEF ActiveIn, Active
<1> QED BY Invariant, <1>1, PTL

(* No request that may be deferred starts before a deferred one that       *)
(* arrived earlier.                                                        *)
THEOREM RequestsInOrder == Spec => NoOvertaking
<1> DEFINE A == \A o \in c_ops' \ c_ops : \A p \in RangeOf(c_pending_ops') :
                  op'[o].tag \in {"ABANDON", "UNBIND"} \/ o < p
<1>1. IInv /\ [Next]_vars => [A]_vars
  BY NextInv, RequestSets DEF InOrder
<1> QED BY Invariant, <1>1, PTL DEF Spec, NoOvertaking
=============================================================================
