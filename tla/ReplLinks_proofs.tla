-------------------------- MODULE ReplLinks_proofs --------------------------
(***************************************************************************)
(* Proofs about the quorum and its syncrepl links, for any finite set of   *)
(* links and any setups together.                                          *)
(*                                                                         *)
(* First what each function of quorum.c does to the fields of the record   *)
(* (Fields), then what that means for the links and requirements that it   *)
(* holds, then the steps of the links.                                     *)
(***************************************************************************)
EXTENDS ReplLinks, TLAPS

(* The leaves are proved by Zenon, except those that cite another prover.  *)
USE ZenonT(60)

FlagSet == {"ALL_LINKS", "AUTO_RIDS", "AUTO_SIDS"}

QuorumRecord ==
  [init : BOOLEAN, cache : {-1, 0, 1}, present : Seq(Present),
   requirements : SUBSET Requirement, flags : SUBSET FlagSet, limit : 0..15,
   running : Int, qt_status : [Status -> Int], qt_left : Int]

Backlog(counts) == counts[DEAD] + counts[DIRTY] + counts[REFRESH] + counts[PROCESS]

(* A link has at most one place in the array, with its own replica ID.     *)
Keyed(present) ==
  /\ \A i, j \in DOMAIN present : present[i].key = present[j].key => i = j
  /\ \A i \in DOMAIN present : present[i].rid = Rid[present[i].key]

Entry(present, l, s) ==
  \E i \in DOMAIN present : present[i].key = l /\ present[i].status = s

Listed(present, l) == \E i \in DOMAIN present : present[i].key = l

OneVote(reqs) == \A r, s \in reqs : r.id = s.id /\ r.rid = s.rid => r = s

HasRid(reqs, n) == \E r \in reqs : r.rid /\ r.id = n

AutoVotes(present, reqs, flags) ==
  "AUTO_RIDS" \in flags => \A l \in Links : Listed(present, l) => HasRid(reqs, Rid[l])

(* A database whose quorum was never set up, or destroyed.                 *)
Absent(b) ==
  ~b.init =>
    /\ b.present = <<>> /\ b.requirements = {} /\ b.flags = {} /\ b.limit = 0
    /\ b.running = 0 /\ b.qt_status = [s \in Status |-> 0] /\ b.qt_left = -1

QInv(b) ==
  /\ b \in QuorumRecord
  /\ Keyed(b.present) /\ OneVote(b.requirements)
  /\ AutoVotes(b.present, b.requirements, b.flags)
  /\ Absent(b)
  /\ b.qt_left \in {-1, Backlog(b.qt_status)}

-----------------------------------------------------------------------------
(* Sequences.                                                              *)

(* The places of a sequence.                                               *)
LEMMA SeqPlaces ==
  ASSUME NEW S, NEW s \in Seq(S)
  PROVE  /\ Len(s) \in Nat /\ DOMAIN s = 1..Len(s)
         /\ \A i \in 1..Len(s) : s[i] \in S
BY SMT

(* Append adds a place at the end.                                         *)
LEMMA SeqAppend ==
  ASSUME NEW S, NEW s \in Seq(S), NEW e \in S
  PROVE  /\ Append(s, e) \in Seq(S) /\ Len(Append(s, e)) = Len(s) + 1
         /\ Append(s, e)[Len(s) + 1] = e /\ \A i \in 1..Len(s) : Append(s, e)[i] = s[i]
BY SMT

(* One place of a sequence is changed.                                     *)
LEMMA SeqExcept ==
  ASSUME NEW S, NEW s \in Seq(S), NEW i \in 1..Len(s), NEW e \in S
  PROVE  /\ [s EXCEPT ![i] = e] \in Seq(S) /\ Len([s EXCEPT ![i] = e]) = Len(s)
         /\ \A j \in 1..Len(s) : [s EXCEPT ![i] = e][j] = IF j = i THEN e ELSE s[j]
BY SMT

(* The places of two sequences joined.                                     *)
LEMMA SeqConcat ==
  ASSUME NEW S, NEW s \in Seq(S), NEW u \in Seq(S)
  PROVE  /\ s \o u \in Seq(S) /\ Len(s \o u) = Len(s) + Len(u)
         /\ \A j \in 1..(Len(s) + Len(u)) :
              (s \o u)[j] = IF j <= Len(s) THEN s[j] ELSE u[j - Len(s)]
BY SMT

(* The places of a part of a sequence.                                     *)
LEMMA SeqPart ==
  ASSUME NEW S, NEW s \in Seq(S), NEW m \in Int, NEW n \in Int, \A i \in m..n : s[i] \in S
  PROVE  /\ SubSeq(s, m, n) \in Seq(S)
         /\ Len(SubSeq(s, m, n)) = IF m <= n THEN n - m + 1 ELSE 0
         /\ \A i \in 1..(n - m + 1) : SubSeq(s, m, n)[i] = s[m + i - 1]
BY SMT

-----------------------------------------------------------------------------
(* The fields of a record after an update.                                 *)

Fields(r, init, cache, present, reqs, flags, limit, running, counts, left) ==
  /\ r \in QuorumRecord
  /\ r.init = init /\ r.cache = cache /\ r.present = present /\ r.requirements = reqs
  /\ r.flags = flags /\ r.limit = limit /\ r.running = running
  /\ r.qt_status = counts /\ r.qt_left = left

(* The statuses.                                                           *)
LEMMA Statuses ==
  /\ {DIRTY, DEAD, REFRESH, READY, PROCESS} = Status
  /\ DIRTY # DEAD /\ DIRTY # REFRESH /\ DIRTY # READY /\ DIRTY # PROCESS /\ DEAD # REFRESH
  /\ DEAD # READY /\ DEAD # PROCESS /\ REFRESH # READY /\ REFRESH # PROCESS /\ READY # PROCESS
  /\ READY >= READY /\ PROCESS >= READY
  /\ ~(DIRTY >= READY) /\ ~(DEAD >= READY) /\ ~(REFRESH >= READY)
BY SMT DEF DIRTY, DEAD, REFRESH, READY, PROCESS, Status

(* The fields of a record are of their types.                              *)
LEMMA FieldTypes ==
  ASSUME NEW b \in QuorumRecord
  PROVE  /\ b.init \in BOOLEAN /\ b.cache \in {-1, 0, 1} /\ b.present \in Seq(Present)
         /\ b.requirements \in SUBSET Requirement /\ b.flags \in SUBSET FlagSet
         /\ b.limit \in 0..15 /\ b.running \in Int /\ b.qt_status \in [Status -> Int]
         /\ b.qt_left \in Int
BY DEF QuorumRecord

(* quorum_invalidate forgets the verdict only.                             *)
LEMMA InvalidateFields ==
  ASSUME NEW b \in QuorumRecord
  PROVE  Fields(quorum_invalidate(b), b.init, 0, b.present, b.requirements, b.flags,
                b.limit, b.running, b.qt_status, b.qt_left)
<1>1. 0 \in {-1, 0, 1}
  BY SMT
<1> QED BY <1>1 DEF QuorumRecord, Fields, quorum_invalidate

(* kick recomputes the number of links that are left, and nothing else.    *)
LEMMA KickFields ==
  ASSUME NEW b \in QuorumRecord
  PROVE  Fields(kick(b), b.init, b.cache, b.present, b.requirements, b.flags,
                b.limit, b.running, b.qt_status, Backlog(b.qt_status))
<1>1. Backlog(b.qt_status) \in Int
  BY SMTT(60), FieldTypes DEF Backlog, Status, DEAD, DIRTY, REFRESH, PROCESS
<1>2. kick(b) = [b EXCEPT !.qt_left = Backlog(b.qt_status)]
  BY DEF kick, Backlog
<1> QED BY <1>1, <1>2 DEF QuorumRecord, Fields

(* The requirements change and nothing else.                               *)
LEMMA RequirementFields ==
  ASSUME NEW b \in QuorumRecord, NEW R \in SUBSET Requirement
  PROVE  Fields([b EXCEPT !.requirements = R], b.init, b.cache, b.present, R, b.flags,
                b.limit, b.running, b.qt_status, b.qt_left)
BY DEF QuorumRecord, Fields

(* The links array changes and nothing else.                               *)
LEMMA PresentFields ==
  ASSUME NEW b \in QuorumRecord, NEW p \in Seq(Present)
  PROVE  Fields([b EXCEPT !.present = p], b.init, b.cache, p, b.requirements, b.flags,
                b.limit, b.running, b.qt_status, b.qt_left)
BY DEF QuorumRecord, Fields

(* The status counters change and nothing else.                            *)
LEMMA CountFields ==
  ASSUME NEW b \in QuorumRecord, NEW c \in [Status -> Int]
  PROVE  Fields([b EXCEPT !.qt_status = c], b.init, b.cache, b.present, b.requirements, b.flags,
                b.limit, b.running, c, b.qt_left)
BY DEF QuorumRecord, Fields

(* The gate's counter changes and nothing else.                            *)
LEMMA RunningFields ==
  ASSUME NEW b \in QuorumRecord, NEW n \in Int
  PROVE  Fields([b EXCEPT !.running = n], b.init, b.cache, b.present, b.requirements, b.flags,
                b.limit, n, b.qt_status, b.qt_left)
BY DEF QuorumRecord, Fields

(* The cached verdict changes and nothing else.                            *)
LEMMA CacheFields ==
  ASSUME NEW b \in QuorumRecord, NEW v \in {-1, 0, 1}
  PROVE  Fields([b EXCEPT !.cache = v], b.init, v, b.present, b.requirements, b.flags,
                b.limit, b.running, b.qt_status, b.qt_left)
BY DEF QuorumRecord, Fields

(* The flags change and nothing else.                                      *)
LEMMA FlagFields ==
  ASSUME NEW b \in QuorumRecord, NEW F \in SUBSET FlagSet
  PROVE  Fields([b EXCEPT !.flags = F], b.init, b.cache, b.present, b.requirements, F,
                b.limit, b.running, b.qt_status, b.qt_left)
BY DEF QuorumRecord, Fields

(* The limit of the gate changes and nothing else.                         *)
LEMMA LimitFields ==
  ASSUME NEW b \in QuorumRecord, NEW n \in 0..15
  PROVE  Fields([b EXCEPT !.limit = n], b.init, b.cache, b.present, b.requirements, b.flags,
                n, b.running, b.qt_status, b.qt_left)
BY DEF QuorumRecord, Fields

(* The quorum of a database that has none.                                 *)
LEMMA NoQuorumFields ==
  /\ Fields(NoQuorum, FALSE, 0, <<>>, {}, {}, 0, 0, [s \in Status |-> 0], -1)
  /\ Fields([NoQuorum EXCEPT !.cache = 1], FALSE, 1, <<>>, {}, {}, 0, 0, [s \in Status |-> 0], -1)
  /\ Fields([NoQuorum EXCEPT !.init = TRUE, !.cache = 1], TRUE, 1, <<>>, {}, {}, 0, 0,
            [s \in Status |-> 0], -1)
<1>1. NoQuorum \in QuorumRecord
  BY SMT DEF NoQuorum, QuorumRecord
<1> QED BY <1>1 DEF NoQuorum, QuorumRecord, Fields

-----------------------------------------------------------------------------
(* The links array.                                                        *)

(* Every place of the array holds a link.                                  *)
LEMMA PlaceTypes ==
  ASSUME NEW p \in Seq(Present)
  PROVE  /\ Len(p) \in Nat /\ DOMAIN p = 1..Len(p)
         /\ \A i \in DOMAIN p : /\ i \in Nat /\ p[i] \in Present /\ p[i].key \in Links
                                /\ p[i].status \in Status /\ p[i].sid \in SidSet \cup {-1, 0}
<1>1. Len(p) \in Nat /\ DOMAIN p = 1..Len(p)
  BY SeqPlaces
<1>2. \A i \in DOMAIN p : p[i] \in Present
  BY <1>1, SeqPlaces
<1>3. \A i \in DOMAIN p : i \in Nat
  BY SMT, <1>1
<1> QED BY <1>1, <1>2, <1>3 DEF Present

(* A link that is listed has one status.                                   *)
LEMMA EntryFacts ==
  ASSUME NEW p \in Seq(Present), Keyed(p), NEW l \in Links
  PROVE  /\ Listed(p, l) <=> \E s \in Status : Entry(p, l, s)
         /\ \A s, u : Entry(p, l, s) /\ Entry(p, l, u) => s = u
<1>1. \A i \in DOMAIN p : p[i].status \in Status
  BY PlaceTypes
<1>2. Listed(p, l) <=> \E s \in Status : Entry(p, l, s)
  BY <1>1 DEF Listed, Entry
<1>3. \A s, u : Entry(p, l, s) /\ Entry(p, l, u) => s = u
  BY DEF Keyed, Entry
<1> QED BY <1>2, <1>3

(* The place of a link is found.                                           *)
LEMMA Place ==
  ASSUME NEW b \in QuorumRecord, Keyed(b.present), NEW l \in Links
  PROVE  /\ IndexOf(b, l) # {} <=> Listed(b.present, l)
         /\ \A i \in DOMAIN b.present :
              b.present[i].key = l => IndexOf(b, l) = {i} /\ Min(IndexOf(b, l)) = i
<1>1. IndexOf(b, l) # {} <=> Listed(b.present, l)
  BY DEF IndexOf, Listed
<1>2. ASSUME NEW i \in DOMAIN b.present, b.present[i].key = l
      PROVE  IndexOf(b, l) = {i} /\ Min(IndexOf(b, l)) = i
  <2>1. IndexOf(b, l) = {i}
    BY <1>2 DEF IndexOf, Keyed
  <2>2. i \in Nat
    BY FieldTypes, PlaceTypes
  <2>3. i <= i
    BY SMT, <2>2
  <2>4. Min({i}) = i
    BY <2>3 DEF Min
  <2> QED BY <2>1, <2>4
<1> QED BY <1>1, <1>2

(* What an array holds after a link was added, removed, or changed.        *)
Enrolled(t, p, l) ==
  /\ t \in Seq(Present) /\ Keyed(t)
  /\ \A x \in Links, s \in Status : Entry(t, x, s) <=> Entry(p, x, s) \/ (x = l /\ s = DIRTY)

Struck(t, p, l) ==
  /\ t \in Seq(Present) /\ Keyed(t)
  /\ \A x \in Links, s \in Status : Entry(t, x, s) <=> Entry(p, x, s) /\ x # l

Restated(t, p, l, new) ==
  /\ t \in Seq(Present) /\ Keyed(t)
  /\ \A x \in Links, s \in Status :
       /\ x # l => (Entry(t, x, s) <=> Entry(p, x, s))
       /\ Entry(t, l, s) <=> s = new

SameEntries(t, p) ==
  /\ t \in Seq(Present) /\ Keyed(t)
  /\ \A x \in Links, s \in Status : Entry(t, x, s) <=> Entry(p, x, s)

(* quorum_add_rid puts the link at the end.                                *)
LEMMA EnrollArray ==
  ASSUME NEW p \in Seq(Present), Keyed(p), NEW l \in Links, ~Listed(p, l)
  PROVE  Enrolled(Append(p, [key |-> l, rid |-> Rid[l], sid |-> -1, status |-> DIRTY]), p, l)
<1> DEFINE e == [key |-> l, rid |-> Rid[l], sid |-> -1, status |-> DIRTY]
           t == Append(p, e)
           n == Len(p) + 1
<1>1. DIRTY \in Status
  BY SMT DEF DIRTY, Status, PROCESS
<1>2. e \in Present /\ e.key = l /\ e.rid = Rid[l] /\ e.status = DIRTY
  BY <1>1 DEF Present
<1> HIDE DEF e
<1>3. /\ t \in Seq(Present) /\ Len(t) = n /\ t[n] = e
      /\ \A i \in 1..Len(p) : t[i] = p[i]
  BY SMT, <1>2, SeqAppend
<1> HIDE DEF t
<1>4. Len(p) \in Nat /\ DOMAIN p = 1..Len(p) /\ DOMAIN t = 1..Len(t)
  BY <1>3, SeqPlaces
<1>5. DOMAIN t = DOMAIN p \cup {n} /\ n \notin DOMAIN p
  BY SMT, <1>3, <1>4
<1> HIDE DEF n
<1>6. (\A i \in DOMAIN p : t[i] = p[i] /\ p[i].key # l) /\ t[n] = e
  BY <1>3, <1>4 DEF Listed
<1>7. Keyed(t)
  BY <1>2, <1>5, <1>6 DEF Keyed
<1>8. ASSUME NEW x \in Links, NEW s \in Status
      PROVE  Entry(t, x, s) <=> Entry(p, x, s) \/ (x = l /\ s = DIRTY)
  BY <1>2, <1>5, <1>6 DEF Entry
<1>9. Enrolled(t, p, l)
  BY <1>3, <1>7, <1>8 DEF Enrolled
<1> QED BY <1>9 DEF t, e

(* The array t is s without its place i.                                   *)
Shortened(t, s, i) ==
  /\ t \in Seq(Present) /\ Len(t) = Len(s) - 1
  /\ \A j \in 1..Len(t) : j < i => t[j] = s[j]
  /\ \A j \in 1..Len(t) : j >= i => t[j] = s[j + 1]

(* RemoveAt joins what precedes the place and what follows it.             *)
LEMMA RemoveAtPlace ==
  ASSUME NEW s \in Seq(Present), NEW i \in 1..Len(s)
  PROVE  Shortened(RemoveAt(s, i), s, i)
<1> DEFINE a == SubSeq(s, 1, i - 1)
           b == SubSeq(s, i + 1, Len(s))
           t == a \o b
<1>0. Len(s) \in Nat /\ i \in Nat /\ i >= 1 /\ i <= Len(s) /\ \A j \in 1..Len(s) : s[j] \in Present
  BY SMT, SeqPlaces
<1>1. a \in Seq(Present) /\ Len(a) = i - 1 /\ \A j \in 1..(i - 1) : a[j] = s[j]
  <2>1. \A j \in 1..(i - 1) : s[j] \in Present
    BY SMT, <1>0
  <2>2. /\ a \in Seq(Present) /\ Len(a) = IF 1 <= i - 1 THEN (i - 1) - 1 + 1 ELSE 0
        /\ \A j \in 1..((i - 1) - 1 + 1) : a[j] = s[1 + j - 1]
    BY SMT, <1>0, <2>1, SeqPart
  <2> HIDE DEF a
  <2> QED BY SMT, <1>0, <2>2
<1>2. b \in Seq(Present) /\ Len(b) = Len(s) - i /\ \A j \in 1..(Len(s) - i) : b[j] = s[i + j]
  <2>1. \A j \in (i + 1)..Len(s) : s[j] \in Present
    BY SMT, <1>0
  <2>2. /\ b \in Seq(Present) /\ Len(b) = IF i + 1 <= Len(s) THEN Len(s) - (i + 1) + 1 ELSE 0
        /\ \A j \in 1..(Len(s) - (i + 1) + 1) : b[j] = s[(i + 1) + j - 1]
    BY SMT, <1>0, <2>1, SeqPart
  <2> HIDE DEF b
  <2> QED BY SMT, <1>0, <2>2
<1> HIDE DEF a, b
<1>3. /\ t \in Seq(Present) /\ Len(t) = Len(a) + Len(b)
      /\ \A j \in 1..(Len(a) + Len(b)) : t[j] = IF j <= Len(a) THEN a[j] ELSE b[j - Len(a)]
  BY <1>1, <1>2, SeqConcat
<1> HIDE DEF t
<1>4. Len(t) = Len(s) - 1
  BY SMT, <1>0, <1>1, <1>2, <1>3
<1>5. ASSUME NEW j \in 1..Len(t), j < i PROVE t[j] = s[j]
  <2>1. j \in 1..(Len(a) + Len(b)) /\ j <= Len(a) /\ j \in 1..(i - 1)
    BY SMT, <1>0, <1>1, <1>2, <1>4, <1>5
  <2>2. t[j] = a[j]
    BY <1>3, <2>1
  <2> QED BY <1>1, <2>1, <2>2
<1>6. ASSUME NEW j \in 1..Len(t), j >= i PROVE t[j] = s[j + 1]
  <2>1. /\ j \in 1..(Len(a) + Len(b)) /\ ~(j <= Len(a)) /\ j - Len(a) \in 1..(Len(s) - i)
        /\ i + (j - Len(a)) = j + 1
    BY SMT, <1>0, <1>1, <1>2, <1>4, <1>6
  <2>2. t[j] = b[j - Len(a)]
    BY <1>3, <2>1
  <2>3. b[j - Len(a)] = s[i + (j - Len(a))]
    BY <1>2, <2>1
  <2> QED BY <2>1, <2>2, <2>3
<1> QED BY <1>3, <1>4, <1>5, <1>6 DEF Shortened, RemoveAt, t, a, b

(* quorum_remove_rid takes the link out.                                   *)
LEMMA StrikeArray ==
  ASSUME NEW p \in Seq(Present), Keyed(p), NEW i \in DOMAIN p
  PROVE  Struck(RemoveAt(p, i), p, p[i].key)
<1> DEFINE t == RemoveAt(p, i)
<1>0. Len(p) \in Nat /\ DOMAIN p = 1..Len(p)
  BY SeqPlaces
<1>1. Shortened(t, p, i)
  BY <1>0, RemoveAtPlace
<1> HIDE DEF t
<1>2. /\ t \in Seq(Present) /\ Len(t) = Len(p) - 1
      /\ \A j \in 1..Len(t) : j < i => t[j] = p[j]
      /\ \A j \in 1..Len(t) : j >= i => t[j] = p[j + 1]
  BY <1>1 DEF Shortened
<1>3. DOMAIN t = 1..Len(t)
  BY <1>2, SeqPlaces
<1>4. ASSUME NEW j \in DOMAIN t
      PROVE  \E k \in DOMAIN p : k # i /\ t[j] = p[k] /\ k = IF j < i THEN j ELSE j + 1
  <2>1. CASE j < i
    <3>1. j \in DOMAIN p /\ j # i
      BY SMT, <1>0, <1>2, <1>3, <2>1
    <3> QED BY <1>2, <1>3, <2>1, <3>1
  <2>2. CASE ~(j < i)
    <3>1. j + 1 \in DOMAIN p /\ j + 1 # i /\ j >= i
      BY SMT, <1>0, <1>2, <1>3, <2>2
    <3> QED BY <1>2, <1>3, <2>2, <3>1
  <2> QED BY <2>1, <2>2
<1>5. ASSUME NEW k \in DOMAIN p, k # i PROVE \E j \in DOMAIN t : t[j] = p[k]
  <2>1. CASE k < i
    <3>1. k \in DOMAIN t
      BY SMT, <1>0, <1>2, <1>3, <2>1
    <3> QED BY <1>2, <1>3, <2>1, <3>1
  <2>2. CASE k > i
    <3>1. k - 1 \in DOMAIN t /\ k - 1 >= i /\ (k - 1) + 1 = k
      BY SMT, <1>0, <1>2, <1>3, <2>2
    <3>2. t[k - 1] = p[k]
      BY <1>2, <1>3, <3>1
    <3> QED BY <3>1, <3>2
  <2> QED BY SMT, <1>0, <1>5, <2>1, <2>2
<1>6. ASSUME NEW j \in DOMAIN t, NEW k \in DOMAIN t, t[j].key = t[k].key PROVE j = k
  <2>1. PICK x \in DOMAIN p : t[j] = p[x] /\ x = IF j < i THEN j ELSE j + 1
    BY <1>4
  <2>2. PICK y \in DOMAIN p : t[k] = p[y] /\ y = IF k < i THEN k ELSE k + 1
    BY <1>4
  <2>3. x = y
    BY <1>6, <2>1, <2>2 DEF Keyed
  <2>4. (IF j < i THEN j ELSE j + 1) = (IF k < i THEN k ELSE k + 1)
    BY <2>1, <2>2, <2>3
  <2> QED BY SMT, <1>0, <1>3, <2>4
<1>a. \A j \in DOMAIN t : \E k \in DOMAIN p : k # i /\ t[j] = p[k]
  BY <1>4
<1>7. Keyed(t)
  <2>1. \A j \in DOMAIN t : t[j].rid = Rid[t[j].key]
    <3> SUFFICES ASSUME NEW j \in DOMAIN t PROVE t[j].rid = Rid[t[j].key]
      OBVIOUS
    <3>1. PICK k \in DOMAIN p : t[j] = p[k]
      BY <1>a
    <3>2. p[k].rid = Rid[p[k].key]
      BY DEF Keyed
    <3> QED BY <3>1, <3>2
  <2> QED BY <1>6, <2>1 DEF Keyed
<1>8. ASSUME NEW x \in Links, NEW s \in Status
      PROVE  Entry(t, x, s) <=> Entry(p, x, s) /\ x # p[i].key
  <2>1. ASSUME Entry(t, x, s) PROVE Entry(p, x, s) /\ x # p[i].key
    <3>1. PICK j \in DOMAIN t : t[j].key = x /\ t[j].status = s
      BY <2>1 DEF Entry
    <3>2. PICK k \in DOMAIN p : k # i /\ t[j] = p[k]
      BY <1>a
    <3>3. p[k].key = x /\ p[k].status = s
      BY <3>1, <3>2
    <3>4. x # p[i].key
      BY <3>2, <3>3 DEF Keyed
    <3> QED BY <3>3, <3>4 DEF Entry
  <2>2. ASSUME Entry(p, x, s), x # p[i].key PROVE Entry(t, x, s)
    BY <1>5, <2>2 DEF Entry
  <2> QED BY <2>1, <2>2
<1> QED BY <1>2, <1>7, <1>8 DEF Struck, t

(* One place of the array changes its status, its sid.                     *)
NewStatus(t, p, i, new) ==
  /\ t \in Seq(Present) /\ Len(t) = Len(p) /\ DOMAIN t = DOMAIN p
  /\ \A j \in DOMAIN p : j # i => t[j] = p[j]
  /\ t[i].key = p[i].key /\ t[i].rid = p[i].rid /\ t[i].sid = p[i].sid /\ t[i].status = new

NewSid(t, p, i, sid) ==
  /\ t \in Seq(Present) /\ Len(t) = Len(p) /\ DOMAIN t = DOMAIN p
  /\ \A j \in DOMAIN p : j # i => t[j] = p[j]
  /\ t[i].key = p[i].key /\ t[i].rid = p[i].rid /\ t[i].status = p[i].status /\ t[i].sid = sid

(* WithStatus changes the status of one place.                             *)
LEMMA StatusPlaces ==
  ASSUME NEW p \in Seq(Present), NEW i \in DOMAIN p, NEW new \in Status
  PROVE  NewStatus(WithStatus(p, i, new), p, i, new)
<1> DEFINE e == [p[i] EXCEPT !.status = new]
           t == [p EXCEPT ![i] = e]
<1>0. DOMAIN p = 1..Len(p) /\ p[i] \in Present
  BY PlaceTypes
<1>1. /\ e \in Present /\ e.key = p[i].key /\ e.rid = p[i].rid /\ e.sid = p[i].sid
      /\ e.status = new
  BY SMTT(60), <1>0 DEF Present
<1>2. WithStatus(p, i, new) = t
  BY DEF WithStatus
<1> HIDE DEF e
<1>3. /\ t \in Seq(Present) /\ Len(t) = Len(p)
      /\ \A j \in 1..Len(p) : t[j] = IF j = i THEN e ELSE p[j]
  BY <1>0, <1>1, SeqExcept
<1> HIDE DEF t
<1>4. DOMAIN t = DOMAIN p
  BY <1>0, <1>3, SeqPlaces
<1>5. t[i] = e /\ \A j \in DOMAIN p : j # i => t[j] = p[j]
  BY <1>0, <1>3
<1>6. NewStatus(t, p, i, new)
  BY <1>1, <1>3, <1>4, <1>5 DEF NewStatus
<1> QED BY <1>2, <1>6

(* WithSid changes the server ID of one place.                             *)
LEMMA SidPlaces ==
  ASSUME NEW p \in Seq(Present), NEW i \in DOMAIN p, NEW sid \in SidSet \cup {-1, 0}
  PROVE  NewSid(WithSid(p, i, sid), p, i, sid)
<1> DEFINE e == [p[i] EXCEPT !.sid = sid]
           t == [p EXCEPT ![i] = e]
<1>0. DOMAIN p = 1..Len(p) /\ p[i] \in Present
  BY PlaceTypes
<1>1. /\ e \in Present /\ e.key = p[i].key /\ e.rid = p[i].rid /\ e.sid = sid
      /\ e.status = p[i].status
  BY SMT, <1>0 DEF Present
<1>2. WithSid(p, i, sid) = t
  BY DEF WithSid
<1> HIDE DEF e
<1>3. /\ t \in Seq(Present) /\ Len(t) = Len(p)
      /\ \A j \in 1..Len(p) : t[j] = IF j = i THEN e ELSE p[j]
  BY <1>0, <1>1, SeqExcept
<1> HIDE DEF t
<1>4. DOMAIN t = DOMAIN p
  BY <1>0, <1>3, SeqPlaces
<1>5. t[i] = e /\ \A j \in DOMAIN p : j # i => t[j] = p[j]
  BY <1>0, <1>3
<1>6. NewSid(t, p, i, sid)
  BY <1>1, <1>3, <1>4, <1>5 DEF NewSid
<1> QED BY <1>2, <1>6

(* The array with a new status.                                            *)
LEMMA RestateArray ==
  ASSUME NEW p \in Seq(Present), Keyed(p), NEW i \in DOMAIN p, NEW new \in Status,
         NEW t, NewStatus(t, p, i, new)
  PROVE  Restated(t, p, p[i].key, new)
<1>1. \A j \in DOMAIN p : t[j].key = p[j].key /\ t[j].rid = p[j].rid
  BY DEF NewStatus
<1>2. Keyed(t)
  BY <1>1 DEF Keyed, NewStatus
<1>3. ASSUME NEW x \in Links, NEW s \in Status
      PROVE  /\ x # p[i].key => (Entry(t, x, s) <=> Entry(p, x, s))
             /\ Entry(t, p[i].key, s) <=> s = new
  <2>1. ASSUME x # p[i].key PROVE Entry(t, x, s) <=> Entry(p, x, s)
    BY <1>1, <2>1 DEF Entry, NewStatus
  <2>2. Entry(t, p[i].key, s) <=> s = new
    BY <1>1 DEF Entry, NewStatus, Keyed
  <2> QED BY <2>1, <2>2
<1> QED BY <1>2, <1>3 DEF Restated, NewStatus

(* The array with a new server ID.                                         *)
LEMMA ResidArray ==
  ASSUME NEW p \in Seq(Present), Keyed(p), NEW i \in DOMAIN p,
         NEW sid, NEW t, NewSid(t, p, i, sid)
  PROVE  SameEntries(t, p)
<1>1. \A j \in DOMAIN p : t[j].key = p[j].key /\ t[j].rid = p[j].rid /\ t[j].status = p[j].status
  BY DEF NewSid
<1>2. Keyed(t)
  BY <1>1 DEF Keyed, NewSid
<1>3. \A x \in Links, s \in Status : Entry(t, x, s) <=> Entry(p, x, s)
  BY <1>1 DEF Entry, NewSid
<1> QED BY <1>2, <1>3 DEF SameEntries, NewSid

-----------------------------------------------------------------------------
(* Requirements.                                                           *)

(* The requirements of R2 after r was added to R.                          *)
Added(R2, R, r) ==
  /\ R2 \in SUBSET Requirement /\ OneVote(R2)
  /\ \A n : HasRid(R, n) => HasRid(R2, n)
  /\ \A x \in R : ~x.auto => x \in R2
  /\ r.rid => HasRid(R2, r.id)

(* The requirements of R2 after an automatic one for id was taken from R.  *)
Taken(R2, R, rid, id) ==
  /\ R2 \in SUBSET Requirement /\ OneVote(R2)
  /\ \A n : HasRid(R, n) /\ ~(rid /\ n = id) => HasRid(R2, n)
  /\ \A x \in R : ~x.auto => x \in R2

(* require_append keeps one requirement for each ID of a kind.             *)
LEMMA AppendRequirement ==
  ASSUME NEW b \in QuorumRecord, OneVote(b.requirements), NEW r \in Requirement
  PROVE  /\ Added(require_append(b, r).requirements, b.requirements, r)
         /\ Fields(require_append(b, r), b.init, b.cache, b.present,
                   require_append(b, r).requirements, b.flags, b.limit, b.running,
                   b.qt_status, b.qt_left)
         /\ ~Appends(b, r) => require_append(b, r) = b
<1> DEFINE R == b.requirements
           S == Same(b, r)
           N == (R \ S) \cup {r}
           w == require_append(b, r)
<1>0. R \in SUBSET Requirement
  BY FieldTypes
<1>1. N \in SUBSET Requirement
  BY <1>0
<1>2. Appends(b, r) => w = [b EXCEPT !.requirements = N]
  BY DEF require_append
<1>3. ~Appends(b, r) => w = b
  BY DEF require_append
<1>4. CASE Appends(b, r)
  <2>1. OneVote(N)
    BY DEF OneVote, Same
  <2>2. \A n : HasRid(R, n) => HasRid(N, n)
    <3> SUFFICES ASSUME NEW n, NEW x \in R, x.rid, x.id = n PROVE HasRid(N, n)
      BY DEF HasRid
    <3>1. CASE x \in S
      <4>1. r.id = n /\ r.rid = x.rid
        BY <3>1 DEF Same
      <4> QED BY <4>1 DEF HasRid
    <3>2. CASE x \notin S
      BY <3>2 DEF HasRid
    <3> QED BY <3>1, <3>2
  <2>3. \A x \in R : ~x.auto => x \in N
    BY <1>4 DEF Appends
  <2>4. r.rid => HasRid(N, r.id)
    BY DEF HasRid
  <2>5. Added(N, R, r)
    BY <1>1, <2>1, <2>2, <2>3, <2>4 DEF Added
  <2> HIDE DEF N
  <2>6. Fields(w, b.init, b.cache, b.present, N, b.flags, b.limit, b.running, b.qt_status, b.qt_left)
    BY <1>1, <1>2, <1>4, RequirementFields
  <2>7. w.requirements = N
    BY <2>6 DEF Fields
  <2> QED BY <1>4, <2>5, <2>6, <2>7
<1>5. CASE ~Appends(b, r)
  <2>1. PICK x \in R : x.id = r.id /\ x.rid = r.rid
    BY <1>5 DEF Appends, Same
  <2>2. r.rid => HasRid(R, r.id)
    BY <2>1 DEF HasRid
  <2>3. Added(R, R, r)
    BY <1>0, <2>2 DEF Added
  <2> QED BY <1>3, <1>5, <2>3 DEF Fields
<1> QED BY <1>4, <1>5

(* require_remove takes an automatic requirement only.                     *)
LEMMA TakeRequirement ==
  ASSUME NEW b \in QuorumRecord, OneVote(b.requirements), NEW rid, NEW id
  PROVE  /\ Taken(require_remove(b, rid, id).requirements, b.requirements, rid, id)
         /\ Fields(require_remove(b, rid, id), b.init, b.cache, b.present,
                   require_remove(b, rid, id).requirements, b.flags, b.limit, b.running,
                   b.qt_status, b.qt_left)
<1> DEFINE R == b.requirements
           N == {r \in R : ~(r.id = id /\ r.rid = rid /\ r.auto)}
           w == require_remove(b, rid, id)
<1>0. R \in SUBSET Requirement
  BY FieldTypes
<1>1. N \in SUBSET Requirement
  BY <1>0
<1>2. w = [b EXCEPT !.requirements = N]
  BY DEF require_remove
<1>3. OneVote(N)
  BY DEF OneVote
<1>4. \A n : HasRid(R, n) /\ ~(rid /\ n = id) => HasRid(N, n)
  BY DEF HasRid
<1>5. \A x \in R : ~x.auto => x \in N
  OBVIOUS
<1>6. Taken(N, R, rid, id)
  BY <1>1, <1>3, <1>4, <1>5 DEF Taken
<1> HIDE DEF N
<1>7. Fields(w, b.init, b.cache, b.present, N, b.flags, b.limit, b.running, b.qt_status, b.qt_left)
  BY <1>1, <1>2, RequirementFields
<1>8. w.requirements = N
  BY <1>7 DEF Fields
<1> QED BY <1>6, <1>7, <1>8

-----------------------------------------------------------------------------
(* The verdict.                                                            *)

(* What the verdict depends on.                                            *)
SameBasis(r, b) ==
  /\ r.requirements = b.requirements /\ r.flags = b.flags /\ Len(r.present) = Len(b.present)
  /\ ReadyLinks(r) = ReadyLinks(b)
  /\ \A x : Matching(r, x) = Matching(b, x)
  /\ \A x : IsReady(r, x) <=> IsReady(b, x)

SameVerdict(r, b) ==
  /\ r.cache = b.cache
  /\ \A self : lazy_update(r, self) = lazy_update(b, self)

(* Records with the same basis have the same verdict.                      *)
LEMMA BasisDecides ==
  ASSUME NEW r, NEW b, SameBasis(r, b), NEW self
  PROVE  lazy_update(r, self) = lazy_update(b, self)
<1>1. Counted(r, self) = Counted(b, self)
  BY DEF Counted, SameBasis
<1> DEFINE c == Counted(b, self)
<1>2. \A k : {x \in {y \in c : y.rid = k} : IsReady(r, x)} = {x \in {y \in c : y.rid = k} : IsReady(b, x)}
  BY DEF SameBasis
<1>3. {x \in c : x.demand /\ ~IsReady(r, x)} = {x \in c : x.demand /\ ~IsReady(b, x)}
  BY DEF SameBasis
<1> HIDE DEF c
<1>4. Counted(r, self) = c /\ Counted(b, self) = c
  BY <1>1 DEF c
<1>5. /\ r.flags = b.flags /\ Len(r.present) = Len(b.present) /\ ReadyLinks(r) = ReadyLinks(b)
      /\ \A x : Matching(r, x) = Matching(b, x)
  BY DEF SameBasis
<1> QED BY <1>2, <1>3, <1>4, <1>5 DEF lazy_update

(* Equal arrays, requirements and flags are the same basis.                *)
LEMMA EqualBasis ==
  ASSUME NEW r, NEW b, r.present = b.present, r.requirements = b.requirements, r.flags = b.flags
  PROVE  SameBasis(r, b)
<1>1. \A x : Matching(r, x) = Matching(b, x)
  BY DEF Matching
<1>2. ReadyLinks(r) = ReadyLinks(b)
  BY DEF ReadyLinks
<1>3. \A x : IsReady(r, x) <=> IsReady(b, x)
  <2> SUFFICES ASSUME NEW x PROVE IsReady(r, x) <=> IsReady(b, x)
    OBVIOUS
  <2> DEFINE M == Matching(b, x)
  <2>1. Matching(r, x) = M
    BY <1>1
  <2>2. IsReady(r, x) <=> \E i \in M : (\A j \in M : i <= j) /\ r.present[i].status >= READY
    BY <2>1 DEF IsReady
  <2>3. IsReady(b, x) <=> \E i \in M : (\A j \in M : i <= j) /\ b.present[i].status >= READY
    BY DEF IsReady
  <2> HIDE DEF M
  <2> QED BY <2>2, <2>3
<1>4. Len(r.present) = Len(b.present)
  OBVIOUS
<1> QED BY <1>1, <1>2, <1>3, <1>4 DEF SameBasis

(* A status that does not cross READY leaves the basis.                    *)
LEMMA StatusBasis ==
  ASSUME NEW r, NEW b, NEW i \in DOMAIN b.present, NEW new,
         NewStatus(r.present, b.present, i, new),
         b.present[i].status >= READY <=> new >= READY,
         r.requirements = b.requirements, r.flags = b.flags
  PROVE  SameBasis(r, b)
<1>1. /\ DOMAIN r.present = DOMAIN b.present /\ Len(r.present) = Len(b.present)
      /\ \A j \in DOMAIN b.present :
           /\ r.present[j].rid = b.present[j].rid /\ r.present[j].sid = b.present[j].sid
           /\ r.present[j].status >= READY <=> b.present[j].status >= READY
  BY DEF NewStatus
<1>2. \A x : Matching(r, x) = Matching(b, x)
  BY <1>1 DEF Matching
<1>3. ReadyLinks(r) = ReadyLinks(b)
  BY <1>1 DEF ReadyLinks
<1>4. \A x : Matching(b, x) \subseteq DOMAIN b.present
  BY DEF Matching
<1>5. \A x : IsReady(r, x) <=> IsReady(b, x)
  <2> SUFFICES ASSUME NEW x PROVE IsReady(r, x) <=> IsReady(b, x)
    OBVIOUS
  <2> DEFINE M == Matching(b, x)
  <2>1. Matching(r, x) = M /\ M \subseteq DOMAIN b.present
    BY <1>2, <1>4
  <2>2. IsReady(r, x) <=> \E k \in M : (\A j \in M : k <= j) /\ r.present[k].status >= READY
    BY <2>1 DEF IsReady
  <2>3. IsReady(b, x) <=> \E k \in M : (\A j \in M : k <= j) /\ b.present[k].status >= READY
    BY DEF IsReady
  <2> HIDE DEF M
  <2>4. \A k \in M : r.present[k].status >= READY <=> b.present[k].status >= READY
    BY <1>1, <2>1
  <2> QED BY <2>2, <2>3, <2>4
<1> QED BY <1>1, <1>2, <1>3, <1>5 DEF SameBasis

-----------------------------------------------------------------------------
(* The functions of quorum.c.                                              *)

(* Everything but the number of links left, which kick recomputes.         *)
QBase(b) ==
  /\ b \in QuorumRecord /\ b.init
  /\ Keyed(b.present) /\ OneVote(b.requirements)
  /\ AutoVotes(b.present, b.requirements, b.flags)

(* What any step but a query and the deletion of the line does to the      *)
(* requirements of the configuration and to a verdict.                     *)
KeepsVotes(r, b) == (b.init => r.init) /\ \A x \in b.requirements : ~x.auto => x \in r.requirements

KeepsVerdict(r, b) ==
  b.init /\ r.cache # 0 =>
    \/ r.flags # b.flags
    \/ \E l \in Links : Listed(r.present, l) /\ ~Listed(b.present, l)
    \/ SameVerdict(r, b)

Good(r, b) == QInv(r) /\ KeepsVotes(r, b) /\ KeepsVerdict(r, b)

Unmoved(r, b) ==
  SameEntries(r.present, b.present) /\ r.qt_status = b.qt_status /\ r.running = b.running

(* The array that did not change.                                          *)
LEMMA SameArray ==
  ASSUME NEW p \in Seq(Present), Keyed(p)
  PROVE  SameEntries(p, p)
BY DEF SameEntries

(* A record with a quorum is its base and the number of links left.        *)
LEMMA BaseOf ==
  ASSUME NEW b
  PROVE  /\ QInv(b) /\ b.init => QBase(b)
         /\ QBase(b) /\ b.qt_left \in {-1, Backlog(b.qt_status)} => QInv(b)
BY DEF QInv, QBase, Absent

(* A record that differs in nothing the invariant reads keeps it.          *)
LEMMA SameBase ==
  ASSUME NEW r, NEW b, QBase(b), r \in QuorumRecord, r.init = b.init, r.present = b.present,
         r.requirements = b.requirements, r.flags = b.flags
  PROVE  QBase(r)
<1>1. r.init
  BY DEF QBase
<1>2. Keyed(r.present) /\ OneVote(r.requirements)
  BY DEF QBase
<1>3. AutoVotes(r.present, r.requirements, r.flags)
  BY DEF QBase
<1> QED BY <1>1, <1>2, <1>3 DEF QBase

Kicked(r, b) ==
  Fields(r, b.init, b.cache, b.present, b.requirements, b.flags, b.limit, b.running,
         b.qt_status, Backlog(b.qt_status))

(* kick makes the number of links left right.                              *)
LEMMA KickBase ==
  ASSUME NEW b, QBase(b)
  PROVE  QInv(kick(b)) /\ Kicked(kick(b), b)
<1> DEFINE r == kick(b)
<1>1. Kicked(r, b)
  BY KickFields DEF QBase, Kicked
<1> HIDE DEF r
<1>2. /\ r \in QuorumRecord /\ r.init = b.init /\ r.present = b.present
      /\ r.requirements = b.requirements /\ r.flags = b.flags
      /\ r.qt_left = Backlog(r.qt_status)
  BY <1>1 DEF Kicked, Fields
<1>3. QBase(r)
  BY <1>2, SameBase
<1>4. QInv(r)
  BY <1>2, <1>3, BaseOf
<1> QED BY <1>1, <1>4 DEF r

Invalidated(r, b) ==
  Fields(r, b.init, 0, b.present, b.requirements, b.flags, b.limit, b.running,
         b.qt_status, b.qt_left)

(* quorum_invalidate keeps the invariant.                                  *)
LEMMA InvalidateInv ==
  ASSUME NEW b, QInv(b)
  PROVE  QInv(quorum_invalidate(b)) /\ Invalidated(quorum_invalidate(b), b)
<1> DEFINE r == quorum_invalidate(b)
<1>1. Invalidated(r, b)
  BY InvalidateFields DEF QInv, Invalidated
<1> HIDE DEF r
<1>2. /\ r \in QuorumRecord /\ r.init = b.init /\ r.present = b.present
      /\ r.requirements = b.requirements /\ r.flags = b.flags /\ r.limit = b.limit
      /\ r.running = b.running /\ r.qt_left = b.qt_left /\ r.qt_status = b.qt_status
  BY <1>1 DEF Invalidated, Fields
<1>3. Keyed(r.present) /\ OneVote(r.requirements)
  BY <1>2 DEF QInv
<1>4. AutoVotes(r.present, r.requirements, r.flags)
  BY <1>2 DEF QInv
<1>5. Absent(r)
  BY <1>2 DEF QInv, Absent
<1>6. r.qt_left \in {-1, Backlog(r.qt_status)}
  BY <1>2 DEF QInv
<1>7. QInv(r)
  BY <1>2, <1>3, <1>4, <1>5, <1>6 DEF QInv
<1> QED BY <1>1, <1>7 DEF r

(* quorum_be_init sets a quorum up if there is none.                       *)
Begun(c, b) ==
  /\ QInv(c) /\ c.init /\ (b.init => c = b)
  /\ c.present = b.present /\ c.requirements = b.requirements /\ c.flags = b.flags
  /\ c.qt_status = b.qt_status /\ c.running = b.running

(* quorum_be_init changes nothing where there is a quorum.                 *)
LEMMA InitOp ==
  ASSUME NEW b, QInv(b)
  PROVE  Begun(quorum_be_init(b), b)
<1> DEFINE c == quorum_be_init(b)
<1>0. b \in QuorumRecord /\ b.init \in BOOLEAN
  BY FieldTypes DEF QInv
<1>1. CASE b.init
  <2>1. c = b
    BY <1>1 DEF quorum_be_init
  <2> QED BY <1>1, <2>1 DEF Begun
<1>2. CASE ~b.init
  <2>1. c = [NoQuorum EXCEPT !.init = TRUE, !.cache = 1]
    BY <1>2 DEF quorum_be_init
  <2>2. Fields(c, TRUE, 1, <<>>, {}, {}, 0, 0, [s \in Status |-> 0], -1)
    BY <2>1, NoQuorumFields
  <2> HIDE DEF c
  <2>3. /\ c \in QuorumRecord /\ c.init /\ c.present = <<>> /\ c.requirements = {} /\ c.flags = {}
        /\ c.running = 0 /\ c.qt_status = [s \in Status |-> 0] /\ c.qt_left = -1
    BY <2>2 DEF Fields
  <2>4. DOMAIN c.present = {}
    BY SMT, <2>3
  <2>5. Keyed(c.present) /\ OneVote(c.requirements) /\ AutoVotes(c.present, c.requirements, c.flags)
    BY <2>3, <2>4 DEF Keyed, OneVote, AutoVotes
  <2>6. QBase(c)
    BY <2>3, <2>5 DEF QBase
  <2>7. QInv(c)
    BY <2>3, <2>6, BaseOf
  <2>8. /\ b.present = <<>> /\ b.requirements = {} /\ b.flags = {} /\ b.running = 0
        /\ b.qt_status = [s \in Status |-> 0]
    BY <1>2 DEF QInv, Absent
  <2>9. Begun(c, b)
    BY <1>2, <2>3, <2>7, <2>8 DEF Begun
  <2> QED BY <2>9 DEF c
<1> QED BY <1>1, <1>2

(* A step is as good from the record that was set up as from the old one.  *)
LEMMA ThenGood ==
  ASSUME NEW r, NEW c, NEW b, Begun(c, b), Good(r, c)
  PROVE  Good(r, b)
<1>1. KeepsVotes(r, b)
  BY DEF Begun, Good, KeepsVotes
<1>2. KeepsVerdict(r, b)
  <2>1. CASE b.init
    BY <2>1 DEF Begun, Good
  <2>2. CASE ~b.init
    BY <2>2 DEF KeepsVerdict
  <2> QED BY <2>1, <2>2
<1> QED BY <1>1, <1>2 DEF Good

(* Where nothing changed nothing is lost.                                  *)
LEMMA GoodSame ==
  ASSUME NEW b, QInv(b)
  PROVE  Good(b, b) /\ Unmoved(b, b)
<1>1. Good(b, b)
  BY DEF Good, KeepsVotes, KeepsVerdict, SameVerdict
<1>2. SameEntries(b.present, b.present)
  BY FieldTypes, SameArray DEF QInv
<1> QED BY <1>1, <1>2 DEF Unmoved

(* A record with the same links, requirements, flags and verdict is good.  *)
LEMMA GoodBasis ==
  ASSUME NEW r, NEW b, QInv(r), QInv(b), r.init = b.init, r.cache = b.cache, r.present = b.present,
         r.requirements = b.requirements, r.flags = b.flags
  PROVE  Good(r, b) /\ SameEntries(r.present, b.present)
<1>1. SameBasis(r, b)
  BY EqualBasis
<1>2. SameVerdict(r, b)
  BY <1>1, BasisDecides DEF SameVerdict
<1>3. Good(r, b)
  BY <1>2 DEF Good, KeepsVotes, KeepsVerdict
<1>4. SameEntries(r.present, b.present)
  BY FieldTypes, SameArray DEF QInv
<1> QED BY <1>3, <1>4

(* The record v is w, with its verdict forgotten if it had to be.          *)
Passed(v, w, b) ==
  /\ Good(v, b)
  /\ v.present = w.present /\ v.qt_status = w.qt_status /\ v.running = w.running

(* A change whose verdict is forgotten when it may be wrong is good.       *)
LEMMA InvalidateGood ==
  ASSUME NEW w, NEW b, NEW cond \in BOOLEAN, QInv(w), KeepsVotes(w, b), ~cond => KeepsVerdict(w, b)
  PROVE  Passed(InvalidateIf(cond, w), w, b)
<1>1. CASE cond
  <2> DEFINE v == quorum_invalidate(w)
  <2>1. QInv(v) /\ Invalidated(v, w)
    BY InvalidateInv
  <2>2. InvalidateIf(cond, w) = v
    BY <1>1 DEF InvalidateIf
  <2> HIDE DEF v
  <2>3. /\ v.init = w.init /\ v.cache = 0 /\ v.present = w.present
        /\ v.requirements = w.requirements /\ v.qt_status = w.qt_status /\ v.running = w.running
    BY <2>1 DEF Invalidated, Fields
  <2>4. KeepsVotes(v, b)
    BY <2>3 DEF KeepsVotes
  <2>5. KeepsVerdict(v, b)
    BY <2>3 DEF KeepsVerdict
  <2> QED BY <2>1, <2>2, <2>3, <2>4, <2>5 DEF Passed, Good
<1>2. CASE ~cond
  <2>1. InvalidateIf(cond, w) = w
    BY <1>2 DEF InvalidateIf
  <2> QED BY <1>2, <2>1 DEF Passed, Good
<1> QED BY <1>1, <1>2

(* kick keeps the verdict.                                                 *)
LEMMA KickGood ==
  ASSUME NEW b, QInv(b), b.init
  PROVE  Good(kick(b), b) /\ Unmoved(kick(b), b)
<1> DEFINE r == kick(b)
<1>1. QBase(b)
  BY BaseOf
<1>2. QInv(r) /\ Kicked(r, b)
  BY <1>1, KickBase
<1> HIDE DEF r
<1>3. /\ r.init = b.init /\ r.cache = b.cache /\ r.present = b.present /\ r.requirements = b.requirements
      /\ r.flags = b.flags /\ r.qt_status = b.qt_status /\ r.running = b.running
  BY <1>2 DEF Kicked, Fields
<1>4. Good(r, b) /\ SameEntries(r.present, b.present)
  BY <1>2, <1>3, GoodBasis
<1> QED BY <1>3, <1>4 DEF Unmoved, r

(* A step that moves nothing, from the record that was set up.             *)
LEMMA ThenUnmoved ==
  ASSUME NEW r, NEW c, NEW b, Begun(c, b), Unmoved(r, c)
  PROVE  Unmoved(r, b)
BY DEF Begun, Unmoved

(* quorum_query_status: the verdict and the links stay.                    *)
LEMMA StatusQueryOp ==
  ASSUME NEW b, QInv(b)
  PROVE  Good(quorum_query_status(b), b) /\ Unmoved(quorum_query_status(b), b)
<1> DEFINE c == quorum_be_init(b)
           r == quorum_query_status(b)
<1>1. Begun(c, b)
  BY InitOp
<1>2. r = kick(c) \/ r = c
  BY DEF quorum_query_status
<1> HIDE DEF c, r
<1>3. QInv(c) /\ c.init
  BY <1>1 DEF Begun
<1>4. Good(r, c) /\ Unmoved(r, c)
  BY <1>2, <1>3, KickGood, GoodSame
<1> QED BY <1>1, <1>4, ThenGood, ThenUnmoved DEF r

(* A requirement is added and the verdict forgotten if it is new.          *)
LEMMA RequireOp ==
  ASSUME NEW b, QInv(b), b.init, NEW r \in Requirement
  PROVE  /\ Good(InvalidateIf(Appends(b, r), require_append(b, r)), b)
         /\ Unmoved(InvalidateIf(Appends(b, r), require_append(b, r)), b)
<1> DEFINE w == require_append(b, r)
           v == InvalidateIf(Appends(b, r), w)
<1>0. b \in QuorumRecord /\ OneVote(b.requirements)
  BY DEF QInv
<1>1. /\ Added(w.requirements, b.requirements, r)
      /\ Fields(w, b.init, b.cache, b.present, w.requirements, b.flags, b.limit, b.running,
                b.qt_status, b.qt_left)
      /\ ~Appends(b, r) => w = b
  BY <1>0, AppendRequirement
<1>2. Appends(b, r) \in BOOLEAN
  BY DEF Appends
<1> HIDE DEF w
<1>3. /\ w \in QuorumRecord /\ w.init /\ w.present = b.present /\ w.flags = b.flags
      /\ w.running = b.running /\ w.qt_status = b.qt_status /\ w.qt_left = b.qt_left
  BY <1>1 DEF Fields
<1>4. Keyed(w.present) /\ OneVote(w.requirements)
  BY <1>1, <1>3 DEF Added, QInv
<1>5. AutoVotes(w.present, w.requirements, w.flags)
  BY <1>1, <1>3 DEF QInv, AutoVotes, Added
<1>6. QBase(w)
  BY <1>3, <1>4, <1>5 DEF QBase
<1>7. w.qt_left \in {-1, Backlog(w.qt_status)}
  BY <1>3 DEF QInv
<1>8. QInv(w)
  BY <1>6, <1>7, BaseOf
<1>9. KeepsVotes(w, b)
  BY <1>1, <1>3 DEF KeepsVotes, Added
<1>10. ~Appends(b, r) => KeepsVerdict(w, b)
  BY <1>1, GoodSame DEF Good
<1>11. Passed(v, w, b)
  BY <1>2, <1>8, <1>9, <1>10, InvalidateGood
<1> HIDE DEF v
<1>12. SameEntries(v.present, b.present)
  BY <1>0, <1>3, <1>4, <1>11, FieldTypes, SameArray DEF Passed
<1>13. Good(v, b) /\ Unmoved(v, b)
  BY <1>3, <1>11, <1>12 DEF Passed, Unmoved
<1> QED BY <1>13 DEF v, w

(* quorum_notify_csn may bring an automatic requirement.                   *)
LEMMA CsnOp ==
  ASSUME NEW b, QInv(b), NEW sid \in Nat
  PROVE  Good(quorum_notify_csn(b, sid), b) /\ Unmoved(quorum_notify_csn(b, sid), b)
<1> DEFINE a == QR_AUTO_SID(sid)
<1>1. a \in Requirement
  BY DEF QR_AUTO_SID, Type, Requirement
<1> HIDE DEF a
<1>2. CASE b.init /\ "AUTO_SIDS" \in b.flags
  <2>1. quorum_notify_csn(b, sid) = InvalidateIf(Appends(b, a), require_append(b, a))
    BY <1>2 DEF quorum_notify_csn, a
  <2> QED BY <1>1, <1>2, <2>1, RequireOp
<1>3. CASE ~(b.init /\ "AUTO_SIDS" \in b.flags)
  <2>1. quorum_notify_csn(b, sid) = b
    BY <1>3 DEF quorum_notify_csn
  <2> QED BY <2>1, GoodSame
<1> QED BY <1>2, <1>3

(* config_quorum: a requirement.                                           *)
LEMMA ConfigRequireOp ==
  ASSUME NEW b, QInv(b), NEW r \in Requirement
  PROVE  Good(ConfigRequire(b, r), b) /\ Unmoved(ConfigRequire(b, r), b)
<1> DEFINE c == quorum_be_init(b)
<1>1. Begun(c, b)
  BY InitOp
<1>2. ConfigRequire(b, r) = InvalidateIf(Appends(c, r), require_append(c, r))
  BY DEF ConfigRequire
<1> HIDE DEF c
<1>3. QInv(c) /\ c.init
  BY <1>1 DEF Begun
<1>4. Good(ConfigRequire(b, r), c) /\ Unmoved(ConfigRequire(b, r), c)
  BY <1>2, <1>3, RequireOp
<1> QED BY <1>1, <1>4, ThenGood, ThenUnmoved

(* config_quorum: a limit.                                                 *)
LEMMA ConfigLimitOp ==
  ASSUME NEW b, QInv(b), NEW n \in 1..15
  PROVE  Good(ConfigLimit(b, n), b) /\ Unmoved(ConfigLimit(b, n), b)
<1> DEFINE c == quorum_be_init(b)
           r == [c EXCEPT !.limit = n]
<1>1. Begun(c, b)
  BY InitOp
<1>2. ConfigLimit(b, n) = c \/ ConfigLimit(b, n) = r
  BY DEF ConfigLimit
<1> HIDE DEF c
<1>3. QInv(c) /\ c.init /\ c \in QuorumRecord
  BY <1>1 DEF Begun, QInv
<1>4. n \in 0..15
  BY SMT
<1>5. Fields(r, c.init, c.cache, c.present, c.requirements, c.flags, n, c.running, c.qt_status, c.qt_left)
  BY <1>3, <1>4, LimitFields
<1> HIDE DEF r
<1>6. /\ r \in QuorumRecord /\ r.init = c.init /\ r.cache = c.cache /\ r.present = c.present
      /\ r.requirements = c.requirements /\ r.flags = c.flags
      /\ r.running = c.running /\ r.qt_status = c.qt_status /\ r.qt_left = c.qt_left
  BY <1>5 DEF Fields
<1>7. QBase(r)
  BY <1>3, <1>6, BaseOf, SameBase
<1>8. QInv(r)
  BY <1>3, <1>6, <1>7, BaseOf DEF QInv
<1>9. Good(r, c) /\ SameEntries(r.present, c.present)
  BY <1>3, <1>6, <1>8, GoodBasis
<1>10. Good(ConfigLimit(b, n), c) /\ Unmoved(ConfigLimit(b, n), c)
  BY <1>2, <1>3, <1>6, <1>9, GoodSame DEF Unmoved
<1> QED BY <1>1, <1>10, ThenGood, ThenUnmoved

(* The gate counts one link more or one less.                              *)
Gated(r, b, n) ==
  Good(r, b) /\ SameEntries(r.present, b.present) /\ r.qt_status = b.qt_status /\ r.running = n

(* quorum_syncrepl_gate moves its own counter only.                        *)
LEMMA GateOp ==
  ASSUME NEW b, QInv(b)
  PROVE  Gated(GateIn(b), b, b.running + 1) /\ Gated(GateOut(b), b, b.running - 1)
<1> DEFINE c == quorum_be_init(b)
<1>1. Begun(c, b)
  BY InitOp
<1>2. /\ GateIn(b) = kick([c EXCEPT !.running = c.running + 1])
      /\ GateOut(b) = kick([c EXCEPT !.running = c.running - 1])
  BY DEF GateIn, GateOut
<1> HIDE DEF c
<1>3. QInv(c) /\ c.init /\ c \in QuorumRecord /\ c.running = b.running
  BY <1>1 DEF Begun, QInv
<1>4. c.running \in Int
  BY <1>3, FieldTypes
<1>5. ASSUME NEW n \in Int PROVE Gated(kick([c EXCEPT !.running = n]), b, n)
  <2> DEFINE w == [c EXCEPT !.running = n]
             r == kick(w)
  <2>1. Fields(w, c.init, c.cache, c.present, c.requirements, c.flags, c.limit, n, c.qt_status, c.qt_left)
    BY <1>3, RunningFields
  <2> HIDE DEF w
  <2>2. /\ w \in QuorumRecord /\ w.init = c.init /\ w.cache = c.cache /\ w.present = c.present
        /\ w.requirements = c.requirements /\ w.flags = c.flags
        /\ w.running = n /\ w.qt_status = c.qt_status
    BY <2>1 DEF Fields
  <2>3. QBase(w)
    BY <1>3, <2>2, BaseOf, SameBase
  <2>4. QInv(r) /\ Kicked(r, w)
    BY <2>3, KickBase
  <2> HIDE DEF r
  <2>5. /\ r.init = c.init /\ r.cache = c.cache /\ r.present = c.present
        /\ r.requirements = c.requirements /\ r.flags = c.flags
        /\ r.running = n /\ r.qt_status = c.qt_status
    BY <2>2, <2>4 DEF Kicked, Fields
  <2>6. Good(r, c) /\ SameEntries(r.present, c.present)
    BY <1>3, <2>4, <2>5, GoodBasis
  <2>7. Good(r, b)
    BY <1>1, <2>6, ThenGood
  <2>8. Gated(r, b, n)
    BY <1>1, <2>5, <2>6, <2>7 DEF Gated, Begun
  <2> QED BY <2>8 DEF r, w
<1>6. c.running + 1 \in Int /\ c.running - 1 \in Int
  BY SMT, <1>4
<1> QED BY <1>2, <1>3, <1>5, <1>6

(* config_quorum: auto-rids and auto-sids.                                 *)
LEMMA AutoFlagOp ==
  ASSUME NEW b, QInv(b), b.init, NEW flag \in FlagSet, NEW reqs \in SUBSET Requirement, OneVote(reqs),
         flag = "AUTO_RIDS" => \A l \in Links : Listed(b.present, l) => HasRid(reqs, Rid[l]),
         \A r \in reqs : r.auto
  PROVE  Good(AutoFlag(b, flag, reqs), b) /\ Unmoved(AutoFlag(b, flag, reqs), b)
<1> DEFINE new == {r \in reqs : Appends(b, r)}
           R == b.requirements \cup new
           F == b.flags \cup {flag}
           u == [b EXCEPT !.flags = F]
           w == [u EXCEPT !.requirements = R]
<1>0. /\ b \in QuorumRecord /\ OneVote(b.requirements) /\ b.requirements \in SUBSET Requirement
      /\ b.flags \in SUBSET FlagSet
  BY FieldTypes DEF QInv
<1>1. CASE flag \in b.flags
  <2>1. AutoFlag(b, flag, reqs) = b
    BY <1>1 DEF AutoFlag
  <2> QED BY <2>1, GoodSame
<1>2. CASE flag \notin b.flags
  <2>1. AutoFlag(b, flag, reqs) = InvalidateIf(new # {}, w)
    BY <1>2 DEF AutoFlag
  <2>2. R \in SUBSET Requirement /\ F \in SUBSET FlagSet
    BY <1>0
  <2>3. \A r \in new : Same(b, r) = {}
    BY DEF Appends
  <2>4. OneVote(R)
    <3> SUFFICES ASSUME NEW r \in R, NEW s \in R, r.id = s.id, r.rid = s.rid PROVE r = s
      BY DEF OneVote
    <3>1. CASE r \in new /\ s \in new
      BY <3>1 DEF OneVote
    <3>2. CASE r \in b.requirements /\ s \in b.requirements
      BY <1>0, <3>2 DEF OneVote
    <3>3. CASE r \in new /\ s \in b.requirements
      BY <2>3, <3>3 DEF Same
    <3>4. CASE r \in b.requirements /\ s \in new
      BY <2>3, <3>4 DEF Same
    <3> QED BY <3>1, <3>2, <3>3, <3>4
  <2>5. \A n : HasRid(b.requirements, n) \/ HasRid(reqs, n) => HasRid(R, n)
    <3> SUFFICES ASSUME NEW n, NEW r \in reqs, r.rid, r.id = n, r \notin new PROVE HasRid(R, n)
      BY DEF HasRid
    <3>1. PICK s \in b.requirements : s.id = r.id /\ s.rid = r.rid
      BY DEF Appends, Same
    <3> QED BY <3>1 DEF HasRid
  <2>6. AutoVotes(b.present, R, F)
    <3>1. CASE flag = "AUTO_RIDS"
      BY <2>5, <3>1 DEF AutoVotes
    <3>2. CASE flag # "AUTO_RIDS"
      BY <2>5, <3>2 DEF AutoVotes, QInv
    <3> QED BY <3>1, <3>2
  <2>7. \A x \in b.requirements : x \in R
    OBVIOUS
  <2>8. F # b.flags
    BY <1>2
  <2>9. (new # {}) \in BOOLEAN
    OBVIOUS
  <2> HIDE DEF R, F, new
  <2>10. Fields(u, b.init, b.cache, b.present, b.requirements, F, b.limit, b.running, b.qt_status,
                b.qt_left)
    BY <1>0, <2>2, FlagFields
  <2> HIDE DEF u
  <2>11. Fields(w, u.init, u.cache, u.present, R, u.flags, u.limit, u.running, u.qt_status, u.qt_left)
    BY <2>2, <2>10, RequirementFields DEF Fields
  <2> HIDE DEF w
  <2>12. /\ w \in QuorumRecord /\ w.init = b.init /\ w.present = b.present /\ w.requirements = R
         /\ w.flags = F /\ w.running = b.running /\ w.qt_status = b.qt_status /\ w.qt_left = b.qt_left
    BY <2>10, <2>11 DEF Fields
  <2>13. Keyed(w.present) /\ OneVote(w.requirements) /\ AutoVotes(w.present, w.requirements, w.flags)
    BY <2>4, <2>6, <2>12 DEF QInv
  <2>14. QInv(w)
    BY <2>12, <2>13, BaseOf DEF QBase, QInv
  <2>15. KeepsVotes(w, b) /\ KeepsVerdict(w, b)
    BY <2>7, <2>8, <2>12 DEF KeepsVotes, KeepsVerdict
  <2>16. Passed(InvalidateIf(new # {}, w), w, b)
    BY <2>9, <2>14, <2>15, InvalidateGood
  <2>17. SameEntries(w.present, b.present)
    BY <1>0, <2>12, <2>13, FieldTypes, SameArray
  <2> QED BY <2>1, <2>12, <2>16, <2>17 DEF Passed, Unmoved
<1> QED BY <1>1, <1>2

(* config_quorum: a flag.                                                  *)
LEMMA ConfigFlagOp ==
  ASSUME NEW b, QInv(b), NEW flag \in FlagSet
  PROVE  Good(ConfigFlag(b, flag), b) /\ Unmoved(ConfigFlag(b, flag), b)
<1> DEFINE c == quorum_be_init(b)
           p == c.present
<1>1. Begun(c, b)
  BY InitOp
<1>2. /\ flag = "AUTO_RIDS" => ConfigFlag(b, flag) = require_auto_rids(c)
      /\ flag = "AUTO_SIDS" => ConfigFlag(b, flag) = require_auto_sids(c)
      /\ flag = "ALL_LINKS" =>
           ConfigFlag(b, flag) = InvalidateIf(flag \notin c.flags, [c EXCEPT !.flags = c.flags \cup {flag}])
  BY DEF ConfigFlag
<1> HIDE DEF c
<1>3. QInv(c) /\ c.init /\ c \in QuorumRecord /\ Keyed(p) /\ p \in Seq(Present)
  BY <1>1, FieldTypes DEF Begun, QInv
<1>4. \A i \in DOMAIN p : p[i].key \in Links /\ p[i].rid = Rid[p[i].key] /\ p[i].sid \in SidSet \cup {-1, 0}
  BY <1>3, PlaceTypes DEF Keyed
<1>5. \A l \in Links : Rid[l] \in Nat
  BY QuorumAssumption
<1>6. CASE flag = "AUTO_RIDS"
  <2> DEFINE reqs == {QR_AUTO_RID(p[i].rid) : i \in DOMAIN p}
  <2>1. \A n \in Nat : /\ QR_AUTO_RID(n) \in Requirement /\ QR_AUTO_RID(n).id = n
                       /\ QR_AUTO_RID(n).rid = TRUE /\ QR_AUTO_RID(n).auto = TRUE
    BY DEF QR_AUTO_RID, Type, Requirement
  <2>2. \A r \in reqs : \E n \in Nat : r = QR_AUTO_RID(n)
    BY <1>4, <1>5
  <2>3. \A l \in Links : Listed(p, l) => HasRid(reqs, Rid[l])
    <3> SUFFICES ASSUME NEW l \in Links, Listed(p, l) PROVE HasRid(reqs, Rid[l])
      OBVIOUS
    <3>1. PICK i \in DOMAIN p : p[i].key = l
      BY DEF Listed
    <3> DEFINE r == QR_AUTO_RID(p[i].rid)
    <3>2. r \in reqs /\ p[i].rid = Rid[l] /\ Rid[l] \in Nat
      BY <1>4, <1>5, <3>1
    <3>3. r.rid /\ r.id = Rid[l]
      BY <2>1, <3>2
    <3> QED BY <3>2, <3>3 DEF HasRid
  <2>4. ConfigFlag(b, flag) = AutoFlag(c, flag, reqs)
    BY <1>2, <1>6 DEF require_auto_rids
  <2> HIDE DEF reqs
  <2>5. reqs \in SUBSET Requirement /\ OneVote(reqs) /\ \A r \in reqs : r.auto
    <3>1. \A r \in reqs : r \in Requirement /\ r.auto
      BY <2>1, <2>2
    <3>2. ASSUME NEW r \in reqs, NEW s \in reqs, r.id = s.id PROVE r = s
      <4>1. PICK m \in Nat, n \in Nat : r = QR_AUTO_RID(m) /\ s = QR_AUTO_RID(n)
        BY <2>2
      <4>2. m = n
        BY <2>1, <3>2, <4>1
      <4> QED BY <4>1, <4>2
    <3> QED BY <3>1, <3>2 DEF OneVote
  <2>6. Good(AutoFlag(c, flag, reqs), c) /\ Unmoved(AutoFlag(c, flag, reqs), c)
    BY <1>3, <2>3, <2>5, AutoFlagOp
  <2> QED BY <1>1, <2>4, <2>6, ThenGood, ThenUnmoved
<1>7. CASE flag = "AUTO_SIDS"
  <2> DEFINE I == {j \in DOMAIN p : p[j].sid > -1}
             reqs == {QR_AUTO_SID(p[i].sid) : i \in I}
  <2>1. \A n \in Nat : /\ QR_AUTO_SID(n) \in Requirement /\ QR_AUTO_SID(n).id = n
                       /\ QR_AUTO_SID(n).rid = FALSE /\ QR_AUTO_SID(n).auto = TRUE
    BY DEF QR_AUTO_SID, Type, Requirement
  <2>2. \A n \in SidSet \cup {-1, 0} : n > -1 => n \in Nat
    BY SMT, QuorumAssumption
  <2>3. \A r \in reqs : \E n \in Nat : r = QR_AUTO_SID(n)
    BY <1>4, <2>2
  <2>4. ConfigFlag(b, flag) = AutoFlag(c, flag, reqs)
    BY <1>2, <1>7 DEF require_auto_sids
  <2> HIDE DEF reqs
  <2>5. reqs \in SUBSET Requirement /\ OneVote(reqs) /\ \A r \in reqs : r.auto
    <3>1. \A r \in reqs : r \in Requirement /\ r.auto
      BY <2>1, <2>3
    <3>2. ASSUME NEW r \in reqs, NEW s \in reqs, r.id = s.id PROVE r = s
      <4>1. PICK m \in Nat, n \in Nat : r = QR_AUTO_SID(m) /\ s = QR_AUTO_SID(n)
        BY <2>3
      <4>2. m = n
        BY <2>1, <3>2, <4>1
      <4> QED BY <4>1, <4>2
    <3> QED BY <3>1, <3>2 DEF OneVote
  <2>6. flag # "AUTO_RIDS"
    BY <1>7
  <2>7. Good(AutoFlag(c, flag, reqs), c) /\ Unmoved(AutoFlag(c, flag, reqs), c)
    BY <1>3, <2>5, <2>6, AutoFlagOp
  <2> QED BY <1>1, <2>4, <2>7, ThenGood, ThenUnmoved
<1>8. CASE flag = "ALL_LINKS"
  <2> DEFINE F == c.flags \cup {flag}
             w == [c EXCEPT !.flags = F]
             v == InvalidateIf(flag \notin c.flags, w)
  <2>1. F \in SUBSET FlagSet
    BY <1>3, FieldTypes
  <2>2. "AUTO_RIDS" \in F => "AUTO_RIDS" \in c.flags
    BY <1>8
  <2>3. flag \in c.flags => F = c.flags
    OBVIOUS
  <2>4. flag \notin c.flags => F # c.flags
    OBVIOUS
  <2> HIDE DEF F
  <2>5. Fields(w, c.init, c.cache, c.present, c.requirements, F, c.limit, c.running, c.qt_status,
               c.qt_left)
    BY <1>3, <2>1, FlagFields
  <2> HIDE DEF w
  <2>6. /\ w \in QuorumRecord /\ w.init = c.init /\ w.cache = c.cache /\ w.present = c.present
        /\ w.requirements = c.requirements /\ w.flags = F
        /\ w.running = c.running /\ w.qt_status = c.qt_status /\ w.qt_left = c.qt_left
    BY <2>5 DEF Fields
  <2>7. AutoVotes(w.present, w.requirements, w.flags)
    BY <1>3, <2>2, <2>6 DEF AutoVotes, QInv
  <2>8. QInv(w)
    BY <1>3, <2>6, <2>7, BaseOf DEF QBase, QInv
  <2>9. KeepsVotes(w, c)
    BY <2>6 DEF KeepsVotes
  <2>10. ASSUME ~(flag \notin c.flags) PROVE KeepsVerdict(w, c)
    BY <1>3, <2>3, <2>6, <2>8, <2>10, GoodBasis DEF Good
  <2>11. (flag \notin c.flags) \in BOOLEAN
    OBVIOUS
  <2>12. Passed(v, w, c)
    BY <2>8, <2>9, <2>10, <2>11, InvalidateGood
  <2>13. SameEntries(w.present, c.present)
    BY <1>3, <2>6, SameArray
  <2>14. ConfigFlag(b, flag) = v
    BY <1>2, <1>8 DEF v, w, F
  <2> HIDE DEF v
  <2>15. Good(v, c) /\ Unmoved(v, c)
    BY <2>6, <2>12, <2>13 DEF Passed, Unmoved
  <2> QED BY <1>1, <2>14, <2>15, ThenGood, ThenUnmoved
<1> QED BY <1>6, <1>7, <1>8 DEF FlagSet

(* A link enters the quorum.                                               *)
Enters(w, b, l) ==
  /\ Good(w, b) /\ Enrolled(w.present, b.present, l)
  /\ w.qt_status = Inc(b.qt_status, DIRTY) /\ w.running = b.running

(* One more or one less is a counter.                                      *)
LEMMA CountTypes ==
  ASSUME NEW c \in [Status -> Int], NEW s \in Status
  PROVE  /\ Inc(c, s) \in [Status -> Int] /\ Dec(c, s) \in [Status -> Int]
         /\ Inc(c, s)[s] = c[s] + 1 /\ Dec(c, s)[s] = c[s] - 1
         /\ \A u \in Status : u # s => Inc(c, s)[u] = c[u] /\ Dec(c, s)[u] = c[u]
BY SMT DEF Inc, Dec

(* quorum_add_rid registers a link that is not registered.                 *)
LEMMA EnterOp ==
  ASSUME NEW b, QInv(b), NEW l \in Links, ~Listed(b.present, l)
  PROVE  Enters(quorum_add_rid(b, l), b, l)
<1> DEFINE c == quorum_be_init(b)
           e == [key |-> l, rid |-> Rid[l], sid |-> -1, status |-> DIRTY]
           p == Append(c.present, e)
           n == Inc(c.qt_status, DIRTY)
           x == [c EXCEPT !.present = p]
           y == [x EXCEPT !.qt_status = n]
           k == kick(y)
           r == QR_AUTO_RID(Rid[l])
           auto == "AUTO_RIDS" \in c.flags
           w == IF auto THEN require_append(k, r) ELSE k
           v == InvalidateIf(auto /\ Appends(k, r), w)
<1>1. Begun(c, b)
  BY InitOp
<1>2. QInv(c) /\ c.init /\ c \in QuorumRecord /\ c.present = b.present
      /\ c.qt_status = b.qt_status /\ c.running = b.running
  BY <1>1 DEF Begun, QInv
<1>3. /\ c.present \in Seq(Present) /\ Keyed(c.present) /\ ~Listed(c.present, l)
      /\ c.qt_status \in [Status -> Int]
  BY <1>2, FieldTypes DEF QInv
<1>4. IndexOf(c, l) = {}
  BY <1>2, <1>3, Place
<1>5. quorum_add_rid(b, l) = v
  <2>1. [c EXCEPT !.present = Append(@, e), !.qt_status = Inc(@, DIRTY)] = y
    BY SMT, <1>2 DEF QuorumRecord
  <2> HIDE DEF y, v
  <2> QED BY <1>4, <2>1 DEF quorum_add_rid, v
<1>6. Enrolled(p, c.present, l)
  BY <1>3, EnrollArray
<1>7. DIRTY \in Status
  BY SMT DEF DIRTY, Status, PROCESS
<1>8. n \in [Status -> Int]
  BY <1>3, <1>7, CountTypes
<1>9. r \in Requirement /\ r.id = Rid[l] /\ r.rid
  <2>1. Rid[l] \in Nat
    BY QuorumAssumption
  <2> QED BY <2>1 DEF QR_AUTO_RID, Type, Requirement
<1> HIDE DEF c, p, n, r
<1>10. Fields(x, c.init, c.cache, p, c.requirements, c.flags, c.limit, c.running, c.qt_status, c.qt_left)
  BY <1>2, <1>6, PresentFields DEF Enrolled
<1> HIDE DEF x
<1>11. Fields(y, x.init, x.cache, x.present, x.requirements, x.flags, x.limit, x.running, n, x.qt_left)
  BY <1>8, <1>10, CountFields DEF Fields
<1> HIDE DEF y
<1>12. y \in QuorumRecord
  BY <1>11 DEF Fields
<1>13. Fields(k, y.init, y.cache, y.present, y.requirements, y.flags, y.limit, y.running,
              y.qt_status, Backlog(y.qt_status))
  BY <1>12, KickFields
<1> HIDE DEF k
<1>14. /\ k \in QuorumRecord /\ k.init /\ k.present = p /\ k.requirements = c.requirements
       /\ k.flags = c.flags /\ k.running = c.running /\ k.qt_status = n /\ k.qt_left = Backlog(n)
  BY <1>2, <1>10, <1>11, <1>13 DEF Fields
<1>15. OneVote(k.requirements)
  BY <1>2, <1>14 DEF QInv
<1>16. /\ w \in QuorumRecord /\ w.init /\ w.present = p /\ w.flags = c.flags
       /\ w.running = c.running /\ w.qt_status = n /\ w.qt_left = Backlog(n)
       /\ OneVote(w.requirements) /\ (\A z \in c.requirements : ~z.auto => z \in w.requirements)
       /\ \A m : HasRid(c.requirements, m) => HasRid(w.requirements, m)
       /\ auto => HasRid(w.requirements, Rid[l])
  <2>1. CASE auto
    <3> DEFINE a == require_append(k, r)
    <3>1. w = a
      BY <2>1
    <3>2. /\ Added(a.requirements, k.requirements, r)
          /\ Fields(a, k.init, k.cache, k.present, a.requirements, k.flags, k.limit, k.running,
                    k.qt_status, k.qt_left)
      BY <1>9, <1>14, <1>15, AppendRequirement
    <3> HIDE DEF a, w
    <3> QED BY <1>9, <1>14, <3>1, <3>2 DEF Added, Fields
  <2>2. CASE ~auto
    <3>1. w = k
      BY <2>2
    <3> HIDE DEF w
    <3> QED BY <1>14, <1>15, <2>2, <3>1
  <2> QED BY <2>1, <2>2
<1> HIDE DEF w
<1>17. \A z \in Links : Listed(p, z) => z = l \/ Listed(c.present, z)
  <2> SUFFICES ASSUME NEW z \in Links, Listed(p, z) PROVE z = l \/ Listed(c.present, z)
    OBVIOUS
  <2>1. PICK s \in Status : Entry(p, z, s)
    BY <1>6, EntryFacts DEF Enrolled
  <2> QED BY <1>6, <2>1 DEF Enrolled, Entry, Listed
<1>18. AutoVotes(w.present, w.requirements, w.flags)
  BY <1>2, <1>16, <1>17 DEF AutoVotes, QInv
<1>19. Keyed(w.present)
  BY <1>6, <1>16 DEF Enrolled
<1>20. QInv(w)
  BY <1>16, <1>18, <1>19, BaseOf DEF QBase
<1>21. KeepsVotes(w, c)
  BY <1>16 DEF KeepsVotes
<1>22. Listed(w.present, l)
  <2>1. Entry(p, l, DIRTY)
    BY <1>6, Statuses DEF Enrolled
  <2> QED BY <1>16, <2>1 DEF Entry, Listed
<1>23. KeepsVerdict(w, c)
  BY <1>3, <1>22 DEF KeepsVerdict
<1>24. (auto /\ Appends(k, r)) \in BOOLEAN
  OBVIOUS
<1>25. Passed(v, w, c)
  BY <1>20, <1>21, <1>23, <1>24, InvalidateGood
<1> HIDE DEF v
<1>26. Good(v, b)
  BY <1>1, <1>25, ThenGood DEF Passed
<1>27. Enrolled(v.present, b.present, l) /\ v.qt_status = Inc(b.qt_status, DIRTY) /\ v.running = b.running
  BY <1>2, <1>6, <1>16, <1>25 DEF Passed, n
<1> QED BY <1>5, <1>26, <1>27 DEF Enters

(* The requirements after the automatic ones of link l may have gone.      *)
VotesButOf(R2, R, l) ==
  /\ R2 \in SUBSET Requirement /\ OneVote(R2)
  /\ \A x \in R : ~x.auto => x \in R2
  /\ \A n : n # Rid[l] /\ HasRid(R, n) => HasRid(R2, n)

(* The record w differs from b in its requirements only.                   *)
OnlyVotes(w, b) ==
  Fields(w, b.init, b.cache, b.present, w.requirements, b.flags, b.limit, b.running,
         b.qt_status, b.qt_left)

(* A link leaves the quorum.                                               *)
Leaves(w, b, l, s) ==
  /\ Good(w, b) /\ Struck(w.present, b.present, l) /\ w.cache = 0
  /\ w.qt_status = Dec(b.qt_status, s) /\ w.running = b.running

(* A record with a link has a quorum.                                      *)
LEMMA ListedInit ==
  ASSUME NEW b, QInv(b), NEW i \in DOMAIN b.present
  PROVE  b.init
<1>1. SUFFICES ASSUME ~b.init PROVE FALSE
  OBVIOUS
<1>2. b.present = <<>>
  BY <1>1 DEF QInv, Absent
<1>3. DOMAIN b.present = {}
  BY SMT, <1>2
<1> QED BY <1>3

(* quorum_remove_rid takes the link and its automatic requirements out.    *)
LEMMA LeaveOp ==
  ASSUME NEW b, QInv(b), NEW l \in Links, NEW s \in Status, Entry(b.present, l, s)
  PROVE  Leaves(quorum_remove_rid(b, l), b, l, s)
<1>0. /\ b \in QuorumRecord /\ Keyed(b.present) /\ OneVote(b.requirements)
      /\ b.present \in Seq(Present) /\ b.requirements \in SUBSET Requirement
      /\ b.qt_status \in [Status -> Int]
  BY FieldTypes DEF QInv
<1>1. PICK i \in DOMAIN b.present : b.present[i].key = l /\ b.present[i].status = s
  BY DEF Entry
<1>2. IndexOf(b, l) = {i} /\ Min(IndexOf(b, l)) = i /\ b.init
  BY <1>0, <1>1, Place, ListedInit
<1> DEFINE sid == b.present[i].sid
           a == IF sid > -1 /\ "AUTO_SIDS" \in b.flags THEN require_remove(b, FALSE, sid) ELSE b
           c == IF "AUTO_RIDS" \in b.flags THEN require_remove(a, TRUE, b.present[i].rid) ELSE a
           n == Dec(c.qt_status, s)
           x == [c EXCEPT !.qt_status = n]
           k == kick(x)
           p == RemoveAt(k.present, i)
           w == [k EXCEPT !.present = p]
           v == quorum_invalidate(w)
<1>3. quorum_remove_rid(b, l) = v
  BY <1>1, <1>2 DEF quorum_remove_rid
<1>4. b.present[i].rid = Rid[l]
  BY <1>0, <1>1 DEF Keyed
<1>5. VotesButOf(b.requirements, b.requirements, l) /\ OnlyVotes(b, b)
  BY <1>0 DEF VotesButOf, OnlyVotes, Fields
<1>6. VotesButOf(a.requirements, b.requirements, l) /\ OnlyVotes(a, b)
  <2>1. CASE sid > -1 /\ "AUTO_SIDS" \in b.flags
    <3> DEFINE t == require_remove(b, FALSE, sid)
    <3>1. a = t
      BY <2>1
    <3>2. Taken(t.requirements, b.requirements, FALSE, sid) /\ OnlyVotes(t, b)
      BY <1>0, TakeRequirement DEF OnlyVotes
    <3> HIDE DEF t, a
    <3>3. VotesButOf(t.requirements, b.requirements, l)
      BY <3>2 DEF Taken, VotesButOf
    <3> QED BY <3>1, <3>2, <3>3
  <2>2. CASE ~(sid > -1 /\ "AUTO_SIDS" \in b.flags)
    <3>1. a = b
      BY <2>2
    <3> HIDE DEF a
    <3> QED BY <1>5, <3>1
  <2> QED BY <2>1, <2>2
<1> HIDE DEF a
<1>7. VotesButOf(c.requirements, b.requirements, l) /\ OnlyVotes(c, b)
  <2>1. CASE "AUTO_RIDS" \in b.flags
    <3> DEFINE t == require_remove(a, TRUE, Rid[l])
    <3>1. c = t
      BY <1>4, <2>1
    <3>2. a \in QuorumRecord /\ OneVote(a.requirements)
      BY <1>6 DEF VotesButOf, OnlyVotes, Fields
    <3>3. Taken(t.requirements, a.requirements, TRUE, Rid[l]) /\ OnlyVotes(t, a)
      BY <3>2, TakeRequirement DEF OnlyVotes
    <3> HIDE DEF t, c
    <3>4. VotesButOf(t.requirements, b.requirements, l)
      BY <1>6, <3>3 DEF Taken, VotesButOf
    <3>5. OnlyVotes(t, b)
      BY <1>6, <3>3 DEF OnlyVotes, Fields
    <3> QED BY <3>1, <3>4, <3>5
  <2>2. CASE ~("AUTO_RIDS" \in b.flags)
    <3>1. c = a
      BY <2>2
    <3> HIDE DEF c
    <3> QED BY <1>6, <3>1
  <2> QED BY <2>1, <2>2
<1> HIDE DEF c
<1>8. c \in QuorumRecord /\ c.qt_status = b.qt_status /\ c.present = b.present
  BY <1>7 DEF OnlyVotes, Fields
<1>9. n \in [Status -> Int] /\ n = Dec(b.qt_status, s)
  BY <1>0, <1>8, CountTypes
<1> HIDE DEF n
<1>10. Fields(x, c.init, c.cache, c.present, c.requirements, c.flags, c.limit, c.running, n, c.qt_left)
  BY <1>8, <1>9, CountFields
<1> HIDE DEF x
<1>11. x \in QuorumRecord
  BY <1>10 DEF Fields
<1>12. Fields(k, x.init, x.cache, x.present, x.requirements, x.flags, x.limit, x.running,
              x.qt_status, Backlog(x.qt_status))
  BY <1>11, KickFields
<1> HIDE DEF k
<1>13. k \in QuorumRecord /\ k.present = b.present
  BY <1>8, <1>10, <1>12 DEF Fields
<1>14. Struck(p, b.present, l)
  BY <1>0, <1>1, <1>13, StrikeArray
<1> HIDE DEF p
<1>15. p \in Seq(Present) /\ Keyed(p)
  BY <1>14 DEF Struck
<1>16. Fields(w, k.init, k.cache, p, k.requirements, k.flags, k.limit, k.running, k.qt_status, k.qt_left)
  BY <1>13, <1>15, PresentFields
<1> HIDE DEF w
<1>17. /\ w \in QuorumRecord /\ w.init /\ w.present = p /\ w.requirements = c.requirements
       /\ w.flags = b.flags /\ w.running = b.running /\ w.qt_status = n /\ w.qt_left = Backlog(n)
  BY <1>2, <1>7, <1>10, <1>12, <1>16 DEF OnlyVotes, Fields
<1>18. \A z \in Links : Listed(p, z) => z # l /\ Listed(b.present, z)
  <2> SUFFICES ASSUME NEW z \in Links, Listed(p, z) PROVE z # l /\ Listed(b.present, z)
    OBVIOUS
  <2>1. PICK u \in Status : Entry(p, z, u)
    BY <1>15, EntryFacts
  <2>2. Entry(b.present, z, u) /\ z # l
    BY <1>14, <2>1 DEF Struck
  <2> QED BY <2>2 DEF Entry, Listed
<1>19. \A z \in Links : z # l => Rid[z] # Rid[l]
  BY QuorumAssumption
<1>20. AutoVotes(p, c.requirements, b.flags)
  BY <1>7, <1>18, <1>19 DEF AutoVotes, QInv, VotesButOf
<1>21. OneVote(c.requirements) /\ \A z \in b.requirements : ~z.auto => z \in c.requirements
  BY <1>7 DEF VotesButOf
<1>22. QInv(w)
  BY <1>15, <1>17, <1>20, <1>21, BaseOf DEF QBase
<1>23. QInv(v) /\ Invalidated(v, w)
  BY <1>22, InvalidateInv
<1> HIDE DEF v
<1>24. /\ v.cache = 0 /\ v.init /\ v.present = p /\ v.requirements = c.requirements
       /\ v.qt_status = n /\ v.running = b.running
  BY <1>17, <1>23 DEF Invalidated, Fields
<1>25. Good(v, b)
  BY <1>21, <1>23, <1>24 DEF Good, KeepsVotes, KeepsVerdict
<1> QED BY <1>3, <1>9, <1>14, <1>24, <1>25 DEF Leaves

(* quorum_notify_sid: the link keeps its place, its status and its vote.   *)
LEMMA SidOp ==
  ASSUME NEW b, QInv(b), NEW l \in Links, NEW sid \in SidSet
  PROVE  Good(quorum_notify_sid(b, l, sid), b) /\ Unmoved(quorum_notify_sid(b, l, sid), b)
<1>0. /\ b \in QuorumRecord /\ Keyed(b.present) /\ OneVote(b.requirements)
      /\ b.present \in Seq(Present) /\ b.requirements \in SUBSET Requirement
  BY FieldTypes DEF QInv
<1>1. CASE \A i \in IndexOf(b, l) : b.present[i].sid = sid
  <2>1. quorum_notify_sid(b, l, sid) = b
    BY <1>1 DEF quorum_notify_sid
  <2> QED BY <2>1, GoodSame
<1>2. CASE ~(\A i \in IndexOf(b, l) : b.present[i].sid = sid)
  <2>1. PICK i \in DOMAIN b.present : b.present[i].key = l
    BY <1>2 DEF IndexOf
  <2>2. IndexOf(b, l) = {i} /\ Min(IndexOf(b, l)) = i /\ b.init
    BY <1>0, <2>1, Place, ListedInit
  <2> DEFINE old == b.present[i].sid
             r == QR_AUTO_SID(sid)
             a == IF old > -1 THEN require_remove(b, FALSE, old) ELSE b
             c == IF sid > -1 THEN require_append(a, r) ELSE a
             d == IF "AUTO_SIDS" \in b.flags THEN c ELSE b
             p == WithSid(d.present, i, sid)
             w == [d EXCEPT !.present = p]
             v == quorum_invalidate(w)
  <2>3. quorum_notify_sid(b, l, sid) = v
    BY <1>2, <2>2 DEF quorum_notify_sid
  <2>4. r \in Requirement
    <3>1. sid \in Nat
      BY QuorumAssumption
    <3> QED BY <3>1 DEF QR_AUTO_SID, Type, Requirement
  <2> HIDE DEF r
  <2> DEFINE Votes(R2, R) == /\ R2 \in SUBSET Requirement /\ OneVote(R2)
                             /\ \A x \in R : ~x.auto => x \in R2
                             /\ \A n : HasRid(R, n) => HasRid(R2, n)
  <2>5. Votes(b.requirements, b.requirements) /\ OnlyVotes(b, b)
    BY <1>0 DEF OnlyVotes, Fields
  <2>6. Votes(a.requirements, b.requirements) /\ OnlyVotes(a, b)
    <3>1. CASE old > -1
      <4> DEFINE t == require_remove(b, FALSE, old)
      <4>1. a = t
        BY <3>1
      <4>2. Taken(t.requirements, b.requirements, FALSE, old) /\ OnlyVotes(t, b)
        BY <1>0, TakeRequirement DEF OnlyVotes
      <4> HIDE DEF t, a
      <4>3. Votes(t.requirements, b.requirements)
        BY <4>2 DEF Taken
      <4> QED BY <4>1, <4>2, <4>3
    <3>2. CASE ~(old > -1)
      <4>1. a = b
        BY <3>2
      <4> HIDE DEF a
      <4> QED BY <2>5, <4>1
    <3> QED BY <3>1, <3>2
  <2> HIDE DEF a
  <2>7. Votes(c.requirements, b.requirements) /\ OnlyVotes(c, b)
    <3>1. CASE sid > -1
      <4> DEFINE t == require_append(a, r)
      <4>1. c = t
        BY <3>1
      <4>2. a \in QuorumRecord /\ OneVote(a.requirements)
        BY <2>6 DEF OnlyVotes, Fields
      <4>3. Added(t.requirements, a.requirements, r) /\ OnlyVotes(t, a)
        BY <2>4, <4>2, AppendRequirement DEF OnlyVotes
      <4> HIDE DEF t, c
      <4>4. Votes(t.requirements, b.requirements)
        BY <2>6, <4>3 DEF Added
      <4>5. OnlyVotes(t, b)
        BY <2>6, <4>3 DEF OnlyVotes, Fields
      <4> QED BY <4>1, <4>4, <4>5
    <3>2. CASE ~(sid > -1)
      <4>1. c = a
        BY <3>2
      <4> HIDE DEF c
      <4> QED BY <2>6, <4>1
    <3> QED BY <3>1, <3>2
  <2> HIDE DEF c
  <2>8. Votes(d.requirements, b.requirements) /\ OnlyVotes(d, b)
    BY <2>5, <2>7
  <2> HIDE DEF d
  <2>9. d \in QuorumRecord /\ d.present = b.present
    BY <2>8 DEF OnlyVotes, Fields
  <2>10. NewSid(p, b.present, i, sid)
    <3>1. sid \in SidSet \cup {-1, 0}
      OBVIOUS
    <3> QED BY <1>0, <2>9, <3>1, SidPlaces
  <2> HIDE DEF p
  <2>11. SameEntries(p, b.present)
    BY <1>0, <2>10, ResidArray
  <2>12. p \in Seq(Present) /\ Keyed(p)
    BY <2>11 DEF SameEntries
  <2>13. Fields(w, d.init, d.cache, p, d.requirements, d.flags, d.limit, d.running, d.qt_status,
                d.qt_left)
    BY <2>9, <2>12, PresentFields
  <2> HIDE DEF w
  <2>14. /\ w \in QuorumRecord /\ w.init /\ w.present = p /\ w.requirements = d.requirements
         /\ w.flags = b.flags /\ w.running = b.running /\ w.qt_status = b.qt_status
         /\ w.qt_left = b.qt_left
    BY <2>2, <2>8, <2>13 DEF OnlyVotes, Fields
  <2>15. \A z \in Links : Listed(p, z) => Listed(b.present, z)
    <3> SUFFICES ASSUME NEW z \in Links, Listed(p, z) PROVE Listed(b.present, z)
      OBVIOUS
    <3>1. PICK u \in Status : Entry(p, z, u)
      BY <2>12, EntryFacts
    <3> QED BY <2>11, <3>1 DEF SameEntries, Entry, Listed
  <2>16. AutoVotes(p, d.requirements, b.flags)
    BY <2>8, <2>15 DEF AutoVotes, QInv
  <2>17. w.qt_left \in {-1, Backlog(w.qt_status)}
    BY <2>14 DEF QInv
  <2>18. QInv(w)
    BY <2>8, <2>12, <2>14, <2>16, <2>17, BaseOf DEF QBase
  <2>19. QInv(v) /\ Invalidated(v, w)
    BY <2>18, InvalidateInv
  <2> HIDE DEF v
  <2>20. /\ v.cache = 0 /\ v.init /\ v.present = p /\ v.requirements = d.requirements
         /\ v.qt_status = b.qt_status /\ v.running = b.running
    BY <2>14, <2>19 DEF Invalidated, Fields
  <2>21. Good(v, b)
    BY <2>8, <2>19, <2>20 DEF Good, KeepsVotes, KeepsVerdict
  <2> QED BY <2>3, <2>11, <2>20, <2>21 DEF Unmoved
<1> QED BY <1>1, <1>2

(* A link that is in the quorum changes its status.                        *)
Restates(w, b, l, old, new) ==
  /\ Good(w, b) /\ Restated(w.present, b.present, l, new)
  /\ w.qt_status = Inc(Dec(b.qt_status, old), new) /\ w.running = b.running

(* quorum_notify_status moves the link from one counter to the other; the  *)
(* verdict stays only where the link does not cross READY.                 *)
LEMMA StatusOp ==
  ASSUME NEW b, QInv(b), NEW l \in Links, NEW old \in Status, NEW new \in Status, old # new,
         Entry(b.present, l, old)
  PROVE  Restates(quorum_notify_status(b, l, new), b, l, old, new)
<1>0. /\ b \in QuorumRecord /\ Keyed(b.present) /\ b.present \in Seq(Present)
      /\ b.qt_status \in [Status -> Int]
  BY FieldTypes DEF QInv
<1>1. PICK i \in DOMAIN b.present : b.present[i].key = l /\ b.present[i].status = old
  BY DEF Entry
<1>2. IndexOf(b, l) = {i} /\ Min(IndexOf(b, l)) = i /\ b.init
  BY <1>0, <1>1, Place, ListedInit
<1> DEFINE p == WithStatus(b.present, i, new)
           n == Inc(Dec(b.qt_status, old), new)
           x == [b EXCEPT !.qt_status = n]
           y == [x EXCEPT !.present = p]
           w == kick(y)
           cond == (old < READY) # (new < READY)
           v == InvalidateIf(cond, w)
<1>3. quorum_notify_status(b, l, new) = v
  <2>1. [b EXCEPT !.qt_status = Inc(Dec(@, old), new), !.present = WithStatus(@, i, new)] = y
    BY SMT, <1>0 DEF QuorumRecord
  <2>2. ~(\A j \in IndexOf(b, l) : b.present[j].status = new)
    BY <1>1, <1>2
  <2> HIDE DEF y
  <2> QED BY <1>1, <1>2, <2>1, <2>2 DEF quorum_notify_status
<1>4. NewStatus(p, b.present, i, new)
  BY <1>0, StatusPlaces
<1> HIDE DEF p
<1>5. Restated(p, b.present, l, new)
  BY <1>0, <1>1, <1>4, RestateArray
<1>6. n \in [Status -> Int]
  BY <1>0, CountTypes
<1> HIDE DEF n
<1>7. Fields(x, b.init, b.cache, b.present, b.requirements, b.flags, b.limit, b.running, n, b.qt_left)
  BY <1>0, <1>6, CountFields
<1> HIDE DEF x
<1>8. Fields(y, x.init, x.cache, p, x.requirements, x.flags, x.limit, x.running, x.qt_status, x.qt_left)
  BY <1>5, <1>7, PresentFields DEF Fields, Restated
<1> HIDE DEF y
<1>9. y \in QuorumRecord
  BY <1>8 DEF Fields
<1>10. Fields(w, y.init, y.cache, y.present, y.requirements, y.flags, y.limit, y.running,
              y.qt_status, Backlog(y.qt_status))
  BY <1>9, KickFields
<1> HIDE DEF w
<1>11. /\ w \in QuorumRecord /\ w.init /\ w.cache = b.cache /\ w.present = p
       /\ w.requirements = b.requirements /\ w.flags = b.flags /\ w.running = b.running
       /\ w.qt_status = n /\ w.qt_left = Backlog(n)
  BY <1>2, <1>7, <1>8, <1>10 DEF Fields
<1>12. \A z \in Links : Listed(p, z) => Listed(b.present, z)
  <2>1. DOMAIN p = DOMAIN b.present /\ \A j \in DOMAIN b.present : p[j].key = b.present[j].key
    BY <1>4 DEF NewStatus
  <2> QED BY <2>1 DEF Listed
<1>13. AutoVotes(w.present, w.requirements, w.flags)
  BY <1>11, <1>12 DEF AutoVotes, QInv
<1>14. QInv(w)
  BY <1>5, <1>11, <1>13, BaseOf DEF QBase, QInv, Restated
<1>15. KeepsVotes(w, b)
  BY <1>11 DEF KeepsVotes
<1>16. ASSUME ~cond PROVE KeepsVerdict(w, b)
  <2>1. old < READY <=> new < READY
    BY <1>16
  <2>2. b.present[i].status >= READY <=> new >= READY
    BY SMT, <1>1, <2>1 DEF Status, DIRTY, PROCESS, READY
  <2>3. NewStatus(w.present, b.present, i, new)
    BY <1>4, <1>11
  <2>4. SameBasis(w, b)
    BY <1>11, <2>2, <2>3, StatusBasis
  <2>5. SameVerdict(w, b)
    BY <1>11, <2>4, BasisDecides DEF SameVerdict
  <2> QED BY <2>5 DEF KeepsVerdict
<1>17. cond \in BOOLEAN
  OBVIOUS
<1> HIDE DEF cond
<1>18. Passed(v, w, b)
  BY <1>14, <1>15, <1>16, <1>17, InvalidateGood
<1> HIDE DEF v
<1>19. Restated(v.present, b.present, l, new) /\ v.qt_status = n /\ v.running = b.running
  BY <1>5, <1>11, <1>18 DEF Passed
<1> QED BY <1>3, <1>18, <1>19 DEF Restates, Passed, n

(* The line of the quorum is deleted: nothing is required.                 *)
Cleared(r, b) ==
  /\ QInv(r) /\ Unmoved(r, b) /\ r.init = b.init
  /\ r = b \/ (r.requirements = {} /\ r.flags = {})
  /\ b.requirements # {} => r.cache = 1
  /\ b.requirements = {} => r.cache = b.cache

(* config_quorum deletes the line.                                         *)
LEMMA DeleteOp ==
  ASSUME NEW b, QInv(b)
  PROVE  Cleared(ConfigDelete(b), b)
<1> DEFINE r == ConfigDelete(b)
<1>0. b \in QuorumRecord /\ b.init \in BOOLEAN /\ b.cache \in {-1, 0, 1}
  BY FieldTypes DEF QInv
<1>1. CASE ~b.init
  <2>1. r = b
    BY <1>1 DEF ConfigDelete
  <2>2. b.requirements = {}
    BY <1>1 DEF QInv, Absent
  <2> QED BY <2>1, <2>2, GoodSame DEF Cleared
<1>2. CASE b.init
  <2> DEFINE c == IF b.requirements # {} THEN 1 ELSE b.cache
             x == [b EXCEPT !.flags = {}]
             y == [x EXCEPT !.requirements = {}]
             z == [y EXCEPT !.limit = 0]
             w == [z EXCEPT !.cache = c]
  <2>1. r = w
    BY SMT, <1>0, <1>2 DEF ConfigDelete, QuorumRecord
  <2>2. c \in {-1, 0, 1} /\ (b.requirements # {} => c = 1) /\ (b.requirements = {} => c = b.cache)
    BY SMT, <1>0
  <2> HIDE DEF c
  <2>3. Fields(x, b.init, b.cache, b.present, b.requirements, {}, b.limit, b.running, b.qt_status,
               b.qt_left)
    <3>1. {} \in SUBSET FlagSet
      OBVIOUS
    <3> QED BY <1>0, <3>1, FlagFields
  <2> HIDE DEF x
  <2>4. Fields(y, x.init, x.cache, x.present, {}, x.flags, x.limit, x.running, x.qt_status, x.qt_left)
    <3>1. {} \in SUBSET Requirement
      OBVIOUS
    <3> QED BY <2>3, <3>1, RequirementFields DEF Fields
  <2> HIDE DEF y
  <2>5. Fields(z, y.init, y.cache, y.present, y.requirements, y.flags, 0, y.running, y.qt_status,
               y.qt_left)
    <3>1. 0 \in 0..15
      BY SMT
    <3> QED BY <2>4, <3>1, LimitFields DEF Fields
  <2> HIDE DEF z
  <2>6. Fields(w, z.init, c, z.present, z.requirements, z.flags, z.limit, z.running, z.qt_status,
               z.qt_left)
    BY <2>2, <2>5, CacheFields DEF Fields
  <2> HIDE DEF w
  <2>7. /\ w \in QuorumRecord /\ w.init = b.init /\ w.cache = c /\ w.present = b.present
        /\ w.requirements = {} /\ w.flags = {} /\ w.running = b.running
        /\ w.qt_status = b.qt_status /\ w.qt_left = b.qt_left
    BY <2>3, <2>4, <2>5, <2>6 DEF Fields
  <2>8. OneVote(w.requirements) /\ AutoVotes(w.present, w.requirements, w.flags)
    BY <2>7 DEF OneVote, AutoVotes
  <2>9. QInv(w)
    BY <1>2, <2>7, <2>8, BaseOf DEF QBase, QInv
  <2>10. SameEntries(w.present, b.present)
    BY <2>7, FieldTypes, SameArray DEF QInv
  <2>11. Cleared(w, b)
    BY <2>2, <2>7, <2>9, <2>10 DEF Cleared, Unmoved
  <2> HIDE DEF r
  <2>12. Cleared(r, b)
    BY <2>1, <2>11
  <2> QED BY <2>12 DEF r
<1> QED BY <1>0, <1>1, <1>2

(* Without requirements and flags a database has its quorum.               *)
LEMMA NothingRequired ==
  ASSUME NEW r, r.requirements = {}, r.flags = {}, NEW self
  PROVE  lazy_update(r, self) = {1}
<1>1. Counted(r, self) = {}
  BY DEF Counted
<1> QED BY SMT, <1>1 DEF lazy_update

(* The verdict is asked for: it is cached.                                 *)
Asked(r, b, self) ==
  /\ QInv(r) /\ Unmoved(r, b) /\ r.init = b.init
  /\ r.requirements = b.requirements /\ r.flags = b.flags /\ r.present = b.present
  /\ b.cache # 0 => r = b
  /\ b.cache = 0 /\ b.init => r.cache \in lazy_update(b, self)

(* quorum_query changes the cached verdict only.                           *)
LEMMA QueryOp ==
  ASSUME NEW b, QInv(b), NEW self, NEW r \in quorum_query(b, self)
  PROVE  Asked(r, b, self)
<1>0. b \in QuorumRecord /\ b.init \in BOOLEAN
  BY FieldTypes DEF QInv
<1>1. CASE b.cache # 0
  <2>1. r = b
    BY <1>1 DEF quorum_query
  <2> QED BY <1>1, <2>1, GoodSame DEF Asked
<1>2. CASE b.cache = 0
  <2>1. PICK v \in IF b.init THEN lazy_update(b, self) ELSE {1} : r = [b EXCEPT !.cache = v]
    BY <1>2 DEF quorum_query
  <2>2. lazy_update(b, self) \subseteq {-1, 0, 1}
    BY SMT DEF lazy_update
  <2>3. v \in {-1, 0, 1} /\ (b.init => v \in lazy_update(b, self))
    BY SMT, <1>0, <2>1, <2>2
  <2>4. Fields(r, b.init, v, b.present, b.requirements, b.flags, b.limit, b.running, b.qt_status,
               b.qt_left)
    BY <1>0, <2>1, <2>3, CacheFields
  <2>5. /\ r \in QuorumRecord /\ r.init = b.init /\ r.cache = v /\ r.present = b.present
        /\ r.requirements = b.requirements /\ r.flags = b.flags /\ r.limit = b.limit
        /\ r.running = b.running /\ r.qt_status = b.qt_status /\ r.qt_left = b.qt_left
    BY <2>4 DEF Fields
  <2>6. Keyed(r.present) /\ OneVote(r.requirements) /\ AutoVotes(r.present, r.requirements, r.flags)
    BY <2>5 DEF QInv
  <2>7. Absent(r) /\ r.qt_left \in {-1, Backlog(r.qt_status)}
    BY <2>5 DEF QInv, Absent
  <2>8. QInv(r)
    BY <2>5, <2>6, <2>7 DEF QInv
  <2>9. SameEntries(r.present, b.present)
    BY <2>5, FieldTypes, SameArray DEF QInv
  <2> QED BY <1>2, <2>3, <2>5, <2>8, <2>9 DEF Asked, Unmoved
<1> QED BY <1>1, <1>2

(* quorum_be_destroy: nothing is left of the quorum.                       *)
Destroyed(r, b) ==
  /\ QInv(r) /\ ~r.init /\ r.present = <<>> /\ r.running = 0
  /\ r.qt_status = [s \in Status |-> 0]

(* quorum_be_destroy leaves the record of a database without quorum.       *)
LEMMA DestroyOp ==
  ASSUME NEW b, QInv(b)
  PROVE  Destroyed(quorum_be_destroy(b), b)
<1> DEFINE r == quorum_be_destroy(b)
<1>1. CASE ~b.init
  <2>1. r = b
    BY <1>1 DEF quorum_be_destroy
  <2> QED BY <1>1, <2>1 DEF Destroyed, QInv, Absent
<1>2. CASE b.init
  <2>1. Fields(r, FALSE, 1, <<>>, {}, {}, 0, 0, [s \in Status |-> 0], -1)
    BY <1>2, NoQuorumFields DEF quorum_be_destroy
  <2> HIDE DEF r
  <2>2. /\ r \in QuorumRecord /\ ~r.init /\ r.present = <<>> /\ r.requirements = {} /\ r.flags = {}
        /\ r.limit = 0 /\ r.running = 0 /\ r.qt_status = [s \in Status |-> 0] /\ r.qt_left = -1
    BY <2>1 DEF Fields
  <2>3. DOMAIN r.present = {}
    BY SMT, <2>2
  <2>4. Keyed(r.present) /\ OneVote(r.requirements) /\ AutoVotes(r.present, r.requirements, r.flags)
    BY <2>2, <2>3 DEF Keyed, OneVote, AutoVotes
  <2>5. Absent(r) /\ r.qt_left \in {-1, Backlog(r.qt_status)}
    BY <2>2 DEF Absent
  <2>6. Destroyed(r, b)
    BY <2>2, <2>4, <2>5 DEF QInv, Destroyed
  <2> QED BY <2>6 DEF r
<1> QED BY <1>1, <1>2

-----------------------------------------------------------------------------
(* The links and the quorum together.                                      *)

LinkOK(s) ==
  /\ s.pc \in {"idle", "start", "gate", "admitted"} => ~s.beg
  /\ s.ctype = "none" => ~s.wbe /\ s.pc = "idle"
  /\ s.pc # "idle" => s.wbe /\ s.ctype \in {"configured", "deleted"}
  /\ s.ctype = "deleted" => s.pc # "idle"

Fresh(persist, s) == persist /\ s.wbe /\ s.status >= READY => s.done

At(f, s) == {l \in Links : f[l].wbe /\ f[l].status = s}

InGate(s) == s.beg \/ s.pc = "admitted"

Inside(f) == {l \in Links : InGate(f[l])}

(* The quorum's entries and counters are those of the links that are       *)
(* registered; the gate counts those inside.                               *)
StatusMatch(b, f) ==
  /\ \A l \in Links, s \in Status : Entry(b.present, l, s) <=> f[l].wbe /\ f[l].status = s
  /\ \A s \in Status : b.qt_status[s] = Cardinality(At(f, s))

GateMatch(b, f) == b.running = Cardinality(Inside(f))

IInv ==
  /\ QInv(q) /\ slap_serverID \in SidSet \cup {0} /\ setup \in Setups
  /\ si \in [Links -> Syncinfo]
  /\ \A l \in Links : LinkOK(si[l]) /\ Fresh(setup.persist, si[l])
  /\ StatusMatch(q, si) /\ GateMatch(q, si)

(* Only link l changes.                                                    *)
Changed(g, f, l) == g \in [Links -> Syncinfo] /\ \A x \in Links : x # l => g[x] = f[x]

(* What the counting below uses of finite sets: one link more or less      *)
(* counts.  LinkSets shows it at the end.                                  *)
Counting ==
  /\ Cardinality({}) = 0
  /\ \A S \in SUBSET Links, l \in Links :
       /\ Cardinality(S) \in Nat
       /\ l \notin S => Cardinality(S \cup {l}) = Cardinality(S) + 1
       /\ l \in S => Cardinality(S \ {l}) = Cardinality(S) - 1

(* The gate: nobody passes, one link enters, one leaves.                   *)
LEMMA GateSteps ==
  ASSUME Counting, NEW f \in [Links -> Syncinfo], NEW g, NEW l \in Links, Changed(g, f, l)
  PROVE  /\ (InGate(g[l]) <=> InGate(f[l])) => Inside(g) = Inside(f)
         /\ ~InGate(f[l]) /\ InGate(g[l]) => Cardinality(Inside(g)) = Cardinality(Inside(f)) + 1
         /\ InGate(f[l]) /\ ~InGate(g[l]) => Cardinality(Inside(g)) = Cardinality(Inside(f)) - 1
<1>0. Inside(f) \in SUBSET Links
  BY DEF Inside
<1>1. ASSUME InGate(g[l]) <=> InGate(f[l]) PROVE Inside(g) = Inside(f)
  BY <1>1 DEF Inside, Changed
<1>2. ASSUME ~InGate(f[l]), InGate(g[l]) PROVE Cardinality(Inside(g)) = Cardinality(Inside(f)) + 1
  <2>1. Inside(g) = Inside(f) \cup {l} /\ l \notin Inside(f)
    BY <1>2 DEF Inside, Changed
  <2> QED BY <1>0, <2>1 DEF Counting
<1>3. ASSUME InGate(f[l]), ~InGate(g[l]) PROVE Cardinality(Inside(g)) = Cardinality(Inside(f)) - 1
  <2>1. Inside(g) = Inside(f) \ {l} /\ l \in Inside(f)
    BY <1>3 DEF Inside, Changed
  <2> QED BY <1>0, <2>1 DEF Counting
<1> QED BY <1>1, <1>2, <1>3

(* A step that changes no status.                                          *)
LEMMA MatchSame ==
  ASSUME NEW b, NEW r, NEW f \in [Links -> Syncinfo], NEW g, NEW l \in Links, Changed(g, f, l),
         g[l].wbe <=> f[l].wbe, f[l].wbe => g[l].status = f[l].status,
         StatusMatch(b, f), SameEntries(r.present, b.present), r.qt_status = b.qt_status
  PROVE  StatusMatch(r, g)
<1>1. \A x \in Links, s \in Status : g[x].wbe /\ g[x].status = s <=> f[x].wbe /\ f[x].status = s
  <2> SUFFICES ASSUME NEW x \in Links, NEW s \in Status
               PROVE  g[x].wbe /\ g[x].status = s <=> f[x].wbe /\ f[x].status = s
    OBVIOUS
  <2>1. CASE x = l
    BY <2>1
  <2>2. CASE x # l
    BY <2>2 DEF Changed
  <2> QED BY <2>1, <2>2
<1>2. \A s \in Status : At(g, s) = At(f, s)
  BY <1>1 DEF At
<1>3. ASSUME NEW x \in Links, NEW s \in Status
      PROVE  Entry(r.present, x, s) <=> g[x].wbe /\ g[x].status = s
  <2>1. Entry(r.present, x, s) <=> Entry(b.present, x, s)
    BY DEF SameEntries
  <2>2. Entry(b.present, x, s) <=> f[x].wbe /\ f[x].status = s
    BY DEF StatusMatch
  <2> QED BY <1>1, <2>1, <2>2
<1>4. \A s \in Status : b.qt_status[s] = Cardinality(At(f, s))
  BY DEF StatusMatch
<1>5. \A s \in Status : r.qt_status[s] = Cardinality(At(g, s))
  BY <1>2, <1>4
<1> QED BY <1>3, <1>5 DEF StatusMatch

(* A link enters.                                                          *)
LEMMA MatchEnter ==
  ASSUME Counting, NEW b, NEW r, NEW f \in [Links -> Syncinfo], NEW g, NEW l \in Links, Changed(g, f, l),
         ~f[l].wbe, g[l].wbe, g[l].status = DIRTY,
         StatusMatch(b, f), Enrolled(r.present, b.present, l),
         b.qt_status \in [Status -> Int], r.qt_status = Inc(b.qt_status, DIRTY)
  PROVE  StatusMatch(r, g)
<1>0. DIRTY \in Status
  BY SMT DEF DIRTY, Status, PROCESS
<1>1. ASSUME NEW x \in Links, NEW s \in Status
      PROVE  Entry(r.present, x, s) <=> g[x].wbe /\ g[x].status = s
  <2>0. /\ Entry(r.present, x, s) <=> Entry(b.present, x, s) \/ (x = l /\ s = DIRTY)
        /\ Entry(b.present, x, s) <=> f[x].wbe /\ f[x].status = s
    BY DEF Enrolled, StatusMatch
  <2>1. CASE x = l
    BY <2>0, <2>1
  <2>2. CASE x # l
    <3>1. g[x] = f[x]
      BY <2>2 DEF Changed
    <3> QED BY <2>0, <2>2, <3>1
  <2> QED BY <2>1, <2>2
<1>2. At(g, DIRTY) = At(f, DIRTY) \cup {l} /\ l \notin At(f, DIRTY)
  BY DEF At, Changed
<1>3. \A s \in Status : s # DIRTY => At(g, s) = At(f, s)
  BY DEF At, Changed
<1>4. At(f, DIRTY) \in SUBSET Links
  BY DEF At
<1>5. Cardinality(At(g, DIRTY)) = Cardinality(At(f, DIRTY)) + 1
  BY <1>2, <1>4 DEF Counting
<1>6. /\ r.qt_status[DIRTY] = b.qt_status[DIRTY] + 1
      /\ \A s \in Status : s # DIRTY => r.qt_status[s] = b.qt_status[s]
  <2> DEFINE c == b.qt_status
  <2>1. /\ Inc(c, DIRTY)[DIRTY] = c[DIRTY] + 1
        /\ \A s \in Status : s # DIRTY => Inc(c, DIRTY)[s] = c[s]
    BY <1>0, CountTypes
  <2> QED BY <2>1
<1>7. \A s \in Status : r.qt_status[s] = Cardinality(At(g, s))
  BY <1>0, <1>3, <1>5, <1>6 DEF StatusMatch
<1> QED BY <1>1, <1>7 DEF StatusMatch

(* A link leaves.                                                          *)
LEMMA MatchLeave ==
  ASSUME Counting, NEW b, NEW r, NEW f \in [Links -> Syncinfo], NEW g, NEW l \in Links, Changed(g, f, l),
         NEW s \in Status, f[l].wbe, f[l].status = s, ~g[l].wbe,
         StatusMatch(b, f), Struck(r.present, b.present, l),
         b.qt_status \in [Status -> Int], r.qt_status = Dec(b.qt_status, s)
  PROVE  StatusMatch(r, g)
<1>1. ASSUME NEW x \in Links, NEW u \in Status
      PROVE  Entry(r.present, x, u) <=> g[x].wbe /\ g[x].status = u
  <2>0. /\ Entry(r.present, x, u) <=> Entry(b.present, x, u) /\ x # l
        /\ Entry(b.present, x, u) <=> f[x].wbe /\ f[x].status = u
    BY DEF Struck, StatusMatch
  <2>1. CASE x = l
    BY <2>0, <2>1
  <2>2. CASE x # l
    <3>1. g[x] = f[x]
      BY <2>2 DEF Changed
    <3> QED BY <2>0, <2>2, <3>1
  <2> QED BY <2>1, <2>2
<1>2. At(g, s) = At(f, s) \ {l} /\ l \in At(f, s)
  BY DEF At, Changed
<1>3. \A u \in Status : u # s => At(g, u) = At(f, u)
  BY DEF At, Changed
<1>4. At(f, s) \in SUBSET Links
  BY DEF At
<1>5. Cardinality(At(g, s)) = Cardinality(At(f, s)) - 1
  BY <1>2, <1>4 DEF Counting
<1>6. r.qt_status[s] = b.qt_status[s] - 1 /\ \A u \in Status : u # s => r.qt_status[u] = b.qt_status[u]
  <2> DEFINE c == b.qt_status
  <2>1. Dec(c, s)[s] = c[s] - 1 /\ \A u \in Status : u # s => Dec(c, s)[u] = c[u]
    BY CountTypes
  <2> QED BY <2>1
<1>7. \A u \in Status : r.qt_status[u] = Cardinality(At(g, u))
  <2> SUFFICES ASSUME NEW u \in Status PROVE r.qt_status[u] = Cardinality(At(g, u))
    OBVIOUS
  <2>0. b.qt_status[u] = Cardinality(At(f, u))
    BY DEF StatusMatch
  <2>1. CASE u = s
    BY <1>5, <1>6, <2>0, <2>1
  <2>2. CASE u # s
    BY <1>3, <1>6, <2>0, <2>2
  <2> QED BY <2>1, <2>2
<1> QED BY <1>1, <1>7 DEF StatusMatch

(* A link changes its status.                                              *)
LEMMA MatchRestate ==
  ASSUME Counting, NEW b, NEW r, NEW f \in [Links -> Syncinfo], NEW g, NEW l \in Links, Changed(g, f, l),
         NEW old \in Status, NEW new \in Status, old # new,
         f[l].wbe, f[l].status = old, g[l].wbe, g[l].status = new,
         StatusMatch(b, f), Restated(r.present, b.present, l, new),
         b.qt_status \in [Status -> Int], r.qt_status = Inc(Dec(b.qt_status, old), new)
  PROVE  StatusMatch(r, g)
<1>1. ASSUME NEW x \in Links, NEW s \in Status
      PROVE  Entry(r.present, x, s) <=> g[x].wbe /\ g[x].status = s
  <2>0. /\ x # l => (Entry(r.present, x, s) <=> Entry(b.present, x, s))
        /\ Entry(r.present, l, s) <=> s = new
        /\ Entry(b.present, x, s) <=> f[x].wbe /\ f[x].status = s
    BY DEF Restated, StatusMatch
  <2>1. CASE x = l
    BY <2>0, <2>1
  <2>2. CASE x # l
    <3>1. g[x] = f[x]
      BY <2>2 DEF Changed
    <3> QED BY <2>0, <2>2, <3>1
  <2> QED BY <2>1, <2>2
<1>2. /\ At(g, new) = At(f, new) \cup {l} /\ l \notin At(f, new)
      /\ At(g, old) = At(f, old) \ {l} /\ l \in At(f, old)
  <2>1. At(g, new) = At(f, new) \cup {l}
    BY DEF At, Changed
  <2>2. At(g, old) = At(f, old) \ {l}
    BY DEF At, Changed
  <2>3. l \notin At(f, new) /\ l \in At(f, old)
    BY DEF At
  <2> QED BY <2>1, <2>2, <2>3
<1>3. \A s \in Status : s # old /\ s # new => At(g, s) = At(f, s)
  BY DEF At, Changed
<1>4. At(f, new) \in SUBSET Links /\ At(f, old) \in SUBSET Links
  BY DEF At
<1>5. /\ Cardinality(At(g, new)) = Cardinality(At(f, new)) + 1
      /\ Cardinality(At(g, old)) = Cardinality(At(f, old)) - 1
  <2>1. Cardinality(At(f, new) \cup {l}) = Cardinality(At(f, new)) + 1
    BY <1>2, <1>4 DEF Counting
  <2>2. Cardinality(At(f, old) \ {l}) = Cardinality(At(f, old)) - 1
    BY <1>2, <1>4 DEF Counting
  <2> QED BY <1>2, <2>1, <2>2
<1> DEFINE d == Dec(b.qt_status, old)
<1>6. /\ d \in [Status -> Int] /\ d[old] = b.qt_status[old] - 1
      /\ \A s \in Status : s # old => d[s] = b.qt_status[s]
  BY CountTypes
<1>7. r.qt_status = Inc(d, new)
  OBVIOUS
<1> HIDE DEF d
<1>8. r.qt_status[new] = d[new] + 1 /\ \A s \in Status : s # new => r.qt_status[s] = d[s]
  <2>1. d \in [Status -> Int]
    BY <1>6
  <2>2. Inc(d, new)[new] = d[new] + 1 /\ \A s \in Status : s # new => Inc(d, new)[s] = d[s]
    BY <2>1, CountTypes
  <2> QED BY <1>7, <2>2
<1>9. \A s \in Status : r.qt_status[s] = Cardinality(At(g, s))
  <2> SUFFICES ASSUME NEW s \in Status PROVE r.qt_status[s] = Cardinality(At(g, s))
    OBVIOUS
  <2>0. b.qt_status[s] = Cardinality(At(f, s))
    BY DEF StatusMatch
  <2>1. CASE s = old
    <3>1. r.qt_status[s] = d[s] /\ d[s] = b.qt_status[s] - 1
      BY <1>6, <1>8, <2>1
    <3> QED BY <1>5, <2>0, <2>1, <3>1
  <2>2. CASE s = new
    <3>1. r.qt_status[s] = d[s] + 1 /\ d[s] = b.qt_status[s]
      BY <1>6, <1>8, <2>2
    <3> QED BY <1>5, <2>0, <2>2, <3>1
  <2>3. CASE s # old /\ s # new
    <3>1. r.qt_status[s] = d[s] /\ d[s] = b.qt_status[s]
      BY <1>6, <1>8, <2>3
    <3> QED BY <1>3, <2>0, <2>3, <3>1
  <2> QED BY <2>1, <2>2, <2>3
<1> QED BY <1>1, <1>9 DEF StatusMatch

-----------------------------------------------------------------------------
(* The record of a link.                                                   *)

Synced(s, ctype, wbe, status, beg, ld, search, done, got, pc, rc) ==
  /\ s \in Syncinfo
  /\ s.ctype = ctype /\ s.wbe = wbe /\ s.status = status /\ s.beg = beg /\ s.ld = ld
  /\ s.search = search /\ s.done = done /\ s.got = got /\ s.pc = pc /\ s.rc = rc

(* A record has the fields that it has.                                    *)
LEMMA OwnFields ==
  ASSUME NEW r \in Syncinfo
  PROVE  Synced(r, r.ctype, r.wbe, r.status, r.beg, r.ld, r.search, r.done, r.got, r.pc, r.rc)
BY DEF Synced

(* Names, for the provers not to split every Boolean into its cases.       *)
Flag == BOOLEAN

Ctype == {"none", "configured", "deleted", "leaked"}

(* One field of a link's record is set.                                    *)
LEMMA SetField ==
  ASSUME NEW r, NEW ctype, NEW wbe, NEW status, NEW beg, NEW ld, NEW search, NEW done, NEW got,
         NEW pc, NEW rc, Synced(r, ctype, wbe, status, beg, ld, search, done, got, pc, rc)
  PROVE  /\ \A v \in Ctype :
              Synced([r EXCEPT !.ctype = v], v, wbe, status, beg, ld, search, done, got, pc, rc)
         /\ \A v \in Flag :
              Synced([r EXCEPT !.wbe = v], ctype, v, status, beg, ld, search, done, got, pc, rc)
         /\ \A v \in Status :
              Synced([r EXCEPT !.status = v], ctype, wbe, v, beg, ld, search, done, got, pc, rc)
         /\ \A v \in Flag :
              Synced([r EXCEPT !.beg = v], ctype, wbe, status, v, ld, search, done, got, pc, rc)
         /\ \A v \in Flag :
              Synced([r EXCEPT !.ld = v], ctype, wbe, status, beg, v, search, done, got, pc, rc)
         /\ \A v \in Flag :
              Synced([r EXCEPT !.search = v], ctype, wbe, status, beg, ld, v, done, got, pc, rc)
         /\ \A v \in Flag :
              Synced([r EXCEPT !.done = v], ctype, wbe, status, beg, ld, search, v, got, pc, rc)
         /\ \A v \in Flag :
              Synced([r EXCEPT !.got = v], ctype, wbe, status, beg, ld, search, done, v, pc, rc)
         /\ \A v \in Pc :
              Synced([r EXCEPT !.pc = v], ctype, wbe, status, beg, ld, search, done, got, v, rc)
         /\ \A v \in Rc :
              Synced([r EXCEPT !.rc = v], ctype, wbe, status, beg, ld, search, done, got, pc, v)
<1>1. ASSUME NEW v \in Ctype
      PROVE  Synced([r EXCEPT !.ctype = v], v, wbe, status, beg, ld, search, done, got, pc, rc)
  BY <1>1 DEF Ctype, Synced, Syncinfo
<1>2. ASSUME NEW v \in Flag
      PROVE  Synced([r EXCEPT !.wbe = v], ctype, v, status, beg, ld, search, done, got, pc, rc)
  BY <1>2 DEF Flag, Synced, Syncinfo
<1>3. ASSUME NEW v \in Status
      PROVE  Synced([r EXCEPT !.status = v], ctype, wbe, v, beg, ld, search, done, got, pc, rc)
  BY <1>3 DEF Synced, Syncinfo
<1>4. ASSUME NEW v \in Flag
      PROVE  Synced([r EXCEPT !.beg = v], ctype, wbe, status, v, ld, search, done, got, pc, rc)
  BY <1>4 DEF Flag, Synced, Syncinfo
<1>5. ASSUME NEW v \in Flag
      PROVE  Synced([r EXCEPT !.ld = v], ctype, wbe, status, beg, v, search, done, got, pc, rc)
  BY <1>5 DEF Flag, Synced, Syncinfo
<1>6. ASSUME NEW v \in Flag
      PROVE  Synced([r EXCEPT !.search = v], ctype, wbe, status, beg, ld, v, done, got, pc, rc)
  BY <1>6 DEF Flag, Synced, Syncinfo
<1>7. ASSUME NEW v \in Flag
      PROVE  Synced([r EXCEPT !.done = v], ctype, wbe, status, beg, ld, search, v, got, pc, rc)
  BY <1>7 DEF Flag, Synced, Syncinfo
<1>8. ASSUME NEW v \in Flag
      PROVE  Synced([r EXCEPT !.got = v], ctype, wbe, status, beg, ld, search, done, v, pc, rc)
  BY <1>8 DEF Flag, Synced, Syncinfo
<1>9. ASSUME NEW v \in Pc
      PROVE  Synced([r EXCEPT !.pc = v], ctype, wbe, status, beg, ld, search, done, got, v, rc)
  BY <1>9 DEF Synced, Syncinfo
<1>10. ASSUME NEW v \in Rc
      PROVE  Synced([r EXCEPT !.rc = v], ctype, wbe, status, beg, ld, search, done, got, pc, v)
  BY <1>10 DEF Synced, Syncinfo
<1> QED BY <1>1, <1>2, <1>3, <1>4, <1>5, <1>6, <1>7, <1>8, <1>9, <1>10

(* The fields of a link's record are of their types.                       *)
LEMMA LinkTypes ==
  ASSUME NEW s \in Syncinfo
  PROVE  /\ s.ctype \in {"none", "configured", "deleted", "leaked"} /\ s.wbe \in BOOLEAN
         /\ s.status \in Status /\ s.beg \in BOOLEAN /\ s.ld \in BOOLEAN /\ s.search \in BOOLEAN
         /\ s.done \in BOOLEAN /\ s.got \in BOOLEAN /\ s.pc \in Pc /\ s.rc \in Rc
BY DEF Syncinfo

(* The record of a link that is not there.                                 *)
LEMMA NoLinkFields ==
  /\ Synced(NoLink, "none", FALSE, DIRTY, FALSE, FALSE, FALSE, FALSE, FALSE, "idle", "SUCCESS")
  /\ Synced([NoLink EXCEPT !.ctype = "configured"], "configured", FALSE, DIRTY, FALSE, FALSE, FALSE,
            FALSE, FALSE, "idle", "SUCCESS")
<1>0. DIRTY \in Status
  BY SMT DEF DIRTY, Status, PROCESS
<1>1. Synced(NoLink, "none", FALSE, DIRTY, FALSE, FALSE, FALSE, FALSE, FALSE, "idle", "SUCCESS")
  BY <1>0 DEF NoLink, Synced, Syncinfo, Pc, Rc
<1>2. "configured" \in Ctype
  BY DEF Ctype
<1> QED BY <1>1, <1>2, SetField

-----------------------------------------------------------------------------
(* What a step of link l shows, and that it suffices.                      *)

Moved(l) ==
  /\ Good(q', q) /\ Changed(si', si, l)
  /\ LinkOK(si'[l]) /\ Fresh(setup.persist, si'[l])
  /\ StatusMatch(q', si') /\ GateMatch(q', si')
  /\ UNCHANGED <<slap_serverID, setup>>

(* A step of one link keeps the invariant.                                 *)
LEMMA MovedInv ==
  ASSUME IInv, NEW l \in Links, Moved(l)
  PROVE  IInv' /\ Good(q', q)
<1>1. \A x \in Links : LinkOK(si'[x]) /\ Fresh(setup.persist, si'[x])
  <2> SUFFICES ASSUME NEW x \in Links PROVE LinkOK(si'[x]) /\ Fresh(setup.persist, si'[x])
    OBVIOUS
  <2>1. CASE x = l
    BY <2>1 DEF Moved
  <2>2. CASE x # l
    BY <2>2 DEF Moved, Changed, IInv
  <2> QED BY <2>1, <2>2
<1>2. setup' = setup /\ slap_serverID' = slap_serverID
  BY DEF Moved
<1>3. /\ QInv(q') /\ Good(q', q) /\ si' \in [Links -> Syncinfo]
      /\ StatusMatch(q', si') /\ GateMatch(q', si')
  BY DEF Moved, Good, Changed
<1>4. slap_serverID' \in SidSet \cup {0} /\ setup' \in Setups
  BY <1>2 DEF IInv
<1>5. \A x \in Links : LinkOK(si'[x]) /\ Fresh(setup'.persist, si'[x])
  BY <1>1, <1>2
<1> QED BY <1>3, <1>4, <1>5 DEF IInv

(* What the quorum is after a link has reported.                           *)
Reported(r, g) == Good(r, q) /\ StatusMatch(r, g) /\ r.running = q.running

(* syncrepl_notify_quorum tells the quorum what the link remembers.        *)
LEMMA NotifyOp ==
  ASSUME Counting, IInv, NEW l \in Links, si[l].wbe, NEW status \in Status,
         NEW g, Changed(g, si, l), g[l].wbe, g[l].status = StatusAfter(si[l], status)
  PROVE  Reported(NotifyQuorum(l, status), g)
<1>0. /\ QInv(q) /\ StatusMatch(q, si) /\ si \in [Links -> Syncinfo] /\ q.qt_status \in [Status -> Int]
      /\ si[l] \in Syncinfo
  BY FieldTypes DEF IInv, QInv
<1>1. CASE Notifies(si[l], status)
  <2> DEFINE r == quorum_notify_status(q, l, status)
             old == si[l].status
  <2>1. NotifyQuorum(l, status) = r /\ g[l].status = status
    BY <1>1 DEF NotifyQuorum, StatusAfter
  <2>2. old \in Status /\ old # status
    BY <1>0, <1>1, LinkTypes DEF Notifies
  <2>3. Entry(q.present, l, old)
    BY <1>0, <2>2 DEF StatusMatch
  <2>4. Restates(r, q, l, old, status)
    BY <1>0, <2>2, <2>3, StatusOp
  <2> HIDE DEF r
  <2>5. Good(r, q) /\ Restated(r.present, q.present, l, status)
        /\ r.qt_status = Inc(Dec(q.qt_status, old), status) /\ r.running = q.running
    BY <2>4 DEF Restates
  <2>6. si[l].status = old
    OBVIOUS
  <2> HIDE DEF old
  <2>7. StatusMatch(r, g)
    BY <1>0, <2>1, <2>2, <2>5, <2>6, MatchRestate
  <2> QED BY <2>1, <2>5, <2>7 DEF Reported
<1>2. CASE ~Notifies(si[l], status)
  <2>1. NotifyQuorum(l, status) = q /\ g[l].status = si[l].status
    BY <1>2 DEF NotifyQuorum, StatusAfter
  <2>2. Good(q, q) /\ SameEntries(q.present, q.present)
    BY <1>0, GoodSame DEF Unmoved
  <2>3. (g[l].wbe <=> si[l].wbe) /\ (si[l].wbe => g[l].status = si[l].status)
    BY <2>1
  <2>4. StatusMatch(q, g)
    BY <1>0, <2>2, <2>3, MatchSame
  <2> QED BY <2>1, <2>2, <2>4 DEF Reported
<1> QED BY <1>1, <1>2

(* A link that reports and stays where it is at the gate.                  *)
LEMMA NotifyMoved ==
  ASSUME Counting, IInv, NEW l \in Links, si[l].wbe, NEW status \in Status, q' = NotifyQuorum(l, status),
         Changed(si', si, l), si'[l].wbe, si'[l].status = StatusAfter(si[l], status),
         InGate(si'[l]) <=> InGate(si[l]), LinkOK(si'[l]), Fresh(setup.persist, si'[l]),
         UNCHANGED <<slap_serverID, setup>>
  PROVE  Moved(l)
<1>1. Reported(q', si')
  BY NotifyOp
<1>2. Good(q', q) /\ StatusMatch(q', si') /\ q'.running = q.running
  BY <1>1 DEF Reported
<1>3. si \in [Links -> Syncinfo] /\ GateMatch(q, si)
  BY DEF IInv
<1>4. Inside(si') = Inside(si)
  BY <1>3, GateSteps
<1>5. GateMatch(q', si')
  BY <1>2, <1>3, <1>4 DEF GateMatch
<1> QED BY <1>2, <1>5 DEF Moved

(* A link that changes nothing the quorum knows.                           *)
LEMMA QuietMoved ==
  ASSUME Counting, IInv, NEW l \in Links, Good(q', q), Unmoved(q', q),
         Changed(si', si, l), si'[l].wbe <=> si[l].wbe, si[l].wbe => si'[l].status = si[l].status,
         InGate(si'[l]) <=> InGate(si[l]), LinkOK(si'[l]), Fresh(setup.persist, si'[l]),
         UNCHANGED <<slap_serverID, setup>>
  PROVE  Moved(l)
<1>1. si \in [Links -> Syncinfo] /\ GateMatch(q, si) /\ StatusMatch(q, si)
  BY DEF IInv
<1>2. SameEntries(q'.present, q.present) /\ q'.qt_status = q.qt_status /\ q'.running = q.running
  BY DEF Unmoved
<1>3. StatusMatch(q', si')
  BY <1>1, <1>2, MatchSame
<1>4. Inside(si') = Inside(si)
  BY <1>1, GateSteps
<1>5. GateMatch(q', si')
  BY <1>1, <1>2, <1>4 DEF GateMatch
<1> QED BY <1>3, <1>5 DEF Moved

-----------------------------------------------------------------------------
(* The steps of do_syncrepl.                                               *)

(* What the link remembers after a report.                                 *)
LEMMA AfterReport ==
  ASSUME NEW s \in Syncinfo, NEW status \in Status
  PROVE  /\ StatusAfter(s, status) \in Status /\ StatusAfter(s, status) \in {status, s.status}
         /\ s.wbe /\ status # PROCESS => StatusAfter(s, status) = status
         /\ StatusAfter(s, PROCESS) # s.status => s.status = READY
<1>1. s.status \in Status
  BY LinkTypes
<1> QED BY <1>1 DEF StatusAfter, Notifies

(* The provider cannot be reached.                                         *)
LEMMA ConnectFailsStep ==
  ASSUME Counting, IInv, NEW l \in Links, ConnectFails(l), UNCHANGED setup
  PROVE  Moved(l)
<1>0. si \in [Links -> Syncinfo] /\ si[l] \in Syncinfo /\ LinkOK(si[l]) /\ Fresh(setup.persist, si[l])
  BY DEF IInv
<1> DEFINE n == StatusAfter(si[l], DEAD)
<1>1. n \in Status /\ n \in {DEAD, si[l].status} /\ DEAD \in Status
  BY <1>0, AfterReport, Statuses
<1>2. /\ si[l].pc = "start" /\ q' = NotifyQuorum(l, DEAD) /\ UNCHANGED <<slap_serverID, setup>>
      /\ si' = [si EXCEPT ![l].status = n, ![l].search = FALSE, ![l].got = FALSE, ![l].pc = "end",
                          ![l].rc = "ERROR"]
  BY DEF ConnectFails
<1>3. si'[l].status = n => si'[l].status = StatusAfter(si[l], DEAD)
  OBVIOUS
<1> HIDE DEF n
<1>4. FALSE \in Flag /\ "end" \in Pc /\ "ERROR" \in Rc
  BY DEF Pc, Rc, Flag
<1> DEFINE s1 == [si[l] EXCEPT !.status = n]
           s2 == [s1 EXCEPT !.search = FALSE]
           s3 == [s2 EXCEPT !.got = FALSE]
           s4 == [s3 EXCEPT !.pc = "end"]
           s5 == [s4 EXCEPT !.rc = "ERROR"]
<1>5. si'[l] = s5 /\ \A x \in Links : x # l => si'[x] = si[x]
  BY <1>0, <1>2
<1>6. Synced(s1, si[l].ctype, si[l].wbe, n, si[l].beg, si[l].ld, si[l].search,
             si[l].done, si[l].got, si[l].pc, si[l].rc)
  BY <1>0, <1>1, <1>4, OwnFields, SetField
<1> HIDE DEF s1
<1>7. Synced(s2, si[l].ctype, si[l].wbe, n, si[l].beg, si[l].ld, FALSE,
             si[l].done, si[l].got, si[l].pc, si[l].rc)
  BY <1>6, <1>1, <1>4, SetField
<1> HIDE DEF s2
<1>8. Synced(s3, si[l].ctype, si[l].wbe, n, si[l].beg, si[l].ld, FALSE,
             si[l].done, FALSE, si[l].pc, si[l].rc)
  BY <1>7, <1>1, <1>4, SetField
<1> HIDE DEF s3
<1>9. Synced(s4, si[l].ctype, si[l].wbe, n, si[l].beg, si[l].ld, FALSE,
             si[l].done, FALSE, "end", si[l].rc)
  BY <1>8, <1>1, <1>4, SetField
<1> HIDE DEF s4
<1>10. Synced(s5, si[l].ctype, si[l].wbe, n, si[l].beg, si[l].ld, FALSE,
              si[l].done, FALSE, "end", "ERROR")
  BY <1>9, <1>1, <1>4, SetField
<1> HIDE DEF s5
<1>11. Changed(si', si, l)
  BY <1>0, <1>2, <1>5, <1>10 DEF Changed, Synced
<1>12. /\ si'[l].ctype = si[l].ctype /\ si'[l].wbe = si[l].wbe /\ si'[l].status = n
      /\ si'[l].beg = si[l].beg /\ si'[l].done = si[l].done /\ si'[l].pc = "end"
  BY <1>5, <1>10 DEF Synced
<1>13. si[l].wbe /\ ~si[l].beg /\ si[l].ctype \in {"configured", "deleted"}
  BY <1>0, <1>2 DEF LinkOK
<1>14. LinkOK(si'[l]) /\ (InGate(si'[l]) <=> InGate(si[l]))
  BY <1>2, <1>12, <1>13 DEF LinkOK, InGate
<1>15. Fresh(setup.persist, si'[l])
  BY <1>0, <1>1, <1>12, <1>13, Statuses DEF Fresh
<1>16. si'[l].wbe /\ si'[l].status = StatusAfter(si[l], DEAD)
  BY <1>3, <1>12, <1>13
<1> QED BY <1>1, <1>2, <1>11, <1>13, <1>14, <1>15, <1>16, NotifyMoved

(* syncrepl_start forgets the last refresh.                                *)
LEMMA StartStep ==
  ASSUME Counting, IInv, NEW l \in Links, syncrepl_start(l), UNCHANGED setup
  PROVE  Moved(l)
<1>0. si \in [Links -> Syncinfo] /\ si[l] \in Syncinfo /\ LinkOK(si[l]) /\ Fresh(setup.persist, si[l])
  BY DEF IInv
<1> DEFINE n == StatusAfter(si[l], DIRTY)
<1>1. n \in Status /\ DIRTY \in Status /\ (si[l].wbe => n = DIRTY)
  BY <1>0, AfterReport, Statuses
<1>2. /\ si[l].pc = "start" /\ q' = NotifyQuorum(l, DIRTY) /\ UNCHANGED <<slap_serverID, setup>>
      /\ si' = [si EXCEPT ![l].status = n, ![l].ld = TRUE, ![l].got = FALSE, ![l].done = FALSE,
                          ![l].beg = FALSE, ![l].pc = "gate"]
  BY DEF syncrepl_start
<1>3. si'[l].status = n => si'[l].status = StatusAfter(si[l], DIRTY)
  OBVIOUS
<1> HIDE DEF n
<1>4. FALSE \in Flag /\ TRUE \in Flag /\ "gate" \in Pc
  BY DEF Pc, Flag
<1> DEFINE s1 == [si[l] EXCEPT !.status = n]
           s2 == [s1 EXCEPT !.ld = TRUE]
           s3 == [s2 EXCEPT !.got = FALSE]
           s4 == [s3 EXCEPT !.done = FALSE]
           s5 == [s4 EXCEPT !.beg = FALSE]
           s6 == [s5 EXCEPT !.pc = "gate"]
<1>5. si'[l] = s6 /\ \A x \in Links : x # l => si'[x] = si[x]
  BY <1>0, <1>2
<1>6. Synced(s1, si[l].ctype, si[l].wbe, n, si[l].beg, si[l].ld, si[l].search,
             si[l].done, si[l].got, si[l].pc, si[l].rc)
  BY <1>0, <1>1, <1>4, OwnFields, SetField
<1> HIDE DEF s1
<1>7. Synced(s2, si[l].ctype, si[l].wbe, n, si[l].beg, TRUE, si[l].search,
             si[l].done, si[l].got, si[l].pc, si[l].rc)
  BY <1>6, <1>1, <1>4, SetField
<1> HIDE DEF s2
<1>8. Synced(s3, si[l].ctype, si[l].wbe, n, si[l].beg, TRUE, si[l].search,
             si[l].done, FALSE, si[l].pc, si[l].rc)
  BY <1>7, <1>1, <1>4, SetField
<1> HIDE DEF s3
<1>9. Synced(s4, si[l].ctype, si[l].wbe, n, si[l].beg, TRUE, si[l].search,
             FALSE, FALSE, si[l].pc, si[l].rc)
  BY <1>8, <1>1, <1>4, SetField
<1> HIDE DEF s4
<1>10. Synced(s5, si[l].ctype, si[l].wbe, n, FALSE, TRUE, si[l].search,
              FALSE, FALSE, si[l].pc, si[l].rc)
  BY <1>9, <1>1, <1>4, SetField
<1> HIDE DEF s5
<1>11. Synced(s6, si[l].ctype, si[l].wbe, n, FALSE, TRUE, si[l].search,
              FALSE, FALSE, "gate", si[l].rc)
  BY <1>10, <1>1, <1>4, SetField
<1> HIDE DEF s6
<1>12. Changed(si', si, l)
  BY <1>0, <1>2, <1>5, <1>11 DEF Changed, Synced
<1>13. /\ si'[l].ctype = si[l].ctype /\ si'[l].wbe = si[l].wbe /\ si'[l].status = n
      /\ si'[l].beg = FALSE /\ si'[l].done = FALSE /\ si'[l].pc = "gate"
  BY <1>5, <1>11 DEF Synced
<1>14. si[l].wbe /\ ~si[l].beg /\ si[l].ctype \in {"configured", "deleted"}
  BY <1>0, <1>2 DEF LinkOK
<1>15. LinkOK(si'[l]) /\ (InGate(si'[l]) <=> InGate(si[l]))
  BY <1>2, <1>13, <1>14 DEF LinkOK, InGate
<1>16. Fresh(setup.persist, si'[l])
  BY <1>0, <1>1, <1>13, <1>14, Statuses DEF Fresh
<1>17. si'[l].wbe /\ si'[l].status = StatusAfter(si[l], DIRTY)
  BY <1>3, <1>13, <1>14
<1> QED BY <1>1, <1>2, <1>12, <1>14, <1>15, <1>16, <1>17, NotifyMoved

(* A link that was admitted starts its search.                             *)
LEMMA SearchStep ==
  ASSUME Counting, IInv, NEW l \in Links, syncrepl_process_search(l), UNCHANGED setup
  PROVE  Moved(l)
<1>0. si \in [Links -> Syncinfo] /\ si[l] \in Syncinfo /\ LinkOK(si[l]) /\ Fresh(setup.persist, si[l])
  BY DEF IInv
<1> DEFINE n == StatusAfter(si[l], REFRESH)
<1>1. n \in Status /\ n \in {REFRESH, si[l].status} /\ REFRESH \in Status
  BY <1>0, AfterReport, Statuses
<1>a. PICK sent \in BOOLEAN :
        si' = [si EXCEPT ![l].status = n, ![l].beg = TRUE, ![l].search = sent,
                         ![l].rc = IF sent THEN si[l].rc ELSE "ERROR",
                         ![l].pc = IF sent THEN "process" ELSE "end"]
  BY DEF syncrepl_process_search
<1> DEFINE rc == IF sent THEN si[l].rc ELSE "ERROR"
           pc == IF sent THEN "process" ELSE "end"
<1>2. /\ si[l].pc = "admitted" /\ q' = NotifyQuorum(l, REFRESH) /\ UNCHANGED <<slap_serverID, setup>>
      /\ si' = [si EXCEPT ![l].status = n, ![l].beg = TRUE, ![l].search = sent, ![l].rc = rc,
                          ![l].pc = pc]
  BY <1>a DEF syncrepl_process_search
<1>3. si'[l].status = n => si'[l].status = StatusAfter(si[l], REFRESH)
  OBVIOUS
<1> HIDE DEF n
<1>4. /\ TRUE \in Flag /\ sent \in Flag
      /\ rc \in Rc /\ pc \in Pc /\ pc \in {"process", "end"}
  BY <1>0, LinkTypes DEF Pc, Rc, Flag
<1> HIDE DEF rc, pc
<1> DEFINE s1 == [si[l] EXCEPT !.status = n]
           s2 == [s1 EXCEPT !.beg = TRUE]
           s3 == [s2 EXCEPT !.search = sent]
           s4 == [s3 EXCEPT !.rc = rc]
           s5 == [s4 EXCEPT !.pc = pc]
<1>5. si'[l] = s5 /\ \A x \in Links : x # l => si'[x] = si[x]
  BY <1>0, <1>2
<1>6. Synced(s1, si[l].ctype, si[l].wbe, n, si[l].beg, si[l].ld, si[l].search,
             si[l].done, si[l].got, si[l].pc, si[l].rc)
  BY <1>0, <1>1, <1>4, OwnFields, SetField
<1> HIDE DEF s1
<1>7. Synced(s2, si[l].ctype, si[l].wbe, n, TRUE, si[l].ld, si[l].search,
             si[l].done, si[l].got, si[l].pc, si[l].rc)
  BY <1>6, <1>1, <1>4, SetField
<1> HIDE DEF s2
<1>8. Synced(s3, si[l].ctype, si[l].wbe, n, TRUE, si[l].ld, sent,
             si[l].done, si[l].got, si[l].pc, si[l].rc)
  BY <1>7, <1>1, <1>4, SetField
<1> HIDE DEF s3
<1>9. Synced(s4, si[l].ctype, si[l].wbe, n, TRUE, si[l].ld, sent,
             si[l].done, si[l].got, si[l].pc, rc)
  BY <1>8, <1>1, <1>4, SetField
<1> HIDE DEF s4
<1>10. Synced(s5, si[l].ctype, si[l].wbe, n, TRUE, si[l].ld, sent, si[l].done, si[l].got, pc, rc)
  BY <1>9, <1>1, <1>4, SetField
<1> HIDE DEF s5
<1>11. Changed(si', si, l)
  BY <1>0, <1>2, <1>5, <1>10 DEF Changed, Synced
<1>12. /\ si'[l].ctype = si[l].ctype /\ si'[l].wbe = si[l].wbe /\ si'[l].status = n
      /\ si'[l].beg = TRUE /\ si'[l].done = si[l].done /\ si'[l].pc = pc
  BY <1>5, <1>10 DEF Synced
<1>13. si[l].wbe /\ si[l].ctype \in {"configured", "deleted"}
  BY <1>0, <1>2 DEF LinkOK
<1>14. LinkOK(si'[l]) /\ (InGate(si'[l]) <=> InGate(si[l]))
  BY <1>2, <1>4, <1>12, <1>13 DEF LinkOK, InGate
<1>15. Fresh(setup.persist, si'[l])
  BY <1>0, <1>1, <1>12, <1>13, Statuses DEF Fresh
<1>16. si'[l].wbe /\ si'[l].status = StatusAfter(si[l], REFRESH)
  BY <1>3, <1>12, <1>13
<1> QED BY <1>1, <1>2, <1>11, <1>13, <1>14, <1>15, <1>16, NotifyMoved

(* A message arrives: only a link that is ready says so.                   *)
LEMMA MessageStep ==
  ASSUME Counting, IInv, NEW l \in Links, TakeMessage(l), UNCHANGED setup
  PROVE  Moved(l)
<1>0. si \in [Links -> Syncinfo] /\ si[l] \in Syncinfo /\ LinkOK(si[l]) /\ Fresh(setup.persist, si[l])
  BY DEF IInv
<1> DEFINE n == StatusAfter(si[l], PROCESS)
<1>1. n \in Status /\ PROCESS \in Status /\ (n # si[l].status => si[l].status = READY)
  BY <1>0, AfterReport, Statuses
<1>2. /\ si[l].pc = "process" /\ q' = NotifyQuorum(l, PROCESS) /\ UNCHANGED <<slap_serverID, setup>>
      /\ si' = [si EXCEPT ![l].status = n, ![l].pc = "message"]
  BY DEF TakeMessage
<1>3. si'[l].status = n => si'[l].status = StatusAfter(si[l], PROCESS)
  OBVIOUS
<1> HIDE DEF n
<1>4. "message" \in Pc
  BY DEF Pc
<1> DEFINE s1 == [si[l] EXCEPT !.status = n]
           s2 == [s1 EXCEPT !.pc = "message"]
<1>5. si'[l] = s2 /\ \A x \in Links : x # l => si'[x] = si[x]
  BY <1>0, <1>2
<1>6. Synced(s1, si[l].ctype, si[l].wbe, n, si[l].beg, si[l].ld, si[l].search,
             si[l].done, si[l].got, si[l].pc, si[l].rc)
  BY <1>0, <1>1, <1>4, OwnFields, SetField
<1> HIDE DEF s1
<1>7. Synced(s2, si[l].ctype, si[l].wbe, n, si[l].beg, si[l].ld, si[l].search,
             si[l].done, si[l].got, "message", si[l].rc)
  BY <1>6, <1>1, <1>4, SetField
<1> HIDE DEF s2
<1>8. Changed(si', si, l)
  BY <1>0, <1>2, <1>5, <1>7 DEF Changed, Synced
<1>9. /\ si'[l].ctype = si[l].ctype /\ si'[l].wbe = si[l].wbe /\ si'[l].status = n
      /\ si'[l].beg = si[l].beg /\ si'[l].done = si[l].done /\ si'[l].pc = "message"
  BY <1>5, <1>7 DEF Synced
<1>10. si[l].wbe /\ si[l].ctype \in {"configured", "deleted"}
  BY <1>0, <1>2 DEF LinkOK
<1>11. LinkOK(si'[l]) /\ (InGate(si'[l]) <=> InGate(si[l]))
  BY <1>2, <1>9, <1>10 DEF LinkOK, InGate
<1>12. Fresh(setup.persist, si'[l])
  BY <1>0, <1>1, <1>9, <1>10, Statuses DEF Fresh
<1>13. si'[l].wbe /\ si'[l].status = StatusAfter(si[l], PROCESS)
  BY <1>3, <1>9, <1>10
<1> QED BY <1>1, <1>2, <1>8, <1>10, <1>11, <1>12, <1>13, NotifyMoved

(* There is no message.                                                    *)
LEMMA NoMessageStep ==
  ASSUME Counting, IInv, NEW l \in Links, NoMessage(l), UNCHANGED setup
  PROVE  Moved(l)
<1>0. si \in [Links -> Syncinfo] /\ si[l] \in Syncinfo /\ LinkOK(si[l]) /\ Fresh(setup.persist, si[l])
  BY DEF IInv
<1>1. PICK rc \in {"SUCCESS", "ERROR"} : si' = [si EXCEPT ![l].pc = "end", ![l].rc = rc]
  BY DEF NoMessage
<1>2. si[l].pc = "process" /\ UNCHANGED <<q, slap_serverID, setup>>
  BY DEF NoMessage
<1>3. "end" \in Pc /\ rc \in Rc
  BY DEF Pc, Rc
<1> DEFINE s1 == [si[l] EXCEPT !.pc = "end"]
           s2 == [s1 EXCEPT !.rc = rc]
<1>4. si'[l] = s2 /\ \A x \in Links : x # l => si'[x] = si[x]
  BY <1>0, <1>1
<1>5. Synced(s1, si[l].ctype, si[l].wbe, si[l].status, si[l].beg, si[l].ld, si[l].search,
             si[l].done, si[l].got, "end", si[l].rc)
  BY <1>0, <1>3, OwnFields, SetField
<1> HIDE DEF s1
<1>6. Synced(s2, si[l].ctype, si[l].wbe, si[l].status, si[l].beg, si[l].ld, si[l].search,
             si[l].done, si[l].got, "end", rc)
  BY <1>5, <1>3, SetField
<1> HIDE DEF s2
<1>7. Changed(si', si, l)
  BY <1>0, <1>1, <1>4, <1>6 DEF Changed, Synced
<1>8. /\ si'[l].ctype = si[l].ctype /\ si'[l].wbe = si[l].wbe /\ si'[l].status = si[l].status
      /\ si'[l].beg = si[l].beg /\ si'[l].done = si[l].done /\ si'[l].pc = "end"
  BY <1>4, <1>6 DEF Synced
<1>9. LinkOK(si'[l]) /\ (InGate(si'[l]) <=> InGate(si[l]))
  BY <1>0, <1>2, <1>8 DEF LinkOK, InGate
<1>10. Fresh(setup.persist, si'[l])
  BY <1>0, <1>8 DEF Fresh
<1>11. Good(q', q) /\ Unmoved(q', q)
  BY <1>2, GoodSame DEF IInv
<1> QED BY <1>2, <1>7, <1>8, <1>9, <1>10, <1>11, QuietMoved

(* The gate: a link is turned away, or counted and admitted.               *)
LEMMA GateStep ==
  ASSUME Counting, IInv, NEW l \in Links, syncrepl_resync_begin(l), UNCHANGED setup
  PROVE  Moved(l)
<1>0. si \in [Links -> Syncinfo] /\ si[l] \in Syncinfo /\ LinkOK(si[l]) /\ Fresh(setup.persist, si[l])
  BY DEF IInv
<1>1. si[l].pc = "gate" /\ UNCHANGED <<slap_serverID, setup>>
  BY DEF syncrepl_resync_begin
<1>2. si[l].wbe /\ ~si[l].beg /\ si[l].ctype \in {"configured", "deleted"} /\ ~InGate(si[l])
  BY <1>0, <1>1 DEF LinkOK, InGate
<1>3. CASE si' = [si EXCEPT ![l].pc = "end", ![l].rc = "YIELD"] /\ q' = q
  <2>1. "end" \in Pc /\ "YIELD" \in Rc
    BY DEF Pc, Rc
  <2> DEFINE s1 == [si[l] EXCEPT !.pc = "end"]
             s2 == [s1 EXCEPT !.rc = "YIELD"]
  <2>2. si'[l] = s2 /\ \A x \in Links : x # l => si'[x] = si[x]
    BY <1>0, <1>3
  <2>3. Synced(s1, si[l].ctype, si[l].wbe, si[l].status, si[l].beg, si[l].ld, si[l].search,
               si[l].done, si[l].got, "end", si[l].rc)
    BY <1>0, <2>1, OwnFields, SetField
  <2> HIDE DEF s1
  <2>4. Synced(s2, si[l].ctype, si[l].wbe, si[l].status, si[l].beg, si[l].ld, si[l].search,
               si[l].done, si[l].got, "end", "YIELD")
    BY <2>3, <2>1, SetField
  <2> HIDE DEF s2
  <2>5. Changed(si', si, l)
    BY <1>0, <1>3, <2>2, <2>4 DEF Changed, Synced
  <2>6. /\ si'[l].ctype = si[l].ctype /\ si'[l].wbe = si[l].wbe /\ si'[l].status = si[l].status
        /\ si'[l].beg = si[l].beg /\ si'[l].done = si[l].done /\ si'[l].pc = "end"
    BY <2>2, <2>4 DEF Synced
  <2>7. LinkOK(si'[l]) /\ (InGate(si'[l]) <=> InGate(si[l]))
    BY <1>2, <2>6 DEF LinkOK, InGate
  <2>8. Fresh(setup.persist, si'[l])
    BY <1>0, <2>6 DEF Fresh
  <2>9. Good(q', q) /\ Unmoved(q', q)
    BY <1>3, GoodSame DEF IInv
  <2> QED BY <1>1, <2>5, <2>6, <2>7, <2>8, <2>9, QuietMoved
<1>4. CASE si' = [si EXCEPT ![l].pc = "admitted"] /\ q' = GateIn(q)
  <2>1. "admitted" \in Pc
    BY DEF Pc
  <2> DEFINE s1 == [si[l] EXCEPT !.pc = "admitted"]
  <2>2. si'[l] = s1 /\ \A x \in Links : x # l => si'[x] = si[x]
    BY <1>0, <1>4
  <2>3. Synced(s1, si[l].ctype, si[l].wbe, si[l].status, si[l].beg, si[l].ld, si[l].search,
               si[l].done, si[l].got, "admitted", si[l].rc)
    BY <1>0, <2>1, OwnFields, SetField
  <2> HIDE DEF s1
  <2>4. Changed(si', si, l)
    BY <1>0, <1>4, <2>2, <2>3 DEF Changed, Synced
  <2>5. /\ si'[l].ctype = si[l].ctype /\ si'[l].wbe = si[l].wbe /\ si'[l].status = si[l].status
        /\ si'[l].beg = si[l].beg /\ si'[l].done = si[l].done /\ si'[l].pc = "admitted"
    BY <2>2, <2>3 DEF Synced
  <2>6. LinkOK(si'[l]) /\ InGate(si'[l])
    BY <1>2, <2>5 DEF LinkOK, InGate
  <2>7. Fresh(setup.persist, si'[l])
    BY <1>0, <2>5 DEF Fresh
  <2>8. Gated(q', q, q.running + 1)
    BY <1>4, GateOp DEF IInv
  <2>9. /\ Good(q', q) /\ SameEntries(q'.present, q.present) /\ q'.qt_status = q.qt_status
         /\ q'.running = q.running + 1
    BY <2>8 DEF Gated
  <2>10. StatusMatch(q', si')
    BY <1>0, <2>4, <2>5, <2>9, MatchSame DEF IInv
  <2>11. Cardinality(Inside(si')) = Cardinality(Inside(si)) + 1
    BY <1>0, <1>2, <2>4, <2>6, GateSteps
  <2>12. GateMatch(q', si')
    BY <2>9, <2>11 DEF GateMatch, IInv
  <2> QED BY <1>1, <2>4, <2>6, <2>7, <2>9, <2>10, <2>12 DEF Moved
<1> QED BY <1>3, <1>4 DEF syncrepl_resync_begin

(* do_syncrepl: a link that runs for the first time registers.             *)
LEMMA RunStep ==
  ASSUME Counting, IInv, NEW l \in Links, do_syncrepl(l), UNCHANGED setup
  PROVE  Moved(l)
<1>0. si \in [Links -> Syncinfo] /\ si[l] \in Syncinfo /\ LinkOK(si[l]) /\ Fresh(setup.persist, si[l])
  BY DEF IInv
<1> DEFINE n == IF si[l].wbe THEN si[l].status ELSE DIRTY
           pc == IF si[l].ld /\ si[l].search THEN "process" ELSE "start"
<1>1. /\ si[l].pc = "idle" /\ si[l].ctype = "configured" /\ UNCHANGED <<slap_serverID, setup>>
      /\ q' = IF si[l].wbe THEN q ELSE quorum_add_rid(q, l)
      /\ si' = [si EXCEPT ![l].wbe = TRUE, ![l].status = n, ![l].pc = pc]
  BY DEF do_syncrepl
<1>2. /\ n \in Status /\ (si[l].wbe => n = si[l].status) /\ (~si[l].wbe => n = DIRTY)
      /\ TRUE \in Flag /\ si[l].wbe \in BOOLEAN
  BY <1>0, LinkTypes, Statuses DEF Flag
<1>3. pc \in Pc /\ pc \in {"process", "start"}
  BY DEF Pc
<1> HIDE DEF n, pc
<1> DEFINE s1 == [si[l] EXCEPT !.wbe = TRUE]
           s2 == [s1 EXCEPT !.status = n]
           s3 == [s2 EXCEPT !.pc = pc]
<1>4. si'[l] = s3 /\ \A x \in Links : x # l => si'[x] = si[x]
  BY <1>0, <1>1
<1>5. Synced(s1, si[l].ctype, TRUE, si[l].status, si[l].beg, si[l].ld, si[l].search,
             si[l].done, si[l].got, si[l].pc, si[l].rc)
  BY <1>0, <1>2, <1>3, OwnFields, SetField
<1> HIDE DEF s1
<1>6. Synced(s2, si[l].ctype, TRUE, n, si[l].beg, si[l].ld, si[l].search,
             si[l].done, si[l].got, si[l].pc, si[l].rc)
  BY <1>5, <1>2, <1>3, SetField
<1> HIDE DEF s2
<1>7. Synced(s3, si[l].ctype, TRUE, n, si[l].beg, si[l].ld, si[l].search,
             si[l].done, si[l].got, pc, si[l].rc)
  BY <1>6, <1>2, <1>3, SetField
<1> HIDE DEF s3
<1>8. Changed(si', si, l)
  BY <1>0, <1>1, <1>4, <1>7 DEF Changed, Synced
<1>9. /\ si'[l].ctype = si[l].ctype /\ si'[l].wbe = TRUE /\ si'[l].status = n
      /\ si'[l].beg = si[l].beg /\ si'[l].done = si[l].done /\ si'[l].pc = pc
  BY <1>4, <1>7 DEF Synced
<1>10. LinkOK(si'[l]) /\ (InGate(si'[l]) <=> InGate(si[l]))
  BY <1>0, <1>1, <1>3, <1>9 DEF LinkOK, InGate
<1>11. Fresh(setup.persist, si'[l])
  BY <1>0, <1>2, <1>9, Statuses DEF Fresh
<1>12. CASE si[l].wbe
  <2>1. Good(q', q) /\ Unmoved(q', q)
    BY <1>1, <1>12, GoodSame DEF IInv
  <2>2. (si'[l].wbe <=> si[l].wbe) /\ si'[l].status = si[l].status
    BY <1>2, <1>12, <1>9
  <2> QED BY <1>1, <1>8, <1>10, <1>11, <2>1, <2>2, QuietMoved
<1>13. CASE ~si[l].wbe
  <2>1. QInv(q) /\ StatusMatch(q, si) /\ GateMatch(q, si) /\ q.present \in Seq(Present)
        /\ Keyed(q.present)
        /\ q.qt_status \in [Status -> Int]
    BY FieldTypes DEF IInv, QInv
  <2>2. ~Listed(q.present, l)
    BY <1>13, <2>1, EntryFacts DEF StatusMatch
  <2>3. Enters(q', q, l)
    BY <1>1, <1>13, <2>1, <2>2, EnterOp
  <2>4. /\ Good(q', q) /\ Enrolled(q'.present, q.present, l)
        /\ q'.qt_status = Inc(q.qt_status, DIRTY) /\ q'.running = q.running
    BY <2>3 DEF Enters
  <2>5. si'[l].wbe /\ si'[l].status = DIRTY
    BY <1>2, <1>13, <1>9
  <2>6. StatusMatch(q', si')
    BY <1>0, <1>13, <1>8, <2>1, <2>4, <2>5, MatchEnter
  <2>7. Inside(si') = Inside(si)
    BY <1>0, <1>8, <1>10, GateSteps
  <2>8. GateMatch(q', si')
    BY <2>1, <2>4, <2>7 DEF GateMatch
  <2> QED BY <1>1, <1>8, <1>10, <1>11, <2>4, <2>6, <2>8 DEF Moved
<1> QED BY <1>2, <1>12, <1>13

(* What a message does to the record of its link.                          *)
Effect(m, s) ==
  /\ m \in Syncinfo /\ m.ctype = s.ctype /\ m.wbe = s.wbe /\ m.status = s.status /\ m.beg = s.beg
  /\ m.ld = s.ld /\ (s.done => m.done)

(* A message ends a refresh at most.                                       *)
LEMMA MessageFields ==
  ASSUME NEW s \in Syncinfo, NEW kind
  PROVE  Effect(MessageEffect(s, kind), s)
<1> DEFINE d == [s EXCEPT !.done = TRUE]
           p == s.got /\ setup.persist
<1>1. TRUE \in Flag /\ FALSE \in Flag /\ p \in Flag
  BY DEF Flag
<1>2. /\ Synced(d, s.ctype, s.wbe, s.status, s.beg, s.ld, s.search, TRUE, s.got, s.pc, s.rc)
      /\ Synced([s EXCEPT !.got = TRUE], s.ctype, s.wbe, s.status, s.beg, s.ld, s.search,
                s.done, TRUE, s.pc, s.rc)
  BY <1>1, OwnFields, SetField
<1>3. Effect(s, s) /\ Effect(d, s) /\ Effect([s EXCEPT !.got = TRUE], s)
  BY <1>2 DEF Effect, Synced
<1>4. /\ MessageEffect(s, "REFRESH_PRESENT") = [d EXCEPT !.got = FALSE]
      /\ MessageEffect(s, "RESULT") = [d EXCEPT !.got = p]
  BY DEF MessageEffect
<1> HIDE DEF d, p
<1>5. ASSUME NEW v \in Flag PROVE Effect([d EXCEPT !.got = v], s)
  <2> DEFINE e == [d EXCEPT !.got = v]
  <2>1. Synced(e, s.ctype, s.wbe, s.status, s.beg, s.ld, s.search, TRUE, v, s.pc, s.rc)
    BY <1>2, SetField
  <2> HIDE DEF e
  <2>2. Effect(e, s)
    BY <2>1 DEF Effect, Synced
  <2> QED BY <2>2 DEF e
<1>6. CASE kind \in {"REFRESH_PRESENT", "RESULT"}
  BY <1>1, <1>4, <1>5, <1>6
<1>7. CASE kind \notin {"REFRESH_PRESENT", "RESULT"}
  BY <1>3, <1>7 DEF MessageEffect, d
<1> QED BY <1>6, <1>7

(* syncrepl_process handles the message; its cookie may name a server.     *)
LEMMA ProcessStep ==
  ASSUME Counting, IInv, NEW l \in Links, syncrepl_process(l), UNCHANGED setup
  PROVE  Moved(l)
<1>0. si \in [Links -> Syncinfo] /\ si[l] \in Syncinfo /\ LinkOK(si[l]) /\ Fresh(setup.persist, si[l])
  BY DEF IInv
<1>1. si[l].pc = "message" /\ UNCHANGED <<slap_serverID, setup>>
  BY DEF syncrepl_process
<1>2. PICK kind \in {"ENTRY", "ID_SET", "REFRESH_DELETE", "REFRESH_PRESENT", "RESULT",
                     "TOO_OLD", "FAILED"},
           rc \in Rc :
        si' = [si EXCEPT ![l] = [MessageEffect(si[l], kind) EXCEPT
                 !.rc = rc, !.pc = IF rc = "SUCCESS" /\ kind # "TOO_OLD" THEN "process" ELSE "end"]]
  BY DEF syncrepl_process
<1> DEFINE m == MessageEffect(si[l], kind)
           pc == IF rc = "SUCCESS" /\ kind # "TOO_OLD" THEN "process" ELSE "end"
<1>3. Effect(m, si[l])
  BY <1>0, MessageFields
<1>4. m \in Syncinfo
  BY <1>3 DEF Effect
<1>5. pc \in Pc /\ pc \in {"process", "end"}
  BY DEF Pc
<1>6. si' = [si EXCEPT ![l] = [m EXCEPT !.rc = rc, !.pc = pc]]
  BY <1>2
<1> HIDE DEF m, pc
<1> DEFINE s1 == [m EXCEPT !.rc = rc]
           s2 == [s1 EXCEPT !.pc = pc]
<1>7. si'[l] = s2 /\ \A x \in Links : x # l => si'[x] = si[x]
  BY <1>0, <1>6
<1>8. Synced(s1, m.ctype, m.wbe, m.status, m.beg, m.ld, m.search, m.done, m.got, m.pc, rc)
  BY <1>4, <1>5, OwnFields, SetField
<1> HIDE DEF s1
<1>9. Synced(s2, m.ctype, m.wbe, m.status, m.beg, m.ld, m.search, m.done, m.got, pc, rc)
  BY <1>8, <1>5, SetField
<1> HIDE DEF s2
<1>10. Changed(si', si, l)
  BY <1>0, <1>6, <1>7, <1>9 DEF Changed, Synced
<1>11. /\ si'[l].ctype = m.ctype /\ si'[l].wbe = m.wbe /\ si'[l].status = m.status
      /\ si'[l].beg = m.beg /\ si'[l].done = m.done /\ si'[l].pc = pc
  BY <1>7, <1>9 DEF Synced
<1>12. LinkOK(si'[l]) /\ (InGate(si'[l]) <=> InGate(si[l]))
  BY <1>0, <1>1, <1>3, <1>5, <1>11 DEF LinkOK, InGate, Effect
<1>13. Fresh(setup.persist, si'[l])
  BY <1>0, <1>3, <1>11 DEF Fresh, Effect
<1>14. si'[l].wbe = si[l].wbe /\ si'[l].status = si[l].status
  BY <1>3, <1>11 DEF Effect
<1>15. q' = q \/ \E sid \in setup.sids : q' = quorum_notify_sid(q, l, sid)
  BY DEF syncrepl_process
<1>16. setup.sids \in SUBSET SidSet
  BY ReplLinksAssumption DEF IInv
<1>17. Good(q', q) /\ Unmoved(q', q)
  BY <1>15, <1>16, GoodSame, SidOp DEF IInv
<1> QED BY <1>1, <1>10, <1>12, <1>13, <1>14, <1>17, QuietMoved

(* syncrepl_resync_end: ready only when the refresh has ended.             *)
LEMMA EndStep ==
  ASSUME Counting, IInv, NEW l \in Links, syncrepl_resync_end(l), UNCHANGED setup
  PROVE  Moved(l)
<1>0. si \in [Links -> Syncinfo] /\ si[l] \in Syncinfo /\ LinkOK(si[l]) /\ Fresh(setup.persist, si[l])
  BY DEF IInv
<1> DEFINE done == si[l].done \/ si[l].rc = "DONE"
           e == [si[l] EXCEPT !.done = done]
<1>1. PICK status \in Status :
        /\ EndStatus(e, si[l].rc, status)
        /\ q' = NotifyQuorum(l, status)
        /\ si' = [si EXCEPT ![l].status = StatusAfter(si[l], status), ![l].done = done, ![l].pc = "leave"]
  BY DEF syncrepl_resync_end
<1>2. si[l].pc = "end" /\ UNCHANGED <<slap_serverID, setup>>
  BY DEF syncrepl_resync_end
<1>3. si[l].wbe /\ si[l].ctype \in {"configured", "deleted"}
  BY <1>0, <1>2 DEF LinkOK
<1>4. done \in Flag /\ (si[l].done => done) /\ "leave" \in Pc
  BY DEF Pc, Flag
<1> HIDE DEF done
<1>5. e.done = done
  <2>1. Synced(e, si[l].ctype, si[l].wbe, si[l].status, si[l].beg, si[l].ld, si[l].search,
               done, si[l].got, si[l].pc, si[l].rc)
    BY <1>0, <1>4, OwnFields, SetField
  <2> QED BY <2>1 DEF Synced
<1> HIDE DEF e
<1>6. status \in {DIRTY, DEAD} \/ (status = READY /\ (done \/ ~setup.persist))
  BY <1>1, <1>5 DEF EndStatus
<1> DEFINE n == StatusAfter(si[l], status)
<1>7. n = status /\ n \in Status
  BY <1>0, <1>3, <1>6, AfterReport, Statuses
<1>8. si' = [si EXCEPT ![l].status = n, ![l].done = done, ![l].pc = "leave"]
  BY <1>1
<1>9. si'[l].status = n => si'[l].status = StatusAfter(si[l], status)
  OBVIOUS
<1> HIDE DEF n
<1> DEFINE s1 == [si[l] EXCEPT !.status = n]
           s2 == [s1 EXCEPT !.done = done]
           s3 == [s2 EXCEPT !.pc = "leave"]
<1>10. si'[l] = s3 /\ \A x \in Links : x # l => si'[x] = si[x]
  BY <1>0, <1>8
<1>11. Synced(s1, si[l].ctype, si[l].wbe, n, si[l].beg, si[l].ld, si[l].search,
              si[l].done, si[l].got, si[l].pc, si[l].rc)
  BY <1>0, <1>4, <1>7, OwnFields, SetField
<1> HIDE DEF s1
<1>12. Synced(s2, si[l].ctype, si[l].wbe, n, si[l].beg, si[l].ld, si[l].search,
              done, si[l].got, si[l].pc, si[l].rc)
  BY <1>11, <1>4, <1>7, SetField
<1> HIDE DEF s2
<1>13. Synced(s3, si[l].ctype, si[l].wbe, n, si[l].beg, si[l].ld, si[l].search,
              done, si[l].got, "leave", si[l].rc)
  BY <1>12, <1>4, <1>7, SetField
<1> HIDE DEF s3
<1>14. Changed(si', si, l)
  BY <1>0, <1>8, <1>10, <1>13 DEF Changed, Synced
<1>15. /\ si'[l].ctype = si[l].ctype /\ si'[l].wbe = si[l].wbe /\ si'[l].status = n
      /\ si'[l].beg = si[l].beg /\ si'[l].done = done /\ si'[l].pc = "leave"
  BY <1>10, <1>13 DEF Synced
<1>16. LinkOK(si'[l]) /\ (InGate(si'[l]) <=> InGate(si[l]))
  BY <1>2, <1>3, <1>15 DEF LinkOK, InGate
<1>17. Fresh(setup.persist, si'[l])
  BY <1>6, <1>7, <1>15, Statuses DEF Fresh
<1>18. si'[l].wbe /\ si'[l].status = StatusAfter(si[l], status)
  BY <1>3, <1>9, <1>15
<1> QED BY <1>1, <1>2, <1>3, <1>14, <1>16, <1>17, <1>18, NotifyMoved

-----------------------------------------------------------------------------
(* Links go.                                                               *)

(* The quorum w after a link of b was freed; g are the links then.         *)
Freed(w, b, g) ==
  /\ QInv(w) /\ KeepsVotes(w, b) /\ (w.cache = 0 \/ w = b)
  /\ StatusMatch(w, g) /\ w.running = b.running

(* A quorum without verdict is as good as it was.                          *)
LEMMA FreedGood ==
  ASSUME NEW w, NEW b, QInv(w), KeepsVotes(w, b), w.cache = 0 \/ w = b
  PROVE  Good(w, b)
BY GoodSame DEF Good, KeepsVerdict

(* syncinfo_free takes a link out of the quorum, which it may have told    *)
(* that it is dead.                                                        *)
LEMMA FreeOp ==
  ASSUME Counting, NEW b, QInv(b), NEW f \in [Links -> Syncinfo], NEW l \in Links, f[l] = si[l],
         StatusMatch(b, f), NEW g, Changed(g, f, l), ~g[l].wbe
  PROVE  Freed(syncinfo_free(b, l), b, g)
<1>0. f[l] \in Syncinfo /\ si[l] \in Syncinfo /\ b.qt_status \in [Status -> Int]
  BY FieldTypes DEF QInv
<1>1. si[l].wbe \in BOOLEAN /\ si[l].status \in Status
  BY <1>0, LinkTypes
<1>2. CASE ~si[l].wbe
  <2>1. syncinfo_free(b, l) = b
    BY <1>2 DEF syncinfo_free, Notifies
  <2>2. SameEntries(b.present, b.present)
    BY GoodSame DEF Unmoved
  <2>3. (g[l].wbe <=> f[l].wbe) /\ (f[l].wbe => g[l].status = f[l].status)
    BY <1>2
  <2>4. StatusMatch(b, g)
    BY <2>2, <2>3, MatchSame
  <2>5. KeepsVotes(b, b)
    BY DEF KeepsVotes
  <2> QED BY <2>1, <2>4, <2>5 DEF Freed
<1>3. ASSUME NEW d, NEW h \in [Links -> Syncinfo], NEW s \in Status, QInv(d), KeepsVotes(d, b),
             d.running = b.running, StatusMatch(d, h), Changed(g, h, l), h[l].wbe, h[l].status = s
      PROVE  Freed(quorum_remove_rid(d, l), b, g)
  <2> DEFINE w == quorum_remove_rid(d, l)
  <2>1. Entry(d.present, l, s) /\ d.qt_status \in [Status -> Int]
    BY <1>3, FieldTypes DEF StatusMatch, QInv
  <2>2. Leaves(w, d, l, s)
    BY <1>3, <2>1, LeaveOp
  <2> HIDE DEF w
  <2>3. /\ Good(w, d) /\ Struck(w.present, d.present, l) /\ w.cache = 0
        /\ w.qt_status = Dec(d.qt_status, s) /\ w.running = d.running
    BY <2>2 DEF Leaves
  <2>4. StatusMatch(w, g)
    BY <1>3, <2>1, <2>3, MatchLeave
  <2>5. QInv(w) /\ KeepsVotes(w, b)
    BY <1>3, <2>3 DEF Good, KeepsVotes
  <2>6. Freed(w, b, g)
    BY <1>3, <2>3, <2>4, <2>5 DEF Freed
  <2> QED BY <2>6 DEF w
<1>4. CASE si[l].wbe /\ Notifies(si[l], DEAD)
  <2> DEFINE d == quorum_notify_status(b, l, DEAD)
             old == si[l].status
             t == [f[l] EXCEPT !.status = DEAD]
             h == [f EXCEPT ![l] = t]
  <2>1. syncinfo_free(b, l) = quorum_remove_rid(d, l)
    BY <1>4 DEF syncinfo_free
  <2>2. DEAD \in Status /\ old \in Status /\ old # DEAD
    BY <1>1, <1>4, Statuses DEF Notifies
  <2>3. Entry(b.present, l, old)
    BY <1>1, <1>4 DEF StatusMatch
  <2>4. Restates(d, b, l, old, DEAD)
    BY <2>2, <2>3, StatusOp
  <2> HIDE DEF d
  <2>5. /\ Good(d, b) /\ Restated(d.present, b.present, l, DEAD)
        /\ d.qt_status = Inc(Dec(b.qt_status, old), DEAD) /\ d.running = b.running
    BY <2>4 DEF Restates
  <2>6. Synced(t, f[l].ctype, f[l].wbe, DEAD, f[l].beg, f[l].ld, f[l].search,
               f[l].done, f[l].got, f[l].pc, f[l].rc)
    BY <1>0, <2>2, OwnFields, SetField
  <2>7. t \in Syncinfo /\ t.wbe /\ t.status = DEAD
    BY <1>4, <2>6 DEF Synced
  <2> HIDE DEF t
  <2>8. h \in [Links -> Syncinfo] /\ h[l] = t /\ \A x \in Links : x # l => h[x] = f[x]
    BY <2>7
  <2> HIDE DEF h
  <2>9. Changed(h, f, l) /\ Changed(g, h, l) /\ h[l].wbe /\ h[l].status = DEAD
    BY <2>7, <2>8 DEF Changed
  <2>10. f[l].wbe /\ f[l].status = old
    BY <1>4
  <2> HIDE DEF old
  <2>11. StatusMatch(d, h)
    BY <1>0, <2>2, <2>5, <2>9, <2>10, MatchRestate
  <2>12. QInv(d) /\ KeepsVotes(d, b)
    BY <2>5 DEF Good
  <2> QED BY <1>3, <2>1, <2>2, <2>5, <2>8, <2>9, <2>11, <2>12
<1>5. CASE si[l].wbe /\ ~Notifies(si[l], DEAD)
  <2>1. syncinfo_free(b, l) = quorum_remove_rid(b, l)
    BY <1>5 DEF syncinfo_free
  <2>2. KeepsVotes(b, b)
    BY DEF KeepsVotes
  <2>3. f[l].wbe /\ f[l].status = si[l].status
    BY <1>5
  <2> QED BY <1>1, <1>3, <2>1, <2>2, <2>3
<1> QED BY <1>1, <1>2, <1>4, <1>5

(* The record of a link that is gone.                                      *)
LEMMA Gone ==
  /\ NoLink \in Syncinfo /\ ~NoLink.wbe /\ LinkOK(NoLink) /\ ~InGate(NoLink)
  /\ \A persist : Fresh(persist, NoLink)
<1>1. /\ NoLink \in Syncinfo /\ ~NoLink.wbe /\ ~NoLink.beg /\ NoLink.ctype = "none" /\ NoLink.pc = "idle"
  BY NoLinkFields DEF Synced
<1> QED BY <1>1 DEF LinkOK, InGate, Fresh

(* do_syncrepl ends: the link leaves the gate, and goes if it was deleted. *)
LEMMA LeaveStep ==
  ASSUME Counting, IInv, NEW l \in Links, Leave(l), UNCHANGED setup
  PROVE  Moved(l)
<1>0. si \in [Links -> Syncinfo] /\ si[l] \in Syncinfo /\ LinkOK(si[l]) /\ Fresh(setup.persist, si[l])
  BY DEF IInv
<1> DEFINE out == IF si[l].beg THEN GateOut(q) ELSE q
           stop == /\ si[l].rc \notin {"PAUSED", "YIELD"}
                   /\ setup.persist => si[l].rc # "SUCCESS"
<1>1. si[l].pc = "leave" /\ UNCHANGED <<slap_serverID, setup>>
  BY DEF Leave
<1>2. \/ /\ q' = syncinfo_free(out, l)
         /\ si' = [si EXCEPT ![l] = NoLink]
      \/ /\ si[l].ctype = "configured" /\ q' = out
         /\ si' = [si EXCEPT ![l].beg = FALSE, ![l].pc = "idle", ![l].rc = "SUCCESS",
                             ![l].ld = si[l].ld /\ ~stop, ![l].search = si[l].search /\ ~stop]
  BY DEF Leave
<1>3. si[l].wbe /\ si[l].ctype \in {"configured", "deleted"} /\ (InGate(si[l]) <=> si[l].beg)
  BY <1>0, <1>1 DEF LinkOK, InGate
<1>4. QInv(q) /\ StatusMatch(q, si) /\ GateMatch(q, si) /\ si[l].beg \in BOOLEAN
  BY <1>0, LinkTypes DEF IInv
<1>5. /\ Good(out, q) /\ SameEntries(out.present, q.present) /\ out.qt_status = q.qt_status
      /\ (si[l].beg => out.running = q.running - 1) /\ (~si[l].beg => out.running = q.running)
  <2>1. CASE si[l].beg
    <3>1. Gated(out, q, q.running - 1)
      BY <1>4, <2>1, GateOp
    <3> QED BY <2>1, <3>1 DEF Gated
  <2>2. CASE ~si[l].beg
    <3>1. out = q
      BY <2>2
    <3> QED BY <1>4, <2>2, <3>1, GoodSame DEF Unmoved
  <2> QED BY <1>4, <2>1, <2>2
<1> HIDE DEF out
<1>6. ASSUME Changed(si', si, l), ~InGate(si'[l]), q'.running = out.running PROVE GateMatch(q', si')
  <2>1. CASE si[l].beg
    <3>1. Cardinality(Inside(si')) = Cardinality(Inside(si)) - 1
      BY <1>0, <1>3, <1>6, <2>1, GateSteps
    <3> QED BY <1>4, <1>5, <1>6, <2>1, <3>1 DEF GateMatch
  <2>2. CASE ~si[l].beg
    <3>1. Inside(si') = Inside(si)
      BY <1>0, <1>3, <1>6, <2>2, GateSteps
    <3> QED BY <1>4, <1>5, <1>6, <2>2, <3>1 DEF GateMatch
  <2> QED BY <1>4, <2>1, <2>2
<1>7. CASE q' = syncinfo_free(out, l) /\ si' = [si EXCEPT ![l] = NoLink]
  <2>1. si'[l] = NoLink /\ Changed(si', si, l)
    BY <1>0, <1>7, Gone DEF Changed
  <2>2. QInv(out)
    BY <1>5 DEF Good
  <2>3. Changed(si, si, l) /\ (si[l].wbe <=> si[l].wbe) /\ (si[l].wbe => si[l].status = si[l].status)
    BY <1>0 DEF Changed
  <2>4. StatusMatch(out, si)
    BY <1>0, <1>4, <1>5, <2>3, MatchSame
  <2>5. ~si'[l].wbe
    BY <2>1, Gone
  <2>6. Freed(syncinfo_free(out, l), out, si')
    BY <1>0, <2>1, <2>2, <2>4, <2>5, FreeOp
  <2>7. /\ QInv(q') /\ KeepsVotes(q', out) /\ (q'.cache = 0 \/ q' = out) /\ StatusMatch(q', si')
        /\ q'.running = out.running
    BY <1>7, <2>6 DEF Freed
  <2>8. KeepsVotes(q', q)
    BY <1>5, <2>7 DEF KeepsVotes, Good
  <2>9. KeepsVerdict(q', q)
    BY <1>5, <2>7 DEF KeepsVerdict, Good
  <2>10. Good(q', q)
    BY <2>7, <2>8, <2>9 DEF Good
  <2>11. GateMatch(q', si')
    BY <1>6, <2>1, <2>7, Gone
  <2> QED BY <1>1, <2>1, <2>7, <2>10, <2>11, Gone DEF Moved
<1>8. CASE /\ si[l].ctype = "configured" /\ q' = out
           /\ si' = [si EXCEPT ![l].beg = FALSE, ![l].pc = "idle", ![l].rc = "SUCCESS",
                               ![l].ld = si[l].ld /\ ~stop, ![l].search = si[l].search /\ ~stop]
  <2> DEFINE ld == si[l].ld /\ ~stop
             search == si[l].search /\ ~stop
  <2>1. ld \in Flag /\ search \in Flag /\ FALSE \in Flag /\ "idle" \in Pc /\ "SUCCESS" \in Rc
    BY DEF Pc, Rc, Flag
  <2>2. si' = [si EXCEPT ![l].beg = FALSE, ![l].pc = "idle", ![l].rc = "SUCCESS",
                         ![l].ld = ld, ![l].search = search]
    BY <1>8
  <2> HIDE DEF ld, search
  <2> DEFINE s1 == [si[l] EXCEPT !.beg = FALSE]
             s2 == [s1 EXCEPT !.pc = "idle"]
             s3 == [s2 EXCEPT !.rc = "SUCCESS"]
             s4 == [s3 EXCEPT !.ld = ld]
             s5 == [s4 EXCEPT !.search = search]
  <2>3. si'[l] = s5 /\ \A x \in Links : x # l => si'[x] = si[x]
    BY <1>0, <2>2
  <2>4. Synced(s1, si[l].ctype, si[l].wbe, si[l].status, FALSE, si[l].ld, si[l].search,
               si[l].done, si[l].got, si[l].pc, si[l].rc)
    BY <1>0, <2>1, OwnFields, SetField
  <2> HIDE DEF s1
  <2>5. Synced(s2, si[l].ctype, si[l].wbe, si[l].status, FALSE, si[l].ld, si[l].search,
               si[l].done, si[l].got, "idle", si[l].rc)
    BY <2>4, <2>1, SetField
  <2> HIDE DEF s2
  <2>6. Synced(s3, si[l].ctype, si[l].wbe, si[l].status, FALSE, si[l].ld, si[l].search,
               si[l].done, si[l].got, "idle", "SUCCESS")
    BY <2>5, <2>1, SetField
  <2> HIDE DEF s3
  <2>7. Synced(s4, si[l].ctype, si[l].wbe, si[l].status, FALSE, ld, si[l].search,
               si[l].done, si[l].got, "idle", "SUCCESS")
    BY <2>6, <2>1, SetField
  <2> HIDE DEF s4
  <2>8. Synced(s5, si[l].ctype, si[l].wbe, si[l].status, FALSE, ld, search,
               si[l].done, si[l].got, "idle", "SUCCESS")
    BY <2>7, <2>1, SetField
  <2> HIDE DEF s5
  <2>9. Changed(si', si, l)
    BY <1>0, <2>2, <2>3, <2>8 DEF Changed, Synced
  <2>10. /\ si'[l].ctype = si[l].ctype /\ si'[l].wbe = si[l].wbe /\ si'[l].status = si[l].status
        /\ si'[l].beg = FALSE /\ si'[l].done = si[l].done /\ si'[l].pc = "idle"
    BY <2>3, <2>8 DEF Synced
  <2>11. LinkOK(si'[l]) /\ ~InGate(si'[l])
    BY <1>3, <1>8, <2>10 DEF LinkOK, InGate
  <2>12. Fresh(setup.persist, si'[l])
    BY <1>0, <2>10 DEF Fresh
  <2>13. StatusMatch(q', si')
    <3>1. (si'[l].wbe <=> si[l].wbe) /\ (si[l].wbe => si'[l].status = si[l].status)
      BY <2>10
    <3>2. SameEntries(q'.present, q.present) /\ q'.qt_status = q.qt_status
      BY <1>5, <1>8
    <3> QED BY <1>0, <1>4, <2>9, <3>1, <3>2, MatchSame
  <2>14. GateMatch(q', si')
    BY <1>6, <1>8, <2>9, <2>11
  <2> QED BY <1>1, <1>5, <1>8, <2>9, <2>11, <2>12, <2>13, <2>14 DEF Moved
<1> QED BY <1>2, <1>7, <1>8

(* cn=config adds a link.                                                  *)
LEMMA AddStep ==
  ASSUME Counting, IInv, NEW l \in Links, add_syncrepl(l), UNCHANGED setup
  PROVE  Moved(l)
<1>0. si \in [Links -> Syncinfo] /\ si[l] \in Syncinfo /\ LinkOK(si[l]) /\ Fresh(setup.persist, si[l])
  BY DEF IInv
<1> DEFINE n == [NoLink EXCEPT !.ctype = "configured"]
<1>1. /\ si[l].ctype = "none" /\ si' = [si EXCEPT ![l] = n] /\ UNCHANGED <<q, slap_serverID, setup>>
  BY DEF add_syncrepl
<1>2. n \in Syncinfo /\ ~n.wbe /\ ~n.beg /\ n.ctype = "configured" /\ n.pc = "idle"
  BY NoLinkFields DEF Synced
<1> HIDE DEF n
<1>3. si'[l] = n /\ Changed(si', si, l)
  BY <1>0, <1>1, <1>2 DEF Changed
<1>4. ~si[l].wbe /\ ~InGate(si[l])
  BY <1>0, <1>1 DEF LinkOK, InGate
<1>5. /\ LinkOK(si'[l]) /\ Fresh(setup.persist, si'[l]) /\ (InGate(si'[l]) <=> InGate(si[l]))
      /\ (si'[l].wbe <=> si[l].wbe)
  BY <1>2, <1>3, <1>4 DEF LinkOK, Fresh, InGate
<1>6. Good(q', q) /\ Unmoved(q', q)
  BY <1>1, GoodSame DEF IInv
<1> QED BY <1>1, <1>3, <1>4, <1>5, <1>6, QuietMoved

(* A link that is marked as deleted.                                       *)
Marked(t, s, ctype) ==
  /\ t \in Syncinfo /\ t.ctype = ctype /\ t.wbe = s.wbe /\ t.status = s.status /\ t.beg = s.beg
  /\ t.done = s.done /\ t.pc = s.pc

(* A link between two runs is at no gate; one that runs may be marked; one *)
(* that does not may be dropped.                                           *)
LEMMA Mark ==
  ASSUME NEW s \in Syncinfo, LinkOK(s), s.ctype = "configured"
  PROVE  /\ s.pc = "idle" => ~InGate(s)
         /\ \A ctype \in {"deleted", "leaked"} : Marked([s EXCEPT !.ctype = ctype], s, ctype)
         /\ \A t, ctype : Marked(t, s, ctype) /\ ctype = (IF s.pc = "idle" THEN "leaked" ELSE "deleted") =>
              LinkOK(t) /\ (InGate(t) <=> InGate(s)) /\ \A persist : Fresh(persist, s) => Fresh(persist, t)
<1>0. \A ctype \in Ctype :
        Synced([s EXCEPT !.ctype = ctype], ctype, s.wbe, s.status, s.beg, s.ld, s.search,
               s.done, s.got, s.pc, s.rc)
  BY OwnFields, SetField
<1>1. s.pc = "idle" => ~InGate(s)
  BY DEF LinkOK, InGate
<1>2. \A ctype \in {"deleted", "leaked"} : Marked([s EXCEPT !.ctype = ctype], s, ctype)
  <2> SUFFICES ASSUME NEW ctype \in {"deleted", "leaked"} PROVE Marked([s EXCEPT !.ctype = ctype], s, ctype)
    OBVIOUS
  <2>1. ctype \in Ctype
    BY DEF Ctype
  <2>2. Synced([s EXCEPT !.ctype = ctype], ctype, s.wbe, s.status, s.beg, s.ld, s.search,
               s.done, s.got, s.pc, s.rc)
    BY <1>0, <2>1
  <2> QED BY <2>2 DEF Synced, Marked
<1>3. ASSUME NEW t, NEW ctype, Marked(t, s, ctype), ctype = (IF s.pc = "idle" THEN "leaked" ELSE "deleted")
      PROVE  LinkOK(t) /\ (InGate(t) <=> InGate(s)) /\ \A persist : Fresh(persist, s) => Fresh(persist, t)
  <2>1. CASE s.pc = "idle"
    <3>1. ctype = "leaked"
      BY <1>3, <2>1
    <3> QED BY <1>3, <2>1, <3>1 DEF Marked, LinkOK, InGate, Fresh
  <2>2. CASE s.pc # "idle"
    <3>1. ctype = "deleted"
      BY <1>3, <2>2
    <3> QED BY <1>3, <2>2, <3>1 DEF Marked, LinkOK, InGate, Fresh
  <2> QED BY <2>1, <2>2
<1> QED BY <1>1, <1>2, <1>3

(* cn=config deletes a link: at once, or marked for its thread.            *)
LEMMA DeleteStep ==
  ASSUME Counting, IInv, NEW l \in Links, DeleteLink(l), UNCHANGED setup
  PROVE  Moved(l)
<1>0. si \in [Links -> Syncinfo] /\ si[l] \in Syncinfo /\ LinkOK(si[l]) /\ Fresh(setup.persist, si[l])
  BY DEF IInv
<1>1. si[l].ctype = "configured" /\ UNCHANGED <<slap_serverID, setup>> /\ QInv(q) /\ StatusMatch(q, si)
      /\ GateMatch(q, si)
  BY DEF DeleteLink, IInv
<1>2. CASE si[l].pc = "idle" /\ q' = syncinfo_free(q, l) /\ si' = [si EXCEPT ![l] = NoLink]
  <2>1. si'[l] = NoLink /\ Changed(si', si, l)
    BY <1>0, <1>2, Gone DEF Changed
  <2>2. ~si'[l].wbe
    BY <2>1, Gone
  <2>3. Freed(q', q, si')
    BY <1>0, <1>1, <1>2, <2>1, <2>2, FreeOp
  <2>4. Good(q', q) /\ StatusMatch(q', si') /\ q'.running = q.running
    BY <2>3, FreedGood DEF Freed
  <2>5. InGate(si'[l]) <=> InGate(si[l])
    BY <1>0, <1>1, <1>2, <2>1, Gone, Mark
  <2>6. Inside(si') = Inside(si)
    BY <1>0, <2>1, <2>5, GateSteps
  <2>7. GateMatch(q', si')
    BY <1>1, <2>4, <2>6 DEF GateMatch
  <2> QED BY <1>1, <2>1, <2>4, <2>7, Gone DEF Moved
<1>3. CASE si[l].pc # "idle" /\ q' = q /\ si' = [si EXCEPT ![l].ctype = "deleted"]
  <2> DEFINE t == [si[l] EXCEPT !.ctype = "deleted"]
  <2>1. si'[l] = t /\ \A x \in Links : x # l => si'[x] = si[x]
    BY <1>0, <1>3
  <2>2. Marked(t, si[l], "deleted")
    BY <1>0, <1>1, Mark
  <2> HIDE DEF t
  <2>3. t \in Syncinfo /\ t.wbe = si[l].wbe /\ t.status = si[l].status
    BY <2>2 DEF Marked
  <2>4. Changed(si', si, l)
    BY <1>0, <1>3, <2>1, <2>3 DEF Changed
  <2>5. LinkOK(t) /\ (InGate(t) <=> InGate(si[l])) /\ Fresh(setup.persist, t)
    BY <1>0, <1>1, <1>3, <2>2, Mark
  <2>6. Good(q', q) /\ Unmoved(q', q)
    BY <1>1, <1>3, GoodSame
  <2> QED BY <1>1, <2>1, <2>3, <2>4, <2>5, <2>6, QuietMoved
<1> QED BY <1>2, <1>3 DEF DeleteLink

(* Two links change, by way of m, and nobody passes the gate.              *)
LEMMA TwoMoved ==
  ASSUME Counting, IInv, NEW a \in Links, NEW b \in Links, a # b, NEW m, Changed(m, si, a),
         Changed(si', m, b),
         LinkOK(m[a]), Fresh(setup.persist, m[a]), InGate(m[a]) <=> InGate(si[a]),
         LinkOK(si'[b]), Fresh(setup.persist, si'[b]), InGate(si'[b]) <=> InGate(si[b]),
         Good(q', q), StatusMatch(q', si'), q'.running = q.running, UNCHANGED <<slap_serverID, setup>>
  PROVE  IInv'
<1>1. \A x \in Links : LinkOK(si'[x]) /\ Fresh(setup.persist, si'[x])
  <2> SUFFICES ASSUME NEW x \in Links PROVE LinkOK(si'[x]) /\ Fresh(setup.persist, si'[x])
    OBVIOUS
  <2>1. CASE x = b
    BY <2>1
  <2>2. CASE x = a
    <3>1. si'[x] = m[a]
      BY <2>2 DEF Changed
    <3> QED BY <3>1
  <2>3. CASE x # a /\ x # b
    <3>1. si'[x] = si[x]
      BY <2>3 DEF Changed
    <3> QED BY <3>1 DEF IInv
  <2> QED BY <2>1, <2>2, <2>3
<1>2. si \in [Links -> Syncinfo] /\ m \in [Links -> Syncinfo] /\ si' \in [Links -> Syncinfo]
      /\ m[b] = si[b]
  BY DEF Changed, IInv
<1>3. Inside(m) = Inside(si)
  BY <1>2, GateSteps
<1>4. Inside(si') = Inside(m)
  BY <1>2, GateSteps
<1>5. GateMatch(q', si')
  BY <1>3, <1>4 DEF GateMatch, IInv
<1>6. QInv(q') /\ slap_serverID' \in SidSet \cup {0} /\ setup' \in Setups /\ setup' = setup
  BY DEF Good, IInv
<1>7. \A x \in Links : LinkOK(si'[x]) /\ Fresh(setup'.persist, si'[x])
  BY <1>1, <1>6
<1> QED BY <1>2, <1>5, <1>6, <1>7 DEF IInv

(* cn=config deletes all links with one change.                            *)
LEMMA DeleteAllStep ==
  ASSUME Counting, IInv, DeleteLinks, UNCHANGED setup
  PROVE  IInv' /\ Good(q', q) /\ UNCHANGED slap_serverID
<1>0. /\ si \in [Links -> Syncinfo] /\ QInv(q) /\ StatusMatch(q, si)
      /\ \A l \in Links : si[l] \in Syncinfo /\ LinkOK(si[l]) /\ Fresh(setup.persist, si[l])
  BY DEF IInv
<1>1. PICK a \in Links, b \in Links :
        /\ a # b
        /\ si[a].ctype = "configured" /\ si[b].ctype = "configured"
        /\ \/ /\ si[a].pc = "idle" /\ si[b].pc = "idle"
              /\ q' = syncinfo_free(syncinfo_free(q, a), b)
              /\ si' = [si EXCEPT ![a] = NoLink, ![b] = NoLink]
           \/ /\ si[a].pc = "idle" /\ si[b].pc # "idle"
              /\ q' = syncinfo_free(q, a)
              /\ si' = [si EXCEPT ![a] = NoLink, ![b].ctype = "deleted"]
           \/ /\ si[a].pc # "idle"
              /\ q' = q
              /\ si' = [si EXCEPT ![a].ctype = "deleted",
                                  ![b].ctype = IF si[b].pc = "idle" THEN "leaked" ELSE "deleted"]
  BY DEF DeleteLinks
<1>2. UNCHANGED <<slap_serverID, setup>>
  BY DEF DeleteLinks
<1> DEFINE gone == [si EXCEPT ![a] = NoLink]
<1>3. gone[a] = NoLink /\ Changed(gone, si, a) /\ gone[b] = si[b] /\ gone \in [Links -> Syncinfo]
  BY <1>0, <1>1, Gone DEF Changed
<1>4. ASSUME si[a].pc = "idle"
      PROVE  /\ Freed(syncinfo_free(q, a), q, gone)
             /\ LinkOK(gone[a]) /\ Fresh(setup.persist, gone[a]) /\ (InGate(gone[a]) <=> InGate(si[a]))
  <2>1. ~gone[a].wbe
    BY <1>3, Gone
  <2>2. Freed(syncinfo_free(q, a), q, gone)
    BY <1>0, <1>3, <2>1, FreeOp
  <2>3. ~InGate(si[a])
    BY <1>0, <1>1, <1>4, Mark
  <2> QED BY <1>3, <2>2, <2>3, Gone
<1>5. ASSUME NEW m, NEW c \in {"deleted", "leaked"}, m \in [Links -> Syncinfo], m[b] = si[b],
             c = IF si[b].pc = "idle" THEN "leaked" ELSE "deleted",
             si' = [m EXCEPT ![b].ctype = c], StatusMatch(q', m), QInv(q')
      PROVE  /\ Changed(si', m, b) /\ LinkOK(si'[b]) /\ Fresh(setup.persist, si'[b])
             /\ (InGate(si'[b]) <=> InGate(si[b])) /\ StatusMatch(q', si')
  <2> DEFINE t == [si[b] EXCEPT !.ctype = c]
  <2>1. si'[b] = t /\ \A x \in Links : x # b => si'[x] = m[x]
    BY <1>5
  <2>2. Marked(t, si[b], c)
    BY <1>0, <1>1, <1>5, Mark
  <2> HIDE DEF t
  <2>3. t \in Syncinfo /\ t.wbe = si[b].wbe /\ t.status = si[b].status
    BY <2>2 DEF Marked
  <2>4. Changed(si', m, b)
    BY <1>5, <2>1, <2>3 DEF Changed
  <2>5. LinkOK(t) /\ (InGate(t) <=> InGate(si[b])) /\ Fresh(setup.persist, t)
    BY <1>0, <1>1, <1>5, <2>2, Mark
  <2>6. SameEntries(q'.present, q'.present)
    BY <1>5, GoodSame DEF Unmoved
  <2>7. StatusMatch(q', si')
    BY <1>5, <2>1, <2>3, <2>4, <2>6, MatchSame
  <2> QED BY <2>1, <2>4, <2>5, <2>7
<1>6. CASE /\ si[a].pc = "idle" /\ si[b].pc = "idle"
           /\ q' = syncinfo_free(syncinfo_free(q, a), b)
           /\ si' = [si EXCEPT ![a] = NoLink, ![b] = NoLink]
  <2> DEFINE w == syncinfo_free(q, a)
  <2>1. si' = [gone EXCEPT ![b] = NoLink]
    BY <1>6
  <2> HIDE DEF gone
  <2>2. si'[b] = NoLink /\ Changed(si', gone, b)
    BY <1>3, <2>1, Gone DEF Changed
  <2>3. QInv(w) /\ KeepsVotes(w, q) /\ (w.cache = 0 \/ w = q) /\ StatusMatch(w, gone)
        /\ w.running = q.running
    BY <1>4, <1>6 DEF Freed
  <2>4. q' = syncinfo_free(w, b)
    BY <1>6
  <2> HIDE DEF w
  <2>5. ~si'[b].wbe
    BY <2>2, Gone
  <2>6. Freed(q', w, si')
    BY <1>3, <2>2, <2>3, <2>4, <2>5, FreeOp
  <2>7. QInv(q') /\ KeepsVotes(q', w) /\ (q'.cache = 0 \/ q' = w) /\ StatusMatch(q', si')
        /\ q'.running = w.running
    BY <2>6 DEF Freed
  <2>8. KeepsVotes(q', q) /\ (q'.cache = 0 \/ q' = q) /\ q'.running = q.running
    BY <2>3, <2>7 DEF KeepsVotes
  <2>9. Good(q', q)
    BY <2>7, <2>8, FreedGood
  <2>10. ~InGate(si[b])
    BY <1>0, <1>1, <1>6, Mark
  <2>11. IInv'
    BY <1>1, <1>2, <1>3, <1>4, <1>6, <2>2, <2>7, <2>8, <2>9, <2>10, Gone, TwoMoved
  <2> QED BY <1>2, <2>9, <2>11
<1>7. CASE /\ si[a].pc = "idle" /\ si[b].pc # "idle" /\ q' = syncinfo_free(q, a)
           /\ si' = [si EXCEPT ![a] = NoLink, ![b].ctype = "deleted"]
  <2>1. si' = [gone EXCEPT ![b].ctype = "deleted"]
    BY <1>7
  <2> HIDE DEF gone
  <2>2. QInv(q') /\ KeepsVotes(q', q) /\ (q'.cache = 0 \/ q' = q) /\ StatusMatch(q', gone)
        /\ q'.running = q.running
    BY <1>4, <1>7 DEF Freed
  <2>3. Good(q', q)
    BY <2>2, FreedGood
  <2>4. "deleted" = (IF si[b].pc = "idle" THEN "leaked" ELSE "deleted")
        /\ "deleted" \in {"deleted", "leaked"}
    BY <1>7
  <2>5. /\ Changed(si', gone, b) /\ LinkOK(si'[b]) /\ Fresh(setup.persist, si'[b])
        /\ (InGate(si'[b]) <=> InGate(si[b])) /\ StatusMatch(q', si')
    BY <1>3, <1>5, <2>1, <2>2, <2>4
  <2>6. IInv'
    BY <1>1, <1>2, <1>3, <1>4, <1>7, <2>2, <2>3, <2>5, TwoMoved
  <2> QED BY <1>2, <2>3, <2>6
<1>8. CASE /\ si[a].pc # "idle" /\ q' = q
           /\ si' = [si EXCEPT ![a].ctype = "deleted",
                               ![b].ctype = IF si[b].pc = "idle" THEN "leaked" ELSE "deleted"]
  <2> DEFINE t == [si[a] EXCEPT !.ctype = "deleted"]
             m == [si EXCEPT ![a] = t]
             c == IF si[b].pc = "idle" THEN "leaked" ELSE "deleted"
  <2>1. si' = [m EXCEPT ![b].ctype = c]
    BY <1>8
  <2>2. Marked(t, si[a], "deleted")
    BY <1>0, <1>1, Mark
  <2> HIDE DEF t
  <2>3. t \in Syncinfo /\ t.wbe = si[a].wbe /\ t.status = si[a].status
    BY <2>2 DEF Marked
  <2>4. m[a] = t /\ Changed(m, si, a) /\ m[b] = si[b] /\ m \in [Links -> Syncinfo]
    BY <1>0, <1>1, <2>3 DEF Changed
  <2> HIDE DEF m
  <2>5. LinkOK(t) /\ (InGate(t) <=> InGate(si[a])) /\ Fresh(setup.persist, t)
    BY <1>0, <1>1, <1>8, <2>2, Mark
  <2>6. Good(q', q) /\ SameEntries(q'.present, q.present) /\ QInv(q') /\ q'.qt_status = q.qt_status
        /\ q'.running = q.running
    BY <1>0, <1>8, GoodSame DEF Unmoved
  <2>7. (m[a].wbe <=> si[a].wbe) /\ m[a].status = si[a].status
    BY <2>3, <2>4
  <2>8. StatusMatch(q', m)
    BY <1>0, <2>4, <2>6, <2>7, MatchSame
  <2>9. c \in {"deleted", "leaked"} /\ c = IF si[b].pc = "idle" THEN "leaked" ELSE "deleted"
    OBVIOUS
  <2> HIDE DEF c
  <2>10. /\ Changed(si', m, b) /\ LinkOK(si'[b]) /\ Fresh(setup.persist, si'[b])
         /\ (InGate(si'[b]) <=> InGate(si[b])) /\ StatusMatch(q', si')
    BY <1>5, <2>1, <2>4, <2>6, <2>8, <2>9
  <2>11. IInv'
    BY <1>1, <1>2, <2>4, <2>5, <2>6, <2>10, TwoMoved
  <2> QED BY <1>2, <2>6, <2>11
<1> QED BY <1>1, <1>6, <1>7, <1>8

-----------------------------------------------------------------------------
(* Steps that change the quorum and no link.                               *)

(* The links match the quorum after a step that moves none of them.        *)
LEMMA QuorumMoved ==
  ASSUME IInv, QInv(q'), Unmoved(q', q), UNCHANGED <<si, setup>>, slap_serverID' \in SidSet \cup {0}
  PROVE  IInv'
<1>1. StatusMatch(q, si) /\ GateMatch(q, si) /\ si \in [Links -> Syncinfo] /\ setup \in Setups
      /\ \A l \in Links : LinkOK(si[l]) /\ Fresh(setup.persist, si[l])
  BY DEF IInv
<1>2. StatusMatch(q', si)
  BY <1>1 DEF StatusMatch, Unmoved, SameEntries
<1>3. GateMatch(q', si)
  BY <1>1 DEF GateMatch, Unmoved
<1>4. si' = si /\ setup' = setup
  OBVIOUS
<1>5. StatusMatch(q', si') /\ GateMatch(q', si') /\ si' \in [Links -> Syncinfo] /\ setup' \in Setups
  BY <1>1, <1>2, <1>3, <1>4
<1>6. \A l \in Links : LinkOK(si'[l]) /\ Fresh(setup'.persist, si'[l])
  BY <1>1, <1>4
<1> QED BY <1>5, <1>6 DEF IInv

(* What a step does to the quorum: it is good, or deletes the line, or     *)
(* asks for the verdict, or forgets it, or ends the quorum.                *)
Step ==
  \/ UNCHANGED slap_serverID /\ (Good(q', q) \/ Cleared(q', q) \/ Asked(q', q, slap_serverID))
  \/ KeepsVotes(q', q) /\ (q.init => q'.cache = 0)
  \/ ~q'.init

(* A word of the quorum line, or the deletion of the line.                 *)
LEMMA ConfigStep ==
  ASSUME IInv, config_quorum, UNCHANGED setup
  PROVE  IInv' /\ Step
<1>0. QInv(q) /\ slap_serverID \in SidSet \cup {0} /\ setup \in Setups
  BY DEF IInv
<1>1. UNCHANGED <<slap_serverID, si, setup>>
  BY DEF config_quorum
<1>2. ASSUME NEW w \in setup.words,
             q' = CASE "flag" \in DOMAIN w    -> ConfigFlag(q, w.flag)
                    [] "require" \in DOMAIN w -> ConfigRequire(q, w.require)
                    [] OTHER                  -> ConfigLimit(q, w.limit)
      PROVE  Good(q', q) /\ Unmoved(q', q)
  <2>1. w \in [flag : {"ALL_LINKS", "AUTO_RIDS", "AUTO_SIDS"}] \cup [require : Requirement] \cup [limit : 1..15]
    BY <1>0, <1>2, ReplLinksAssumption
  <2>2. CASE w \in [flag : {"ALL_LINKS", "AUTO_RIDS", "AUTO_SIDS"}]
    <3>1. "flag" \in DOMAIN w /\ "require" \notin DOMAIN w /\ w.flag \in FlagSet
      BY SMT, <2>2 DEF FlagSet
    <3>2. q' = ConfigFlag(q, w.flag)
      BY <1>2, <3>1
    <3> QED BY <1>0, <3>1, <3>2, ConfigFlagOp
  <2>3. CASE w \in [require : Requirement]
    <3>1. "flag" \notin DOMAIN w /\ "require" \in DOMAIN w /\ w.require \in Requirement
      BY SMT, <2>3
    <3>2. q' = ConfigRequire(q, w.require)
      BY <1>2, <3>1
    <3> QED BY <1>0, <3>1, <3>2, ConfigRequireOp
  <2>4. CASE w \in [limit : 1..15]
    <3>1. "flag" \notin DOMAIN w /\ "require" \notin DOMAIN w /\ w.limit \in 1..15
      BY SMT, <2>4
    <3>2. q' = ConfigLimit(q, w.limit)
      BY <1>2, <3>1
    <3> QED BY <1>0, <3>1, <3>2, ConfigLimitOp
  <2> QED BY <2>1, <2>2, <2>3, <2>4
<1>3. CASE Good(q', q) /\ Unmoved(q', q)
  <2>1. IInv'
    BY <1>0, <1>1, <1>3, QuorumMoved DEF Good
  <2> QED BY <1>1, <1>3, <2>1 DEF Step
<1>4. CASE q' = ConfigDelete(q)
  <2>1. Cleared(q', q)
    BY <1>0, <1>4, DeleteOp
  <2>2. IInv'
    BY <1>0, <1>1, <2>1, QuorumMoved DEF Cleared
  <2> QED BY <1>1, <2>1, <2>2 DEF Step
<1> QED BY <1>2, <1>3, <1>4 DEF config_quorum

(* A new serverID: the verdict is forgotten.                               *)
LEMMA SelfSidStep ==
  ASSUME IInv, quorum_notify_self_sid, UNCHANGED setup
  PROVE  IInv' /\ Step
<1>0. QInv(q) /\ setup \in Setups /\ q.init \in BOOLEAN
  BY FieldTypes DEF IInv, QInv
<1>1. q' = InvalidateIf(q.init, q) /\ UNCHANGED <<si, setup>> /\ slap_serverID' \in setup.sids \cup {0}
  BY DEF quorum_notify_self_sid
<1>2. setup.sids \in SUBSET SidSet
  BY <1>0, ReplLinksAssumption
<1>3. slap_serverID' \in SidSet \cup {0}
  BY <1>1, <1>2
<1>4. CASE ~q.init
  <2>1. q' = q
    BY <1>1, <1>4 DEF InvalidateIf
  <2>2. QInv(q') /\ Unmoved(q', q) /\ KeepsVotes(q', q)
    BY <1>0, <2>1, GoodSame DEF Good
  <2>3. IInv'
    BY <1>1, <1>3, <2>2, QuorumMoved
  <2> QED BY <1>4, <2>2, <2>3 DEF Step
<1>5. CASE q.init
  <2>1. q' = quorum_invalidate(q)
    BY <1>1, <1>5 DEF InvalidateIf
  <2>2. QInv(q') /\ Invalidated(q', q)
    BY <1>0, <2>1, InvalidateInv
  <2>3. /\ q'.init = q.init /\ q'.cache = 0 /\ q'.present = q.present /\ q'.requirements = q.requirements
        /\ q'.qt_status = q.qt_status /\ q'.running = q.running
    BY <2>2 DEF Invalidated, Fields
  <2>4. SameEntries(q'.present, q.present)
    BY <1>0, <2>3, GoodSame DEF Unmoved
  <2>5. Unmoved(q', q) /\ KeepsVotes(q', q)
    BY <2>3, <2>4 DEF Unmoved, KeepsVotes
  <2>6. IInv'
    BY <1>1, <1>3, <2>2, <2>5, QuorumMoved
  <2> QED BY <2>3, <2>5, <2>6 DEF Step
<1> QED BY <1>0, <1>4, <1>5

(* No link has a status, or is inside the gate, when none is registered.   *)
LEMMA NobodyThere ==
  ASSUME Counting, NEW f, \A l \in Links : ~f[l].wbe /\ ~InGate(f[l])
  PROVE  /\ \A s \in Status : At(f, s) = {}
         /\ Inside(f) = {} /\ Cardinality({}) = 0
<1>1. \A s \in Status : At(f, s) = {}
  BY DEF At
<1>2. Inside(f) = {}
  BY DEF Inside
<1>3. Cardinality({}) = 0
  BY DEF Counting
<1> QED BY <1>1, <1>2, <1>3

(* A quorum without links matches when no link is registered.              *)
LEMMA EmptyMatch ==
  ASSUME Counting, NEW b, b.present = <<>>, b.running = 0, b.qt_status = [s \in Status |-> 0],
         NEW f, \A l \in Links : ~f[l].wbe /\ ~InGate(f[l])
  PROVE  StatusMatch(b, f) /\ GateMatch(b, f)
<1>1. DOMAIN b.present = {}
  BY SMT
<1>2. \A l \in Links, s \in Status : Entry(b.present, l, s) <=> f[l].wbe /\ f[l].status = s
  BY <1>1 DEF Entry
<1>3. \A s \in Status : b.qt_status[s] = 0
  OBVIOUS
<1>4. \A s \in Status : b.qt_status[s] = Cardinality(At(f, s))
  BY <1>3, NobodyThere
<1>5. GateMatch(b, f)
  BY NobodyThere DEF GateMatch
<1> QED BY <1>2, <1>4, <1>5 DEF StatusMatch

(* The database goes, when it has no link.                                 *)
LEMMA DestroyStep ==
  ASSUME Counting, IInv, DestroyDatabase, UNCHANGED setup
  PROVE  IInv' /\ Step
<1>0. QInv(q) /\ slap_serverID \in SidSet \cup {0} /\ setup \in Setups /\ si \in [Links -> Syncinfo]
      /\ \A l \in Links : LinkOK(si[l]) /\ Fresh(setup.persist, si[l])
  BY DEF IInv
<1>1. q' = quorum_be_destroy(q) /\ slap_serverID' = slap_serverID /\ si' = si /\ setup' = setup
      /\ \A l \in Links : si[l].ctype = "none"
  BY DEF DestroyDatabase
<1>2. Destroyed(q', q)
  BY <1>0, <1>1, DestroyOp
<1>3. QInv(q') /\ ~q'.init /\ q'.present = <<>> /\ q'.running = 0 /\ q'.qt_status = [s \in Status |-> 0]
  BY <1>2 DEF Destroyed
<1>4. \A l \in Links : ~si[l].wbe /\ ~InGate(si[l])
  BY <1>0, <1>1 DEF LinkOK, InGate
<1>5. StatusMatch(q', si) /\ GateMatch(q', si)
  BY <1>3, <1>4, EmptyMatch
<1>6. StatusMatch(q', si') /\ GateMatch(q', si')
  BY <1>1, <1>5
<1>7. /\ slap_serverID' \in SidSet \cup {0} /\ setup' \in Setups /\ si' \in [Links -> Syncinfo]
      /\ \A l \in Links : LinkOK(si'[l]) /\ Fresh(setup'.persist, si'[l])
  BY <1>0, <1>1
<1>8. IInv'
  BY <1>3, <1>6, <1>7 DEF IInv
<1> QED BY <1>3, <1>8 DEF Step

(* A client asks for the verdict or the status, or brings a CSN.           *)
LEMMA ClientStep ==
  ASSUME IInv, Client, UNCHANGED setup
  PROVE  IInv' /\ Step
<1>0. QInv(q) /\ slap_serverID \in SidSet \cup {0} /\ setup \in Setups
  BY DEF IInv
<1>1. UNCHANGED <<slap_serverID, si, setup>>
  BY DEF Client
<1>2. setup.sids \in SUBSET SidSet
  BY <1>0, ReplLinksAssumption
<1>3. CASE q' \in quorum_query(q, slap_serverID)
  <2>1. Asked(q', q, slap_serverID)
    BY <1>0, <1>3, QueryOp
  <2>2. IInv'
    BY <1>0, <1>1, <2>1, QuorumMoved DEF Asked
  <2> QED BY <1>1, <2>1, <2>2 DEF Step
<1>4. CASE q' = quorum_query_status(q) \/ \E sid \in setup.sids : q' = quorum_notify_csn(q, sid)
  <2>1. Good(q', q) /\ Unmoved(q', q)
    <3>1. CASE q' = quorum_query_status(q)
      BY <1>0, <3>1, StatusQueryOp
    <3>2. CASE \E sid \in setup.sids : q' = quorum_notify_csn(q, sid)
      <4>1. PICK sid \in setup.sids : q' = quorum_notify_csn(q, sid)
        BY <3>2
      <4>2. sid \in Nat
        BY <1>2, QuorumAssumption
      <4> QED BY <1>0, <4>1, <4>2, CsnOp
    <3> QED BY <1>4, <3>1, <3>2
  <2>2. IInv'
    BY <1>0, <1>1, <2>1, QuorumMoved DEF Good
  <2> QED BY <1>1, <2>1, <2>2 DEF Step
<1> QED BY <1>3, <1>4 DEF Client

-----------------------------------------------------------------------------
(* Every step.                                                             *)

(* The invariant holds before the first link.                              *)
LEMMA InitInv ==
  ASSUME Counting, Init
  PROVE  IInv
<1>1. q = NoQuorum /\ slap_serverID = 0 /\ si = [l \in Links |-> NoLink] /\ setup \in Setups
  BY DEF Init
<1>2. Fields(q, FALSE, 0, <<>>, {}, {}, 0, 0, [s \in Status |-> 0], -1)
  BY <1>1, NoQuorumFields
<1>3. /\ q \in QuorumRecord /\ ~q.init /\ q.present = <<>> /\ q.requirements = {} /\ q.flags = {}
      /\ q.limit = 0 /\ q.running = 0 /\ q.qt_status = [s \in Status |-> 0] /\ q.qt_left = -1
  BY <1>2 DEF Fields
<1>4. DOMAIN q.present = {}
  BY SMT, <1>3
<1>5. Keyed(q.present) /\ OneVote(q.requirements) /\ AutoVotes(q.present, q.requirements, q.flags)
  BY <1>3, <1>4 DEF Keyed, OneVote, AutoVotes
<1>6. Absent(q) /\ q.qt_left \in {-1, Backlog(q.qt_status)}
  BY <1>3 DEF Absent
<1>7. QInv(q)
  BY <1>3, <1>5, <1>6 DEF QInv
<1>8. si \in [Links -> Syncinfo] /\ \A l \in Links : si[l] = NoLink
  BY <1>1, Gone
<1>9. \A l \in Links : LinkOK(si[l]) /\ Fresh(setup.persist, si[l]) /\ ~si[l].wbe /\ ~InGate(si[l])
  BY <1>8, Gone
<1>10. StatusMatch(q, si) /\ GateMatch(q, si)
  BY <1>3, <1>9, EmptyMatch
<1> QED BY <1>1, <1>7, <1>8, <1>9, <1>10 DEF IInv

(* Every step keeps the invariant.                                         *)
LEMMA NextInv ==
  ASSUME Counting, IInv, Next
  PROVE  IInv' /\ Step
<1>1. UNCHANGED setup
  BY DEF Next
<1>2. ASSUME NEW l \in Links, Moved(l) PROVE IInv' /\ Step
  <2>1. IInv' /\ Good(q', q) /\ UNCHANGED slap_serverID
    BY <1>2, MovedInv DEF Moved
  <2> QED BY <2>1 DEF Step
<1>3. CASE \E l \in Links :
             \/ do_syncrepl(l) \/ ConnectFails(l) \/ syncrepl_start(l) \/ syncrepl_resync_begin(l)
             \/ syncrepl_process_search(l) \/ TakeMessage(l) \/ NoMessage(l) \/ syncrepl_process(l)
             \/ syncrepl_resync_end(l) \/ Leave(l) \/ add_syncrepl(l) \/ DeleteLink(l)
  <2>1. PICK l \in Links :
          \/ do_syncrepl(l) \/ ConnectFails(l) \/ syncrepl_start(l) \/ syncrepl_resync_begin(l)
          \/ syncrepl_process_search(l) \/ TakeMessage(l) \/ NoMessage(l) \/ syncrepl_process(l)
          \/ syncrepl_resync_end(l) \/ Leave(l) \/ add_syncrepl(l) \/ DeleteLink(l)
    BY <1>3
  <2>2. CASE do_syncrepl(l) \/ ConnectFails(l) \/ syncrepl_start(l) \/ syncrepl_resync_begin(l)
    BY <1>1, <1>2, <2>2, RunStep, ConnectFailsStep, StartStep, GateStep
  <2>3. CASE syncrepl_process_search(l) \/ TakeMessage(l) \/ NoMessage(l) \/ syncrepl_process(l)
    BY <1>1, <1>2, <2>3, SearchStep, MessageStep, NoMessageStep, ProcessStep
  <2>4. CASE syncrepl_resync_end(l) \/ Leave(l) \/ add_syncrepl(l) \/ DeleteLink(l)
    BY <1>1, <1>2, <2>4, EndStep, LeaveStep, AddStep, DeleteStep
  <2> QED BY <2>1, <2>2, <2>3, <2>4
<1>4. CASE DeleteLinks
  <2>1. IInv' /\ Good(q', q) /\ UNCHANGED slap_serverID
    BY <1>1, <1>4, DeleteAllStep
  <2> QED BY <2>1 DEF Step
<1>5. CASE config_quorum \/ quorum_notify_self_sid \/ DestroyDatabase \/ Client
  BY <1>1, <1>5, ConfigStep, SelfSidStep, DestroyStep, ClientStep
<1> QED BY <1>3, <1>4, <1>5 DEF Next

-----------------------------------------------------------------------------
(* What the invariant says of the counters.                                *)

(* What the counting uses of finite sets; FiniteSetFacts shows it at the   *)
(* end.                                                                    *)
Finiteness ==
  /\ \A n \in Nat : IsFiniteSet(1..n)
  /\ \A S : IsFiniteSet(S) => \A T \in SUBSET S : IsFiniteSet(T) /\ Cardinality(T) \in Nat
  /\ \A S, T : IsFiniteSet(S) =>
       \A F \in [S -> T] :
         (\A i, j \in S : F[i] = F[j] => i = j) /\ (\A x \in T : \E i \in S : F[i] = x) =>
           Cardinality(T) = Cardinality(S)
  /\ \A S, T : IsFiniteSet(S) /\ IsFiniteSet(T) /\ S \cap T = {} =>
       IsFiniteSet(S \cup T) /\ Cardinality(S \cup T) = Cardinality(S) + Cardinality(T)

(* The parts of a finite set are finite, and have a number.                *)
LEMMA FiniteParts ==
  ASSUME Finiteness, NEW S, IsFiniteSet(S), NEW T \in SUBSET S
  PROVE  IsFiniteSet(T) /\ Cardinality(T) \in Nat
BY DEF Finiteness

(* Sets that match one to one have the same number.                        *)
LEMMA OneToOne ==
  ASSUME Finiteness, NEW S, IsFiniteSet(S), NEW T, NEW F \in [S -> T],
         \A i, j \in S : F[i] = F[j] => i = j, \A x \in T : \E i \in S : F[i] = x
  PROVE  Cardinality(T) = Cardinality(S)
BY DEF Finiteness

(* Finite sets without common elements: their numbers add up.              *)
LEMMA Disjoint ==
  ASSUME Finiteness, NEW S, IsFiniteSet(S), NEW T, IsFiniteSet(T), S \cap T = {}
  PROVE  IsFiniteSet(S \cup T) /\ Cardinality(S \cup T) = Cardinality(S) + Cardinality(T)
BY DEF Finiteness

(* The places of a sequence are finitely many.                             *)
LEMMA FinitePlaces ==
  ASSUME Finiteness, NEW n \in Nat
  PROVE  IsFiniteSet(1..n)
BY DEF Finiteness

PlacesAt(p, s) == {i \in DOMAIN p : p[i].status = s}

(* The places of the array with a status are as many as the links with it. *)
LEMMA PlacesCount ==
  ASSUME Finiteness, IInv, NEW s \in Status
  PROVE  /\ IsFiniteSet(PlacesAt(q.present, s)) /\ Cardinality(PlacesAt(q.present, s)) \in Nat
         /\ q.qt_status[s] = Cardinality(PlacesAt(q.present, s))
<1> DEFINE p == q.present
           S == PlacesAt(p, s)
           T == At(si, s)
           F == [i \in S |-> p[i].key]
<1>1. /\ p \in Seq(Present) /\ Keyed(p) /\ StatusMatch(q, si)
  BY FieldTypes DEF IInv, QInv
<1>2. Len(p) \in Nat /\ DOMAIN p = 1..Len(p) /\ \A i \in DOMAIN p : p[i].key \in Links
  BY <1>1, PlaceTypes
<1>3. IsFiniteSet(1..Len(p))
  BY <1>2, FinitePlaces
<1>4. S \subseteq 1..Len(p)
  BY <1>2 DEF PlacesAt
<1>5. IsFiniteSet(S) /\ Cardinality(S) \in Nat
  BY <1>3, <1>4, FiniteParts
<1>6. \A l \in Links : (\E i \in DOMAIN p : p[i].key = l /\ p[i].status = s) <=> l \in T
  <2> SUFFICES ASSUME NEW l \in Links PROVE Entry(p, l, s) <=> l \in T
    BY DEF Entry
  <2>1. Entry(q.present, l, s) <=> (si[l].wbe /\ si[l].status = s)
    BY <1>1 DEF StatusMatch
  <2> QED BY <2>1 DEF At
<1>7. F \in [S -> T]
  BY <1>2, <1>6 DEF PlacesAt
<1>8. \A i, j \in S : F[i] = F[j] => i = j
  BY <1>1 DEF PlacesAt, Keyed
<1>9. \A l \in T : \E i \in S : F[i] = l
  <2> SUFFICES ASSUME NEW l \in T PROVE \E i \in S : F[i] = l
    OBVIOUS
  <2>1. l \in Links
    BY DEF At
  <2>2. PICK i \in DOMAIN p : p[i].key = l /\ p[i].status = s
    BY <1>6, <2>1
  <2>3. i \in S
    BY <2>2 DEF PlacesAt
  <2> QED BY <2>2, <2>3
<1> HIDE DEF F, T, S
<1>10. Cardinality(T) = Cardinality(S)
  BY <1>5, <1>7, <1>8, <1>9, OneToOne
<1>11. q.qt_status[s] = Cardinality(T)
  BY <1>1 DEF StatusMatch, T
<1> QED BY <1>5, <1>10, <1>11 DEF S

(* The number of links left is that of the places that are not ready.      *)
LEMMA BacklogCount ==
  ASSUME Finiteness, IInv
  PROVE  Backlog(q.qt_status) = Cardinality({i \in DOMAIN q.present : q.present[i].status # READY})
<1> DEFINE p == q.present
           S(s) == PlacesAt(p, s)
           A == S(DEAD) \cup S(DIRTY)
           B == A \cup S(REFRESH)
           C == B \cup S(PROCESS)
<1>1. \A s \in Status : IsFiniteSet(S(s)) /\ Cardinality(S(s)) \in Nat /\ q.qt_status[s] = Cardinality(S(s))
  BY PlacesCount
<1>2. DEAD \in Status /\ DIRTY \in Status /\ REFRESH \in Status /\ PROCESS \in Status /\ READY \in Status
  BY Statuses
<1>3. S(DEAD) \cap S(DIRTY) = {} /\ A \cap S(REFRESH) = {} /\ B \cap S(PROCESS) = {}
  BY Statuses DEF PlacesAt
<1>4. C = {i \in DOMAIN p : p[i].status # READY}
  <2>1. \A i \in DOMAIN p : p[i].status \in {DIRTY, DEAD, REFRESH, READY, PROCESS}
    BY FieldTypes, PlaceTypes, Statuses DEF IInv, QInv
  <2> QED BY <2>1, Statuses DEF PlacesAt
<1> HIDE DEF S
<1>5. IsFiniteSet(A) /\ Cardinality(A) = Cardinality(S(DEAD)) + Cardinality(S(DIRTY))
  BY <1>1, <1>2, <1>3, Disjoint
<1> HIDE DEF A
<1>6. IsFiniteSet(B) /\ Cardinality(B) = Cardinality(A) + Cardinality(S(REFRESH))
  BY <1>1, <1>2, <1>3, <1>5, Disjoint
<1> HIDE DEF B
<1>7. Cardinality(C) = Cardinality(B) + Cardinality(S(PROCESS))
  BY <1>1, <1>2, <1>3, <1>6, Disjoint
<1> HIDE DEF C
<1>8. Cardinality(C) = Cardinality(S(DEAD)) + Cardinality(S(DIRTY))
                       + Cardinality(S(REFRESH)) + Cardinality(S(PROCESS))
  BY <1>5, <1>6, <1>7
<1>9. Backlog(q.qt_status) = Cardinality(C)
  BY <1>1, <1>2, <1>8 DEF Backlog
<1> QED BY <1>4, <1>9

(* The invariant gives the types.                                          *)
LEMMA TypesFromInv ==
  ASSUME Finiteness, IInv
  PROVE  TypeOK
<1>1. q \in QuorumRecord /\ slap_serverID \in SidSet \cup {0} /\ si \in [Links -> Syncinfo]
      /\ GateMatch(q, si)
  BY DEF IInv, QInv
<1>2. q.cache \in {-1, 0, 1} /\ q.present \in Seq(Present)
      /\ q.requirements \subseteq Requirement /\ q.limit \in 0..15
      /\ q.qt_status \in [Status -> Int]
  BY <1>1, FieldTypes
<1>3. Inside(si) \in SUBSET Links
  BY DEF Inside
<1>4. Cardinality(Inside(si)) \in Nat
  BY <1>3, QuorumAssumption, FiniteParts
<1>5. q.running \in Nat
  BY <1>1, <1>4 DEF GateMatch
<1>6. \A s \in Status : q.qt_status[s] \in Nat
  BY PlacesCount
<1>7. q.qt_status \in [Status -> Nat]
  BY <1>2, <1>6
<1> QED BY <1>1, <1>2, <1>5, <1>7 DEF TypeOK

(* The counters agree with the links.                                      *)
LEMMA CountsFromInv ==
  ASSUME Finiteness, IInv
  PROVE  CountsMatch
<1>1. TypeOK
  BY TypesFromInv
<1>2. \A s \in Status :
        q.qt_status[s] = Cardinality({i \in DOMAIN q.present : q.present[i].status = s})
  BY PlacesCount DEF PlacesAt
<1>3. q.qt_left # -1 =>
        q.qt_left = Cardinality({i \in DOMAIN q.present : q.present[i].status # READY})
  BY BacklogCount DEF IInv, QInv
<1>4. \A i \in DOMAIN q.present :
        si[q.present[i].key].wbe => si[q.present[i].key].status = q.present[i].status
  <2> SUFFICES ASSUME NEW i \in DOMAIN q.present
               PROVE  si[q.present[i].key].status = q.present[i].status
    OBVIOUS
  <2>1. q.present[i].key \in Links /\ q.present[i].status \in Status
    BY FieldTypes, PlaceTypes DEF IInv, QInv
  <2>2. Entry(q.present, q.present[i].key, q.present[i].status)
    BY DEF Entry
  <2> QED BY <2>1, <2>2 DEF IInv, StatusMatch
<1>5. q.running = Cardinality({l \in Links : si[l].beg \/ si[l].pc = "admitted"})
  BY DEF IInv, GateMatch, Inside, InGate
<1> QED BY <1>1, <1>2, <1>3, <1>4, <1>5 DEF CountsMatch

(* The array holds the links that run.                                     *)
LEMMA RegisteredFromInv ==
  ASSUME IInv
  PROVE  RegisteredExactly
<1>0. /\ q \in QuorumRecord /\ Keyed(q.present) /\ OneVote(q.requirements) /\ q.present \in Seq(Present)
      /\ AutoVotes(q.present, q.requirements, q.flags) /\ StatusMatch(q, si)
      /\ si \in [Links -> Syncinfo] /\ \A l \in Links : LinkOK(si[l])
  BY FieldTypes DEF IInv, QInv
<1>1. \A l \in Links : si[l].wbe <=> IndexOf(q, l) # {}
  <2> SUFFICES ASSUME NEW l \in Links PROVE si[l].wbe <=> IndexOf(q, l) # {}
    OBVIOUS
  <2>1. si[l].status \in Status /\ si[l].wbe \in BOOLEAN
    BY <1>0, LinkTypes
  <2>2. si[l].wbe <=> Listed(q.present, l)
    BY <1>0, <2>1, EntryFacts DEF StatusMatch
  <2> QED BY <1>0, <2>2, Place
<1>2. \A i, j \in DOMAIN q.present : q.present[i].key = q.present[j].key => i = j
  BY <1>0 DEF Keyed
<1>3. \A l \in Links : si[l].ctype = "deleted" => si[l].pc # "idle"
  BY <1>0 DEF LinkOK
<1>4. \A r, s \in q.requirements : r.id = s.id /\ r.rid = s.rid => r = s
  BY <1>0 DEF OneVote
<1>5. "AUTO_RIDS" \in q.flags =>
        \A i \in DOMAIN q.present : \E r \in q.requirements : r.rid /\ r.id = q.present[i].rid
  <2> SUFFICES ASSUME "AUTO_RIDS" \in q.flags, NEW i \in DOMAIN q.present
               PROVE  HasRid(q.requirements, q.present[i].rid)
    BY DEF HasRid
  <2>1. q.present[i].key \in Links /\ q.present[i].rid = Rid[q.present[i].key]
    BY <1>0, PlaceTypes DEF Keyed
  <2>2. Listed(q.present, q.present[i].key)
    BY DEF Listed
  <2> QED BY <1>0, <2>1, <2>2 DEF AutoVotes
<1> QED BY <1>1, <1>2, <1>3, <1>4, <1>5 DEF RegisteredExactly

(* A step keeps what the configuration requires.                           *)
LEMMA KeptStep ==
  ASSUME Counting, IInv, Next, NEW r \in q.requirements, ~r.auto, q'.init, q'.requirements # {}
  PROVE  r \in q'.requirements
<1>1. Step
  BY NextInv
<1>2. CASE Good(q', q) \/ KeepsVotes(q', q)
  BY <1>2 DEF Good, KeepsVotes
<1>3. CASE Cleared(q', q)
  BY <1>3 DEF Cleared
<1>4. CASE Asked(q', q, slap_serverID)
  BY <1>4 DEF Asked
<1> QED BY <1>1, <1>2, <1>3, <1>4 DEF Step

(* A step keeps a right verdict right.                                     *)
LEMMA VerdictStep ==
  ASSUME Counting, IInv, Next, <<q', slap_serverID'>> # <<q, slap_serverID>>,
         q.init, q'.init, q'.cache # 0, q'.flags = q.flags,
         \A l \in Links : IndexOf(q', l) # {} => IndexOf(q, l) # {},
         q.cache # 0 => q.cache \in lazy_update(q, slap_serverID)
  PROVE  q'.cache \in lazy_update(q', slap_serverID')
<1>0. /\ q.init /\ q'.init /\ q'.cache # 0 /\ q'.flags = q.flags
      /\ (q.cache # 0 => q.cache \in lazy_update(q, slap_serverID))
      /\ <<q', slap_serverID'>> # <<q, slap_serverID>>
      /\ \A l \in Links : IndexOf(q', l) # {} => IndexOf(q, l) # {}
  OBVIOUS
<1>1. Step /\ IInv'
  BY NextInv
<1>2. QInv(q) /\ QInv(q')
  BY <1>1 DEF IInv
<1>3. ~\E l \in Links : Listed(q'.present, l) /\ ~Listed(q.present, l)
  BY <1>0, <1>2, Place DEF QInv
<1>4. CASE slap_serverID' = slap_serverID /\ Good(q', q)
  <2>1. q'.cache = q.cache /\ lazy_update(q', slap_serverID) = lazy_update(q, slap_serverID)
    BY <1>0, <1>3, <1>4 DEF Good, KeepsVerdict, SameVerdict
  <2>2. q.cache # 0
    BY <1>0, <2>1
  <2> QED BY <1>0, <1>4, <2>1, <2>2
<1>5. CASE slap_serverID' = slap_serverID /\ Cleared(q', q)
  <2>1. q' # q
    BY <1>0, <1>5
  <2>2. q'.requirements = {} /\ q'.flags = {}
    BY <1>5, <2>1 DEF Cleared
  <2>3. lazy_update(q', slap_serverID') = {1}
    BY <2>2, NothingRequired
  <2>4. CASE q.requirements # {}
    BY <1>5, <2>3, <2>4 DEF Cleared
  <2>5. CASE q.requirements = {}
    <3>1. lazy_update(q, slap_serverID) = {1}
      BY <1>0, <2>2, <2>5, NothingRequired
    <3>2. q'.cache = q.cache
      BY <1>5, <2>5 DEF Cleared
    <3>3. q.cache # 0
      BY <1>0, <3>2
    <3> QED BY <1>0, <2>3, <3>1, <3>2, <3>3
  <2> QED BY <2>4, <2>5
<1>6. CASE slap_serverID' = slap_serverID /\ Asked(q', q, slap_serverID)
  <2>1. q' # q
    BY <1>0, <1>6
  <2>2. q'.cache \in lazy_update(q, slap_serverID)
    BY <1>0, <1>6, <2>1 DEF Asked
  <2>3. SameBasis(q', q)
    BY <1>6, EqualBasis DEF Asked
  <2>4. lazy_update(q', slap_serverID) = lazy_update(q, slap_serverID)
    BY <2>3, BasisDecides
  <2> QED BY <1>6, <2>2, <2>4
<1> QED BY <1>0, <1>1, <1>4, <1>5, <1>6 DEF Step

-----------------------------------------------------------------------------
(* Finite sets.                                                            *)

(* The library's theorems speak of their own copy of Cardinality and       *)
(* IsFiniteSet; these are the ones of the definitions above.               *)
Count(S) == Cardinality(S)

Finite(S) == IsFiniteSet(S)

(* What counting a set is.                                                 *)
LEMMA CountIs ==
  \A S : Count(S) = LET CS[T \in SUBSET S] ==
                          IF T = {} THEN 0 ELSE 1 + CS[T \ {CHOOSE x : x \in T}]
                    IN  CS[S]
BY DEF Cardinality, Count

(* What being finite is.                                                   *)
LEMMA FiniteIs ==
  \A S : Finite(S) <=> \E seq \in Seq(S) : \A s \in S : \E n \in 1..Len(seq) : seq[n] = s
BY DEF IsFiniteSet, Finite

LOCAL INSTANCE FiniteSetTheorems

(* The two copies agree.                                                   *)
LEMMA SameCount == \A S : Count(S) = Cardinality(S) /\ (Finite(S) <=> IsFiniteSet(S))
<1>1. \A S : Count(S) = Cardinality(S)
  BY CountIs DEF Cardinality
<1>2. \A S : Finite(S) <=> IsFiniteSet(S)
  BY FiniteIs DEF IsFiniteSet
<1> QED BY <1>1, <1>2

(* The parts of a finite set are finite, and have a number.                *)
LEMMA LibraryFiniteParts ==
  ASSUME NEW S, Finite(S), NEW T \in SUBSET S
  PROVE  Finite(T) /\ Count(T) \in Nat
<1>1. IsFiniteSet(S)
  BY SameCount
<1>2. IsFiniteSet(T) /\ Cardinality(T) \in Nat
  BY <1>1, FS_Subset, FS_CardinalityType
<1> QED BY <1>2, SameCount

(* Sets that match one to one have the same number.                        *)
LEMMA LibraryOneToOne ==
  ASSUME NEW S, Finite(S), NEW T, NEW F \in [S -> T],
         \A i, j \in S : F[i] = F[j] => i = j, \A x \in T : \E i \in S : F[i] = x
  PROVE  Count(T) = Count(S)
<1>1. ExistsBijection(S, T)
  BY DEF ExistsBijection, Bijection, Injection, Surjection, IsInjective
<1>2. IsFiniteSet(S)
  BY SameCount
<1>3. Cardinality(T) = Cardinality(S)
  BY <1>1, <1>2, FS_Bijection
<1> QED BY <1>3, SameCount

(* Finite sets without common elements: their numbers add up.              *)
LEMMA LibraryDisjoint ==
  ASSUME NEW S, Finite(S), NEW T, Finite(T), S \cap T = {}
  PROVE  Finite(S \cup T) /\ Count(S \cup T) = Count(S) + Count(T)
<1>0. IsFiniteSet(S) /\ IsFiniteSet(T)
  BY SameCount
<1>1. /\ IsFiniteSet(S \cup T)
      /\ Cardinality(S \cup T) = Cardinality(S) + Cardinality(T) - Cardinality(S \cap T)
  BY <1>0, FS_Union
<1>2. Cardinality(S \cap T) = 0 /\ Cardinality(S) \in Nat /\ Cardinality(T) \in Nat
  BY <1>0, FS_EmptySet, FS_CardinalityType
<1>3. Cardinality(S \cup T) = Cardinality(S) + Cardinality(T)
  BY SMTT(60), <1>1, <1>2
<1> QED BY <1>1, <1>3, SameCount

(* The places of a sequence are finitely many.                             *)
LEMMA LibraryFinitePlaces ==
  ASSUME NEW n \in Nat
  PROVE  Finite(1..n)
<1>1. IsFiniteSet(1..n)
  BY SMTT(60), FS_Interval
<1> QED BY <1>1, SameCount

(* What the counting uses of finite sets holds.                            *)
LEMMA FiniteSetFacts == Finiteness
<1>1. \A n \in Nat : Finite(1..n)
  BY LibraryFinitePlaces
<1>2. \A S : Finite(S) => \A T \in SUBSET S : Finite(T) /\ Count(T) \in Nat
  BY LibraryFiniteParts
<1>3. \A S, T : Finite(S) =>
        \A F \in [S -> T] :
          (\A i, j \in S : F[i] = F[j] => i = j) /\ (\A x \in T : \E i \in S : F[i] = x) =>
            Count(T) = Count(S)
  BY LibraryOneToOne
<1>4. \A S, T : Finite(S) /\ Finite(T) /\ S \cap T = {} =>
        Finite(S \cup T) /\ Count(S \cup T) = Count(S) + Count(T)
  BY LibraryDisjoint
<1> QED BY <1>1, <1>2, <1>3, <1>4 DEF Finiteness, Finite, Count

(* The links are finitely many, so that their sets can be counted.         *)
LEMMA LinkSets == Counting
<1>1. ASSUME NEW S \in SUBSET Links, NEW l \in Links
      PROVE  /\ Count(S) \in Nat
             /\ l \notin S => Count(S \cup {l}) = Count(S) + 1
             /\ l \in S => Count(S \ {l}) = Count(S) - 1
  <2>1. Finite(Links)
    BY QuorumAssumption DEF Finite
  <2>2. Finite(S) /\ Count(S) \in Nat
    BY <2>1, LibraryFiniteParts
  <2>3. IsFiniteSet(S)
    BY <2>2, SameCount
  <2>4. Cardinality(S \cup {l}) = IF l \in S THEN Cardinality(S) ELSE Cardinality(S) + 1
    BY <2>3, FS_AddElement
  <2>5. Cardinality(S \ {l}) = IF l \in S THEN Cardinality(S) - 1 ELSE Cardinality(S)
    BY <2>3, FS_RemoveElement
  <2>6. l \notin S => Count(S \cup {l}) = Count(S) + 1
    BY <2>4, SameCount
  <2>7. l \in S => Count(S \ {l}) = Count(S) - 1
    BY <2>5, SameCount
  <2> QED BY <2>2, <2>6, <2>7
<1>2. Count({}) = 0
  BY FS_EmptySet, SameCount
<1> QED BY <1>1, <1>2 DEF Counting, Count

-----------------------------------------------------------------------------
(* The theorems.                                                           *)

(* The invariant holds in every state the links and the quorum reach.      *)
THEOREM LinksInvariant == Spec => []IInv
<1>1. IInv /\ [Next]_vars => IInv'
  <2> SUFFICES ASSUME IInv, [Next]_vars PROVE IInv'
    OBVIOUS
  <2>1. CASE Next
    BY <2>1, NextInv, LinkSets
  <2>2. CASE UNCHANGED vars
    <3>1. q' = q /\ slap_serverID' = slap_serverID /\ si' = si /\ setup' = setup
      BY <2>2 DEF vars, moving
    <3> QED BY <3>1 DEF IInv
  <2> QED BY <2>1, <2>2
<1>2. Init => IInv
  BY InitInv, LinkSets
<1> QED BY <1>1, <1>2, PTL DEF Spec

(* qt_status, qt_left, the entries of the quorum's array and the places    *)
(* taken in quorum_syncrepl_gate agree with the links, through every way a *)
(* link starts, fails, pauses, is deleted and comes back.                  *)
THEOREM CountersAgree == Spec => []CountsMatch
<1>1. IInv => CountsMatch
  BY CountsFromInv, FiniteSetFacts
<1> QED BY <1>1, LinksInvariant, PTL

(* A link is in the quorum's array exactly from quorum_add_rid in its      *)
(* first run to quorum_remove_rid at its end, once, and has its automatic  *)
(* vote; a link deleted while it runs is not left behind.                  *)
THEOREM EnrolledExactly == Spec => []RegisteredExactly
<1>1. IInv => RegisteredExactly
  BY RegisteredFromInv
<1> QED BY <1>1, LinksInvariant, PTL

(* syncrepl_notify_quorum reports a link of type refreshAndPersist as      *)
(* ready only when its refresh has ended.                                  *)
THEOREM ReadyIsRefreshed == Spec => []ReadyMeansRefreshed
<1>1. IInv => ReadyMeansRefreshed
  BY DEF IInv, Fresh, ReadyMeansRefreshed
<1> QED BY <1>1, LinksInvariant, PTL

(* What config_quorum was told to require stays required until the line is *)
(* deleted: require_remove only takes automatic votes away.                *)
THEOREM RequirementsKept == Spec => ExplicitKept
<1> DEFINE Kept == \A r \in q.requirements :
                     (~r.auto /\ q'.init /\ q'.requirements # {}) => r \in q'.requirements
<1>1. IInv /\ [Next]_vars => [Kept]_vars
  BY KeptStep, LinkSets
<1> QED BY <1>1, LinksInvariant, PTL DEF Spec, ExplicitKept

(* The cached verdict of lazy_update, if it is right, stays right or is    *)
(* forgotten (quorum_invalidate), through every step that neither          *)
(* registers a link nor changes a flag.                                    *)
THEOREM VerdictStaysRight == Spec => VerdictKept
<1> DEFINE Before == /\ <<q', slap_serverID'>> # <<q, slap_serverID>>
                     /\ q.init /\ q'.init /\ q'.cache # 0
                     /\ q'.flags = q.flags
                     /\ \A l \in Links : IndexOf(q', l) # {} => IndexOf(q, l) # {}
                     /\ q.cache # 0 => q.cache \in lazy_update(q, slap_serverID)
           Kept == Before => q'.cache \in lazy_update(q', slap_serverID')
<1>1. IInv /\ [Next]_vars => [Kept]_vars
  BY VerdictStep, LinkSets
<1> QED BY <1>1, LinksInvariant, PTL DEF Spec, VerdictKept

=============================================================================
