---------------------------- MODULE SchedProofs ----------------------------
(* Proofs about Sched, for any number of processes, priorities and slices. *)
EXTENDS Sched, SequenceTheorems, WellFoundedInduction, TLAPS

-----------------------------------------------------------------------------
(* Sequences and queues.                                                    *)

\* A nonempty set of naturals has a least element.
LEMMA MinNat ==
  ASSUME NEW T, T \subseteq Nat, T # {}
  PROVE  \E x \in T : \A y \in T : x <= y
<1>1. PICK x \in T : \A y \in T : ~(<<y, x>> \in OpToRel(<, Nat))
  BY WFMin, NatLessThanWellFounded
<1>2. \A y \in T : ~(y < x)
  BY <1>1 DEF OpToRel
<1>3. QED BY <1>2

\* What list_del leaves: one element fewer, the others in their order.
LEMMA DelAtProps ==
  ASSUME NEW S, NEW s \in Seq(S), NEW k \in DOMAIN s
  PROVE  /\ DelAt(s, k) \in Seq(S)
         /\ Len(DelAt(s, k)) = Len(s) - 1
         /\ DOMAIN DelAt(s, k) = 1 .. Len(s) - 1
         /\ \A i \in 1 .. Len(s) - 1 : DelAt(s, k)[i] = IF i < k THEN s[i] ELSE s[i + 1]
<1>1. Len(s) \in Nat /\ DOMAIN s = 1 .. Len(s) /\ \A i \in 1 .. Len(s) : s[i] \in S
  BY LenProperties, ElementOfSeq
<1>2. Len(s) - 1 \in Nat
  BY <1>1
<1>3. DelAt(s, k) \in [1 .. Len(s) - 1 -> S]
  BY <1>1, <1>2 DEF DelAt
<1>4. DelAt(s, k) \in Seq(S)
  BY <1>2, <1>3
<1>5. QED
  BY <1>1, <1>2, <1>3, <1>4, LenProperties DEF DelAt

\* The elements list_del leaves when nothing is listed twice.
LEMMA DelAtElems ==
  ASSUME NEW S, NEW s \in Seq(S), NEW k \in DOMAIN s,
         \A i, j \in DOMAIN s : s[i] = s[j] => i = j
  PROVE  /\ Elems(DelAt(s, k)) = Elems(s) \ {s[k]}
         /\ \A i, j \in DOMAIN DelAt(s, k) : DelAt(s, k)[i] = DelAt(s, k)[j] => i = j
<1> DEFINE t == DelAt(s, k)
<1>1. Len(s) \in Nat /\ DOMAIN s = 1 .. Len(s)
  BY LenProperties
<1>2. DOMAIN t = 1 .. Len(s) - 1
  BY DelAtProps
<1>3. \A i \in 1 .. Len(s) - 1 : t[i] = IF i < k THEN s[i] ELSE s[i + 1]
  BY DelAtProps
<1> HIDE DEF t
<1>4. \A i \in DOMAIN t : \E j \in DOMAIN s : j # k /\ t[i] = s[j]
  <2> TAKE i \in DOMAIN t
  <2>1. CASE i < k
    BY <1>1, <1>2, <1>3, <2>1
  <2>2. CASE ~(i < k)
    BY <1>1, <1>2, <1>3, <2>2
  <2>3. QED BY <2>1, <2>2
<1>5. \A j \in DOMAIN s : j # k => \E i \in DOMAIN t : t[i] = s[j]
  <2> TAKE j \in DOMAIN s
  <2>1. CASE j < k
    BY <1>1, <1>2, <1>3, <2>1
  <2>2. CASE j > k
    <3>1. j - 1 \in DOMAIN t /\ ~(j - 1 < k)
      BY <1>1, <1>2, <2>2
    <3>2. t[j - 1] = s[(j - 1) + 1]
      BY <1>2, <1>3, <3>1
    <3>3. (j - 1) + 1 = j
      BY <1>1
    <3>4. QED BY <3>1, <3>2, <3>3
  <2>3. QED BY <1>1, <2>1, <2>2
<1>6. \A i, j \in DOMAIN t : t[i] = t[j] => i = j
  <2> DEFINE old(i) == IF i < k THEN i ELSE i + 1
  <2> TAKE i, j \in DOMAIN t
  <2>1. old(i) \in DOMAIN s /\ old(j) \in DOMAIN s
    BY <1>1, <1>2
  <2>2. t[i] = s[old(i)] /\ t[j] = s[old(j)]
    BY <1>2, <1>3
  <2>3. i \in Int /\ j \in Int /\ k \in Int
    BY <1>1, <1>2
  <2>4. old(i) = old(j) => i = j
    BY <2>3
  <2> HIDE DEF old
  <2>5. QED BY <2>1, <2>2, <2>4
<1>7. Elems(t) = Elems(s) \ {s[k]}
  BY <1>4, <1>5 DEF Elems
<1>8. QED
  BY <1>6, <1>7 DEF t

-----------------------------------------------------------------------------
(* Queues.                                                                  *)

Queue == [list : Seq(Entry), bitmap : SUBSET Prio, n_procs : Int]

GoodQueue(Q) == Q \in Queue /\ NoneTwice(Q) /\ BitmapOf(Q)

\* A queue's members and bitmap are those of its entries.
LEMMA QueueEntries ==
  ASSUME NEW Q, GoodQueue(Q)
  PROVE  /\ Elems(Q.list) \subseteq Entry
         /\ Members(Q) = {e.proc : e \in Elems(Q.list)}
         /\ Q.bitmap = {e.prio : e \in Elems(Q.list)}
         /\ Members(Q) \subseteq Procs
<1>1. Q.list \in Seq(Entry)
  BY DEF GoodQueue, Queue
<1>2. \A i \in DOMAIN Q.list : Q.list[i] \in Entry
  BY <1>1, LenProperties, ElementOfSeq
<1>3. QED
  BY <1>2 DEF GoodQueue, BitmapOf, Members, Elems, Entry

\* add_proc_to_queue keeps a queue well formed and adds one entry.
LEMMA AddProps ==
  ASSUME NEW Q, GoodQueue(Q), NEW p \in Procs, NEW pr \in Prio, p \notin Members(Q)
  PROVE  LET R == add_proc_to_queue(Q, p, pr)
         IN  /\ GoodQueue(R)
             /\ Members(R) = Members(Q) \cup {p}
             /\ Elems(R.list) = Elems(Q.list) \cup {[proc |-> p, prio |-> pr]}
<1> DEFINE e == [proc |-> p, prio |-> pr]
           R == add_proc_to_queue(Q, p, pr)
           n == Len(Q.list)
<1>1. Q.list \in Seq(Entry) /\ Q.bitmap \in SUBSET Prio /\ Q.n_procs = n /\ n \in Nat
      /\ DOMAIN Q.list = 1 .. n
  BY LenProperties DEF GoodQueue, Queue, BitmapOf
<1>2. e \in Entry /\ e.proc = p /\ e.prio = pr
  BY DEF Entry
<1>3. R.list = Append(Q.list, e) /\ R.bitmap = Q.bitmap \cup {pr} /\ R.n_procs = n + 1
  BY <1>1 DEF add_proc_to_queue
<1>4. /\ R.list \in Seq(Entry) /\ Len(R.list) = n + 1
      /\ \A i \in 1 .. n : R.list[i] = Q.list[i]
      /\ R.list[n + 1] = e
  BY <1>1, <1>2, <1>3, AppendProperties
<1>5. DOMAIN R.list = 1 .. n + 1
  BY <1>4, LenProperties
<1>6. R \in Queue
  BY <1>1, <1>2, <1>4, <1>3 DEF Queue, add_proc_to_queue
<1> HIDE DEF R, e, n
<1>7. Elems(R.list) = Elems(Q.list) \cup {e}
  <2>1. DOMAIN R.list = DOMAIN Q.list \cup {n + 1}
    BY <1>1, <1>5
  <2>2. QED BY <1>1, <1>4, <2>1 DEF Elems
<1>8. Members(R) = Members(Q) \cup {p}
  <2>1. DOMAIN R.list = DOMAIN Q.list \cup {n + 1}
    BY <1>1, <1>5
  <2>2. QED BY <1>1, <1>2, <1>4, <2>1 DEF Members
<1>9. NoneTwice(R)
  <2> SUFFICES ASSUME NEW i \in 1 .. n + 1, NEW j \in 1 .. n + 1,
                      R.list[i].proc = R.list[j].proc
               PROVE  i = j
    BY <1>5 DEF NoneTwice
  <2>1. \A h \in 1 .. n : R.list[h].proc # p
    BY <1>1, <1>4 DEF Members
  <2>2. CASE i \in 1 .. n /\ j \in 1 .. n
    BY <1>1, <1>4, <2>2 DEF GoodQueue, NoneTwice
  <2>3. CASE i = n + 1
    BY <1>1, <1>2, <1>4, <2>1, <2>3
  <2>4. CASE j = n + 1
    BY <1>1, <1>2, <1>4, <2>1, <2>4
  <2>5. QED BY <1>1, <2>2, <2>3, <2>4
<1>10. BitmapOf(R)
  <2>1. R.bitmap = {R.list[i].prio : i \in DOMAIN R.list}
    <3>1. DOMAIN R.list = DOMAIN Q.list \cup {n + 1}
      BY <1>1, <1>5
    <3>2. Q.bitmap = {Q.list[i].prio : i \in DOMAIN Q.list}
      BY DEF GoodQueue, BitmapOf
    <3>3. QED BY <1>1, <1>2, <1>3, <1>4, <3>1, <3>2
  <2>2. QED BY <1>3, <1>4, <2>1 DEF BitmapOf
<1>11. QED
  BY <1>6, <1>7, <1>8, <1>9, <1>10 DEF GoodQueue, R, e

\* The elements of a concatenation are those of its parts, in their places.
LEMMA ConcatPlaces ==
  ASSUME NEW s \in Seq(Entry), NEW t \in Seq(Entry), NEW L, L = s \o t
  PROVE  /\ L \in Seq(Entry) /\ Len(L) = Len(s) + Len(t)
         /\ \A i \in DOMAIN s : i \in DOMAIN L /\ L[i] = s[i]
         /\ \A j \in DOMAIN t : /\ j + Len(s) \in DOMAIN L
                                /\ L[j + Len(s)] = t[j]
<1>1. /\ Len(s) \in Nat /\ DOMAIN s = 1 .. Len(s)
      /\ Len(t) \in Nat /\ DOMAIN t = 1 .. Len(t)
  BY LenProperties
<1>2. /\ L \in Seq(Entry) /\ Len(L) = Len(s) + Len(t)
      /\ \A i \in 1 .. Len(s) + Len(t) :
            L[i] = IF i <= Len(s) THEN s[i] ELSE t[i - Len(s)]
  BY ConcatProperties, Zenon
<1>3. DOMAIN L = 1 .. Len(s) + Len(t)
  BY <1>2, LenProperties
<1>4. \A i \in DOMAIN s : i \in DOMAIN L /\ L[i] = s[i]
  BY <1>1, <1>2, <1>3
<1>5. ASSUME NEW j \in DOMAIN t
      PROVE  j + Len(s) \in DOMAIN L /\ L[j + Len(s)] = t[j]
  <2>1. j + Len(s) \in 1 .. Len(s) + Len(t) /\ ~(j + Len(s) <= Len(s))
        /\ (j + Len(s)) - Len(s) = j
    BY <1>1
  <2>2. QED BY <1>2, <1>3, <2>1
<1>7. QED BY <1>2, <1>4, <1>5

Covers(L, s, t) ==
  \A i \in DOMAIN L : i \in DOMAIN s \/ \E j \in DOMAIN t : i = j + Len(s)

LEMMA ConcatCover ==
  ASSUME NEW s \in Seq(Entry), NEW t \in Seq(Entry), NEW L, L = s \o t
  PROVE  Covers(L, s, t)
<1>1. /\ Len(s) \in Nat /\ DOMAIN s = 1 .. Len(s)
      /\ Len(t) \in Nat /\ DOMAIN t = 1 .. Len(t)
  BY LenProperties
<1>2. L \in Seq(Entry) /\ Len(L) = Len(s) + Len(t)
  BY ConcatPlaces
<1>3. DOMAIN L = 1 .. Len(s) + Len(t)
  BY <1>2, LenProperties
<1>4. ASSUME NEW i \in DOMAIN L, ~(i \in DOMAIN s)
      PROVE  \E j \in DOMAIN t : i = j + Len(s)
  <2>1. i - Len(s) \in DOMAIN t /\ i = (i - Len(s)) + Len(s)
    BY <1>1, <1>3, <1>4
  <2>2. QED BY <2>1
<1>5. QED BY <1>4 DEF Covers

LEMMA ConcatElems ==
  ASSUME NEW s \in Seq(Entry), NEW t \in Seq(Entry), NEW L, L = s \o t
  PROVE  Elems(L) = Elems(s) \cup Elems(t)
<1>1. \A i \in DOMAIN s : i \in DOMAIN L /\ L[i] = s[i]
  BY ConcatPlaces
<1>2. \A j \in DOMAIN t : j + Len(s) \in DOMAIN L /\ L[j + Len(s)] = t[j]
  BY ConcatPlaces
<1>3. \A i \in DOMAIN L : i \in DOMAIN s \/ \E j \in DOMAIN t : i = j + Len(s)
  BY ConcatCover DEF Covers
<1>4. ASSUME NEW x PROVE x \in Elems(s) => x \in Elems(L)
  BY <1>1 DEF Elems
<1>5. ASSUME NEW x PROVE x \in Elems(t) => x \in Elems(L)
  BY <1>2 DEF Elems
<1>6. ASSUME NEW i \in DOMAIN L PROVE L[i] \in Elems(s) \cup Elems(t)
  <2>1. CASE i \in DOMAIN s
    BY <1>1, <2>1 DEF Elems
  <2>2. CASE i \notin DOMAIN s
    BY <1>2, <1>3, <2>2 DEF Elems
  <2>3. QED BY <2>1, <2>2
<1>7. ASSUME NEW x PROVE x \in Elems(L) => x \in Elems(s) \cup Elems(t)
  BY <1>6 DEF Elems
<1>8. QED BY <1>4, <1>5, <1>7

\* The loop of wakeup1 adds one entry per sleeper.
LEMMA AddsProps ==
  ASSUME NEW Q, GoodQueue(Q), NEW ps \in Seq(Procs), NEW pr \in [Procs -> Prio],
         \A i, j \in DOMAIN ps : ps[i] = ps[j] => i = j,
         Elems(ps) \cap Members(Q) = {}
  PROVE  LET R == add_procs_to_queue(Q, ps, pr)
         IN  /\ GoodQueue(R)
             /\ Members(R) = Members(Q) \cup Elems(ps)
             /\ Elems(R.list) = Elems(Q.list) \cup {[proc |-> p, prio |-> pr[p]] : p \in Elems(ps)}
<1> DEFINE R == add_procs_to_queue(Q, ps, pr)
<1>1. Q.list \in Seq(Entry) /\ Q.bitmap \in SUBSET Prio /\ Q.n_procs = Len(Q.list)
      /\ Len(Q.list) \in Nat /\ Q.bitmap = {Q.list[i].prio : i \in DOMAIN Q.list}
  BY LenProperties DEF GoodQueue, Queue, BitmapOf
<1>2. Len(ps) \in Nat /\ DOMAIN ps = 1 .. Len(ps) /\ \A i \in DOMAIN ps : ps[i] \in Procs
  BY LenProperties, ElementOfSeq
<1>3. PICK t : t = [i \in DOMAIN ps |-> [proc |-> ps[i], prio |-> pr[ps[i]]]]
  OBVIOUS
<1>4. t \in [1 .. Len(ps) -> Entry]
  BY <1>2, <1>3 DEF Entry
<1>5a. t \in Seq(Entry)
  BY <1>2, <1>4
<1>5. t \in Seq(Entry) /\ Len(t) = Len(ps) /\ DOMAIN t = DOMAIN ps
  BY <1>2, <1>4, LenProperties
<1>6. \A i \in DOMAIN t : t[i].proc = ps[i] /\ t[i].prio = pr[ps[i]]
                          /\ t[i] = [proc |-> ps[i], prio |-> pr[ps[i]]]
  BY <1>2, <1>3
<1>7. PICK L : L = Q.list \o t
  OBVIOUS
<1>8. R = [list |-> L, bitmap |-> Q.bitmap \cup {pr[ps[i]] : i \in DOMAIN ps},
           n_procs |-> Q.n_procs + Len(ps)]
  BY <1>3, <1>7 DEF add_procs_to_queue
<1>9. R.list = L /\ R.bitmap = Q.bitmap \cup {pr[ps[i]] : i \in DOMAIN ps}
      /\ R.n_procs = Q.n_procs + Len(ps)
  BY <1>8
<1> DEFINE q == Q.list
<1>q. q \in Seq(Entry) /\ L = q \o t
  BY <1>1, <1>7
<1> HIDE DEF q
<1>10a. L \in Seq(Entry) /\ Len(L) = Len(q) + Len(t)
  BY <1>5a, <1>q, ConcatPlaces
<1>10b. \A i \in DOMAIN q : i \in DOMAIN L /\ L[i] = q[i]
  BY <1>5a, <1>q, ConcatPlaces
<1>10c. \A j \in DOMAIN t : j + Len(q) \in DOMAIN L /\ L[j + Len(q)] = t[j]
  BY <1>5a, <1>q, ConcatPlaces
<1>10d. Covers(L, q, t)
  BY <1>5a, <1>q, ConcatCover
<1>10e. Elems(L) = Elems(q) \cup Elems(t)
  BY <1>5a, <1>q, ConcatElems
<1>10. /\ L \in Seq(Entry) /\ Len(L) = Len(Q.list) + Len(t)
       /\ \A i \in DOMAIN Q.list : i \in DOMAIN L /\ L[i] = Q.list[i]
       /\ \A j \in DOMAIN t : j + Len(Q.list) \in DOMAIN L /\ L[j + Len(Q.list)] = t[j]
       /\ \A i \in DOMAIN L : i \in DOMAIN Q.list \/ \E j \in DOMAIN t : i = j + Len(Q.list)
       /\ Elems(L) = Elems(Q.list) \cup Elems(t)
  BY <1>10a, <1>10b, <1>10c, <1>10d, <1>10e, Zenon DEF q, Covers
<1> HIDE DEF R
<1>11. R \in Queue
  <2>1. {pr[ps[i]] : i \in DOMAIN ps} \subseteq Prio
    BY <1>2
  <2>2. QED BY <1>1, <1>2, <1>8, <1>10, <2>1 DEF Queue
<1>12. Elems(L) = Elems(Q.list) \cup {[proc |-> p, prio |-> pr[p]] : p \in Elems(ps)}
  <2>1. Elems(L) = Elems(Q.list) \cup Elems(t)
    BY <1>10
  <2>2. Elems(t) = {[proc |-> p, prio |-> pr[p]] : p \in Elems(ps)}
    BY <1>5, <1>6 DEF Elems
  <2>3. QED BY <2>1, <2>2
<1>13. {L[i].proc : i \in DOMAIN L} = Members(Q) \cup Elems(ps)
  BY <1>5, <1>6, <1>10 DEF Members, Elems
<1>14. {L[i].prio : i \in DOMAIN L} = Q.bitmap \cup {pr[ps[i]] : i \in DOMAIN ps}
  BY <1>1, <1>5, <1>6, <1>10
<1>15. ASSUME NEW i \in DOMAIN L, NEW j \in DOMAIN L, L[i].proc = L[j].proc
       PROVE  i = j
  <2>1. \A h \in DOMAIN Q.list : L[h].proc \in Members(Q)
    BY <1>10 DEF Members
  <2>2. \A h \in DOMAIN t : L[h + Len(Q.list)].proc = ps[h] /\ ps[h] \in Elems(ps)
    BY <1>5, <1>6, <1>10 DEF Elems
  <2>3. CASE i \in DOMAIN Q.list /\ j \in DOMAIN Q.list
    BY <1>10, <1>15, <2>3 DEF GoodQueue, NoneTwice
  <2>4. CASE i \in DOMAIN Q.list /\ j \notin DOMAIN Q.list
    <3>1. PICK h \in DOMAIN t : j = h + Len(Q.list)
      BY <1>10, <2>4
    <3>2. L[j].proc \in Elems(ps)
      BY <2>2, <3>1
    <3>3. QED BY <1>15, <2>1, <2>4, <3>2
  <2>5. CASE i \notin DOMAIN Q.list /\ j \in DOMAIN Q.list
    <3>1. PICK h \in DOMAIN t : i = h + Len(Q.list)
      BY <1>10, <2>5
    <3>2. L[i].proc \in Elems(ps)
      BY <2>2, <3>1
    <3>3. QED BY <1>15, <2>1, <2>5, <3>2
  <2>6. CASE i \notin DOMAIN Q.list /\ j \notin DOMAIN Q.list
    <3>1. PICK h \in DOMAIN t : i = h + Len(Q.list)
      BY <1>10, <2>6
    <3>2. PICK l \in DOMAIN t : j = l + Len(Q.list)
      BY <1>10, <2>6
    <3>3. ps[h] = ps[l]
      BY <1>15, <2>2, <3>1, <3>2
    <3>4. h = l
      BY <1>5, <3>3
    <3>5. QED BY <3>1, <3>2, <3>4
  <2>7. QED BY <2>3, <2>4, <2>5, <2>6
<1>16. NoneTwice(R)
  BY <1>9, <1>15 DEF NoneTwice
<1>17. BitmapOf(R)
  <2>1. R.bitmap = {L[i].prio : i \in DOMAIN L}
    BY <1>9, <1>14
  <2>2. R.n_procs = Len(L)
    BY <1>1, <1>5, <1>9, <1>10
  <2>3. QED BY <1>9, <2>1, <2>2 DEF BitmapOf
<1>18. QED
  BY <1>9, <1>11, <1>12, <1>13, <1>16, <1>17 DEF GoodQueue, Members, R

\* del_proc_fron_queue, given p's priority, keeps a queue well formed and
\* removes p's entry.
LEMMA DelProps ==
  ASSUME NEW Q, GoodQueue(Q), NEW p \in Members(Q), NEW pr,
         \A e \in Elems(Q.list) : e.proc = p => e.prio = pr
  PROVE  LET R == del_proc_fron_queue(Q, p, pr)
         IN  /\ GoodQueue(R)
             /\ Members(R) = Members(Q) \ {p}
             /\ Elems(R.list) \subseteq Elems(Q.list)
<1> DEFINE R == del_proc_fron_queue(Q, p, pr)
           q == Q.list
<1>1. /\ q \in Seq(Entry) /\ Q.bitmap \in SUBSET Prio /\ Q.n_procs = Len(q)
      /\ Q.bitmap = {q[i].prio : i \in DOMAIN q}
  BY DEF GoodQueue, Queue, BitmapOf
<1>2. \A i, j \in DOMAIN q : q[i].proc = q[j].proc => i = j
  BY DEF GoodQueue, NoneTwice
<1>3. PICK k : k = CHOOSE i \in DOMAIN q : q[i].proc = p
  OBVIOUS
<1>4. k \in DOMAIN q /\ q[k].proc = p
  <2>1. \E i \in DOMAIN q : q[i].proc = p
    BY DEF Members
  <2>2. QED BY <1>3, <2>1
<1>5. PICK l : l = DelAt(q, k)
  OBVIOUS
<1>6. R = [list |-> l, bitmap |-> IF \E i \in DOMAIN l : l[i].prio = pr
                                 THEN Q.bitmap ELSE Q.bitmap \ {pr},
           n_procs |-> Q.n_procs - 1]
  BY <1>3, <1>5 DEF del_proc_fron_queue
<1>7. \A i \in DOMAIN q : q[i].prio = pr \/ i # k
  BY <1>4 DEF Elems
<1>8. Members(Q) = {q[i].proc : i \in DOMAIN q}
  BY DEF Members
<1> HIDE DEF q, R
<1>9. \A i, j \in DOMAIN q : q[i] = q[j] => i = j
  BY <1>2
<1>10. l \in Seq(Entry) /\ Len(l) = Len(q) - 1
  BY <1>1, <1>4, <1>5, DelAtProps
<1>11. Elems(l) = Elems(q) \ {q[k]}
  BY <1>1, <1>4, <1>5, <1>9, DelAtElems
<1>12. \A i, j \in DOMAIN l : l[i] = l[j] => i = j
  BY <1>1, <1>4, <1>5, <1>9, DelAtElems
<1>13. \A i \in DOMAIN l : \E j \in DOMAIN q : j # k /\ l[i] = q[j]
  BY <1>11 DEF Elems
<1>14. \A j \in DOMAIN q : j # k => \E i \in DOMAIN l : l[i] = q[j]
  BY <1>4, <1>9, <1>11 DEF Elems
<1>15. {l[i].proc : i \in DOMAIN l} = Members(Q) \ {p}
  BY <1>2, <1>4, <1>8, <1>13, <1>14
<1>16. \A i, j \in DOMAIN l : l[i].proc = l[j].proc => i = j
  BY <1>2, <1>12, <1>13
<1>17. (IF \E i \in DOMAIN l : l[i].prio = pr THEN Q.bitmap ELSE Q.bitmap \ {pr})
       = {l[i].prio : i \in DOMAIN l}
  <2>1. CASE \E i \in DOMAIN l : l[i].prio = pr
    BY <1>1, <1>4, <1>7, <1>13, <1>14, <2>1
  <2>2. CASE ~ \E i \in DOMAIN l : l[i].prio = pr
    BY <1>1, <1>4, <1>7, <1>13, <1>14, <2>2
  <2>3. QED BY <2>1, <2>2
<1>18. R = [list |-> l, bitmap |-> {l[i].prio : i \in DOMAIN l}, n_procs |-> Q.n_procs - 1]
  BY <1>6, <1>17
<1>19. {l[i].prio : i \in DOMAIN l} \subseteq Prio
  BY <1>1, <1>13
<1>20. Len(q) \in Nat
  BY <1>1, LenProperties
<1>21. R \in Queue
  BY <1>1, <1>10, <1>18, <1>19, <1>20 DEF Queue
<1>22. R.list = l /\ R.bitmap = {l[i].prio : i \in DOMAIN l} /\ R.n_procs = Len(l)
  BY <1>1, <1>10, <1>18, <1>20
<1>23. BitmapOf(R)
  BY <1>22 DEF BitmapOf
<1>24. NoneTwice(R)
  BY <1>16, <1>22 DEF NoneTwice
<1>25. Members(R) = Members(Q) \ {p}
  BY <1>15, <1>22 DEF Members
<1>26. Elems(R.list) \subseteq Elems(q)
  BY <1>11, <1>22
<1>27. QED
  BY <1>21, <1>23, <1>24, <1>25, <1>26 DEF GoodQueue, R, q

\* A set bit leads to a queued process of the best priority.
LEMMA FirstProps ==
  ASSUME NEW Q, GoodQueue(Q), Q.bitmap # {}
  PROVE  FirstOf(Q, find_first_set(Q)) \in Members(Q)
<1> DEFINE b == find_first_set(Q)
           T == {i \in DOMAIN Q.list : Q.list[i].prio = b}
<1>1. Q.bitmap \in SUBSET Prio /\ Q.list \in Seq(Entry)
      /\ Q.bitmap = {Q.list[i].prio : i \in DOMAIN Q.list}
  BY DEF GoodQueue, Queue, BitmapOf
<1>2. Prio \subseteq Nat
  BY SliceAssumption DEF Prio
<1>3. \E x \in Q.bitmap : \A y \in Q.bitmap : x <= y
  BY <1>1, <1>2, MinNat
<1>4. b \in Q.bitmap
  BY <1>3 DEF find_first_set
<1> HIDE DEF b
<1>5. T # {} /\ T \subseteq Nat
  BY <1>1, <1>4, LenProperties
<1>6. PICK x \in T : \A y \in T : x <= y
  BY <1>5, MinNat
<1>7. /\ x \in DOMAIN Q.list /\ Q.list[x].prio = b
      /\ \A j \in DOMAIN Q.list : j < x => Q.list[j].prio # b
  BY <1>5, <1>6
<1>8. PICK k \in DOMAIN Q.list : FirstOf(Q, b) = Q.list[k].proc
  BY <1>7 DEF FirstOf
<1>9. QED
  BY <1>8 DEF Members, b

-----------------------------------------------------------------------------
(* Priorities and slices.                                                   *)

\* recalculate_priority clamps.
LEMMA PrioRange ==
  ASSUME NEW prio \in Prio, NEW t \in Nat
  PROVE  recalculate_priority(prio, t) \in Prio
<1>1. CURRENT_BONUS(t) \in Int
  <2>1. (t * MAX_BONUS) \in Int
    BY SliceAssumption
  <2>2. ((t * MAX_BONUS) % WORD) \in Int
    BY <2>1, SliceAssumption
  <2>3. QED BY <2>2, SliceAssumption DEF CURRENT_BONUS
<1>2. PICK b \in Int : b = CURRENT_BONUS(t) - MAX_BONUS \div 2
  BY <1>1, SliceAssumption
<1>3. prio - b \in Int /\ N_PRIORITY \in Nat /\ N_PRIORITY >= 2
  BY SliceAssumption DEF Prio
<1>4. QED
  BY <1>2, <1>3 DEF recalculate_priority, Prio

\* Half of a fresh slice is not empty, thanks to MIN_TIMESLICE.
LEMMA HalfSlice ==
  ASSUME NEW prio \in Prio
  PROVE  task_timeslice(prio) \div 2 \in Nat /\ task_timeslice(prio) \div 2 > 0
<1>1. ASSUME NEW x \in Nat
      PROVE  SCALE_PRIO(x, prio) \in Nat /\ SCALE_PRIO(x, prio) >= 2
  <2>1. (N_PRIORITY \div 2) \in Nat /\ N_PRIORITY \div 2 > 0
    BY SliceAssumption
  <2>2. N_PRIORITY - prio \in Int
    BY SliceAssumption DEF Prio
  <2>3. x * (N_PRIORITY - prio) \in Int
    BY <2>2
  <2>4. PICK s \in Int : s = (x * (N_PRIORITY - prio)) \div (N_PRIORITY \div 2)
    BY <2>1, <2>3
  <2>5. QED BY <2>4, SliceAssumption DEF SCALE_PRIO
<1>2. DEFAULT_TIMESLICE \in Nat /\ DEFAULT_TIMESLICE * HIGH_SCALE \in Nat
  BY SliceAssumption
<1>3. task_timeslice(prio) \in Nat /\ task_timeslice(prio) >= 2
  BY <1>1, <1>2 DEF task_timeslice
<1>4. QED BY <1>3

-----------------------------------------------------------------------------
(* The queues, the wait lists and the fields of the processes together.     *)

\* Queues, proc_queue and priorities: what QueuesMatchProcs and BitmapExact say.
QOK(Qs, pq, prio) ==
  /\ Qs \in [1 .. 2 -> Queue] /\ pq \in [Procs -> 0 .. 2] /\ prio \in [Procs -> Prio]
  /\ \A k \in 1 .. 2 :
        /\ GoodQueue(Qs[k])
        /\ \A p \in Procs : p \in Members(Qs[k]) <=> pq[p] = k
        /\ \A e \in Elems(Qs[k].list) : e.prio = prio[e.proc]

LEMMA QPriority ==
  ASSUME NEW Qs, NEW pq, NEW prio, QOK(Qs, pq, prio),
         NEW p \in Procs, pq[p] = 0, NEW pr \in Prio
  PROVE  QOK(Qs, pq, [prio EXCEPT ![p] = pr])
<1> DEFINE prio2 == [prio EXCEPT ![p] = pr]
<1>1. prio2 \in [Procs -> Prio] /\ \A r \in Procs : r # p => prio2[r] = prio[r]
  BY DEF QOK
<1>2. ASSUME NEW k \in 1 .. 2, NEW e \in Elems(Qs[k].list)
      PROVE  e.prio = prio2[e.proc]
  <2>1. GoodQueue(Qs[k]) /\ p \notin Members(Qs[k]) /\ e.prio = prio[e.proc]
    BY DEF QOK
  <2>2. e.proc \in Members(Qs[k]) /\ Members(Qs[k]) \subseteq Procs
    BY <2>1, QueueEntries
  <2>3. QED BY <1>1, <2>1, <2>2
<1> HIDE DEF prio2
<1>3. QOK(Qs, pq, prio2)
  BY <1>1, <1>2 DEF QOK
<1>4. QED BY <1>3 DEF prio2

LEMMA QDelete ==
  ASSUME NEW Qs, NEW pq, NEW prio, QOK(Qs, pq, prio),
         NEW p \in Procs, NEW k \in 1 .. 2, pq[p] = k
  PROVE  QOK([Qs EXCEPT ![k] = del_proc_fron_queue(@, p, prio[p])],
             [pq EXCEPT ![p] = 0], prio)
<1> DEFINE Q == Qs[k]
           R == del_proc_fron_queue(Q, p, prio[p])
           Rs == [Qs EXCEPT ![k] = R]
           pq2 == [pq EXCEPT ![p] = 0]
<1>1. GoodQueue(Q) /\ p \in Members(Q) /\ \A e \in Elems(Q.list) : e.prio = prio[e.proc]
  BY DEF QOK
<1>2. \A e \in Elems(Q.list) : e.proc = p => e.prio = prio[p]
  BY <1>1
<1> HIDE DEF Q
<1>3. /\ GoodQueue(R)
      /\ Members(R) = Members(Q) \ {p}
      /\ Elems(R.list) \subseteq Elems(Q.list)
  BY <1>1, <1>2, DelProps
<1> HIDE DEF R
<1>4. R \in Queue
  BY <1>3 DEF GoodQueue
<1>5. /\ Rs \in [1 .. 2 -> Queue] /\ pq2 \in [Procs -> 0 .. 2] /\ prio \in [Procs -> Prio]
      /\ Rs[k] = R /\ \A h \in 1 .. 2 : h # k => Rs[h] = Qs[h]
      /\ pq2[p] = 0 /\ \A r \in Procs : r # p => pq2[r] = pq[r]
  BY <1>4 DEF QOK
<1> HIDE DEF Rs, pq2
<1>6. ASSUME NEW h \in 1 .. 2
      PROVE  /\ GoodQueue(Rs[h])
             /\ \A r \in Procs : r \in Members(Rs[h]) <=> pq2[r] = h
             /\ \A e \in Elems(Rs[h].list) : e.prio = prio[e.proc]
  <2>1. CASE h = k
    BY <1>1, <1>3, <1>5, <2>1 DEF QOK, Q
  <2>2. CASE h # k
    BY <1>5, <2>2 DEF QOK
  <2>3. QED BY <2>1, <2>2
<1>7. QOK(Rs, pq2, prio)
  BY <1>5, <1>6 DEF QOK
<1>8. QED BY <1>7 DEF Rs, R, Q, pq2

LEMMA QAdd ==
  ASSUME NEW Qs, NEW pq, NEW prio, QOK(Qs, pq, prio),
         NEW p \in Procs, pq[p] = 0, NEW k \in 1 .. 2
  PROVE  QOK([Qs EXCEPT ![k] = add_proc_to_queue(@, p, prio[p])],
             [pq EXCEPT ![p] = k], prio)
<1> DEFINE Q == Qs[k]
           R == add_proc_to_queue(Q, p, prio[p])
           Rs == [Qs EXCEPT ![k] = R]
           pq2 == [pq EXCEPT ![p] = k]
<1>1. /\ GoodQueue(Q) /\ p \notin Members(Q) /\ prio[p] \in Prio
      /\ \A e \in Elems(Q.list) : e.prio = prio[e.proc]
  BY DEF QOK
<1> HIDE DEF Q
<1>3. /\ GoodQueue(R)
      /\ Members(R) = Members(Q) \cup {p}
      /\ Elems(R.list) = Elems(Q.list) \cup {[proc |-> p, prio |-> prio[p]]}
  BY <1>1, AddProps
<1> HIDE DEF R
<1>4. R \in Queue
  BY <1>3 DEF GoodQueue
<1>5. /\ Rs \in [1 .. 2 -> Queue] /\ pq2 \in [Procs -> 0 .. 2] /\ prio \in [Procs -> Prio]
      /\ Rs[k] = R /\ \A h \in 1 .. 2 : h # k => Rs[h] = Qs[h]
      /\ pq2[p] = k /\ \A r \in Procs : r # p => pq2[r] = pq[r]
  BY <1>4 DEF QOK
<1> HIDE DEF Rs, pq2
<1>6. ASSUME NEW h \in 1 .. 2
      PROVE  /\ GoodQueue(Rs[h])
             /\ \A r \in Procs : r \in Members(Rs[h]) <=> pq2[r] = h
             /\ \A e \in Elems(Rs[h].list) : e.prio = prio[e.proc]
  <2>1. CASE h = k
    BY <1>1, <1>3, <1>5, <2>1 DEF QOK, Q
  <2>2. CASE h # k
    BY <1>5, <2>2 DEF QOK
  <2>3. QED BY <2>1, <2>2
<1>7. QOK(Rs, pq2, prio)
  BY <1>5, <1>6 DEF QOK
<1>8. QED BY <1>7 DEF Rs, R, Q, pq2

\* wakeup1 on the list ps, with the priorities it computes.
LEMMA QAdds ==
  ASSUME NEW Qs, NEW pq, NEW prio, QOK(Qs, pq, prio), NEW k \in 1 .. 2,
         NEW ps \in Seq(Procs), OnceOnly(ps), \A p \in Elems(ps) : pq[p] = 0,
         NEW pr \in [Procs -> Prio], \A p \in Procs \ Elems(ps) : pr[p] = prio[p]
  PROVE  QOK([Qs EXCEPT ![k] = add_procs_to_queue(@, ps, pr)],
             [p \in Procs |-> IF p \in Elems(ps) THEN k ELSE pq[p]], pr)
<1> DEFINE Q == Qs[k]
           R == add_procs_to_queue(Q, ps, pr)
           Rs == [Qs EXCEPT ![k] = R]
           pq2 == [p \in Procs |-> IF p \in Elems(ps) THEN k ELSE pq[p]]
<1>0. Elems(ps) \subseteq Procs
  BY LenProperties, ElementOfSeq DEF Elems
<1>1. /\ GoodQueue(Q) /\ Elems(ps) \cap Members(Q) = {}
      /\ \A e \in Elems(Q.list) : e.prio = prio[e.proc]
  BY <1>0 DEF QOK
<1>2. \A i, j \in DOMAIN ps : ps[i] = ps[j] => i = j
  BY DEF OnceOnly
<1> HIDE DEF Q
<1>3. /\ GoodQueue(R)
      /\ Members(R) = Members(Q) \cup Elems(ps)
      /\ Elems(R.list) = Elems(Q.list) \cup {[proc |-> p, prio |-> pr[p]] : p \in Elems(ps)}
  BY <1>1, <1>2, AddsProps
<1> HIDE DEF R
<1>4. R \in Queue
  BY <1>3 DEF GoodQueue
<1>5. /\ Rs \in [1 .. 2 -> Queue] /\ pq2 \in [Procs -> 0 .. 2]
      /\ Rs[k] = R /\ \A h \in 1 .. 2 : h # k => Rs[h] = Qs[h]
      /\ \A r \in Procs : pq2[r] = IF r \in Elems(ps) THEN k ELSE pq[r]
  BY <1>4 DEF QOK
<1> HIDE DEF Rs, pq2
<1>6. ASSUME NEW h \in 1 .. 2, NEW e \in Elems(Qs[h].list)
      PROVE  e.prio = pr[e.proc]
  <2>1. GoodQueue(Qs[h]) /\ e.prio = prio[e.proc]
        /\ \A r \in Procs : r \in Members(Qs[h]) <=> pq[r] = h
    BY DEF QOK
  <2>2. e.proc \in Members(Qs[h]) /\ Members(Qs[h]) \subseteq Procs
    BY <2>1, QueueEntries
  <2>3. e.proc \notin Elems(ps)
    BY <2>1, <2>2
  <2>4. QED BY <2>1, <2>2, <2>3
<1>7. ASSUME NEW h \in 1 .. 2
      PROVE  /\ GoodQueue(Rs[h])
             /\ \A r \in Procs : r \in Members(Rs[h]) <=> pq2[r] = h
             /\ \A e \in Elems(Rs[h].list) : e.prio = pr[e.proc]
  <2>1. CASE h = k
    <3>1. Rs[h] = R /\ Q = Qs[h]
      BY <1>5, <2>1 DEF Q
    <3>2. \A r \in Procs : r \in Members(Q) <=> pq[r] = h
      BY <3>1 DEF QOK
    <3>3. \A e \in Elems(R.list) : e.prio = pr[e.proc]
      BY <1>3, <1>6, <3>1
    <3>4. \A r \in Procs : r \in Members(R) <=> pq2[r] = h
      BY <1>3, <1>5, <2>1, <3>2
    <3>5. QED BY <1>3, <3>1, <3>3, <3>4
  <2>2. CASE h # k
    <3>1. Rs[h] = Qs[h] /\ GoodQueue(Qs[h])
          /\ \A r \in Procs : r \in Members(Qs[h]) <=> pq[r] = h
      BY <1>5, <2>2 DEF QOK
    <3>2. ASSUME NEW r \in Procs PROVE r \in Members(Qs[h]) <=> pq2[r] = h
      <4>1. CASE r \in Elems(ps)
        <5>1. pq2[r] = k /\ pq[r] = 0
          BY <1>5, <4>1
        <5>2. QED BY <2>2, <3>1, <5>1
      <4>2. CASE r \notin Elems(ps)
        BY <1>5, <3>1, <4>2
      <4>3. QED BY <4>1, <4>2
    <3>3. QED BY <1>6, <3>1, <3>2
  <2>3. QED BY <2>1, <2>2
<1>8. QOK(Rs, pq2, pr)
  BY <1>5, <1>7 DEF QOK
<1>9. QED BY <1>8 DEF Rs, R, Q, pq2

\* The wait lists and the statuses: what KindsListMatchesStatus and
\* SleepAloneIsOwn say of them.
SOK(sl, st) ==
  /\ sl \in [Chan -> Seq(Procs)] /\ st \in [Procs -> Status]
  /\ \A p \in Procs : st[p] = "SLEEPING" <=> \E c \in Chan : p \in Elems(sl[c])
  /\ \A c \in Chan : OnceOnly(sl[c])
  /\ \A c, d \in Chan : \A p \in Procs : p \in Elems(sl[c]) /\ p \in Elems(sl[d]) => c = d
  /\ \A p, r \in Procs : r \in Elems(sl[Alone(p)]) => r = p

\* The wait lists are different lists.
LEMMA ChanFacts ==
  /\ Slk \in Chan
  /\ \A p \in Procs : Alone(p) \in Chan /\ Buf(p) \in Chan /\ Alone(p) # Slk
  /\ \A p, r \in Procs : Alone(p) # Buf(r) /\ (Alone(p) = Alone(r) => p = r)
  BY ProcsAssumption DEF Chan, Alone, Buf, Slk

LEMMA EmptyList == Elems(<<>>) = {} /\ OnceOnly(<<>>) /\ <<>> \in Seq(Procs)
  BY DEF Elems, OnceOnly

LEMMA AppendList ==
  ASSUME NEW s \in Seq(Procs), NEW p \in Procs, OnceOnly(s), p \notin Elems(s)
  PROVE  /\ Append(s, p) \in Seq(Procs)
         /\ Elems(Append(s, p)) = Elems(s) \cup {p}
         /\ OnceOnly(Append(s, p))
<1> DEFINE n == Len(s)
           t == Append(s, p)
<1>1. n \in Nat /\ DOMAIN s = 1 .. n
  BY LenProperties
<1>2. /\ t \in Seq(Procs) /\ Len(t) = n + 1
      /\ \A i \in 1 .. n : t[i] = s[i]
      /\ t[n + 1] = p
  BY AppendProperties
<1>3. DOMAIN t = 1 .. n + 1
  BY <1>2, LenProperties
<1>4. DOMAIN t = DOMAIN s \cup {n + 1}
  BY <1>1, <1>3
<1> HIDE DEF n, t
<1>5. Elems(t) = Elems(s) \cup {p}
  BY <1>1, <1>2, <1>4 DEF Elems
<1>6. \A i \in DOMAIN s : t[i] = s[i] /\ s[i] # p
  BY <1>1, <1>2 DEF Elems
<1>7. OnceOnly(t)
  BY <1>2, <1>4, <1>6 DEF OnceOnly
<1>8. QED BY <1>2, <1>5, <1>7 DEF t

LEMMA WithoutList ==
  ASSUME NEW s \in Seq(Procs), NEW p \in Procs, OnceOnly(s)
  PROVE  /\ Without(s, p) \in Seq(Procs)
         /\ Elems(Without(s, p)) = Elems(s) \ {p}
         /\ OnceOnly(Without(s, p))
<1>1. CASE p \notin Elems(s)
  BY <1>1 DEF Without
<1>2. CASE p \in Elems(s)
  <2>1. PICK k : k = CHOOSE j \in DOMAIN s : s[j] = p
    OBVIOUS
  <2>2. k \in DOMAIN s /\ s[k] = p
    <3>1. \E h \in DOMAIN s : s[h] = p
      BY <1>2 DEF Elems
    <3>2. QED BY <2>1, <3>1
  <2>3. Without(s, p) = DelAt(s, k)
    BY <1>2, <2>1 DEF Without
  <2>4. \A i, j \in DOMAIN s : s[i] = s[j] => i = j
    BY DEF OnceOnly
  <2>5. DelAt(s, k) \in Seq(Procs)
    BY <2>2, DelAtProps
  <2>6. Elems(DelAt(s, k)) = Elems(s) \ {p}
    BY <2>2, <2>4, DelAtElems
  <2>7. OnceOnly(DelAt(s, k))
    BY <2>2, <2>4, DelAtElems DEF OnceOnly
  <2>8. QED BY <2>3, <2>5, <2>6, <2>7
<1>3. QED BY <1>1, <1>2

LEMMA SSleep ==
  ASSUME NEW sl, NEW st, SOK(sl, st), NEW p \in Procs, st[p] # "SLEEPING",
         NEW c \in Chan, \A r \in Procs : c = Alone(r) => r = p
  PROVE  SOK([sl EXCEPT ![c] = Append(@, p)], [st EXCEPT ![p] = "SLEEPING"])
<1> DEFINE l == Append(sl[c], p)
           sl2 == [sl EXCEPT ![c] = l]
           st2 == [st EXCEPT ![p] = "SLEEPING"]
<1>1. /\ sl \in [Chan -> Seq(Procs)] /\ st \in [Procs -> Status]
      /\ sl[c] \in Seq(Procs) /\ OnceOnly(sl[c])
      /\ \A d \in Chan : p \notin Elems(sl[d])
  BY DEF SOK
<1>2. l \in Seq(Procs) /\ Elems(l) = Elems(sl[c]) \cup {p} /\ OnceOnly(l)
  BY <1>1, AppendList
<1> HIDE DEF l
<1>3. /\ sl2 \in [Chan -> Seq(Procs)] /\ st2 \in [Procs -> Status]
      /\ sl2[c] = l /\ \A d \in Chan : d # c => sl2[d] = sl[d]
      /\ st2[p] = "SLEEPING" /\ \A r \in Procs : r # p => st2[r] = st[r]
  BY <1>1, <1>2 DEF Status
<1> HIDE DEF sl2, st2
<1>4. \A d \in Chan : \A r \in Procs :
         r \in Elems(sl2[d]) <=> r \in Elems(sl[d]) \/ (d = c /\ r = p)
  BY <1>1, <1>2, <1>3
<1>5. \A r \in Procs : st2[r] = "SLEEPING" <=> \E d \in Chan : r \in Elems(sl2[d])
  <2>1. \A r \in Procs : st[r] = "SLEEPING" <=> \E d \in Chan : r \in Elems(sl[d])
    BY DEF SOK
  <2>2. ASSUME NEW r \in Procs, r # p
        PROVE  (\E d \in Chan : r \in Elems(sl2[d])) <=> \E d \in Chan : r \in Elems(sl[d])
    BY <1>4, <2>2, Zenon
  <2>3. \E d \in Chan : p \in Elems(sl2[d])
    BY <1>4, Zenon
  <2>4. QED BY <1>3, <2>1, <2>2, <2>3
<1>6. \A d \in Chan : OnceOnly(sl2[d])
  BY <1>2, <1>3 DEF SOK
<1>7. \A d, e \in Chan : \A r \in Procs : r \in Elems(sl2[d]) /\ r \in Elems(sl2[e]) => d = e
  BY <1>1, <1>4 DEF SOK
<1>8. \A q, r \in Procs : r \in Elems(sl2[Alone(q)]) => r = q
  BY <1>1, <1>4, ChanFacts DEF SOK
<1>9. SOK(sl2, st2)
  BY <1>3, <1>5, <1>6, <1>7, <1>8 DEF SOK
<1>10. QED BY <1>9 DEF sl2, st2, l

LEMMA SWake ==
  ASSUME NEW sl, NEW st, SOK(sl, st), NEW c \in Chan
  PROVE  SOK([sl EXCEPT ![c] = <<>>],
             [p \in Procs |-> IF p \in Elems(sl[c]) THEN "RUNNABLE" ELSE st[p]])
<1> DEFINE sl2 == [sl EXCEPT ![c] = <<>>]
           st2 == [p \in Procs |-> IF p \in Elems(sl[c]) THEN "RUNNABLE" ELSE st[p]]
<1>1. sl \in [Chan -> Seq(Procs)] /\ st \in [Procs -> Status]
  BY DEF SOK
<1>2. /\ sl2 \in [Chan -> Seq(Procs)] /\ st2 \in [Procs -> Status]
      /\ sl2[c] = <<>> /\ \A d \in Chan : d # c => sl2[d] = sl[d]
      /\ \A p \in Procs : st2[p] = IF p \in Elems(sl[c]) THEN "RUNNABLE" ELSE st[p]
  BY <1>1, EmptyList DEF Status
<1> HIDE DEF sl2, st2
<1>3. \A d \in Chan : \A r \in Procs : r \in Elems(sl2[d]) <=> r \in Elems(sl[d]) /\ d # c
  BY <1>2, EmptyList
<1>4. ASSUME NEW r \in Procs
      PROVE  st2[r] = "SLEEPING" <=> \E d \in Chan : r \in Elems(sl2[d])
  <2>1. CASE r \in Elems(sl[c])
    <3>1. st2[r] = "RUNNABLE"
      BY <1>2, <2>1
    <3>2. \A d \in Chan : r \in Elems(sl[d]) => d = c
      BY <2>1 DEF SOK
    <3>3. QED BY <1>3, <3>1, <3>2
  <2>2. CASE r \notin Elems(sl[c])
    <3>1. st2[r] = st[r]
      BY <1>2, <2>2
    <3>2. st[r] = "SLEEPING" <=> \E d \in Chan : r \in Elems(sl[d])
      BY DEF SOK
    <3>3. \A d \in Chan : r \in Elems(sl2[d]) <=> r \in Elems(sl[d])
      BY <1>3, <2>2
    <3>4. QED BY <3>1, <3>2, <3>3
  <2>3. QED BY <2>1, <2>2
<1>5. \A d \in Chan : OnceOnly(sl2[d])
  BY <1>2, EmptyList DEF SOK
<1>6. \A d, e \in Chan : \A r \in Procs : r \in Elems(sl2[d]) /\ r \in Elems(sl2[e]) => d = e
  BY <1>3 DEF SOK
<1>7. \A q, r \in Procs : r \in Elems(sl2[Alone(q)]) => r = q
  BY <1>3, ChanFacts DEF SOK
<1>8. SOK(sl2, st2)
  BY <1>2, <1>4, <1>5, <1>6, <1>7 DEF SOK
<1>9. QED BY <1>8 DEF sl2, st2

LEMMA SKill ==
  ASSUME NEW sl, NEW st, SOK(sl, st), NEW t \in Procs
  PROVE  SOK([c \in Chan |-> Without(sl[c], t)], [st EXCEPT ![t] = "RUNNABLE"])
<1> DEFINE sl2 == [c \in Chan |-> Without(sl[c], t)]
           st2 == [st EXCEPT ![t] = "RUNNABLE"]
<1>1. sl \in [Chan -> Seq(Procs)] /\ st \in [Procs -> Status]
      /\ \A c \in Chan : sl[c] \in Seq(Procs) /\ OnceOnly(sl[c])
  BY DEF SOK
<1>2. \A c \in Chan : /\ Without(sl[c], t) \in Seq(Procs)
                      /\ Elems(Without(sl[c], t)) = Elems(sl[c]) \ {t}
                      /\ OnceOnly(Without(sl[c], t))
  BY <1>1, WithoutList
<1>3. /\ sl2 \in [Chan -> Seq(Procs)] /\ st2 \in [Procs -> Status]
      /\ \A c \in Chan : OnceOnly(sl2[c]) /\ Elems(sl2[c]) = Elems(sl[c]) \ {t}
      /\ st2[t] = "RUNNABLE" /\ \A r \in Procs : r # t => st2[r] = st[r]
  BY <1>1, <1>2 DEF Status
<1> HIDE DEF sl2, st2
<1>4. ASSUME NEW r \in Procs
      PROVE  st2[r] = "SLEEPING" <=> \E d \in Chan : r \in Elems(sl2[d])
  <2>1. CASE r = t
    BY <1>3, <2>1
  <2>2. CASE r # t
    <3>1. st2[r] = st[r] /\ \A d \in Chan : r \in Elems(sl2[d]) <=> r \in Elems(sl[d])
      BY <1>3, <2>2
    <3>2. st[r] = "SLEEPING" <=> \E d \in Chan : r \in Elems(sl[d])
      BY DEF SOK
    <3>3. QED BY <3>1, <3>2
  <2>3. QED BY <2>1, <2>2
<1>5. \A d, e \in Chan : \A r \in Procs : r \in Elems(sl2[d]) /\ r \in Elems(sl2[e]) => d = e
  BY <1>3 DEF SOK
<1>6. \A q, r \in Procs : r \in Elems(sl2[Alone(q)]) => r = q
  BY <1>3, ChanFacts DEF SOK
<1>7. SOK(sl2, st2)
  BY <1>3, <1>4, <1>5, <1>6 DEF SOK
<1>8. QED BY <1>7 DEF sl2, st2

\* A process that is not asleep changes its status and stays awake.
LEMMA SAwake ==
  ASSUME NEW sl, NEW st, SOK(sl, st), NEW p \in Procs, st[p] # "SLEEPING",
         NEW x \in Status, x # "SLEEPING"
  PROVE  SOK(sl, [st EXCEPT ![p] = x])
  BY DEF SOK

-----------------------------------------------------------------------------
(* The inductive invariant: IInv with the queues and the wait lists in the  *)
(* form of the lemmas above.                                                *)

QInv == QOK(queues, proc_queue, priority)

SInv == SOK(sleep_list, status)

Queued == \A p \in Procs : proc_queue[p] # 0 => status[p] = "RUNNABLE"

Inv == /\ TypeOK /\ QInv /\ SInv /\ Queued
       /\ OneRunning /\ ProcState /\ ForkState
       /\ SliceNeverEmpty /\ SleepLockExclusive

\* The process on the CPU.
LEMMA CurrentFacts ==
  ASSUME Inv, NEW p \in Procs, cproc = p
  PROVE  /\ p # NoProc /\ spc = "swtch" /\ sp = NoProc
         /\ status[p] \in {"RUNNING", "ZOMBLE"} /\ proc_queue[p] = 0
         /\ timeslice_left[p] \in Nat
         /\ timeslice_left[p] > 0 \/ pc[p] = "fork_test"
  BY ProcsAssumption DEF Inv, OneRunning, ProcState, Queued, SliceNeverEmpty, TypeOK

\* Where a process is neither making a child, nor holding the sleeplock, nor gone.
Quiet == Where \ {"fork_load", "fork_store", "fork_test", "fork_link", "sl_hold", "dead"}

\* The current process moves on, and no list is touched.
LEMMA MoveInv ==
  ASSUME Inv, NEW p \in Procs, cproc = p, pc[p] \notin {"sl_hold", "fork_test"},
         NEW at \in Quiet, status[p] = "ZOMBLE" => at = "exit_end",
         pc' = [pc EXCEPT ![p] = at],
         UNCHANGED <<panic, schedVars, queueVars, status, priority, timeslice_left,
                     preempted, treeVars, sleep_list, half, locked>>,
         killed' \subseteq Procs, wait_for_child' \subseteq Procs, io' \subseteq Procs,
         son' = son \/ son' = [son EXCEPT ![p] = NoProc]
  PROVE  Inv'
<1>0. /\ p # NoProc /\ spc = "swtch" /\ sp = NoProc
      /\ status[p] \in {"RUNNING", "ZOMBLE"} /\ proc_queue[p] = 0
  BY CurrentFacts
<1>f. pc' \in [Procs -> Where] /\ pc'[p] = at /\ \A r \in Procs : r # p => pc'[r] = pc[r]
  BY DEF Inv, TypeOK, Quiet
<1>g. /\ son' \in [Procs -> Procs \cup {NoProc}]
      /\ \A r \in Procs : r # p => son'[r] = son[r]
  BY DEF Inv, TypeOK
<1>q. QInv'
  BY DEF Inv, QInv, queueVars
<1>s. SInv'
  BY DEF Inv, SInv
<1>1. TypeOK'
  BY <1>f, <1>g DEF Inv, TypeOK, schedVars, queueVars, treeVars
<1>2. Queued'
  BY DEF Inv, Queued, queueVars
<1>3. OneRunning'
  BY DEF Inv, OneRunning, schedVars
<1>4. ProcState'
  BY <1>0, <1>f DEF Inv, ProcState, schedVars, Quiet
<1>5. ForkState'
  BY <1>0, <1>f, <1>g DEF Inv, ForkState, Forking, schedVars, queueVars, Quiet
<1>6. SliceNeverEmpty'
  BY <1>f DEF Inv, SliceNeverEmpty, schedVars, queueVars
<1>7. SleepLockExclusive'
  BY <1>f DEF Inv, SleepLockExclusive, Quiet
<1>8. QED BY <1>q, <1>s, <1>1, <1>2, <1>3, <1>4, <1>5, <1>6, <1>7 DEF Inv

\* The current process goes to sleep on list c.
LEMMA SleepInv ==
  ASSUME Inv, NEW p \in Procs, cproc = p, pc[p] # "sl_hold",
         NEW at \in Quiet, pc[p] \in Quiet, pc' = [pc EXCEPT ![p] = at],
         NEW c \in Chan, \A r \in Procs : c = Alone(r) => r = p,
         Sleep(p, c),
         UNCHANGED <<panic, queueVars, priority, timeslice_left, killed, preempted,
                     treeVars, forkVars, locked>>,
         wait_for_child' \subseteq Procs, io' \subseteq Procs
  PROVE  Inv'
<1>0. /\ p # NoProc /\ spc = "swtch" /\ sp = NoProc
      /\ status[p] \in {"RUNNING", "ZOMBLE"} /\ proc_queue[p] = 0
      /\ timeslice_left[p] > 0
  BY CurrentFacts DEF Quiet
<1>f. pc' \in [Procs -> Where] /\ pc'[p] = at /\ \A r \in Procs : r # p => pc'[r] = pc[r]
  BY DEF Inv, TypeOK, Quiet
<1>g. /\ status' \in [Procs -> Status] /\ status'[p] = "SLEEPING"
      /\ \A r \in Procs : r # p => status'[r] = status[r]
      /\ cproc' = NoProc /\ sp' = p /\ spc' = "top"
  BY DEF Inv, TypeOK, Sleep, SwitchOut, Status
<1>q. QInv'
  BY DEF Inv, QInv, queueVars
<1>s. SInv'
  <2>1. SOK(sleep_list, status) /\ status[p] # "SLEEPING"
    BY <1>0 DEF Inv, SInv
  <2>2. SOK([sleep_list EXCEPT ![c] = Append(@, p)], [status EXCEPT ![p] = "SLEEPING"])
    BY <2>1, SSleep
  <2>3. QED BY <2>2 DEF SInv, Sleep
<1>t. sleep_list' \in [Chan -> Seq(Procs)]
  BY <1>s DEF SInv, SOK
<1>1. TypeOK'
  BY <1>f, <1>g, <1>t DEF Inv, TypeOK, queueVars, treeVars, forkVars
<1>2. Queued'
  BY <1>0, <1>g DEF Inv, Queued, queueVars
<1>3. OneRunning'
  BY <1>0, <1>g DEF Inv, OneRunning
<1>4. ProcState'
  BY <1>0, <1>f, <1>g, ProcsAssumption DEF Inv, ProcState, Quiet
<1>5. ForkState'
  <2>1. \A r \in Procs : Forking(r)' => Forking(r) /\ r # p /\ pc'[r] = pc[r]
    BY <1>f DEF Forking, Quiet
  <2>2. QED BY <1>0, <1>g, <2>1, ProcsAssumption DEF Inv, ForkState, forkVars, queueVars
<1>6. SliceNeverEmpty'
  BY <1>0, <1>g, ProcsAssumption DEF Inv, SliceNeverEmpty, queueVars
<1>7. SleepLockExclusive'
  BY <1>f DEF Inv, SleepLockExclusive, Quiet
<1>8. QED BY <1>q, <1>s, <1>1, <1>2, <1>3, <1>4, <1>5, <1>6, <1>7 DEF Inv

\* The current process gives way.
LEMMA YieldInv ==
  ASSUME Inv, NEW p \in Procs, cproc = p,
         NEW at \in Where, at # "dead", at = pc[p] \/ {at, pc[p]} \subseteq Quiet,
         pc' = [pc EXCEPT ![p] = at], yield(p),
         timeslice_left' \in [Procs -> Nat],
         \A r \in Procs : r # p => timeslice_left'[r] = timeslice_left[r],
         UNCHANGED <<panic, queueVars, priority, flagVars, preempted, treeVars,
                     sleep_list, forkVars, devVars>>
  PROVE  Inv'
<1>0. /\ p # NoProc /\ spc = "swtch" /\ sp = NoProc
      /\ status[p] \in {"RUNNING", "ZOMBLE"} /\ proc_queue[p] = 0
  BY CurrentFacts
<1>f. pc' \in [Procs -> Where] /\ pc'[p] = at /\ \A r \in Procs : r # p => pc'[r] = pc[r]
  BY DEF Inv, TypeOK
<1>g. /\ status' \in [Procs -> Status] /\ status'[p] = "RUNNABLE"
      /\ \A r \in Procs : r # p => status'[r] = status[r]
      /\ cproc' = NoProc /\ sp' = p /\ spc' = "top"
  BY DEF Inv, TypeOK, yield, SwitchOut, Status
<1>q. QInv'
  BY DEF Inv, QInv, queueVars
<1>s. SInv'
  <2>1. SOK(sleep_list, status) /\ status[p] # "SLEEPING"
    BY <1>0 DEF Inv, SInv
  <2>2. SOK(sleep_list, [status EXCEPT ![p] = "RUNNABLE"])
    BY <2>1, SAwake DEF Status
  <2>3. QED BY <2>2 DEF SInv, yield
<1>1. TypeOK'
  BY <1>f, <1>g DEF Inv, TypeOK, queueVars, treeVars, forkVars, flagVars, devVars
<1>2. Queued'
  BY <1>0, <1>g DEF Inv, Queued, queueVars
<1>3. OneRunning'
  BY <1>0, <1>g DEF Inv, OneRunning
<1>4. ProcState'
  BY <1>0, <1>f, <1>g, ProcsAssumption DEF Inv, ProcState
<1>5. ForkState'
  <2>1. \A r \in Procs : pc'[r] # pc[r] => ~Forking(r)'
    BY <1>f DEF Forking, Quiet
  <2>2. \A r \in Procs : Forking(r)' => /\ Forking(r) /\ pc'[r] = pc[r] /\ son[r] # p
                                        /\ son'[r] = son[r] /\ half'[r] = half[r]
    BY <2>1 DEF Inv, ForkState, Forking, forkVars
  <2>3. QED BY <1>0, <1>g, <2>2, ProcsAssumption DEF Inv, ForkState, forkVars, queueVars
<1>6. SliceNeverEmpty'
  BY <1>0, <1>g, ProcsAssumption DEF Inv, SliceNeverEmpty, queueVars
<1>7. SleepLockExclusive'
  BY <1>f DEF Inv, SleepLockExclusive, Quiet, devVars
<1>8. QED BY <1>q, <1>s, <1>1, <1>2, <1>3, <1>4, <1>5, <1>6, <1>7 DEF Inv

\* wakeup() moves everyone on list c to the run queue.
LEMMA WakeFacts ==
  ASSUME Inv, NEW c \in Chan, Wakeup(c)
  PROVE  LET W == Elems(sleep_list[c])
         IN  /\ QInv' /\ SInv' /\ preempted' \subseteq Procs
             /\ W \subseteq Procs /\ \A p \in W : status[p] = "SLEEPING"
             /\ \A p \in Procs : status'[p] = IF p \in W THEN "RUNNABLE" ELSE status[p]
             /\ \A p \in Procs : proc_queue'[p] = IF p \in W THEN run ELSE proc_queue[p]
<1> DEFINE ps == sleep_list[c]
           W == Elems(ps)
<1>1. /\ ps \in Seq(Procs) /\ OnceOnly(ps) /\ run \in 1 .. 2
      /\ \A p \in Procs : p \in W => status[p] = "SLEEPING"
      /\ QOK(queues, proc_queue, priority) /\ SOK(sleep_list, status)
  BY DEF Inv, TypeOK, QInv, SInv, SOK
<1>2. W \subseteq Procs
  BY <1>1, LenProperties, ElementOfSeq DEF Elems
<1>3. \A p \in W : status[p] = "SLEEPING" /\ proc_queue[p] = 0
  BY <1>1, <1>2 DEF Inv, Queued
<1>4. PICK slept \in [W -> SleepTimes] :
        LET pr == [p \in Procs |-> IF p \in W
                                   THEN recalculate_priority(priority[p], slept[p])
                                   ELSE priority[p]]
        IN  /\ sleep_list' = [sleep_list EXCEPT ![c] = <<>>]
            /\ status' = [p \in Procs |-> IF p \in W THEN "RUNNABLE" ELSE status[p]]
            /\ priority' = pr
            /\ queues' = [queues EXCEPT ![run] = add_procs_to_queue(@, ps, pr)]
            /\ proc_queue' = [p \in Procs |-> IF p \in W THEN run ELSE proc_queue[p]]
            /\ preempted' = IF cproc # NoProc /\ \E p \in W : pr[p] < priority[cproc]
                            THEN preempted \cup {cproc} ELSE preempted
  BY DEF Wakeup
<1> DEFINE pr == [p \in Procs |-> IF p \in W
                                  THEN recalculate_priority(priority[p], slept[p])
                                  ELSE priority[p]]
<1>5. priority \in [Procs -> Prio] /\ preempted \subseteq Procs /\ cproc \in Procs \cup {NoProc}
  BY DEF Inv, TypeOK
<1>6. ASSUME NEW p \in W PROVE recalculate_priority(priority[p], slept[p]) \in Prio
  <2>1. priority[p] \in Prio /\ slept[p] \in Nat
    BY <1>2, <1>5, SliceAssumption
  <2>2. QED BY <2>1, PrioRange
<1>7. pr \in [Procs -> Prio] /\ \A p \in Procs \ W : pr[p] = priority[p]
  BY <1>5, <1>6
<1>8. /\ sleep_list' = [sleep_list EXCEPT ![c] = <<>>]
      /\ status' = [p \in Procs |-> IF p \in W THEN "RUNNABLE" ELSE status[p]]
      /\ priority' = pr
      /\ queues' = [queues EXCEPT ![run] = add_procs_to_queue(@, ps, pr)]
      /\ proc_queue' = [p \in Procs |-> IF p \in W THEN run ELSE proc_queue[p]]
      /\ preempted' \subseteq preempted \cup {cproc}
      /\ cproc = NoProc => preempted' = preempted
  BY <1>4
<1> HIDE DEF pr, ps
<1>9. QOK([queues EXCEPT ![run] = add_procs_to_queue(@, ps, pr)],
          [p \in Procs |-> IF p \in W THEN run ELSE proc_queue[p]], pr)
  BY <1>1, <1>3, <1>7, QAdds
<1>10. QInv'
  BY <1>8, <1>9 DEF QInv
<1>11. SOK([sleep_list EXCEPT ![c] = <<>>],
           [p \in Procs |-> IF p \in Elems(sleep_list[c]) THEN "RUNNABLE" ELSE status[p]])
  <2>1. SOK(sleep_list, status)
    BY <1>1
  <2> HIDE DEF W
  <2>2. QED BY ONLY c \in Chan, <2>1, SWake
<1>12. SInv'
  BY <1>8, <1>11 DEF SInv, ps
<1>13. preempted' \subseteq Procs
  BY <1>5, <1>8
<1>14. /\ \A p \in Procs : status'[p] = IF p \in W THEN "RUNNABLE" ELSE status[p]
       /\ \A p \in Procs : proc_queue'[p] = IF p \in W THEN run ELSE proc_queue[p]
  <2>1. status' = [p \in Procs |-> IF p \in W THEN "RUNNABLE" ELSE status[p]]
    BY <1>8
  <2>2. proc_queue' = [p \in Procs |-> IF p \in W THEN run ELSE proc_queue[p]]
    BY <1>8
  <2> HIDE DEF W
  <2>3. QED BY <2>1, <2>2
<1>15. W = Elems(sleep_list[c])
  BY DEF ps
<1> HIDE DEF W
<1>16. QED
  BY <1>2, <1>3, <1>10, <1>12, <1>13, <1>14, <1>15

\* wakeup() together with a move of the process on the CPU, if there is one.
LEMMA WakeInv ==
  ASSUME Inv, NEW c \in Chan, Wakeup(c),
         panic' \in {"none", "sched", "root exit"}, spc' \in {"top", "swtch"},
         spc' = spc \/ (spc = "halt" /\ spc' = "top"),
         io' \subseteq Procs,
         UNCHANGED <<cproc, sp, run, timeslice_left, flagVars, treeVars, forkVars>>,
         \/ UNCHANGED <<pc, locked>>
         \/ /\ cproc \in Procs /\ pc[cproc] = "sl_hold" /\ locked' = FALSE
            /\ pc' = [pc EXCEPT ![cproc] = "trapret"]
         \/ /\ cproc \in Procs /\ pc[cproc] = "user" /\ locked' = locked
            /\ pc' = [pc EXCEPT ![cproc] = "trapret"]
  PROVE  Inv'
<1> DEFINE W == Elems(sleep_list[c])
<1>w. /\ QInv' /\ SInv' /\ preempted' \subseteq Procs
      /\ W \subseteq Procs /\ \A p \in W : status[p] = "SLEEPING"
      /\ \A p \in Procs : status'[p] = IF p \in W THEN "RUNNABLE" ELSE status[p]
      /\ \A p \in Procs : proc_queue'[p] = IF p \in W THEN run ELSE proc_queue[p]
  BY WakeFacts
<1> HIDE DEF W
<1>t. /\ queues' \in [1 .. 2 -> Queue] /\ proc_queue' \in [Procs -> 0 .. 2]
      /\ priority' \in [Procs -> Prio] /\ sleep_list' \in [Chan -> Seq(Procs)]
      /\ status' \in [Procs -> Status]
  BY <1>w DEF QInv, SInv, QOK, SOK
<1>p. /\ pc' \in [Procs -> Where]
      /\ \A p \in Procs : \/ pc'[p] = pc[p]
                          \/ pc[p] \in {"sl_hold", "user"} /\ pc'[p] = "trapret"
  BY DEF Inv, TypeOK, Where
<1>l. locked' \in BOOLEAN
  <2>1. CASE UNCHANGED <<pc, locked>>
    BY <2>1 DEF Inv, TypeOK
  <2>2. CASE /\ cproc \in Procs /\ pc[cproc] = "sl_hold" /\ locked' = FALSE
             /\ pc' = [pc EXCEPT ![cproc] = "trapret"]
    BY <2>2
  <2>3. CASE locked' = locked
    BY <2>3 DEF Inv, TypeOK
  <2>4. QED BY <2>1, <2>2, <2>3
<1>1. TypeOK'
  BY <1>w, <1>t, <1>p, <1>l DEF Inv, TypeOK, Queue, treeVars, forkVars, flagVars
<1>2. Queued'
  BY <1>w DEF Inv, Queued
<1>3. OneRunning'
  BY <1>w, ProcsAssumption DEF Inv, OneRunning, TypeOK
<1>4. ProcState'
  <2>1. ProcState
    BY DEF Inv
  <2>2. (cproc' # NoProc <=> spc' = "swtch") /\ (sp' # NoProc => spc' = "top")
    <3>1. (cproc # NoProc <=> spc = "swtch") /\ (sp # NoProc => spc = "top")
      BY <2>1 DEF ProcState
    <3>2. cproc' = cproc /\ sp' = sp
      OBVIOUS
    <3>3. CASE spc' = spc
      BY <3>1, <3>2, <3>3
    <3>4. CASE spc = "halt" /\ spc' = "top"
      BY <3>1, <3>2, <3>4
    <3>5. QED BY <3>3, <3>4
  <2>3. ASSUME NEW p \in Procs
        PROVE  /\ status'[p] = "FREE" => pc'[p] = "dead"
               /\ pc'[p] = "dead" => status'[p] \in {"ZOMBLE", "FREE"} /\ cproc' # p
               /\ status'[p] = "ZOMBLE" => \/ pc'[p] = "dead"
                                           \/ cproc' = p /\ pc'[p] \in {"exit_close", "exit_end"}
    <3>1. CASE p \in W
      <4>1. status'[p] = "RUNNABLE" /\ status[p] = "SLEEPING"
        BY <1>w, <3>1
      <4>2. pc'[p] # "dead"
        BY <1>p, <2>1, <4>1 DEF ProcState
      <4>3. QED BY <4>1, <4>2
    <3>2. CASE p \notin W
      <4>1. status'[p] = status[p]
        BY <1>w, <3>2
      <4>2. pc'[p] = pc[p] \/ (pc[p] \in {"sl_hold", "user"} /\ pc'[p] = "trapret")
        BY <1>p
      <4>3. QED BY <2>1, <4>1, <4>2 DEF ProcState
    <3>3. QED BY <3>1, <3>2
  <2>4. QED BY <2>2, <2>3 DEF ProcState
<1>5. ForkState'
  <2>1. \A p \in Procs : Forking(p)' => Forking(p) /\ pc'[p] = pc[p]
    BY <1>p DEF Forking
  <2>2. \A p \in Procs : Forking(p) => /\ status'[son[p]] = status[son[p]]
                                       /\ proc_queue'[son[p]] = proc_queue[son[p]]
    BY <1>w DEF Inv, ForkState
  <2>3. /\ ForkState /\ son' = son /\ half' = half /\ timeslice_left' = timeslice_left
        /\ cproc' = cproc /\ sp' = sp
    BY DEF Inv, forkVars
  <2>4. QED BY <2>1, <2>2, <2>3 DEF ForkState
<1>6. SliceNeverEmpty'
  <2>1. \A p \in W : timeslice_left[p] > 0
    BY <1>w DEF Inv, SliceNeverEmpty
  <2>2. QED BY <1>w, <1>p, <2>1 DEF Inv, SliceNeverEmpty
<1>7. SleepLockExclusive'
  <2>1. CASE UNCHANGED <<pc, locked>>
    BY <2>1 DEF Inv, SleepLockExclusive
  <2>2. CASE /\ cproc \in Procs /\ pc[cproc] = "sl_hold" /\ locked' = FALSE
             /\ pc' = [pc EXCEPT ![cproc] = "trapret"]
    BY <2>2 DEF Inv, SleepLockExclusive, TypeOK
  <2>3. CASE /\ cproc \in Procs /\ pc[cproc] = "user" /\ locked' = locked
             /\ pc' = [pc EXCEPT ![cproc] = "trapret"]
    <3>1. \A p \in Procs : pc'[p] = "sl_hold" <=> pc[p] = "sl_hold"
      BY <2>3 DEF Inv, TypeOK
    <3>2. QED BY <2>3, <3>1 DEF Inv, SleepLockExclusive
  <2>4. QED BY <2>1, <2>2, <2>3
<1>8. QED BY <1>w, <1>1, <1>2, <1>3, <1>4, <1>5, <1>6, <1>7 DEF Inv

-----------------------------------------------------------------------------
(* Every action preserves the invariant.                                    *)

LEMMA EnterInv ==
  ASSUME Inv, NEW p \in Procs, Enter(p) PROVE Inv'
<1>1. cproc = p /\ pc[p] \notin {"sl_hold", "fork_test"}
  BY DEF Enter, Runs
<1>2. PICK at \in Quiet : pc' = [pc EXCEPT ![p] = at] /\ (status[p] = "ZOMBLE" => at = "exit_end")
  BY DEF Inv, ProcState, Enter, Runs, Goto, Quiet, Where
<1>3. /\ killed' \subseteq Procs /\ wait_for_child' \subseteq Procs /\ io' \subseteq Procs
      /\ (son' = son \/ son' = [son EXCEPT ![p] = NoProc])
      /\ UNCHANGED <<panic, schedVars, queueVars, status, priority, timeslice_left,
                     preempted, treeVars, sleep_list, half, locked>>
  BY DEF Inv, TypeOK, Enter, Runs, Goto, schedVars, queueVars, flagVars, treeVars, forkVars, devVars
<1>4. QED BY <1>1, <1>2, <1>3, MoveInv

LEMMA TrapReturn2Inv ==
  ASSUME Inv, NEW p \in Procs, TrapReturn2(p) PROVE Inv'
<1>1. cproc = p /\ pc[p] \notin {"sl_hold", "fork_test"}
  BY DEF TrapReturn2, Runs
<1>2. PICK at \in Quiet : pc' = [pc EXCEPT ![p] = at] /\ (status[p] = "ZOMBLE" => at = "exit_end")
  BY DEF Inv, ProcState, TrapReturn2, Runs, Goto, Quiet, Where
<1>3. /\ killed' \subseteq Procs /\ wait_for_child' \subseteq Procs /\ io' \subseteq Procs
      /\ (son' = son \/ son' = [son EXCEPT ![p] = NoProc])
      /\ UNCHANGED <<panic, schedVars, queueVars, status, priority, timeslice_left,
                     preempted, treeVars, sleep_list, half, locked>>
  BY DEF Inv, TypeOK, TrapReturn2, Runs, Goto, schedVars, queueVars, flagVars, treeVars, forkVars, devVars
<1>4. QED BY <1>1, <1>2, <1>3, MoveInv

LEMMA proc_alloc_failedInv ==
  ASSUME Inv, NEW p \in Procs, proc_alloc_failed(p) PROVE Inv'
<1>1. cproc = p /\ pc[p] \notin {"sl_hold", "fork_test"}
  BY DEF proc_alloc_failed, Runs
<1>2. PICK at \in Quiet : pc' = [pc EXCEPT ![p] = at] /\ (status[p] = "ZOMBLE" => at = "exit_end")
  BY DEF Inv, ProcState, proc_alloc_failed, Runs, Goto, Quiet, Where
<1>3. /\ killed' \subseteq Procs /\ wait_for_child' \subseteq Procs /\ io' \subseteq Procs
      /\ (son' = son \/ son' = [son EXCEPT ![p] = NoProc])
      /\ UNCHANGED <<panic, schedVars, queueVars, status, priority, timeslice_left,
                     preempted, treeVars, sleep_list, half, locked>>
  BY DEF Inv, TypeOK, proc_alloc_failed, Runs, Goto, schedVars, queueVars, flagVars, treeVars, forkVars, devVars
<1>4. QED BY <1>1, <1>2, <1>3, MoveInv

LEMMA ForkFailInv ==
  ASSUME Inv, NEW p \in Procs, ForkFail(p) PROVE Inv'
<1>1. cproc = p /\ pc[p] \notin {"sl_hold", "fork_test"}
  BY DEF ForkFail, Runs
<1>2. PICK at \in Quiet : pc' = [pc EXCEPT ![p] = at] /\ (status[p] = "ZOMBLE" => at = "exit_end")
  BY DEF Inv, ProcState, ForkFail, Runs, Goto, Quiet, Where
<1>3. /\ killed' \subseteq Procs /\ wait_for_child' \subseteq Procs /\ io' \subseteq Procs
      /\ (son' = son \/ son' = [son EXCEPT ![p] = NoProc])
      /\ UNCHANGED <<panic, schedVars, queueVars, status, priority, timeslice_left,
                     preempted, treeVars, sleep_list, half, locked>>
  BY DEF Inv, TypeOK, ForkFail, Runs, Goto, schedVars, queueVars, flagVars, treeVars, forkVars, devVars
<1>4. QED BY <1>1, <1>2, <1>3, MoveInv

LEMMA ExitCloseInv ==
  ASSUME Inv, NEW p \in Procs, ExitClose(p) PROVE Inv'
<1>1. cproc = p /\ pc[p] \notin {"sl_hold", "fork_test"}
  BY DEF ExitClose, Runs
<1>2. PICK at \in Quiet : pc' = [pc EXCEPT ![p] = at] /\ (status[p] = "ZOMBLE" => at = "exit_end")
  BY DEF Inv, ProcState, ExitClose, Runs, Goto, Quiet, Where
<1>3. /\ killed' \subseteq Procs /\ wait_for_child' \subseteq Procs /\ io' \subseteq Procs
      /\ (son' = son \/ son' = [son EXCEPT ![p] = NoProc])
      /\ UNCHANGED <<panic, schedVars, queueVars, status, priority, timeslice_left,
                     preempted, treeVars, sleep_list, half, locked>>
  BY DEF Inv, TypeOK, ExitClose, Runs, Goto, schedVars, queueVars, flagVars, treeVars, forkVars, devVars
<1>4. QED BY <1>1, <1>2, <1>3, MoveInv

LEMMA TrapReturnInv ==
  ASSUME Inv, NEW p \in Procs, TrapReturn(p) PROVE Inv'
<1>1. cproc = p /\ pc[p] = "trapret" /\ status[p] # "ZOMBLE"
  BY DEF TrapReturn, Runs, Inv, ProcState
<1>2. CASE p \notin killed /\ p \in preempted
  <2>1. yield(p) /\ pc' = [pc EXCEPT ![p] = "trapret2"]
    BY <1>2 DEF TrapReturn, Goto
  <2>2. {"trapret2", pc[p]} \subseteq Quiet
    BY <1>1 DEF Quiet, Where
  <2>3. /\ UNCHANGED <<panic, queueVars, priority, flagVars, preempted, treeVars,
                       sleep_list, forkVars, devVars>>
        /\ timeslice_left' \in [Procs -> Nat] /\ timeslice_left' = timeslice_left
    BY DEF TrapReturn, Inv, TypeOK
  <2>4. QED BY <1>1, <2>1, <2>2, <2>3, YieldInv DEF Where
<1>3. CASE ~(p \notin killed /\ p \in preempted)
  <2>1. PICK at \in Quiet : pc' = [pc EXCEPT ![p] = at]
    BY <1>3 DEF TrapReturn, Goto, Quiet, Where
  <2>2. /\ killed' \subseteq Procs /\ wait_for_child' \subseteq Procs /\ io' \subseteq Procs
        /\ son' = son
        /\ UNCHANGED <<panic, schedVars, queueVars, status, priority, timeslice_left,
                       preempted, treeVars, sleep_list, half, locked>>
    BY <1>3 DEF Inv, TypeOK, TrapReturn, schedVars, flagVars, forkVars, devVars
  <2>3. QED BY <1>1, <2>1, <2>2, MoveInv
<1>4. QED BY <1>2, <1>3

LEMMA TickInv ==
  ASSUME Inv, NEW p \in Procs, Tick(p) PROVE Inv'
<1> DEFINE t == IF timeslice_left[p] = 0 THEN WORD - 1 ELSE timeslice_left[p] - 1
           at == IF pc[p] = "user" THEN "trapret" ELSE pc[p]
<1>0. /\ cproc = p /\ p # NoProc /\ spc = "swtch" /\ sp = NoProc
      /\ status[p] \in {"RUNNING", "ZOMBLE"} /\ proc_queue[p] = 0
      /\ timeslice_left[p] \in Nat
  BY CurrentFacts DEF Tick
<1>1. t \in Nat
  BY <1>0, SliceAssumption
<1>t. t = 0 \/ t > 0
  BY <1>0, SliceAssumption
<1>a. pc[p] \in Where /\ pc[p] # "dead"
  BY <1>0 DEF Inv, TypeOK, ProcState
<1>b. at \in Where /\ at # "dead" /\ (at = pc[p] \/ {at, pc[p]} \subseteq Quiet)
  BY <1>a DEF Quiet, Where
<1>2. /\ pc' = [pc EXCEPT ![p] = at]
      /\ timeslice_left' = [timeslice_left EXCEPT ![p] = t]
      /\ UNCHANGED <<panic, queueVars, priority, flagVars, preempted, treeVars,
                     sleep_list, forkVars, devVars>>
  BY DEF Tick, Goto
<1>3. timeslice_left' \in [Procs -> Nat] /\ timeslice_left'[p] = t
      /\ \A r \in Procs : r # p => timeslice_left'[r] = timeslice_left[r]
  BY <1>1, <1>2 DEF Inv, TypeOK
<1>4. CASE t = 0
  <2>1. yield(p)
    BY <1>4 DEF Tick
  <2> HIDE DEF t, at
  <2>2. QED BY <1>0, <1>b, <1>2, <1>3, <2>1, YieldInv
<1>5. CASE t # 0
  <2>0. UNCHANGED <<status, schedVars>>
    BY <1>5 DEF Tick
  <2>a. at = "dead" <=> pc[p] = "dead"
    OBVIOUS
  <2>b. at \notin {"fork_load", "fork_store", "fork_test", "fork_link", "sl_hold"} \/ at = pc[p]
    OBVIOUS
  <2> HIDE DEF t, at
  <2>f. pc' \in [Procs -> Where] /\ pc'[p] = at /\ \A r \in Procs : r # p => pc'[r] = pc[r]
    BY <1>b, <1>2 DEF Inv, TypeOK
  <2>q. QInv'
    BY <1>2 DEF Inv, QInv, queueVars
  <2>s. SInv'
    BY <1>2, <2>0 DEF Inv, SInv
  <2>1. TypeOK'
    BY <1>2, <1>3, <2>0, <2>f
       DEF Inv, TypeOK, schedVars, queueVars, flagVars, treeVars, forkVars, devVars
  <2>2. Queued'
    BY <1>2, <2>0 DEF Inv, Queued, queueVars
  <2>3. OneRunning'
    BY <2>0 DEF Inv, OneRunning, schedVars
  <2>4. ProcState'
    <3>1. status[p] = "ZOMBLE" => at = pc[p]
      BY <1>0, <1>2 DEF Inv, ProcState, at
    <3>2. QED BY <1>0, <1>2, <2>0, <2>f, <2>a, <3>1 DEF Inv, ProcState, schedVars
  <2>5. ForkState'
    <3>1. \A r \in Procs : Forking(r)' => Forking(r) /\ pc'[r] = pc[r] /\ son[r] # p
      BY <1>0, <1>2, <2>f, <2>b DEF Forking, Inv, ForkState
    <3>2. QED BY <1>2, <1>3, <2>0, <3>1 DEF Inv, ForkState, forkVars, schedVars, queueVars
  <2>6. SliceNeverEmpty'
    BY <1>0, <1>2, <1>3, <1>t, <1>5, <2>0, <2>f DEF Inv, SliceNeverEmpty, schedVars, queueVars
  <2>7. SleepLockExclusive'
    BY <1>2, <2>f, <2>b DEF Inv, SleepLockExclusive, devVars, at
  <2>8. QED BY <2>q, <2>s, <2>1, <2>2, <2>3, <2>4, <2>5, <2>6, <2>7 DEF Inv
<1>6. QED BY <1>4, <1>5

LEMMA WaitSleepInv ==
  ASSUME Inv, NEW p \in Procs, WaitSleep(p) PROVE Inv'
<1>1. cproc = p /\ pc[p] \in Quiet /\ pc[p] \notin {"sl_hold", "fork_test"} /\ "wait" \in Quiet
  BY DEF WaitSleep, Runs, Quiet, Where
<1>2. Alone(p) \in Chan /\ \A r \in Procs : Alone(p) = Alone(r) => r = p
  BY ChanFacts
<1>3. pc' = [pc EXCEPT ![p] = "wait"] /\ Sleep(p, Alone(p))
  BY DEF WaitSleep, Runs, Goto, Inv, TypeOK
<1>4. /\ UNCHANGED <<panic, queueVars, priority, timeslice_left, killed, preempted,
                     treeVars, forkVars, locked>>
      /\ wait_for_child' \subseteq Procs /\ io' \subseteq Procs
  BY DEF WaitSleep, Inv, TypeOK, flagVars, devVars
<1>5. QED BY <1>1, <1>2, <1>3, <1>4, SleepInv

LEMMA ExitCloseIoInv ==
  ASSUME Inv, NEW p \in Procs, ExitCloseIo(p) PROVE Inv'
<1>1. cproc = p /\ pc[p] \in Quiet /\ pc[p] \notin {"sl_hold", "fork_test"} /\ "exit_io" \in Quiet
  BY DEF ExitCloseIo, Runs, Quiet, Where
<1>2. Buf(p) \in Chan /\ \A r \in Procs : Buf(p) = Alone(r) => r = p
  BY ChanFacts
<1>3. pc' = [pc EXCEPT ![p] = "exit_io"] /\ Sleep(p, Buf(p))
  BY DEF ExitCloseIo, Runs, Goto, Inv, TypeOK
<1>4. /\ UNCHANGED <<panic, queueVars, priority, timeslice_left, killed, preempted,
                     treeVars, forkVars, locked>>
      /\ wait_for_child' \subseteq Procs /\ io' \subseteq Procs
  BY DEF ExitCloseIo, Inv, TypeOK, flagVars, devVars
<1>5. QED BY <1>1, <1>2, <1>3, <1>4, SleepInv

LEMMA IoSubmitInv ==
  ASSUME Inv, NEW p \in Procs, IoSubmit(p) PROVE Inv'
<1>1. cproc = p /\ pc[p] \in Quiet /\ pc[p] \notin {"sl_hold", "fork_test"} /\ "io" \in Quiet
  BY DEF IoSubmit, Runs, Quiet, Where
<1>2. Buf(p) \in Chan /\ \A r \in Procs : Buf(p) = Alone(r) => r = p
  BY ChanFacts
<1>3. pc' = [pc EXCEPT ![p] = "io"] /\ Sleep(p, Buf(p))
  BY DEF IoSubmit, Runs, Goto, Inv, TypeOK
<1>4. /\ UNCHANGED <<panic, queueVars, priority, timeslice_left, killed, preempted,
                     treeVars, forkVars, locked>>
      /\ wait_for_child' \subseteq Procs /\ io' \subseteq Procs
  BY DEF IoSubmit, Inv, TypeOK, flagVars, devVars
<1>5. QED BY <1>1, <1>2, <1>3, <1>4, SleepInv

LEMMA ForkretInv ==
  ASSUME Inv, NEW p \in Procs, Forkret(p) PROVE Inv'
<1>1. cproc = p /\ pc[p] \in Quiet /\ pc[p] \notin {"sl_hold", "fork_test"}
  BY DEF Forkret, Runs, Quiet, Where
<1>2. Buf(p) \in Chan /\ \A r \in Procs : Buf(p) = Alone(r) => r = p
  BY ChanFacts
<1>3. CASE p = Root
  <2>1. PICK at \in Quiet : pc' = [pc EXCEPT ![p] = at]
    BY <1>1, <1>3 DEF Forkret, Runs, Goto, Inv, TypeOK, Quiet, Where
  <2>2. Sleep(p, Buf(p))
    BY <1>3 DEF Forkret
  <2>3. /\ UNCHANGED <<panic, queueVars, priority, timeslice_left, killed, preempted,
                       treeVars, forkVars, locked>>
        /\ wait_for_child' \subseteq Procs /\ io' \subseteq Procs
    BY <1>3 DEF Forkret, Inv, TypeOK, flagVars, devVars
  <2>4. QED BY <1>1, <1>2, <2>1, <2>2, <2>3, SleepInv
<1>4. CASE ~(p = Root)
  <2>1. PICK at \in Quiet : /\ pc' = [pc EXCEPT ![p] = at]
                            /\ status[p] = "ZOMBLE" => at = "exit_end"
    BY <1>4 DEF Forkret, Runs, Goto, Quiet, Where, Inv, ProcState
  <2>2. /\ killed' \subseteq Procs /\ wait_for_child' \subseteq Procs /\ io' \subseteq Procs
        /\ son' = son
        /\ UNCHANGED <<panic, schedVars, queueVars, status, priority, timeslice_left,
                       preempted, treeVars, sleep_list, half, locked>>
    BY <1>4 DEF Inv, TypeOK, Forkret, schedVars, flagVars, forkVars, devVars
  <2>3. QED BY <1>1, <2>1, <2>2, MoveInv
<1>5. QED BY <1>3, <1>4

LEMMA IoRecheckInv ==
  ASSUME Inv, NEW p \in Procs, IoRecheck(p) PROVE Inv'
<1>1. cproc = p /\ pc[p] \in Quiet /\ pc[p] \notin {"sl_hold", "fork_test"}
  BY DEF IoRecheck, Runs, Quiet, Where
<1>2. Buf(p) \in Chan /\ \A r \in Procs : Buf(p) = Alone(r) => r = p
  BY ChanFacts
<1>3. CASE p \in io
  <2>1. PICK at \in Quiet : pc' = [pc EXCEPT ![p] = at]
    BY <1>1, <1>3 DEF IoRecheck, Runs, Goto, Inv, TypeOK, Quiet, Where
  <2>2. Sleep(p, Buf(p))
    BY <1>3 DEF IoRecheck
  <2>3. /\ UNCHANGED <<panic, queueVars, priority, timeslice_left, killed, preempted,
                       treeVars, forkVars, locked>>
        /\ wait_for_child' \subseteq Procs /\ io' \subseteq Procs
    BY <1>3 DEF IoRecheck, Inv, TypeOK, flagVars, devVars
  <2>4. QED BY <1>1, <1>2, <2>1, <2>2, <2>3, SleepInv
<1>4. CASE ~(p \in io)
  <2>1. PICK at \in Quiet : /\ pc' = [pc EXCEPT ![p] = at]
                            /\ status[p] = "ZOMBLE" => at = "exit_end"
    BY <1>4 DEF IoRecheck, Runs, Goto, Quiet, Where, Inv, ProcState
  <2>2. /\ killed' \subseteq Procs /\ wait_for_child' \subseteq Procs /\ io' \subseteq Procs
        /\ son' = son
        /\ UNCHANGED <<panic, schedVars, queueVars, status, priority, timeslice_left,
                       preempted, treeVars, sleep_list, half, locked>>
    BY <1>4 DEF Inv, TypeOK, IoRecheck, schedVars, flagVars, forkVars, devVars
  <2>3. QED BY <1>1, <2>1, <2>2, MoveInv
<1>5. QED BY <1>3, <1>4

LEMMA SleepLockInv ==
  ASSUME Inv, NEW p \in Procs, SleepLock(p) PROVE Inv'
<1>1. cproc = p /\ pc[p] \in Quiet /\ pc[p] \notin {"sl_hold", "fork_test"}
  BY DEF SleepLock, Runs, Quiet, Where
<1>2. Slk \in Chan /\ \A r \in Procs : Slk = Alone(r) => r = p
  BY ChanFacts
<1>3. CASE locked
  <2>1. PICK at \in Quiet : pc' = [pc EXCEPT ![p] = at]
    BY <1>1, <1>3 DEF SleepLock, Runs, Goto, Inv, TypeOK, Quiet, Where
  <2>2. Sleep(p, Slk)
    BY <1>3 DEF SleepLock
  <2>3. /\ UNCHANGED <<panic, queueVars, priority, timeslice_left, killed, preempted,
                       treeVars, forkVars, locked>>
        /\ wait_for_child' \subseteq Procs /\ io' \subseteq Procs
    BY <1>3 DEF SleepLock, Inv, TypeOK, flagVars, devVars
  <2>4. QED BY <1>1, <1>2, <2>1, <2>2, <2>3, SleepInv
<1>4. CASE ~(locked)
  <2>0. /\ p # NoProc /\ spc = "swtch" /\ sp = NoProc
        /\ pc[p] = "sl_lock" /\ locked = FALSE /\ locked' = TRUE
        /\ pc' = [pc EXCEPT ![p] = "sl_hold"]
        /\ UNCHANGED <<panic, schedVars, queueVars, status, priority, timeslice_left,
                       flagVars, preempted, treeVars, sleep_list, forkVars, io>>
    BY <1>1, <1>4, CurrentFacts DEF SleepLock, Runs, Goto, Inv, TypeOK
  <2>f. /\ pc' \in [Procs -> Where] /\ pc'[p] = "sl_hold"
        /\ \A r \in Procs : r # p => pc'[r] = pc[r]
    BY <2>0 DEF Inv, TypeOK, Where
  <2>1. QInv' /\ SInv' /\ Queued' /\ OneRunning' /\ SliceNeverEmpty'
    BY <2>0 DEF Inv, QInv, SInv, Queued, OneRunning, SliceNeverEmpty, queueVars, schedVars
  <2>2. TypeOK'
    BY <2>0, <2>f DEF Inv, TypeOK, schedVars, queueVars, flagVars, treeVars, forkVars
  <2>3. ProcState'
    BY <1>1, <2>0, <2>f DEF Inv, ProcState, schedVars
  <2>4. ForkState'
    BY <1>1, <2>0, <2>f DEF Inv, ForkState, Forking, schedVars, queueVars, forkVars
  <2>5. SleepLockExclusive'
    BY <2>0, <2>f DEF Inv, SleepLockExclusive
  <2>6. QED BY <2>1, <2>2, <2>3, <2>4, <2>5 DEF Inv
<1>5. QED BY <1>3, <1>4

LEMMA SleepUnlockInv ==
  ASSUME Inv, NEW p \in Procs, SleepUnlock(p) PROVE Inv'
<1>1. /\ cproc = p /\ pc[p] = "sl_hold" /\ locked' = FALSE
      /\ pc' = [pc EXCEPT ![cproc] = "trapret"] /\ Wakeup(Slk)
      /\ UNCHANGED <<panic, schedVars, run, timeslice_left, flagVars, treeVars, forkVars, io>>
  BY DEF SleepUnlock, Runs, Goto
<1>2. Slk \in Chan
  BY ChanFacts
<1>3. /\ panic' \in {"none", "sched", "root exit"} /\ spc' \in {"top", "swtch"}
      /\ spc' = spc /\ io' \subseteq Procs
      /\ UNCHANGED <<cproc, sp, run, timeslice_left, flagVars, treeVars, forkVars>>
  BY <1>1, CurrentFacts DEF Inv, TypeOK, schedVars
<1>4. QED BY <1>1, <1>2, <1>3, WakeInv

LEMMA ide_intrInv ==
  ASSUME Inv, NEW p \in Procs, ide_intr(p) PROVE Inv'
<1>1. Wakeup(Buf(p)) /\ Buf(p) \in Chan
  BY ChanFacts DEF ide_intr
<1>2. /\ panic' \in {"none", "sched", "root exit"} /\ spc' \in {"top", "swtch"}
      /\ spc' = spc \/ (spc = "halt" /\ spc' = "top")
      /\ io' \subseteq Procs
      /\ UNCHANGED <<cproc, sp, run, timeslice_left, flagVars, treeVars, forkVars>>
      /\ locked' = locked
  BY DEF ide_intr, Inv, TypeOK
<1>3. \/ pc' = pc
      \/ /\ cproc \in Procs /\ pc[cproc] = "user"
         /\ pc' = [pc EXCEPT ![cproc] = "trapret"]
  BY DEF ide_intr, Inv, TypeOK
<1>4. QED BY <1>1, <1>2, <1>3, WakeInv

LEMMA NextRunType ==
  ASSUME run \in 1 .. 2 PROVE NextRun \in 1 .. 2
<1>1. run = 1 \/ run = 2
  OBVIOUS
<1>2. exhausted \in 1 .. 2
  BY <1>1 DEF exhausted
<1>3. QED BY <1>2 DEF NextRun

\* The scheduler's and the timer's steps that only move the scheduler.
LEMMA IdleInv ==
  ASSUME Inv, SchedSkip \/ SchedIdle \/ TickIdle PROVE Inv'
<1>1. /\ cproc' = cproc /\ cproc = NoProc /\ (sp' = sp \/ sp' = NoProc)
      /\ spc' \in {"pick", "halt", "top"} /\ (sp' # NoProc => spc' = "top")
      /\ run' \in 1 .. 2
      /\ UNCHANGED <<panic, queues, proc_queue, status, priority, timeslice_left, flagVars,
                     preempted, treeVars, sleep_list, pc, forkVars, devVars>>
  <2>1. NextRun \in 1 .. 2 /\ run \in 1 .. 2
    BY NextRunType DEF Inv, TypeOK
  <2>2. CASE SchedSkip
    BY <2>1, <2>2 DEF Inv, ProcState, SchedSkip, queueVars
  <2>3. CASE SchedIdle
    BY <2>1, <2>3 DEF Inv, ProcState, SchedIdle
  <2>4. CASE TickIdle
    BY <2>1, <2>4 DEF Inv, ProcState, TickIdle, queueVars
  <2>5. QED BY <2>2, <2>3, <2>4
<1>2. QInv' /\ SInv' /\ Queued' /\ SleepLockExclusive'
  BY <1>1 DEF Inv, QInv, SInv, Queued, SleepLockExclusive, devVars
<1>3. TypeOK'
  BY <1>1 DEF Inv, TypeOK, flagVars, treeVars, forkVars, devVars
<1>4. OneRunning' /\ ProcState'
  BY <1>1 DEF Inv, OneRunning, ProcState
<1>5. ForkState'
  BY <1>1, ProcsAssumption DEF Inv, ForkState, Forking, forkVars
<1>6. SliceNeverEmpty'
  <2>1. ASSUME NEW p \in Procs, proc_queue[p] # 0, sp = p PROVE timeslice_left[p] > 0 \/ sp' = p
    BY <1>1, <2>1 DEF SchedSkip, SchedIdle, TickIdle, Inv, Queued
  <2>2. QED BY <1>1, <2>1 DEF Inv, SliceNeverEmpty
<1>7. QED BY <1>2, <1>3, <1>4, <1>5, <1>6 DEF Inv

LEMMA SchedRequeueInv ==
  ASSUME Inv, SchedRequeue PROVE Inv'
<1> DEFINE p == sp
           pr == recalculate_priority(priority[p], 0)
           k == IF timeslice_left[p] = 0 THEN exhausted ELSE run
           Qs == IF proc_queue[p] = 0 THEN queues
                 ELSE [queues EXCEPT ![proc_queue[p]] = del_proc_fron_queue(@, p, priority[p])]
           ts == IF timeslice_left[p] = 0 THEN task_timeslice(pr) \div 2 ELSE timeslice_left[p]
           pq0 == [proc_queue EXCEPT ![p] = 0]
           prio1 == [priority EXCEPT ![p] = pr]
<1>1. /\ p \in Procs /\ p # NoProc /\ status[p] = "RUNNABLE" /\ spc = "top" /\ sp' = NoProc
      /\ spc' = "pick" /\ priority' = prio1
      /\ timeslice_left' = [timeslice_left EXCEPT ![p] = ts]
      /\ queues' = [Qs EXCEPT ![k] = add_proc_to_queue(@, p, pr)]
      /\ proc_queue' = [proc_queue EXCEPT ![p] = k]
      /\ UNCHANGED <<panic, cproc, run, status, flagVars, preempted,
                     treeVars, sleep_list, pc, forkVars, devVars>>
  BY DEF SchedRequeue, Inv, TypeOK
<1>2. /\ QOK(queues, proc_queue, priority) /\ priority \in [Procs -> Prio]
      /\ proc_queue \in [Procs -> 0 .. 2] /\ run \in 1 .. 2
      /\ timeslice_left \in [Procs -> Nat]
  BY DEF Inv, TypeOK, QInv
<1>3. pr \in Prio
  <2>1. priority[p] \in Prio
    BY <1>1, <1>2
  <2>2. QED BY <2>1, PrioRange
<1>4. k \in 1 .. 2
  BY <1>2 DEF exhausted
<1>5. ts \in Nat /\ ts > 0
  <2>1. task_timeslice(pr) \div 2 \in Nat /\ task_timeslice(pr) \div 2 > 0
    BY <1>3, HalfSlice
  <2>2. timeslice_left[p] \in Nat
    BY <1>1, <1>2
  <2> HIDE DEF pr
  <2>3. QED BY <2>1, <2>2
<1> HIDE DEF p, pr, k, ts
<1>6. QOK(Qs, pq0, priority)
  <2>1. CASE proc_queue[p] = 0
    <3>1. pq0 = proc_queue
      BY <1>1, <1>2, <2>1
    <3>2. QED BY <1>2, <2>1, <3>1
  <2>2. CASE proc_queue[p] # 0
    <3>1. proc_queue[p] \in 1 .. 2
      BY <1>1, <1>2, <2>2
    <3>2. QOK([queues EXCEPT ![proc_queue[p]] = del_proc_fron_queue(@, p, priority[p])],
              [proc_queue EXCEPT ![p] = 0], priority)
      BY <1>1, <1>2, <3>1, QDelete
    <3>3. QED BY <2>2, <3>2
  <2>3. QED BY <2>1, <2>2
<1>7. pq0[p] = 0
  BY <1>1, <1>2
<1> HIDE DEF Qs
<1>8. QOK(Qs, pq0, prio1)
  <2> HIDE DEF pq0
  <2>1. QED BY <1>1, <1>3, <1>6, <1>7, QPriority
<1>9. QInv'
  <2>1. prio1[p] = pr
    BY <1>1, <1>2, <1>3
  <2> HIDE DEF pq0, prio1
  <2>2. QOK([Qs EXCEPT ![k] = add_proc_to_queue(@, p, prio1[p])], [pq0 EXCEPT ![p] = k], prio1)
    BY <1>1, <1>4, <1>7, <1>8, QAdd
  <2>3. [pq0 EXCEPT ![p] = k] = [proc_queue EXCEPT ![p] = k]
    BY <1>1, <1>2 DEF pq0
  <2>4. QED BY <1>1, <2>1, <2>2, <2>3 DEF QInv
<1>10. SInv'
  BY <1>1 DEF Inv, SInv
<1>11. /\ timeslice_left' \in [Procs -> Nat] /\ timeslice_left'[p] > 0
       /\ \A r \in Procs : r # p => timeslice_left'[r] = timeslice_left[r]
       /\ \A r \in Procs : r # p => proc_queue'[r] = proc_queue[r]
  BY <1>1, <1>2, <1>5
<1>12. TypeOK'
  BY <1>1, <1>9, <1>11 DEF Inv, TypeOK, QInv, QOK, Queue, flagVars, treeVars, forkVars, devVars
<1>13. Queued'
  BY <1>1, <1>11 DEF Inv, Queued
<1>14. OneRunning' /\ ProcState' /\ SleepLockExclusive'
  BY <1>1 DEF Inv, OneRunning, ProcState, SleepLockExclusive, devVars
<1>15. ForkState'
  <2>1. \A r \in Procs : Forking(r) => son[r] # p
    BY DEF Inv, ForkState, p
  <2>2. QED BY <1>1, <1>11, <2>1, ProcsAssumption DEF Inv, ForkState, Forking, forkVars
<1>16. SliceNeverEmpty'
  BY <1>1, <1>11 DEF Inv, SliceNeverEmpty, p
<1>17. QED BY <1>9, <1>10, <1>12, <1>13, <1>14, <1>15, <1>16 DEF Inv

LEMMA SchedPickInv ==
  ASSUME Inv, SchedPick PROVE Inv'
<1> DEFINE k == NextRun
           p == FirstOf(queues[k], find_first_set(queues[k]))
<1>1. /\ panic = "none" /\ spc = "pick" /\ queues[k].bitmap # {} /\ run' = k
      /\ queues' = [queues EXCEPT ![k] = del_proc_fron_queue(@, p, priority[p])]
      /\ proc_queue' = [proc_queue EXCEPT ![p] = 0]
      /\ cproc' = p /\ status' = [status EXCEPT ![p] = "RUNNING"] /\ spc' = "swtch"
      /\ UNCHANGED <<panic, sp, priority, timeslice_left, flagVars, preempted,
                     treeVars, sleep_list, pc, forkVars, devVars>>
  BY DEF SchedPick
<1>2. k \in 1 .. 2
  BY NextRunType DEF Inv, TypeOK
<1> HIDE DEF k
<1>3. QOK(queues, proc_queue, priority) /\ GoodQueue(queues[k])
  BY <1>2 DEF Inv, QInv, QOK
<1>4. p \in Members(queues[k]) /\ Members(queues[k]) \subseteq Procs
  BY <1>1, <1>3, FirstProps, QueueEntries
<1> HIDE DEF p
<1>5. p \in Procs /\ proc_queue[p] = k /\ status[p] = "RUNNABLE"
  BY <1>2, <1>3, <1>4 DEF QOK, Inv, Queued
<1>6. QInv'
  <2>1. QOK([queues EXCEPT ![k] = del_proc_fron_queue(@, p, priority[p])],
            [proc_queue EXCEPT ![p] = 0], priority)
    BY <1>2, <1>3, <1>5, QDelete
  <2>2. QED BY <1>1, <2>1 DEF QInv
<1>7. SInv'
  <2>1. SOK(sleep_list, [status EXCEPT ![p] = "RUNNING"])
    BY <1>5, SAwake DEF Inv, SInv, Status
  <2>2. QED BY <1>1, <2>1 DEF SInv
<1>8. /\ status' \in [Procs -> Status] /\ status'[p] = "RUNNING" /\ proc_queue'[p] = 0
      /\ \A r \in Procs : r # p => status'[r] = status[r] /\ proc_queue'[r] = proc_queue[r]
      /\ cproc = NoProc /\ p # NoProc /\ sp = NoProc
  BY <1>1, <1>5, ProcsAssumption DEF Inv, TypeOK, Status, ProcState
<1>9. TypeOK'
  BY <1>1, <1>2, <1>5, <1>6, <1>8
     DEF Inv, TypeOK, QInv, QOK, Queue, flagVars, treeVars, forkVars, devVars
<1>10. Queued'
  BY <1>8 DEF Inv, Queued
<1>11. OneRunning'
  BY <1>1, <1>5, <1>8, ProcsAssumption DEF Inv, OneRunning
<1>12. ProcState'
  BY <1>1, <1>5, <1>8, ProcsAssumption DEF Inv, ProcState
<1>13. ForkState'
  <2>1. \A r \in Procs : Forking(r) => son[r] # p
    BY <1>2, <1>5 DEF Inv, ForkState
  <2>2. QED BY <1>1, <1>8, <2>1 DEF Inv, ForkState, Forking, forkVars
<1>14. SliceNeverEmpty'
  <2>1. timeslice_left[p] > 0
    BY <1>2, <1>5, <1>8 DEF Inv, SliceNeverEmpty
  <2>2. QED BY <1>1, <1>8, <2>1 DEF Inv, SliceNeverEmpty
<1>15. SleepLockExclusive'
  BY <1>1 DEF Inv, SleepLockExclusive, devVars
<1>16. QED BY <1>6, <1>7, <1>9, <1>10, <1>11, <1>12, <1>13, <1>14, <1>15 DEF Inv

LEMMA ExitRootInv ==
  ASSUME Inv, NEW p \in Procs, ExitRoot(p) PROVE Inv'
<1>1. panic' \in {"none", "sched", "root exit"}
  BY DEF ExitRoot
<1>2. UNCHANGED <<schedVars, queueVars, status, priority, timeslice_left, flagVars,
                  preempted, treeVars, sleep_list, pc, forkVars, devVars>>
  BY DEF ExitRoot
<1>3. TypeOK'
  BY <1>1, <1>2 DEF Inv, TypeOK, schedVars, queueVars, flagVars, treeVars, forkVars, devVars
<1>4. QInv' /\ SInv' /\ Queued' /\ OneRunning' /\ SliceNeverEmpty' /\ SleepLockExclusive'
  BY <1>2 DEF Inv, QInv, SInv, Queued, OneRunning, SliceNeverEmpty, SleepLockExclusive,
              schedVars, queueVars, devVars
<1>5. ProcState' /\ ForkState'
  BY <1>2 DEF Inv, ProcState, ForkState, Forking, schedVars, queueVars, forkVars
<1>6. QED BY <1>3, <1>4, <1>5 DEF Inv

LEMMA proc_allocInv ==
  ASSUME Inv, NEW p \in Procs, proc_alloc(p) PROVE Inv'
<1>1. PICK s \in Procs :
         /\ status[s] = "FREE"
         /\ son' = [son EXCEPT ![p] = s]
         /\ status' = [status EXCEPT ![s] = "READY"]
         /\ priority' = [priority EXCEPT ![s] = 0]
         /\ timeslice_left' = [timeslice_left EXCEPT ![s] = 0]
         /\ killed' = killed \ {s}
         /\ preempted' = preempted \ {s}
         /\ wait_for_child' = wait_for_child \ {s}
         /\ proc_queue' = [proc_queue EXCEPT ![s] = 0]
         /\ ppid' = [ppid EXCEPT ![s] = Root]
         /\ children' = [children EXCEPT ![s] = <<>>]
         /\ sleep_list' = [sleep_list EXCEPT ![Alone(s)] = <<>>]
         /\ pc' = [pc EXCEPT ![p] = "fork_load", ![s] = "forkret"]
  BY DEF proc_alloc
<1>2. /\ cproc = p /\ pc[p] = "fork_alloc"
      /\ UNCHANGED <<panic, schedVars, run, queues, half, devVars>>
  BY DEF proc_alloc, Runs
<1>3. /\ p # NoProc /\ spc = "swtch" /\ sp = NoProc
      /\ status[p] \in {"RUNNING", "ZOMBLE"} /\ proc_queue[p] = 0
  BY <1>2, CurrentFacts
<1>4. s # p /\ proc_queue[s] = 0 /\ pc[s] = "dead" /\ s # NoProc /\ s # cproc
  BY <1>1, <1>2, <1>3, ProcsAssumption DEF Inv, Queued, ProcState
<1>5. /\ pc' \in [Procs -> Where] /\ pc'[p] = "fork_load" /\ pc'[s] = "forkret"
      /\ \A r \in Procs : r # p /\ r # s => pc'[r] = pc[r]
  BY <1>1, <1>4 DEF Inv, TypeOK, Where
<1>6. /\ status' \in [Procs -> Status] /\ status'[s] = "READY"
      /\ \A r \in Procs : r # s => status'[r] = status[r]
  BY <1>1 DEF Inv, TypeOK, Status
<1>7. /\ timeslice_left' \in [Procs -> Nat]
      /\ \A r \in Procs : r # s => timeslice_left'[r] = timeslice_left[r]
  BY <1>1 DEF Inv, TypeOK
<1>8. /\ son' \in [Procs -> Procs \cup {NoProc}] /\ son'[p] = s
      /\ \A r \in Procs : r # p => son'[r] = son[r]
  BY <1>1 DEF Inv, TypeOK
<1>9. proc_queue' = proc_queue
  BY <1>1, <1>4 DEF Inv, TypeOK
<1>q. QInv'
  <2>1. QOK(queues, proc_queue, priority) /\ 0 \in Prio
    BY SliceAssumption DEF Inv, QInv, Prio
  <2>2. QOK(queues, proc_queue, [priority EXCEPT ![s] = 0])
    BY <1>4, <2>1, QPriority
  <2>3. QED BY <1>1, <1>2, <1>9, <2>2 DEF QInv
<1>s. SInv'
  <2>1. SOK(sleep_list, status) /\ status \in [Procs -> Status]
    BY DEF Inv, SInv, SOK
  <2>2. Alone(s) \in Chan /\ Elems(sleep_list[Alone(s)]) \subseteq Procs
    BY <2>1, ChanFacts, LenProperties, ElementOfSeq DEF SOK, Elems
  <2>3. Elems(sleep_list[Alone(s)]) = {}
    BY <1>1, <2>1, <2>2 DEF SOK
  <2>4. SOK([sleep_list EXCEPT ![Alone(s)] = <<>>],
            [r \in Procs |-> IF r \in Elems(sleep_list[Alone(s)]) THEN "RUNNABLE" ELSE status[r]])
    BY <2>1, <2>2, SWake
  <2>5. [r \in Procs |-> IF r \in Elems(sleep_list[Alone(s)]) THEN "RUNNABLE" ELSE status[r]]
        = status
    BY <2>1, <2>3
  <2>6. SOK([sleep_list EXCEPT ![Alone(s)] = <<>>], status)
    BY <2>4, <2>5
  <2>7. SOK([sleep_list EXCEPT ![Alone(s)] = <<>>], [status EXCEPT ![s] = "READY"])
    BY <1>1, <2>6, SAwake DEF Status
  <2>8. QED BY <1>1, <2>7 DEF SInv
<1>t. /\ priority' \in [Procs -> Prio] /\ sleep_list' \in [Chan -> Seq(Procs)]
  BY <1>q, <1>s DEF QInv, SInv, QOK, SOK
<1>u. /\ ppid' \in [Procs -> Procs] /\ children' \in [Procs -> Seq(Procs)]
      /\ killed' \subseteq Procs /\ preempted' \subseteq Procs /\ wait_for_child' \subseteq Procs
  BY <1>1, EmptyList, ProcsAssumption DEF Inv, TypeOK
<1>10. TypeOK'
  BY <1>2, <1>5, <1>6, <1>7, <1>8, <1>9, <1>t, <1>u DEF Inv, TypeOK, schedVars, devVars
<1>11. Queued'
  BY <1>4, <1>6, <1>9 DEF Inv, Queued
<1>12. OneRunning'
  BY <1>2, <1>3, <1>4, <1>6 DEF Inv, OneRunning, schedVars
<1>13. ProcState'
  BY <1>2, <1>3, <1>4, <1>5, <1>6 DEF Inv, ProcState, schedVars
<1>14. ForkState'
  <2>1. \A r \in Procs : r # p /\ Forking(r)' =>
           /\ Forking(r) /\ pc'[r] = pc[r] /\ son'[r] = son[r] /\ son[r] # s
    BY <1>1, <1>5, <1>8 DEF Inv, ForkState, Forking
  <2>2. QED
    BY <1>2, <1>3, <1>4, <1>5, <1>6, <1>7, <1>8, <1>9, <2>1
       DEF Inv, ForkState, schedVars
<1>15. SliceNeverEmpty'
  BY <1>2, <1>4, <1>6, <1>7, <1>9 DEF Inv, SliceNeverEmpty, schedVars
<1>16. SleepLockExclusive'
  BY <1>2, <1>4, <1>5 DEF Inv, SleepLockExclusive, devVars
<1>17. QED BY <1>q, <1>s, <1>10, <1>11, <1>12, <1>13, <1>14, <1>15, <1>16 DEF Inv

LEMMA ForkLoadInv ==
  ASSUME Inv, NEW p \in Procs, ForkLoad(p) PROVE Inv'
<1>1. /\ cproc = p /\ pc[p] = "fork_load" /\ pc' = [pc EXCEPT ![p] = "fork_store"]
      /\ UNCHANGED <<panic, schedVars, queueVars, status, priority, timeslice_left,
                     flagVars, preempted, treeVars, sleep_list, son, devVars>>
  BY DEF ForkLoad, Runs, Goto
<1>2. /\ p # NoProc /\ status[p] \in {"RUNNING", "ZOMBLE"}
      /\ timeslice_left[p] \in Nat
  BY <1>1, CurrentFacts
<1>3. PICK h \in Nat : half' = [half EXCEPT ![p] = h]
  <2>1. PICK t \in Nat : t = timeslice_left[p]
    BY <1>2
  <2>2. t \div 2 \in Nat
    OBVIOUS
  <2>3. QED BY <2>1, <2>2 DEF ForkLoad
<1>4. half' \in [Procs -> Nat]
  BY <1>3 DEF Inv, TypeOK
<1>5. /\ pc' \in [Procs -> Where] /\ pc'[p] = "fork_store"
      /\ \A r \in Procs : r # p => pc'[r] = pc[r]
  BY <1>1 DEF Inv, TypeOK, Where
<1>6. QInv' /\ SInv' /\ Queued' /\ OneRunning' /\ SliceNeverEmpty'
  BY <1>1, <1>5 DEF Inv, QInv, SInv, Queued, OneRunning, SliceNeverEmpty, queueVars, schedVars
<1>7. TypeOK'
  BY <1>1, <1>4, <1>5 DEF Inv, TypeOK, schedVars, queueVars, flagVars, treeVars, devVars
<1>8. ProcState'
  BY <1>1, <1>5 DEF Inv, ProcState, schedVars
<1>9. ForkState'
  BY <1>1, <1>5 DEF Inv, ForkState, Forking, schedVars, queueVars
<1>10. SleepLockExclusive'
  BY <1>1, <1>5 DEF Inv, SleepLockExclusive, devVars
<1>11. QED BY <1>6, <1>7, <1>8, <1>9, <1>10 DEF Inv

\* The store of half a slice, which may be 0, is covered by the test that
\* the parent has still to make.
LEMMA ForkHalveInv ==
  ASSUME Inv, NEW p \in Procs, ForkHalve(p) PROVE Inv'
<1>1. /\ cproc = p /\ pc[p] = "fork_store" /\ pc' = [pc EXCEPT ![p] = "fork_test"]
      /\ timeslice_left' = [timeslice_left EXCEPT ![p] = half[p]]
      /\ half' = [half EXCEPT ![p] = 0]
      /\ UNCHANGED <<panic, schedVars, queueVars, status, priority, flagVars, preempted,
                     treeVars, sleep_list, son, devVars>>
  BY DEF ForkHalve, Runs, Goto
<1>2. p # NoProc /\ status[p] \in {"RUNNING", "ZOMBLE"} /\ proc_queue[p] = 0
  BY <1>1, CurrentFacts
<1>3. half' \in [Procs -> Nat]
  BY <1>1 DEF Inv, TypeOK
<1>4. /\ timeslice_left' \in [Procs -> Nat]
      /\ \A r \in Procs : r # p => timeslice_left'[r] = timeslice_left[r]
  BY <1>1 DEF Inv, TypeOK
<1>5. /\ pc' \in [Procs -> Where] /\ pc'[p] = "fork_test"
      /\ \A r \in Procs : r # p => pc'[r] = pc[r]
  BY <1>1 DEF Inv, TypeOK, Where
<1>6. QInv' /\ SInv' /\ Queued' /\ OneRunning'
  BY <1>1 DEF Inv, QInv, SInv, Queued, OneRunning, queueVars, schedVars
<1>7. TypeOK'
  BY <1>1, <1>3, <1>4, <1>5 DEF Inv, TypeOK, schedVars, queueVars, flagVars, treeVars, devVars
<1>8. ProcState'
  BY <1>1, <1>5 DEF Inv, ProcState, schedVars
<1>9. ForkState'
  BY <1>1, <1>4, <1>5 DEF Inv, ForkState, Forking, schedVars, queueVars
<1>10. SliceNeverEmpty'
  BY <1>1, <1>2, <1>4, <1>5 DEF Inv, SliceNeverEmpty, schedVars, queueVars
<1>11. SleepLockExclusive'
  BY <1>1, <1>5 DEF Inv, SleepLockExclusive, devVars
<1>12. QED BY <1>6, <1>7, <1>8, <1>9, <1>10, <1>11 DEF Inv

LEMMA ForkChildInv ==
  ASSUME Inv, NEW p \in Procs, cproc = p, pc[p] \in {"fork_store", "fork_test"},
         NEW t \in Nat \ {0}, ForkChild(p, t)
  PROVE  Inv'
<1> DEFINE s == son[p]
<1>0. t \in Nat /\ t > 0
  OBVIOUS
<1>1. /\ pc' = [pc EXCEPT ![p] = "fork_link"]
      /\ timeslice_left' = [timeslice_left EXCEPT ![p] = t, ![s] = t]
      /\ ppid' = [ppid EXCEPT ![s] = p]
      /\ status' = [status EXCEPT ![s] = "RUNNABLE"]
      /\ priority' = [priority EXCEPT ![s] = DEFAULT_USER_PRIO]
      /\ half' = [half EXCEPT ![p] = 0]
      /\ UNCHANGED <<panic, schedVars, queueVars, flagVars, preempted, children,
                     sleep_list, son, devVars>>
  BY DEF ForkChild, Goto
<1>2. /\ s \in Procs /\ s # p /\ proc_queue[s] = 0 /\ status[s] = "READY"
      /\ sp # s
      /\ \A r \in Procs : Forking(r) /\ son[r] = s => r = p
  BY <1>1 DEF Inv, ForkState, Forking, TypeOK
<1> HIDE DEF s
<1>3. /\ timeslice_left' \in [Procs -> Nat] /\ timeslice_left'[p] > 0 /\ timeslice_left'[s] > 0
      /\ \A r \in Procs : r # p /\ r # s => timeslice_left'[r] = timeslice_left[r]
  BY <1>0, <1>1, <1>2 DEF Inv, TypeOK
<1>4. /\ status' \in [Procs -> Status] /\ status'[s] = "RUNNABLE"
      /\ \A r \in Procs : r # s => status'[r] = status[r]
  BY <1>1, <1>2 DEF Inv, TypeOK, Status
<1>5. /\ half' \in [Procs -> Nat] /\ \A r \in Procs : r # p => half'[r] = half[r]
  BY <1>1 DEF Inv, TypeOK
<1>6. /\ pc' \in [Procs -> Where] /\ pc'[p] = "fork_link"
      /\ \A r \in Procs : r # p => pc'[r] = pc[r]
  BY <1>1 DEF Inv, TypeOK, Where
<1>q. QInv'
  <2>1. QOK(queues, proc_queue, priority) /\ DEFAULT_USER_PRIO \in Prio
    BY SliceAssumption DEF Inv, QInv, Prio
  <2>2. QOK(queues, proc_queue, [priority EXCEPT ![s] = DEFAULT_USER_PRIO])
    BY <1>2, <2>1, QPriority
  <2>3. QED BY <1>1, <2>2 DEF QInv, queueVars
<1>s. SInv'
  <2>1. SOK(sleep_list, [status EXCEPT ![s] = "RUNNABLE"])
    BY <1>2, SAwake DEF Inv, SInv, Status
  <2>2. QED BY <1>1, <2>1 DEF SInv
<1>t. priority' \in [Procs -> Prio] /\ ppid' \in [Procs -> Procs]
  BY <1>1, <1>q DEF QInv, QOK, Inv, TypeOK
<1>7. TypeOK'
  BY <1>1, <1>3, <1>4, <1>5, <1>6, <1>t DEF Inv, TypeOK, schedVars, queueVars, flagVars, devVars
<1>8. Queued'
  BY <1>1, <1>4 DEF Inv, Queued, queueVars
<1>9. OneRunning'
  BY <1>1, <1>2, <1>4 DEF Inv, OneRunning, schedVars
<1>10. ProcState'
  BY <1>1, <1>2, <1>4, <1>6 DEF Inv, ProcState, schedVars
<1>11. ForkState'
  <2>1. \A r \in Procs : r # p /\ Forking(r)' => Forking(r) /\ pc'[r] = pc[r] /\ son[r] # s
                                                 /\ son[r] # p
    BY <1>1, <1>2, <1>6 DEF Forking, Inv, ForkState
  <2>2. Forking(p) /\ son[p] = s
    BY <1>1 DEF Forking, s
  <2>3. QED BY <1>1, <1>2, <1>3, <1>4, <1>5, <1>6, <2>1, <2>2
            DEF Inv, ForkState, schedVars, queueVars
<1>12. SliceNeverEmpty'
  BY <1>1, <1>2, <1>3, <1>4, <1>6 DEF Inv, SliceNeverEmpty, schedVars, queueVars
<1>13. SleepLockExclusive'
  BY <1>1, <1>6 DEF Inv, SleepLockExclusive, devVars
<1>14. QED BY <1>q, <1>s, <1>7, <1>8, <1>9, <1>10, <1>11, <1>12, <1>13 DEF Inv

LEMMA ForkStoreInv ==
  ASSUME Inv, NEW p \in Procs, ForkStore(p) \/ ForkTest(p) PROVE Inv'
<1>1. PICK t \in Nat : ForkChild(p, AtLeastOne(t))
  BY DEF ForkStore, ForkTest, Inv, TypeOK
<1>2. AtLeastOne(t) \in Nat \ {0}
  BY DEF AtLeastOne
<1>3. cproc = p /\ pc[p] \in {"fork_store", "fork_test"}
  BY DEF ForkStore, ForkTest, Runs
<1>4. QED BY <1>1, <1>2, <1>3, ForkChildInv

LEMMA ForkLinkInv ==
  ASSUME Inv, NEW p \in Procs, ForkLink(p) PROVE Inv'
<1> DEFINE s == son[p]
<1>1. /\ cproc = p /\ pc[p] = "fork_link" /\ pc' = [pc EXCEPT ![p] = "trapret"]
      /\ children' = [children EXCEPT ![p] = Append(@, s)]
      /\ queues' = [queues EXCEPT ![run] = add_proc_to_queue(@, s, priority[s])]
      /\ proc_queue' = [proc_queue EXCEPT ![s] = run]
      /\ son' = [son EXCEPT ![p] = NoProc]
      /\ UNCHANGED <<panic, schedVars, run, status, priority, timeslice_left,
                     flagVars, preempted, ppid, sleep_list, half, devVars>>
  BY DEF ForkLink, Runs, Goto
<1>2. /\ s \in Procs /\ s # p /\ proc_queue[s] = 0 /\ status[s] = "RUNNABLE"
      /\ timeslice_left[s] > 0 /\ run \in 1 .. 2
      /\ \A r \in Procs : Forking(r) /\ son[r] = s => r = p
  BY <1>1 DEF Inv, ForkState, Forking, TypeOK
<1> HIDE DEF s
<1>3. /\ pc' \in [Procs -> Where] /\ pc'[p] = "trapret"
      /\ \A r \in Procs : r # p => pc'[r] = pc[r]
  BY <1>1 DEF Inv, TypeOK, Where
<1>4. \A r \in Procs : r # s => proc_queue'[r] = proc_queue[r]
  BY <1>1 DEF Inv, TypeOK
<1>5. /\ son' \in [Procs -> Procs \cup {NoProc}]
      /\ \A r \in Procs : r # p => son'[r] = son[r]
  BY <1>1 DEF Inv, TypeOK
<1>6. children' \in [Procs -> Seq(Procs)]
  <2>1. children[p] \in Seq(Procs) /\ children \in [Procs -> Seq(Procs)]
    BY DEF Inv, TypeOK
  <2>2. Append(children[p], s) \in Seq(Procs)
    BY <1>2, <2>1, AppendProperties
  <2>3. QED BY <1>1, <2>1, <2>2
<1>q. QInv'
  <2>1. QOK([queues EXCEPT ![run] = add_proc_to_queue(@, s, priority[s])],
            [proc_queue EXCEPT ![s] = run], priority)
    BY <1>2, QAdd DEF Inv, QInv
  <2>2. QED BY <1>1, <2>1 DEF QInv
<1>s. SInv'
  BY <1>1 DEF Inv, SInv
<1>7. TypeOK'
  BY <1>1, <1>3, <1>5, <1>6, <1>q
     DEF Inv, TypeOK, QInv, QOK, Queue, schedVars, flagVars, devVars
<1>8. Queued'
  BY <1>1, <1>2, <1>4 DEF Inv, Queued
<1>9. OneRunning'
  BY <1>1 DEF Inv, OneRunning, schedVars
<1>10. ProcState'
  BY <1>1, <1>3 DEF Inv, ProcState, schedVars
<1>11. ForkState'
  <2>1. \A r \in Procs : Forking(r)' => /\ r # p /\ Forking(r) /\ pc'[r] = pc[r]
                                        /\ son'[r] = son[r] /\ son[r] # s
    BY <1>2, <1>3, <1>5 DEF Forking
  <2>2. QED BY <1>1, <1>4, <2>1 DEF Inv, ForkState, schedVars
<1>12. SliceNeverEmpty'
  BY <1>1, <1>2, <1>4 DEF Inv, SliceNeverEmpty, schedVars
<1>13. SleepLockExclusive'
  BY <1>1, <1>3 DEF Inv, SleepLockExclusive, devVars
<1>14. QED BY <1>q, <1>s, <1>7, <1>8, <1>9, <1>10, <1>11, <1>12, <1>13 DEF Inv

LEMMA WaitReapInv ==
  ASSUME Inv, NEW p \in Procs, WaitReap(p) PROVE Inv'
<1>1. PICK k \in DOMAIN children[p] :
         /\ ZombleAt(p, k)
         /\ status' = [status EXCEPT ![children[p][k]] = "FREE"]
         /\ children' = [children EXCEPT ![p] = DelAt(@, k)]
  BY DEF WaitReap
<1> DEFINE s == children[p][k]
<1>2. /\ cproc = p /\ pc[p] = "wait" /\ pc' = [pc EXCEPT ![p] = "trapret"]
      /\ status' = [status EXCEPT ![s] = "FREE"]
      /\ UNCHANGED <<panic, schedVars, queueVars, priority, timeslice_left, flagVars,
                     preempted, ppid, sleep_list, forkVars, devVars>>
  BY <1>1 DEF WaitReap, Runs, Goto
<1>3. /\ children \in [Procs -> Seq(Procs)] /\ children[p] \in Seq(Procs)
      /\ s \in Procs /\ status[s] = "ZOMBLE"
  <2>1. children \in [Procs -> Seq(Procs)]
    BY DEF Inv, TypeOK
  <2>2. QED BY <1>1, <2>1, LenProperties, ElementOfSeq DEF ZombleAt
<1>4. children' \in [Procs -> Seq(Procs)]
  <2>1. DelAt(children[p], k) \in Seq(Procs)
    BY <1>3, DelAtProps
  <2>2. QED BY <1>1, <1>3, <2>1
<1> HIDE DEF s
<1>5. s # p /\ pc[s] = "dead"
  BY <1>2, <1>3 DEF Inv, ProcState
<1>6. /\ status' \in [Procs -> Status] /\ status'[s] = "FREE"
      /\ \A r \in Procs : r # s => status'[r] = status[r]
  BY <1>2, <1>3 DEF Inv, TypeOK, Status
<1>7. /\ pc' \in [Procs -> Where] /\ pc'[p] = "trapret"
      /\ \A r \in Procs : r # p => pc'[r] = pc[r]
  BY <1>2 DEF Inv, TypeOK, Where
<1>q. QInv'
  BY <1>2 DEF Inv, QInv, queueVars
<1>s. SInv'
  <2>1. SOK(sleep_list, [status EXCEPT ![s] = "FREE"])
    BY <1>3, SAwake DEF Inv, SInv, Status
  <2>2. QED BY <1>2, <2>1 DEF SInv
<1>8. TypeOK'
  BY <1>2, <1>4, <1>6, <1>7 DEF Inv, TypeOK, schedVars, queueVars, flagVars, forkVars, devVars
<1>9. Queued'
  BY <1>2, <1>3, <1>6 DEF Inv, Queued, queueVars
<1>10. OneRunning'
  BY <1>2, <1>5, <1>6 DEF Inv, OneRunning, schedVars
<1>11. ProcState'
  BY <1>2, <1>5, <1>6, <1>7 DEF Inv, ProcState, schedVars
<1>12. ForkState'
  <2>1. \A r \in Procs : Forking(r)' => Forking(r) /\ pc'[r] = pc[r] /\ son[r] # s
    BY <1>2, <1>3, <1>7 DEF Inv, ForkState, Forking
  <2>2. QED BY <1>2, <1>6, <2>1 DEF Inv, ForkState, forkVars, schedVars, queueVars
<1>13. SliceNeverEmpty'
  BY <1>2, <1>6 DEF Inv, SliceNeverEmpty, schedVars, queueVars
<1>14. SleepLockExclusive'
  BY <1>2, <1>7 DEF Inv, SleepLockExclusive, devVars
<1>15. QED BY <1>q, <1>s, <1>8, <1>9, <1>10, <1>11, <1>12, <1>13, <1>14 DEF Inv

LEMMA KillInv ==
  ASSUME Inv, NEW p \in Procs, NEW t \in Procs, Kill(p, t) PROVE Inv'
<1>1. /\ cproc = p /\ pc[p] = "user" /\ pc' = [pc EXCEPT ![p] = "trapret"]
      /\ killed' = killed \cup {t}
      /\ UNCHANGED <<panic, schedVars, run, priority, timeslice_left, wait_for_child,
                     preempted, treeVars, forkVars, devVars>>
  BY DEF Kill, Runs, Goto
<1>2. CASE status[t] # "SLEEPING"
  <2>1. UNCHANGED <<status, sleep_list, queues, proc_queue>>
    BY <1>2 DEF Kill, MustWake
  <2>2. "trapret" \in Quiet /\ status[p] # "ZOMBLE" /\ pc[p] \notin {"sl_hold", "fork_test"}
    BY <1>1 DEF Quiet, Where, Inv, ProcState
  <2>3. /\ killed' \subseteq Procs /\ wait_for_child' \subseteq Procs /\ io' \subseteq Procs
        /\ son' = son
        /\ UNCHANGED <<panic, schedVars, queueVars, status, priority, timeslice_left,
                       preempted, treeVars, sleep_list, half, locked>>
    BY <1>1, <2>1 DEF Inv, TypeOK, queueVars, forkVars, devVars
  <2>4. QED BY <1>1, <2>2, <2>3, MoveInv
<1>3. CASE status[t] = "SLEEPING"
  <2>1. /\ status' = [status EXCEPT ![t] = "RUNNABLE"]
        /\ sleep_list' = [c \in Chan |-> Without(sleep_list[c], t)]
        /\ queues' = [queues EXCEPT ![run] = add_proc_to_queue(@, t, priority[t])]
        /\ proc_queue' = [proc_queue EXCEPT ![t] = run]
    BY <1>3 DEF Kill, MustWake
  <2>2. /\ t # p /\ proc_queue[t] = 0 /\ run \in 1 .. 2 /\ timeslice_left[t] > 0
        /\ pc[t] # "dead"
    BY <1>1, <1>3, CurrentFacts DEF Inv, Queued, TypeOK, SliceNeverEmpty, ProcState
  <2>3. /\ status' \in [Procs -> Status] /\ status'[t] = "RUNNABLE"
        /\ \A r \in Procs : r # t => status'[r] = status[r] /\ proc_queue'[r] = proc_queue[r]
    BY <2>1 DEF Inv, TypeOK, Status
  <2>4. /\ pc' \in [Procs -> Where] /\ pc'[p] = "trapret"
        /\ \A r \in Procs : r # p => pc'[r] = pc[r]
    BY <1>1 DEF Inv, TypeOK, Where
  <2>q. QInv'
    <3>1. QOK([queues EXCEPT ![run] = add_proc_to_queue(@, t, priority[t])],
              [proc_queue EXCEPT ![t] = run], priority)
      BY <2>2, QAdd DEF Inv, QInv
    <3>2. QED BY <1>1, <2>1, <3>1 DEF QInv
  <2>s. SInv'
    <3>1. SOK([c \in Chan |-> Without(sleep_list[c], t)], [status EXCEPT ![t] = "RUNNABLE"])
      BY SKill DEF Inv, SInv
    <3>2. QED BY <2>1, <3>1 DEF SInv
  <2>t. /\ queues' \in [1 .. 2 -> Queue] /\ proc_queue' \in [Procs -> 0 .. 2]
        /\ sleep_list' \in [Chan -> Seq(Procs)] /\ killed' \subseteq Procs
    <3>1. killed' \subseteq Procs
      BY <1>1 DEF Inv, TypeOK
    <3>2. queues' \in [1 .. 2 -> Queue] /\ proc_queue' \in [Procs -> 0 .. 2]
      BY <2>q DEF QInv, QOK
    <3>3. sleep_list' \in [Chan -> Seq(Procs)]
      BY <2>s DEF SInv, SOK
    <3>4. QED BY <3>1, <3>2, <3>3
  <2>u. /\ panic' = panic /\ cproc' = cproc /\ sp' = sp /\ spc' = spc /\ run' = run
        /\ priority' = priority /\ timeslice_left' = timeslice_left
        /\ preempted' = preempted /\ wait_for_child' = wait_for_child
        /\ ppid' = ppid /\ children' = children /\ son' = son /\ half' = half
        /\ locked' = locked /\ io' = io
    BY <1>1 DEF schedVars, treeVars, forkVars, devVars
  <2>v. queues' \in [1 .. 2 -> [list : Seq(Entry), bitmap : SUBSET Prio, n_procs : Int]]
    BY <2>t DEF Queue
  <2>5. TypeOK'
    BY <2>3, <2>4, <2>t, <2>u, <2>v DEF Inv, TypeOK
  <2>6. Queued'
    BY <2>3 DEF Inv, Queued
  <2>7. OneRunning'
    BY <1>1, <2>2, <2>3 DEF Inv, OneRunning, schedVars
  <2>8. ProcState'
    BY <1>1, <2>2, <2>3, <2>4 DEF Inv, ProcState, schedVars
  <2>9. ForkState'
    <3>1. \A r \in Procs : Forking(r)' => Forking(r) /\ pc'[r] = pc[r] /\ son[r] # t
      BY <1>1, <1>3, <2>4 DEF Inv, ForkState, Forking
    <3>2. QED BY <1>1, <2>3, <3>1 DEF Inv, ForkState, forkVars, schedVars
  <2>10. SliceNeverEmpty'
    BY <1>1, <2>2, <2>3 DEF Inv, SliceNeverEmpty, schedVars
  <2>11. SleepLockExclusive'
    BY <1>1, <2>4 DEF Inv, SleepLockExclusive, devVars
  <2>12. QED BY <2>q, <2>s, <2>5, <2>6, <2>7, <2>8, <2>9, <2>10, <2>11 DEF Inv
<1>4. QED BY <1>2, <1>3

LEMMA ReversedSeq ==
  ASSUME NEW s \in Seq(Procs)
  PROVE  Reversed(s) \in Seq(Procs)
<1>1. /\ Len(s) \in Nat /\ DOMAIN s = 1 .. Len(s)
      /\ \A i \in 1 .. Len(s) : s[i] \in Procs
  BY LenProperties, ElementOfSeq
<1>2. \A i \in 1 .. Len(s) : Len(s) + 1 - i \in 1 .. Len(s)
  BY <1>1
<1>3. Reversed(s) \in [1 .. Len(s) -> Procs]
  BY <1>1, <1>2 DEF Reversed
<1>4. QED BY <1>1, <1>3

LEMMA ExitInv ==
  ASSUME Inv, NEW p \in Procs, Exit(p) PROVE Inv'
<1>1. /\ cproc = p /\ pc[p] = "exit" /\ p # Root /\ pc' = [pc EXCEPT ![p] = "exit_close"]
      /\ children' = [children EXCEPT ![p] = <<>>,
                                      ![Root] = Reversed(children[p]) \o @]
      /\ ppid' = [c \in Procs |-> IF c \in Elems(children[p]) THEN Root ELSE ppid[c]]
      /\ proc_queue' = [proc_queue EXCEPT ![p] = 0]
      /\ status' = [status EXCEPT ![p] = "ZOMBLE"]
      /\ UNCHANGED <<panic, schedVars, run, queues, priority, timeslice_left, flagVars,
                     preempted, sleep_list, forkVars, devVars>>
  BY DEF Exit, Adopt, Runs, Goto
<1>2. /\ p # NoProc /\ status[p] \in {"RUNNING", "ZOMBLE"} /\ proc_queue[p] = 0
  BY <1>1, CurrentFacts
<1>3. proc_queue' = proc_queue
  BY <1>1, <1>2 DEF Inv, TypeOK
<1>4. /\ status' \in [Procs -> Status] /\ status'[p] = "ZOMBLE"
      /\ \A r \in Procs : r # p => status'[r] = status[r]
  BY <1>1 DEF Inv, TypeOK, Status
<1>5. /\ pc' \in [Procs -> Where] /\ pc'[p] = "exit_close"
      /\ \A r \in Procs : r # p => pc'[r] = pc[r]
  BY <1>1 DEF Inv, TypeOK, Where
<1>6. children' \in [Procs -> Seq(Procs)] /\ ppid' \in [Procs -> Procs]
  <2>1. /\ children \in [Procs -> Seq(Procs)] /\ children[p] \in Seq(Procs)
        /\ children[Root] \in Seq(Procs) /\ ppid \in [Procs -> Procs]
    BY ProcsAssumption DEF Inv, TypeOK
  <2>2. PICK rc \in Seq(Procs) : rc = Reversed(children[p])
    BY <2>1, ReversedSeq
  <2>3. PICK rr \in Seq(Procs) : rr = children[Root]
    BY <2>1
  <2>4. PICK l \in Seq(Procs) : l = rc \o rr
    BY ConcatProperties
  <2>5. children' = [children EXCEPT ![p] = <<>>, ![Root] = l]
    BY <1>1, <2>2, <2>3, <2>4, <2>1, ProcsAssumption
  <2>6. children' \in [Procs -> Seq(Procs)]
    BY <2>1, <2>5, EmptyList
  <2>7. ppid' \in [Procs -> Procs]
    BY <1>1, <2>1, ProcsAssumption
  <2>8. QED BY <2>6, <2>7
<1>q. QInv'
  BY <1>1, <1>3 DEF Inv, QInv
<1>s. SInv'
  <2>1. SOK(sleep_list, [status EXCEPT ![p] = "ZOMBLE"])
    BY <1>2, SAwake DEF Inv, SInv, Status
  <2>2. QED BY <1>1, <2>1 DEF SInv
<1>7. TypeOK'
  BY <1>1, <1>3, <1>4, <1>5, <1>6 DEF Inv, TypeOK, schedVars, flagVars, forkVars, devVars
<1>8. Queued'
  BY <1>2, <1>3, <1>4 DEF Inv, Queued
<1>9. OneRunning'
  BY <1>1, <1>4 DEF Inv, OneRunning, schedVars
<1>10. ProcState'
  BY <1>1, <1>4, <1>5 DEF Inv, ProcState, schedVars
<1>11. ForkState'
  <2>1. \A r \in Procs : Forking(r)' => Forking(r) /\ pc'[r] = pc[r] /\ son[r] # p
    BY <1>1, <1>5 DEF Inv, ForkState, Forking
  <2>2. QED BY <1>1, <1>3, <1>4, <2>1 DEF Inv, ForkState, forkVars, schedVars
<1>12. SliceNeverEmpty'
  BY <1>1, <1>3, <1>4 DEF Inv, SliceNeverEmpty, schedVars
<1>13. SleepLockExclusive'
  BY <1>1, <1>5 DEF Inv, SleepLockExclusive, devVars
<1>14. QED BY <1>q, <1>s, <1>7, <1>8, <1>9, <1>10, <1>11, <1>12, <1>13 DEF Inv

\* The last switch of a process that has exited, once the parent is awake.
LEMMA LastSwitchInv ==
  ASSUME NEW p \in Procs, cproc = p, pc[p] = "exit_end", status[p] = "ZOMBLE",
         sp = NoProc, TypeOK, ProcState, ForkState, SleepLockExclusive,
         SwitchOut(p), pc' = [pc EXCEPT ![p] = "dead"], UNCHANGED devVars,
         UNCHANGED <<timeslice_left, forkVars>>,
         NEW W \in SUBSET Procs, \A r \in W : status[r] = "SLEEPING",
         \A r \in Procs : status'[r] = IF r \in W THEN "RUNNABLE" ELSE status[r],
         \A r \in Procs : proc_queue'[r] = IF r \in W THEN run ELSE proc_queue[r]
  PROVE  ProcState' /\ ForkState' /\ SleepLockExclusive'
<1>1. /\ pc'[p] = "dead" /\ \A r \in Procs : r # p => pc'[r] = pc[r]
      /\ cproc' = NoProc /\ sp' = p /\ spc' = "top" /\ p \notin W /\ status'[p] = "ZOMBLE"
  BY DEF SwitchOut, TypeOK
<1>2. ProcState'
  BY <1>1, ProcsAssumption DEF ProcState
<1>3. ForkState'
  <2>1. \A r \in Procs : Forking(r)' => /\ Forking(r) /\ pc'[r] = pc[r]
                                        /\ son[r] \notin W /\ son[r] # p
    BY <1>1 DEF Forking, ForkState
  <2>2. QED BY <1>1, <2>1, ProcsAssumption DEF ForkState, forkVars
<1>4. SleepLockExclusive'
  BY <1>1 DEF SleepLockExclusive, devVars
<1>5. QED BY <1>2, <1>3, <1>4

LEMMA ExitEndInv ==
  ASSUME Inv, NEW p \in Procs, ExitEnd(p) PROVE Inv'
<1>1. /\ cproc = p /\ pc[p] = "exit_end"
      /\ UNCHANGED <<run, timeslice_left, flagVars, treeVars, forkVars, devVars>>
  BY DEF ExitEnd, Runs
<1>2. /\ p # NoProc /\ spc = "swtch" /\ sp = NoProc
      /\ status[p] \in {"RUNNING", "ZOMBLE"} /\ proc_queue[p] = 0
      /\ ppid[p] \in Procs /\ Alone(ppid[p]) \in Chan
  BY <1>1, CurrentFacts, ChanFacts DEF Inv, TypeOK
<1>3. \E W \in SUBSET Procs :
         /\ QInv' /\ SInv' /\ preempted' \subseteq Procs
         /\ \A r \in W : status[r] = "SLEEPING"
         /\ \A r \in Procs : status'[r] = IF r \in W THEN "RUNNABLE" ELSE status[r]
         /\ \A r \in Procs : proc_queue'[r] = IF r \in W THEN run ELSE proc_queue[r]
  <2>1. CASE ppid[p] \in wait_for_child
    <3>1. Wakeup(Alone(ppid[p]))
      BY <2>1 DEF ExitEnd
    <3>2. QED BY <1>2, <3>1, WakeFacts
  <2>2. CASE ppid[p] \notin wait_for_child
    <3>1. UNCHANGED wakeVars
      BY <2>2 DEF ExitEnd
    <3>2. /\ QInv' /\ SInv' /\ preempted' \subseteq Procs
          /\ status' = status /\ proc_queue' = proc_queue
      BY <3>1 DEF wakeVars, Inv, QInv, SInv, TypeOK
    <3>3. WITNESS {} \in SUBSET Procs
    <3>4. QED BY <3>2
  <2>3. QED BY <2>1, <2>2
<1>4. PICK W \in SUBSET Procs :
         /\ QInv' /\ SInv' /\ preempted' \subseteq Procs
         /\ \A r \in W : status[r] = "SLEEPING"
         /\ \A r \in Procs : status'[r] = IF r \in W THEN "RUNNABLE" ELSE status[r]
         /\ \A r \in Procs : proc_queue'[r] = IF r \in W THEN run ELSE proc_queue[r]
  BY <1>3
<1>5. /\ queues' \in [1 .. 2 -> Queue] /\ proc_queue' \in [Procs -> 0 .. 2]
      /\ priority' \in [Procs -> Prio] /\ sleep_list' \in [Chan -> Seq(Procs)]
      /\ status' \in [Procs -> Status]
  BY <1>4 DEF QInv, SInv, QOK, SOK
<1>6. \/ panic' = "sched" /\ UNCHANGED <<schedVars, pc>>
      \/ /\ status[p] = "ZOMBLE" /\ SwitchOut(p)
         /\ pc' = [pc EXCEPT ![p] = "dead"] /\ panic' = panic
  BY <1>2 DEF ExitEnd, Goto
<1>7. TypeOK'
  <2>1. /\ panic' \in {"none", "sched", "root exit"} /\ pc' \in [Procs -> Where]
        /\ cproc' \in Procs \cup {NoProc} /\ sp' \in Procs \cup {NoProc}
        /\ spc' \in {"top", "pick", "swtch", "halt"}
    <3>1. CASE panic' = "sched" /\ UNCHANGED <<schedVars, pc>>
      BY <3>1 DEF Inv, TypeOK, schedVars
    <3>2. CASE /\ status[p] = "ZOMBLE" /\ SwitchOut(p)
               /\ pc' = [pc EXCEPT ![p] = "dead"] /\ panic' = panic
      BY <3>2 DEF Inv, TypeOK, SwitchOut, Where
    <3>3. QED BY <1>6, <3>1, <3>2
  <2>2. QED BY <1>1, <1>4, <1>5, <2>1
            DEF Inv, TypeOK, Queue, treeVars, forkVars, flagVars, devVars
<1>8. Queued'
  BY <1>4 DEF Inv, Queued
<1>9. SliceNeverEmpty'
  <2>1. \A r \in W : timeslice_left[r] > 0
    BY <1>4 DEF Inv, SliceNeverEmpty
  <2>2. \A r \in Procs : cproc' = r => cproc = r
    BY <1>6, ProcsAssumption DEF SwitchOut, schedVars
  <2>3. \A r \in Procs : sp' # r => sp # r
    BY <1>2, ProcsAssumption
  <2>4. QED BY <1>1, <1>4, <2>1, <2>2, <2>3 DEF Inv, SliceNeverEmpty
<1>10. CASE panic' = "sched" /\ UNCHANGED <<schedVars, pc>>
  <2>1. OneRunning'
    BY <1>2, <1>4, <1>10 DEF Inv, OneRunning, TypeOK, schedVars
  <2>2. ProcState'
    BY <1>4, <1>10 DEF Inv, ProcState, schedVars
  <2>3. ForkState'
    BY <1>1, <1>4, <1>10 DEF Inv, ForkState, Forking, schedVars, forkVars
  <2>4. SleepLockExclusive'
    BY <1>1, <1>10 DEF Inv, SleepLockExclusive, devVars
  <2>5. QED BY <1>4, <1>7, <1>8, <1>9, <2>1, <2>2, <2>3, <2>4 DEF Inv
<1>11. CASE /\ status[p] = "ZOMBLE" /\ SwitchOut(p)
            /\ pc' = [pc EXCEPT ![p] = "dead"] /\ panic' = panic
  <2>1. OneRunning'
    BY <1>1, <1>2, <1>4, <1>11 DEF Inv, OneRunning, SwitchOut
  <2>2. ProcState' /\ ForkState' /\ SleepLockExclusive'
    BY <1>1, <1>2, <1>4, <1>11, LastSwitchInv DEF Inv
  <2>3. QED BY <1>4, <1>7, <1>8, <1>9, <2>1, <2>2 DEF Inv
<1>12. QED BY <1>6, <1>10, <1>11

-----------------------------------------------------------------------------
(* The theorems.                                                            *)

LEMMA InitInv == Init => Inv
<1> SUFFICES ASSUME Init PROVE Inv
  OBVIOUS
<1> DEFINE Q1 == add_proc_to_queue(EmptyQueue, Root, DEFAULT_USER_PRIO)
<1>1. /\ Root \in Procs /\ NoProc \notin Procs /\ DEFAULT_USER_PRIO \in Prio /\ 0 \in Prio
      /\ DEFAULT_TIMESLICE \in Nat /\ DEFAULT_TIMESLICE > 0
  BY ProcsAssumption, SliceAssumption DEF Prio
<1>2. /\ queues = [k \in 1 .. 2 |-> IF k = 1 THEN Q1 ELSE EmptyQueue]
      /\ proc_queue = [p \in Procs |-> IF p = Root THEN 1 ELSE 0]
      /\ priority = [p \in Procs |-> IF p = Root THEN DEFAULT_USER_PRIO ELSE 0]
  BY DEF Init
<1>3. /\ GoodQueue(EmptyQueue) /\ Members(EmptyQueue) = {} /\ Elems(EmptyQueue.list) = {}
  <2>1. /\ EmptyQueue.list = <<>> /\ EmptyQueue.bitmap = {} /\ EmptyQueue.n_procs = 0
        /\ EmptyQueue \in Queue
    BY DEF EmptyQueue, Queue
  <2>2. DOMAIN EmptyQueue.list = {} /\ Len(EmptyQueue.list) = 0
    BY <2>1
  <2>3. QED BY <2>1, <2>2 DEF GoodQueue, NoneTwice, BitmapOf, Members, Elems
<1>4. /\ GoodQueue(Q1) /\ Members(Q1) = {Root}
      /\ Elems(Q1.list) = {[proc |-> Root, prio |-> DEFAULT_USER_PRIO]}
  <2>1. /\ GoodQueue(Q1) /\ Members(Q1) = Members(EmptyQueue) \cup {Root}
        /\ Elems(Q1.list) = Elems(EmptyQueue.list)
                              \cup {[proc |-> Root, prio |-> DEFAULT_USER_PRIO]}
    BY <1>1, <1>3, AddProps
  <2> HIDE DEF Q1
  <2>2. QED BY <1>3, <2>1
<1> HIDE DEF Q1
<1>5. QInv
  <2>1. queues[1] = Q1 /\ queues[2] = EmptyQueue /\ queues \in [1 .. 2 -> Queue]
    BY <1>2, <1>3, <1>4 DEF GoodQueue
  <2>2. proc_queue \in [Procs -> 0 .. 2] /\ priority \in [Procs -> Prio]
    BY <1>1, <1>2
  <2>p. ASSUME NEW p \in Procs
        PROVE  (p = Root => proc_queue[p] = 1) /\ (p # Root => proc_queue[p] = 0)
    BY <1>2
  <2>o. 0 # 1 /\ 0 # 2 /\ 1 # 2
    OBVIOUS
  <2>3. ASSUME NEW k \in 1 .. 2
        PROVE  /\ GoodQueue(queues[k])
               /\ \A p \in Procs : p \in Members(queues[k]) <=> proc_queue[p] = k
               /\ \A e \in Elems(queues[k].list) : e.prio = priority[e.proc]
    <3>1. CASE k = 1
      <4>1. \A p \in Procs : proc_queue[p] = 1 <=> p = Root
        BY <2>p, <2>o, Zenon
      <4>2. priority[Root] = DEFAULT_USER_PRIO
        BY <1>1, <1>2
      <4>3. queues[k] = Q1
        BY <2>1, <3>1
      <4>4. \A e \in Elems(Q1.list) : e.prio = priority[e.proc]
        BY <1>4, <4>2
      <4>5. QED BY <1>1, <1>4, <3>1, <4>1, <4>3, <4>4
    <3>2. CASE k = 2
      <4>1. \A p \in Procs : proc_queue[p] # 2
        BY <2>p, <2>o, Zenon
      <4>2. queues[k] = EmptyQueue
        BY <2>1, <3>2
      <4>3. QED BY <1>3, <3>2, <4>1, <4>2
    <3>3. QED BY <3>1, <3>2
  <2>4. QED BY <2>1, <2>2, <2>3 DEF QInv, QOK
<1>6. SInv
  <2>1. /\ sleep_list = [c \in Chan |-> <<>>]
        /\ status = [p \in Procs |-> IF p = Root THEN "RUNNABLE" ELSE "FREE"]
    BY DEF Init
  <2>2. QED BY <2>1, EmptyList, ChanFacts DEF SInv, SOK, Status
<1>7. TypeOK
  <2>1. /\ queues \in [1 .. 2 -> Queue] /\ proc_queue \in [Procs -> 0 .. 2]
        /\ priority \in [Procs -> Prio] /\ sleep_list \in [Chan -> Seq(Procs)]
        /\ status \in [Procs -> Status]
    BY <1>5, <1>6 DEF QInv, SInv, QOK, SOK
  <2>2. /\ timeslice_left \in [Procs -> Nat] /\ ppid \in [Procs -> Procs]
        /\ half \in [Procs -> Nat] /\ son \in [Procs -> Procs \cup {NoProc}]
    BY <1>1 DEF Init
  <2>3. children \in [Procs -> Seq(Procs)] /\ pc \in [Procs -> Where]
    BY EmptyList DEF Init, Where
  <2>4. /\ panic = "none" /\ cproc = NoProc /\ sp = NoProc /\ spc = "top" /\ run = 1
        /\ killed = {} /\ preempted = {} /\ wait_for_child = {} /\ locked = FALSE /\ io = {}
    BY DEF Init
  <2>5. locked \in BOOLEAN
    BY <2>4
  <2>6. /\ panic \in {"none", "sched", "root exit"} /\ cproc \in Procs \cup {NoProc}
        /\ sp \in Procs \cup {NoProc} /\ spc \in {"top", "pick", "swtch", "halt"}
        /\ run \in 1 .. 2 /\ killed \subseteq Procs /\ preempted \subseteq Procs
        /\ wait_for_child \subseteq Procs /\ io \subseteq Procs
    BY <2>4
  <2>7. QED BY <2>1, <2>2, <2>3, <2>5, <2>6 DEF TypeOK, Queue
<1>8. Queued /\ OneRunning /\ ProcState
  BY <1>1 DEF Init, Queued, OneRunning, ProcState
<1>9. ForkState /\ SliceNeverEmpty /\ SleepLockExclusive
  BY <1>1 DEF Init, ForkState, Forking, SliceNeverEmpty, SleepLockExclusive
<1>10. QED BY <1>5, <1>6, <1>7, <1>8, <1>9 DEF Inv

LEMMA NextInv == Inv /\ [Next]_vars => Inv'
<1> SUFFICES ASSUME Inv, [Next]_vars PROVE Inv'
  OBVIOUS
<1>1. CASE scheduler
  BY <1>1, SchedRequeueInv, IdleInv, SchedPickInv DEF scheduler
<1>2. CASE TickIdle
  BY <1>2, IdleInv
<1>3. ASSUME NEW p \in Procs, Tick(p) PROVE Inv'
  BY <1>3, TickInv
<1>4. ASSUME NEW p \in Procs, ide_intr(p) PROVE Inv'
  BY <1>4, ide_intrInv
<1>5. ASSUME NEW p \in Procs, UserStep(p) PROVE Inv'
  BY <1>5, EnterInv, IoSubmitInv, KillInv DEF UserStep
<1>6. ASSUME NEW p \in Procs, KernelStep(p) PROVE Inv'
  <2>1. CASE TrapReturn(p) \/ TrapReturn2(p) \/ Forkret(p)
    BY <2>1, TrapReturnInv, TrapReturn2Inv, ForkretInv
  <2>2. CASE proc_alloc(p) \/ proc_alloc_failed(p)
    BY <2>2, proc_allocInv, proc_alloc_failedInv
  <2>3. CASE \/ ForkLoad(p) \/ ForkStore(p) \/ ForkHalve(p) \/ ForkTest(p)
             \/ ForkLink(p) \/ ForkFail(p)
    BY <2>3, ForkLoadInv, ForkHalveInv, ForkStoreInv, ForkLinkInv, ForkFailInv
  <2>4. CASE WaitReap(p) \/ WaitSleep(p)
    BY <2>4, WaitReapInv, WaitSleepInv
  <2>5. CASE Exit(p) \/ ExitRoot(p) \/ ExitClose(p) \/ ExitCloseIo(p) \/ ExitEnd(p)
    BY <2>5, ExitInv, ExitRootInv, ExitCloseInv, ExitCloseIoInv, ExitEndInv
  <2>6. CASE SleepLock(p) \/ SleepUnlock(p) \/ IoRecheck(p)
    BY <2>6, SleepLockInv, SleepUnlockInv, IoRecheckInv
  <2>7. QED BY <1>6, <2>1, <2>2, <2>3, <2>4, <2>5, <2>6 DEF KernelStep
<1>7. CASE UNCHANGED vars
  <2>1. /\ UNCHANGED <<panic, cproc, spc, sp, run, queues, proc_queue, status, priority>>
        /\ UNCHANGED <<timeslice_left, killed, wait_for_child, preempted, ppid, children>>
        /\ UNCHANGED <<sleep_list, pc, son, half, locked, io>>
    BY <1>7 DEF vars, schedVars, queueVars, flagVars, treeVars, forkVars, devVars
  <2>2. TypeOK' /\ QInv' /\ SInv' /\ Queued' /\ OneRunning'
    BY <2>1 DEF Inv, TypeOK, QInv, SInv, Queued, OneRunning
  <2>3. ProcState' /\ ForkState' /\ SliceNeverEmpty' /\ SleepLockExclusive'
    BY <2>1 DEF Inv, ProcState, ForkState, Forking, SliceNeverEmpty, SleepLockExclusive
  <2>4. QED BY <2>2, <2>3 DEF Inv
<1>8. QED BY <1>1, <1>2, <1>3, <1>4, <1>5, <1>6, <1>7 DEF Next, Halted

\* The invariant in the form of the properties the runs check.
LEMMA InvIInv == Inv => IInv
<1> SUFFICES ASSUME Inv PROVE IInv
  OBVIOUS
<1>1. /\ QOK(queues, proc_queue, priority) /\ SOK(sleep_list, status)
      /\ Queued /\ TypeOK /\ OneRunning /\ ProcState /\ ForkState
      /\ SliceNeverEmpty /\ SleepLockExclusive
  BY DEF Inv, QInv, SInv
<1>2. QueuesMatchProcs
  BY <1>1 DEF QOK, GoodQueue, QueuesMatchProcs
<1>3. BitmapExact
  BY <1>1 DEF QOK, GoodQueue, BitmapExact, Elems
<1>4. KindsListMatchesStatus /\ SleepAloneIsOwn
  <2>1. \A c \in Chan : Elems(sleep_list[c]) \subseteq Procs
    BY <1>1 DEF SOK, Elems
  <2>2. QED
    BY <1>1, <2>1, ChanFacts DEF SOK, Queued, KindsListMatchesStatus, SleepAloneIsOwn, Asleep
<1>5. QED BY <1>1, <1>2, <1>3, <1>4 DEF IInv

\* IInv, the conjunction of the safety invariants below with what makes them
\* inductive, holds in every reachable state of the process core, for any
\* number of processes and priorities and any slice lengths.
THEOREM Invariance == Spec => []IInv
<1>1. Spec => []Inv
  BY InitInv, NextInv, PTL DEF Spec
<1>2. QED BY <1>1, InvIInv, PTL

\* The run queues, proc_queue, the bitmaps and n_procs agree: add_proc_to_queue
\* and del_proc_fron_queue are only ever called on nodes that are not, or are,
\* in the queue, with the priority they were queued with.
THEOREM QueuesConsistent == Spec => [](QueuesMatchProcs /\ BitmapExact)
<1>1. IInv => QueuesMatchProcs /\ BitmapExact
  BY DEF IInv
<1>2. QED BY <1>1, Invariance, PTL

\* kinds_list is linked where status says: no process is on two wait lists, or
\* on a wait list and in a run queue, however wakeups, kills, ticks and the
\* scheduler interleave.
THEOREM KindsListConsistent == Spec => []KindsListMatchesStatus
<1>1. IInv => KindsListMatchesStatus
  BY DEF IInv
<1>2. QED BY <1>1, Invariance, PTL

\* One process runs at a time.
THEOREM SingleRunner == Spec => []OneRunning
<1>1. IInv => OneRunning
  BY DEF IInv
<1>2. QED BY <1>1, Invariance, PTL

\* No process waits for the CPU or has it with an empty slice, wherever ticks
\* come inside fork(), except while dup_proc_struct(), translated line by line,
\* has stored half a slice and not yet tested it: the timer's decrement can wrap
\* nowhere else (sysfunc.c:317-320, trap.c:214).
THEOREM NoSliceWrap == Spec => []SliceNeverEmpty
<1>1. IInv => SliceNeverEmpty
  BY DEF IInv
<1>2. QED BY <1>1, Invariance, PTL

\* A sleeplock has one holder.
THEOREM SleepLockMutex == Spec => []SleepLockExclusive
<1>1. IInv => SleepLockExclusive
  BY DEF IInv
<1>2. QED BY <1>1, Invariance, PTL

=============================================================================
