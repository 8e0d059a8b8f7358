--------------------------- MODULE MessageProofs ---------------------------
(***************************************************************************)
(* What MCMessages checks of pipes, of the console's ring and of messages  *)
(* between processes, proved for every number of processes and readers,    *)
(* every size of the rings and every width of their positions: the ends of *)
(* a pipe and their descriptors, the sleepers, and that the pipe           *)
(* implements Fifo; that the console's ring is a queue; that messages are  *)
(* kept and that their receivers stay within reach.                        *)
(***************************************************************************)
EXTENDS MCMessages, FiniteSetTheorems, SequenceTheorems, TLAPS

-----------------------------------------------------------------------------
(* Arithmetic of the positions in the ring.                                 *)

LEMMA Division == ASSUME NEW a \in Int, NEW n \in Int, n > 0 PROVE a = n * (a \div n) + (a % n)
OBVIOUS

LEMMA DivMod ==
  ASSUME NEW a \in Int, NEW n \in Nat \ {0}
  PROVE  /\ a \div n \in Int /\ a % n \in 0 .. n - 1
         /\ a = n * (a \div n) + (a % n)
<1>1. a \div n \in Int
  OBVIOUS
<1>2. a % n \in 0 .. n - 1
  OBVIOUS
<1>3. n \in Int /\ n > 0
  OBVIOUS
<1>4. a = n * (a \div n) + (a % n)
  BY <1>3, Division
<1>5. QED BY <1>1, <1>2, <1>4

\* Only one remainder is within bounds.
LEMMA ModUnique ==
  ASSUME NEW n \in Nat \ {0}, NEW q \in Int, NEW r \in 0 .. n - 1
  PROVE  (n * q + r) % n = r
<1> DEFINE a == n * q + r
           d == a \div n
           m == a % n
<1>1. a \in Int /\ d \in Int /\ m \in 0 .. n - 1 /\ a = n * d + m
  BY DivMod
<1>2. n * (q - d) = m - r
  BY <1>1
<1>3. CASE q - d >= 1
  <2>1. n * (q - d) >= n
    BY <1>1, <1>3
  <2>2. QED BY <1>1, <1>2, <2>1
<1>4. CASE q - d <= -1
  <2>1. n * (q - d) <= -n
    BY <1>1, <1>4
  <2>2. QED BY <1>1, <1>2, <2>1
<1>5. CASE q = d
  BY <1>1, <1>2, <1>5
<1>6. QED BY <1>1, <1>3, <1>4, <1>5

LEMMA ModShift ==
  ASSUME NEW n \in Nat \ {0}, NEW a \in Int, NEW q \in Int
  PROVE  (a + n * q) % n = a % n
<1> DEFINE d == a \div n
           m == a % n
<1>1. d \in Int /\ m \in 0 .. n - 1 /\ a = n * d + m
  BY DivMod
<1>2. a + n * q = n * (d + q) + m
  BY <1>1
<1>3. d + q \in Int
  BY <1>1
<1>4. QED BY <1>1, <1>2, <1>3, ModUnique

\* Numbers less than n apart are in different places of a ring of n.
LEMMA ModApart ==
  ASSUME NEW n \in Nat \ {0}, NEW a \in Int, NEW b \in Int, a < b, b < a + n
  PROVE  a % n # b % n
<1> DEFINE c == a \div n
           d == b \div n
<1>1. c \in Int /\ a % n \in 0 .. n - 1 /\ a = n * c + (a % n)
  BY DivMod
<1>2. d \in Int /\ b % n \in 0 .. n - 1 /\ b = n * d + (b % n)
  BY DivMod
<1> SUFFICES ASSUME a % n = b % n PROVE FALSE
  OBVIOUS
<1>3. b - a = n * (d - c)
  BY <1>1, <1>2
<1>4. CASE d - c >= 1
  <2>1. n * (d - c) >= n
    BY <1>1, <1>2, <1>4
  <2>2. QED BY <1>3, <2>1
<1>5. CASE d - c <= 0
  <2>1. n * (d - c) <= 0
    BY <1>1, <1>2, <1>5
  <2>2. QED BY <1>3, <2>1
<1>6. QED BY <1>1, <1>2, <1>4, <1>5

-----------------------------------------------------------------------------
(* The counters of the ring, which wrap at WORD.                            *)

LEMMA Sizes ==
  ASSUME PipeAssumption
  PROVE  /\ PIPESIZE \in Nat \ {0} /\ WORD \in Nat \ {0} /\ PIPESIZE < WORD
         /\ WORD \div PIPESIZE \in Int /\ WORD = PIPESIZE * (WORD \div PIPESIZE)
<1>1. PIPESIZE \in Nat \ {0} /\ WORD \in Nat \ {0} /\ PIPESIZE < WORD /\ WORD % PIPESIZE = 0
  BY DEF PipeAssumption
<1>2. WORD \in Int
  BY <1>1
<1>3. /\ WORD \div PIPESIZE \in Int
      /\ WORD = PIPESIZE * (WORD \div PIPESIZE) + (WORD % PIPESIZE)
  BY <1>1, <1>2, DivMod
<1> DEFINE m == WORD \div PIPESIZE
<1>4. PIPESIZE * m \in Int
  BY <1>1, <1>3
<1>5. QED BY <1>1, <1>3, <1>4

\* A counter that has wrapped is at the same place of the ring.
LEMMA WrapPlace ==
  ASSUME PipeAssumption, NEW a \in Int
  PROVE  /\ (a - WORD) % PIPESIZE = a % PIPESIZE
         /\ (a + WORD) % PIPESIZE = a % PIPESIZE
<1> DEFINE m == WORD \div PIPESIZE
<1>1. PIPESIZE \in Nat \ {0} /\ m \in Int /\ WORD = PIPESIZE * m
  BY Sizes
<1> HIDE DEF m
<1>2. -1 * m \in Int /\ PIPESIZE * (-1 * m) = -WORD /\ WORD \in Int
  BY <1>1
<1>3. (a + PIPESIZE * m) % PIPESIZE = a % PIPESIZE
  BY <1>1, ModShift
<1> DEFINE k == -1 * m
<1>4. k \in Int /\ PIPESIZE * k = -WORD
  BY <1>2
<1> HIDE DEF k
<1>5. (a + PIPESIZE * k) % PIPESIZE = a % PIPESIZE
  BY <1>1, <1>4, ModShift
<1>6. a + PIPESIZE * k = a - WORD
  BY <1>2, <1>4
<1>7. QED BY <1>1, <1>3, <1>5, <1>6

\* What adding to a counter, and the difference of two, do.
LEMMA WrapAdd ==
  ASSUME PipeAssumption, NEW x \in 0 .. WORD - 1, NEW k \in 0 .. WORD - 1
  PROVE  (x + k) % WORD = IF x + k < WORD THEN x + k ELSE x + k - WORD
<1>1. WORD \in Nat \ {0}
  BY Sizes
<1>2. CASE x + k < WORD
  <2>1. x + k \in 0 .. WORD - 1 /\ x + k = WORD * 0 + (x + k)
    BY <1>1, <1>2
  <2>2. QED BY <1>1, <1>2, <2>1, ModUnique
<1>3. CASE x + k >= WORD
  <2>1. x + k - WORD \in 0 .. WORD - 1 /\ x + k = WORD * 1 + (x + k - WORD)
    BY <1>1, <1>3
  <2>2. (WORD * 1 + (x + k - WORD)) % WORD = x + k - WORD
    BY <1>1, <2>1, ModUnique
  <2>3. QED BY <1>1, <1>3, <2>1, <2>2
<1>4. QED BY <1>1, <1>2, <1>3

LEMMA WrapSub ==
  ASSUME PipeAssumption, NEW x \in 0 .. WORD - 1, NEW y \in 0 .. WORD - 1
  PROVE  (x - y) % WORD = IF y <= x THEN x - y ELSE x - y + WORD
<1>1. WORD \in Nat \ {0}
  BY Sizes
<1>2. CASE y <= x
  <2>1. x - y \in 0 .. WORD - 1 /\ x - y = WORD * 0 + (x - y)
    BY <1>1, <1>2
  <2>2. QED BY <1>1, <1>2, <2>1, ModUnique
<1>3. CASE y > x
  <2>1. x - y + WORD \in 0 .. WORD - 1 /\ x - y = WORD * (-1) + (x - y + WORD)
    BY <1>1, <1>3
  <2>2. (WORD * (-1) + (x - y + WORD)) % WORD = x - y + WORD
    BY <1>1, <2>1, ModUnique
  <2>3. QED BY <1>1, <1>3, <2>1, <2>2
<1>4. QED BY <1>1, <1>2, <1>3

\* The counter after one wrap and the place it stands for.
LEMMA WordPlace ==
  ASSUME PipeAssumption, NEW x \in 0 .. WORD - 1, NEW k \in 0 .. WORD - 1
  PROVE  ((x + k) % WORD) % PIPESIZE = (x + k) % PIPESIZE
<1>1. WORD \in Nat \ {0} /\ x + k \in Int
  BY Sizes
<1> DEFINE y == x + k
<1>2. (y - WORD) % PIPESIZE = y % PIPESIZE
  <2>1. y \in Int
    BY <1>1
  <2> HIDE DEF y
  <2>2. QED BY <2>1, WrapPlace
<1>3. y % WORD = y \/ y % WORD = y - WORD
  BY <1>1, WrapAdd
<1> HIDE DEF y
<1>4. (y % WORD) % PIPESIZE = y % PIPESIZE
  BY <1>2, <1>3
<1>5. QED BY <1>4 DEF y

-----------------------------------------------------------------------------
(* The bytes in the ring.                                                   *)

Counters == nread \in 0 .. WORD - 1 /\ nwrite \in 0 .. WORD - 1

\* There are never more bytes in the ring than it has places.
Fits == Used <= PIPESIZE

LEMMA UsedFacts ==
  ASSUME PipeAssumption, Counters
  PROVE  /\ Used \in 0 .. WORD - 1 /\ Used \in Nat
         /\ Used = 0 <=> nwrite = nread
         /\ nwrite = nread + Used \/ nwrite = nread + Used - WORD
<1>1. WORD \in Nat \ {0}
  BY Sizes
<1>2. Used = IF nread <= nwrite THEN nwrite - nread ELSE nwrite - nread + WORD
  BY WrapSub DEF Used, Counters
<1>3. QED BY <1>1, <1>2 DEF Counters

\* Writing k bytes that there is room for.
LEMMA UsedAfterWrite ==
  ASSUME PipeAssumption, Counters, NEW k \in Nat, Used + k <= PIPESIZE,
         nwrite' = (nwrite + k) % WORD, nread' = nread
  PROVE  Counters' /\ Used' = Used + k
<1>1. WORD \in Nat \ {0} /\ PIPESIZE \in Nat /\ PIPESIZE < WORD
  BY Sizes
<1>2. Used \in Nat /\ (nwrite = nread + Used \/ nwrite = nread + Used - WORD)
  BY UsedFacts
<1>3. k \in 0 .. WORD - 1
  BY <1>1, <1>2
<1>4. nwrite' = IF nwrite + k < WORD THEN nwrite + k ELSE nwrite + k - WORD
  BY <1>3, WrapAdd DEF Counters
<1>5. Counters'
  BY <1>1, <1>3, <1>4 DEF Counters
<1>6. Used' = IF nread' <= nwrite' THEN nwrite' - nread' ELSE nwrite' - nread' + WORD
  BY <1>5, WrapSub DEF Used, Counters
<1>7. QED BY <1>1, <1>2, <1>3, <1>4, <1>5, <1>6 DEF Counters

\* Reading k of the bytes that are there.
LEMMA UsedAfterRead ==
  ASSUME PipeAssumption, Counters, NEW k \in Nat, k <= Used,
         nread' = (nread + k) % WORD, nwrite' = nwrite
  PROVE  Counters' /\ Used' = Used - k /\ (nread' = nread + k \/ nread' = nread + k - WORD)
<1>1. WORD \in Nat \ {0}
  BY Sizes
<1>2. Used \in 0 .. WORD - 1 /\ (nwrite = nread + Used \/ nwrite = nread + Used - WORD)
  BY UsedFacts
<1>3. k \in 0 .. WORD - 1
  BY <1>1, <1>2
<1>4. nread' = IF nread + k < WORD THEN nread + k ELSE nread + k - WORD
  BY <1>3, WrapAdd DEF Counters
<1>5. Counters'
  BY <1>1, <1>3, <1>4 DEF Counters
<1>6. Used' = IF nread' <= nwrite' THEN nwrite' - nread' ELSE nwrite' - nread' + WORD
  <2> DEFINE x == nwrite'
             y == nread'
  <2>1. x \in 0 .. WORD - 1 /\ y \in 0 .. WORD - 1
    BY <1>5 DEF Counters
  <2>2. Used' = (x - y) % WORD
    BY DEF Used
  <2> HIDE DEF x, y
  <2>3. (x - y) % WORD = IF y <= x THEN x - y ELSE x - y + WORD
    BY <2>1, WrapSub
  <2>4. QED BY <2>2, <2>3 DEF x, y
<1>7. nread \in 0 .. WORD - 1 /\ nwrite \in 0 .. WORD - 1
  BY DEF Counters
<1>8. QED BY <1>1, <1>2, <1>3, <1>4, <1>5, <1>6, <1>7

\* The place in the ring of byte i, counted from r.
Place(r, i) == (r + i - 1) % PIPESIZE

\* n bytes of the ring d, from r on.
RingSeq(d, r, n) == [i \in 1 .. n |-> d[Place(r, i)]]

LEMMA PlaceType ==
  ASSUME PipeAssumption, NEW r \in Nat, NEW i \in Int
  PROVE  Place(r, i) \in 0 .. PIPESIZE - 1
<1>1. PIPESIZE \in Nat \ {0}
  BY Sizes
<1> DEFINE a == r + i - 1
<1>2. a \in Int
  OBVIOUS
<1> HIDE DEF a
<1>3. a % PIPESIZE \in 0 .. PIPESIZE - 1
  BY <1>1, <1>2, DivMod
<1>4. QED BY <1>3 DEF a, Place

Rings == [0 .. PIPESIZE - 1 -> Bytes]

LEMMA RingSeqType ==
  ASSUME PipeAssumption, NEW d \in Rings, NEW r \in Nat, NEW n \in Nat
  PROVE  /\ RingSeq(d, r, n) \in Seq(Bytes) /\ Len(RingSeq(d, r, n)) = n
         /\ \A i \in 1 .. n : RingSeq(d, r, n)[i] = d[Place(r, i)]
<1>1. ASSUME NEW i \in 1 .. n PROVE d[Place(r, i)] \in Bytes
  <2>1. i \in Int
    OBVIOUS
  <2>2. Place(r, i) \in 0 .. PIPESIZE - 1
    BY <2>1, PlaceType, Zenon
  <2>3. QED BY <2>2 DEF Rings
<1>2. RingSeq(d, r, n) \in [1 .. n -> Bytes]
  BY <1>1 DEF RingSeq
<1>3. QED BY <1>2 DEF RingSeq

\* q is the n bytes of the ring d from r on, byte by byte.
Spells(q, d, r, n) ==
    q \in Seq(Bytes) /\ Len(q) = n /\ \A i \in 1 .. n : q[i] = d[Place(r, i)]

LEMMA RingSeqSpells ==
  ASSUME PipeAssumption, NEW d \in Rings, NEW r \in Nat, NEW n \in Nat
  PROVE  Spells(RingSeq(d, r, n), d, r, n)
<1> DEFINE q == RingSeq(d, r, n)
<1>1. q \in Seq(Bytes) /\ Len(q) = n /\ \A i \in 1 .. n : q[i] = d[Place(r, i)]
  BY RingSeqType
<1> HIDE DEF q
<1>2. Spells(q, d, r, n)
  BY <1>1 DEF Spells
<1>3. QED BY <1>2 DEF q

LEMMA ContentIsRing ==
  Content = RingSeq(data, nread, Used) /\ Content' = RingSeq(data', nread', Used')
BY DEF Content, RingSeq, Place

\* The place of the byte that follows the last.
LEMMA WritePlace ==
  ASSUME PipeAssumption, Counters, NEW j \in 0 .. WORD - 1
  PROVE  ((nwrite + j) % WORD) % PIPESIZE = (nread + Used + j) % PIPESIZE
<1>1. WORD \in Nat \ {0}
  BY Sizes
<1>2. Used \in Nat /\ (nwrite = nread + Used \/ nwrite = nread + Used - WORD)
  BY UsedFacts
<1>3. ((nwrite + j) % WORD) % PIPESIZE = (nwrite + j) % PIPESIZE
  BY WordPlace DEF Counters
<1> DEFINE a == nread + Used + j
<1>4. a \in Int /\ (nwrite + j = a \/ nwrite + j = a - WORD)
  BY <1>1, <1>2 DEF Counters
<1> HIDE DEF a
<1>5. (a - WORD) % PIPESIZE = a % PIPESIZE
  BY <1>4, WrapPlace
<1>6. QED BY <1>3, <1>4, <1>5 DEF a

\* The loop of pipe_write leaves the bytes that are in the ring alone and puts
\* the new ones behind them.
LEMMA StoredBytes ==
  ASSUME PipeAssumption, Counters, data \in [0 .. PIPESIZE - 1 -> Bytes],
         NEW s \in Seq(Bytes), NEW k \in Nat, k <= Len(s), Used + k <= PIPESIZE
  PROVE  /\ Stored(s, k) \in [0 .. PIPESIZE - 1 -> Bytes]
         /\ \A i \in 1 .. Used : Stored(s, k)[Place(nread, i)] = data[Place(nread, i)]
         /\ \A i \in 1 .. k : Stored(s, k)[Place(nread, Used + i)] = s[i]
<1>1. PIPESIZE \in Nat \ {0} /\ WORD \in Nat \ {0} /\ PIPESIZE < WORD
  BY Sizes
<1> DEFINE u == Used
           at(j) == {i \in 1 .. k : ((nwrite + i - 1) % WORD) % PIPESIZE = j}
<1>2. u \in Nat /\ u + k <= PIPESIZE /\ nread \in Nat
  BY UsedFacts, <1>1 DEF Counters
<1>3. Stored(s, k) = [j \in 0 .. PIPESIZE - 1 |->
                        IF at(j) = {} THEN data[j] ELSE s[CHOOSE i \in at(j) : TRUE]]
  BY DEF Stored
<1>4. ASSUME NEW i \in 1 .. k PROVE ((nwrite + i - 1) % WORD) % PIPESIZE = Place(nread, u + i)
  <2> DEFINE j == i - 1
  <2>1. j \in 0 .. WORD - 1 /\ nwrite + j = nwrite + i - 1 /\ nread + u + j = nread + (u + i) - 1
    BY <1>1, <1>2 DEF Counters
  <2> HIDE DEF j
  <2>2. ((nwrite + j) % WORD) % PIPESIZE = (nread + Used + j) % PIPESIZE
    BY <2>1, WritePlace
  <2>3. QED BY <2>1, <2>2 DEF Place
<1>5. \A i \in 1 .. k : \A j : i \in at(j) <=> Place(nread, u + i) = j
  BY <1>4
<1>6. \A j : at(j) \subseteq 1 .. k
  OBVIOUS
<1> HIDE DEF u, at
\* Two bytes less than PIPESIZE apart.
<1>7. ASSUME NEW a \in Int, NEW b \in Int, a < b, b < a + PIPESIZE
      PROVE  Place(nread, a) # Place(nread, b)
  <2> DEFINE c == nread + a - 1
             d == nread + b - 1
  <2>1. c \in Int /\ d \in Int /\ c < d /\ d < c + PIPESIZE
    BY <1>1, <1>2, <1>7
  <2> HIDE DEF c, d
  <2>2. c % PIPESIZE # d % PIPESIZE
    BY <1>1, <2>1, ModApart
  <2>3. QED BY <2>2 DEF c, d, Place
<1>8. Stored(s, k) \in [0 .. PIPESIZE - 1 -> Bytes]
  <2>1. ASSUME NEW j \in 0 .. PIPESIZE - 1, at(j) # {} PROVE s[CHOOSE i \in at(j) : TRUE] \in Bytes
    <3>1. (CHOOSE i \in at(j) : TRUE) \in 1 .. k
      BY <1>6, <2>1
    <3>2. QED BY <3>1, ElementOfSeq
  <2>2. QED BY <1>3, <2>1
<1>9. ASSUME NEW i \in 1 .. u PROVE Stored(s, k)[Place(nread, i)] = data[Place(nread, i)]
  <2>0. i \in Int
    BY <1>2
  <2>1. Place(nread, i) \in 0 .. PIPESIZE - 1
    BY <1>2, <2>0, PlaceType, Zenon
  <2>2. \A h \in 1 .. k : Place(nread, u + h) # Place(nread, i)
    BY <1>1, <1>2, <1>7
  <2>3. at(Place(nread, i)) = {}
    BY <1>5, <1>6, <2>2
  <2>4. QED BY <1>3, <2>1, <2>3
<1>10. ASSUME NEW i \in 1 .. k PROVE Stored(s, k)[Place(nread, u + i)] = s[i]
  <2>0. u + i \in Int
    BY <1>2
  <2>1. Place(nread, u + i) \in 0 .. PIPESIZE - 1
    BY <1>2, <2>0, PlaceType, Zenon
  <2>2. ASSUME NEW h \in 1 .. k, h # i PROVE Place(nread, u + h) # Place(nread, u + i)
    BY <1>1, <1>2, <1>7, <2>2
  <2>3. at(Place(nread, u + i)) = {i}
    BY <1>5, <1>6, <2>2
  <2>4. QED BY <1>3, <2>1, <2>3
<1>11. QED BY <1>8, <1>9, <1>10 DEF u

-----------------------------------------------------------------------------
(* One step on the ring is one step of the queue.                           *)

Ring == Counters /\ data \in [0 .. PIPESIZE - 1 -> Bytes] /\ Fits

\* The last step of pipe_write appends what fits.
LEMMA WriteAppends ==
  ASSUME PipeAssumption, Ring, NEW s \in Seq(Bytes), NEW k \in Nat, k <= Len(s), Used + k <= PIPESIZE,
         data' = Stored(s, k), nwrite' = (nwrite + k) % WORD, nread' = nread
  PROVE  Ring' /\ Content' = Content \o SubSeq(s, 1, k) /\ Used' = Used + k
<1>1. PIPESIZE \in Nat \ {0} /\ WORD \in Nat \ {0}
  BY Sizes
<1>2. Counters /\ data \in [0 .. PIPESIZE - 1 -> Bytes] /\ Used \in Nat /\ nread \in Nat
  BY UsedFacts, <1>1 DEF Ring, Counters
<1>3. Counters' /\ Used' = Used + k
  BY <1>2, UsedAfterWrite
<1>4. /\ Stored(s, k) \in [0 .. PIPESIZE - 1 -> Bytes]
      /\ \A i \in 1 .. Used : Stored(s, k)[Place(nread, i)] = data[Place(nread, i)]
      /\ \A i \in 1 .. k : Stored(s, k)[Place(nread, Used + i)] = s[i]
  BY <1>2, StoredBytes
<1>5. Ring'
  BY <1>3, <1>4 DEF Ring, Fits
<1> DEFINE u == Used
           t == SubSeq(s, 1, k)
           c == Content
           d == Stored(s, k)
           cp == Content'
<1>6. c = RingSeq(data, nread, u) /\ cp = RingSeq(d, nread, u + k)
  BY <1>3, ContentIsRing
<1>7. /\ u \in Nat /\ nread \in Nat /\ d \in [0 .. PIPESIZE - 1 -> Bytes]
      /\ \A i \in 1 .. u : d[Place(nread, i)] = data[Place(nread, i)]
      /\ \A i \in 1 .. k : d[Place(nread, u + i)] = s[i]
  BY <1>2, <1>4
<1>8. t \in Seq(Bytes) /\ Len(t) = k /\ \A i \in 1 .. k : t[i] = s[i]
  <2>1. \A i \in 1 .. k : s[i] \in Bytes
    BY ElementOfSeq
  <2>2. QED BY <2>1, SubSeqProperties
<1> HIDE DEF u, t, c, d, cp
<1>9. u + k \in Nat
  BY <1>7
<1>10. c \in Seq(Bytes) /\ Len(c) = u /\ \A i \in 1 .. u : c[i] = data[Place(nread, i)]
  <2>1. data \in Rings /\ nread \in Nat /\ u \in Nat
    BY <1>2, <1>7 DEF Rings
  <2>2. c = RingSeq(data, nread, u)
    BY <1>6
  <2>3. Spells(RingSeq(data, nread, u), data, nread, u)
    BY <2>1, RingSeqSpells
  <2>4. Spells(c, data, nread, u)
    BY <2>2, <2>3
  <2>5. QED BY <2>4 DEF Spells
<1>11. /\ cp \in Seq(Bytes) /\ Len(cp) = u + k
       /\ \A i \in 1 .. u + k : cp[i] = d[Place(nread, i)]
  <2> DEFINE n == u + k
  <2>1. d \in Rings /\ nread \in Nat /\ n \in Nat /\ cp = RingSeq(d, nread, n)
    BY <1>6, <1>7, <1>9 DEF Rings
  <2> HIDE DEF n
  <2>2. Spells(RingSeq(d, nread, n), d, nread, n)
    BY <2>1, RingSeqSpells
  <2>3. Spells(cp, d, nread, n)
    BY <2>1, <2>2
  <2>4. QED BY <2>3 DEF n, Spells
<1>12. ASSUME NEW i \in 1 .. u PROVE c[i] = cp[i]
  <2>1. i \in 1 .. u + k
    BY <1>7
  <2>2. c[i] = data[Place(nread, i)] /\ cp[i] = d[Place(nread, i)]
    BY <1>10, <1>11, <2>1
  <2>3. d[Place(nread, i)] = data[Place(nread, i)]
    BY <1>7
  <2>4. QED BY <2>2, <2>3
<1>13. ASSUME NEW i \in 1 .. k PROVE t[i] = cp[u + i]
  <2>1. u + i \in 1 .. u + k
    BY <1>7
  <2>2. QED BY <1>7, <1>8, <1>11, <2>1
<1>14. /\ c \o t \in Seq(Bytes) /\ Len(c \o t) = Len(c) + Len(t)
       /\ \A i \in 1 .. Len(c) + Len(t) : (c \o t)[i] = IF i <= Len(c) THEN c[i] ELSE t[i - Len(c)]
  <2>1. c \in Seq(Bytes) /\ t \in Seq(Bytes)
    BY <1>8, <1>10
  <2>2. QED BY <2>1, ConcatProperties
<1>15. ASSUME NEW i \in 1 .. u + k PROVE (c \o t)[i] = cp[i]
  <2>1. (c \o t)[i] = IF i <= u THEN c[i] ELSE t[i - u]
    BY <1>8, <1>10, <1>14
  <2>2. CASE i <= u
    <3>1. i \in 1 .. u
      BY <1>7, <2>2
    <3>2. QED BY <1>12, <2>1, <2>2, <3>1
  <2>3. CASE ~(i <= u)
    <3> DEFINE j == i - u
    <3>1. j \in 1 .. k /\ u + j = i
      BY <1>7, <2>3
    <3> HIDE DEF j
    <3>2. t[j] = cp[u + j]
      BY <1>13, <3>1
    <3>3. QED BY <2>1, <2>3, <3>1, <3>2 DEF j
  <2>4. QED BY <2>2, <2>3
<1>16. cp = c \o t
  BY <1>8, <1>10, <1>11, <1>14, <1>15, SeqEqual
<1>17. QED BY <1>3, <1>5, <1>16 DEF c, t, cp

\* The last step of pipe_read takes from the front, and returns what it takes.
LEMMA ReadTakes ==
  ASSUME PipeAssumption, Ring, NEW k \in Nat, k <= Used,
         data' = data, nread' = (nread + k) % WORD, nwrite' = nwrite
  PROVE  /\ Ring' /\ Used' = Used - k
         /\ Content' = SubSeq(Content, k + 1, Len(Content))
         /\ Taken(k) = SubSeq(Content, 1, k) /\ Taken(k) \in Seq(Bytes)
<1>1. PIPESIZE \in Nat \ {0} /\ WORD \in Nat \ {0}
  BY Sizes
<1>2. /\ Counters /\ data \in [0 .. PIPESIZE - 1 -> Bytes] /\ Used \in 0 .. WORD - 1 /\ Used \in Nat
      /\ nread \in Nat /\ Used <= PIPESIZE
  BY UsedFacts, <1>1 DEF Ring, Counters, Fits
<1>3. Counters' /\ Used' = Used - k /\ (nread' = nread + k \/ nread' = nread + k - WORD)
  BY <1>2, UsedAfterRead
<1>4. Ring'
  BY <1>1, <1>2, <1>3 DEF Ring, Fits
<1>5. /\ Content \in Seq(Bytes) /\ Len(Content) = Used
      /\ \A i \in 1 .. Used : Content[i] = data[Place(nread, i)]
  <2> DEFINE n == Used
  <2>1. data \in Rings /\ nread \in Nat /\ n \in Nat /\ Content = RingSeq(data, nread, n)
    BY <1>2, ContentIsRing DEF Rings
  <2> HIDE DEF n
  <2>2. Spells(RingSeq(data, nread, n), data, nread, n)
    BY <2>1, RingSeqSpells
  <2>3. Spells(Content, data, nread, n)
    BY <2>1, <2>2
  <2>4. QED BY <2>3 DEF n, Spells
<1> DEFINE u == Used
           c == Content
           cp == Content'
           tk == Taken(k)
<1>6. /\ cp \in Seq(Bytes) /\ Len(cp) = u - k
      /\ \A i \in 1 .. u - k : cp[i] = data[Place(nread', i)]
  <2>1. u - k \in Nat /\ nread' \in Nat /\ cp = RingSeq(data, nread', u - k)
    BY <1>1, <1>2, <1>3, ContentIsRing DEF Counters
  <2> DEFINE n == u - k
             r == nread'
  <2> HIDE DEF n, r, cp
  <2>2. data \in Rings /\ n \in Nat /\ r \in Nat /\ cp = RingSeq(data, r, n)
    BY <1>2, <2>1 DEF n, r, Rings
  <2>3. Spells(RingSeq(data, r, n), data, r, n)
    BY <2>2, RingSeqSpells
  <2>4. Spells(cp, data, r, n)
    BY <2>2, <2>3
  <2>5. QED BY <2>4 DEF n, r, Spells
<1>7. ASSUME NEW i \in 1 .. u - k PROVE cp[i] = c[k + i]
  <2> DEFINE a == nread + (k + i) - 1
  <2>1. a \in Int /\ (nread' + i - 1 = a \/ nread' + i - 1 = a - WORD) /\ k + i \in 1 .. u
    BY <1>1, <1>2, <1>3
  <2>2. Place(nread, k + i) = a % PIPESIZE
    BY DEF Place
  <2> HIDE DEF a
  <2>3. (a - WORD) % PIPESIZE = a % PIPESIZE
    BY <2>1, WrapPlace
  <2>4. Place(nread', i) = a % PIPESIZE
    BY <2>1, <2>3 DEF Place
  <2>5. cp[i] = data[Place(nread', i)]
    BY <1>6, Zenon
  <2>6. c[k + i] = data[Place(nread, k + i)]
    BY <1>5, <2>1, Zenon
  <2>7. QED BY <2>2, <2>4, <2>5, <2>6, Zenon
<1>8. ASSUME NEW i \in 1 .. k PROVE tk[i] = c[i]
  <2> DEFINE j == i - 1
  <2>1. j \in 0 .. WORD - 1 /\ nread + j = nread + i - 1 /\ i \in 1 .. u
    BY <1>2
  <2> HIDE DEF j
  <2>2. ((nread + j) % WORD) % PIPESIZE = (nread + j) % PIPESIZE
    BY <1>2, <2>1, WordPlace DEF Counters
  <2>3. tk[i] = data[((nread + i - 1) % WORD) % PIPESIZE]
    BY DEF Taken
  <2>4. c[i] = data[Place(nread, i)]
    BY <1>5, <2>1
  <2>5. QED BY <2>1, <2>2, <2>3, <2>4 DEF Place
<1>9. u \in Nat /\ c \in Seq(Bytes) /\ Len(c) = u /\ k <= u
  BY <1>2, <1>5
<1>10. tk = [i \in 1 .. k |-> tk[i]]
  BY DEF Taken
<1> HIDE DEF u, c, cp, tk
<1>11. \A i \in 1 .. u : c[i] \in Bytes
  BY <1>9, ElementOfSeq
<1>12. tk \in Seq(Bytes) /\ Len(tk) = k
  <2>1. \A i \in 1 .. k : tk[i] \in Bytes
    BY <1>8, <1>9, <1>11
  <2>2. tk \in [1 .. k -> Bytes]
    BY <1>10, <2>1
  <2>3. QED BY <2>2
<1>13. /\ SubSeq(c, 1, k) \in Seq(Bytes) /\ Len(SubSeq(c, 1, k)) = k
       /\ \A i \in 1 .. k : SubSeq(c, 1, k)[i] = c[i]
  <2>1. \A i \in 1 .. k : c[i] \in Bytes
    BY <1>9, <1>11
  <2>2. QED BY <2>1, SubSeqProperties
<1>14. tk = SubSeq(c, 1, k)
  BY <1>8, <1>12, <1>13, SeqEqual
<1> DEFINE rest == SubSeq(c, k + 1, u)
<1>15. rest \in Seq(Bytes) /\ Len(rest) = u - k /\ \A i \in 1 .. u - k : rest[i] = c[k + i]
  <2>1. \A i \in k + 1 .. u : c[i] \in Bytes
    BY <1>9, <1>11
  <2> DEFINE m == k + 1
  <2>2. m \in Int /\ u \in Int /\ u - m + 1 = u - k /\ \A i \in m .. u : c[i] \in Bytes
    BY <1>9, <2>1
  <2> HIDE DEF m
  <2>3. /\ SubSeq(c, m, u) \in Seq(Bytes)
        /\ Len(SubSeq(c, m, u)) = IF m <= u THEN u - m + 1 ELSE 0
        /\ \A i \in 1 .. u - m + 1 : SubSeq(c, m, u)[i] = c[m + i - 1]
    BY <2>2, SubSeqProperties
  <2>4. QED BY <1>9, <2>2, <2>3 DEF m
<1>16. cp = rest
  <2> HIDE DEF rest
  <2>1. Len(cp) = u - k /\ cp \in Seq(Bytes)
    BY <1>6 DEF u, cp
  <2>2. QED BY <1>7, <1>15, <2>1, SeqEqual
<1>17. QED BY <1>3, <1>4, <1>9, <1>12, <1>14, <1>16 DEF u, c, cp, tk

-----------------------------------------------------------------------------
(* The ring in every step.                                                  *)

RingInv == Ring /\ dst \in Seq(Bytes) /\ NobodySleepsInVain

\* The other variables have their types.
RestOK ==
    /\ open \subseteq End /\ frees \in Nat
    /\ wait_to_read \subseteq Procs /\ wait_to_write \subseteq Procs
    /\ ref \in [End -> Int] /\ fds \in [Procs -> SUBSET End]
    /\ killed \subseteq Procs /\ exiting \subseteq Procs
    /\ pc \in [Procs -> Where]
    /\ src \in [Procs -> Seq(Bytes)] /\ nbytes \in [Procs -> 0 .. MAXREQ]

LEMMA TypeParts ==
  ASSUME RingInv, RestOK
  PROVE  TypeOK
BY DEF RingInv, Ring, RestOK, Counters, TypeOK

QueueStep == [F!Next]_<<Content, dst>>

\* A step that leaves the ring alone and only takes processes off the lists.
LEMMA QuietStep ==
  ASSUME RingInv, UNCHANGED <<ringVars, dst>>,
         wait_to_read' \subseteq wait_to_read, wait_to_write' \subseteq wait_to_write
  PROVE  RingInv' /\ QueueStep
<1>1. Used' = Used /\ Content' = Content
  BY DEF ringVars, Used, Content
<1>2. Ring' /\ dst' = dst
  BY <1>1 DEF RingInv, Ring, Counters, Fits, ringVars
<1>3. NobodySleepsInVain'
  BY <1>1 DEF RingInv, NobodySleepsInVain
<1>4. QED BY <1>1, <1>2, <1>3 DEF RingInv, QueueStep

LEMMA ReadTopRing ==
  ASSUME PipeAssumption, RingInv, NEW p \in Procs, NEW n \in 0 .. MAXREQ, ReadTop(p, n)
  PROVE  RingInv' /\ QueueStep
<1>1. MAXREQ \in Nat /\ PIPESIZE \in Nat \ {0}
  BY DEF PipeAssumption
<1>2. Used \in Nat /\ (Used = 0 <=> nwrite = nread)
  BY UsedFacts DEF RingInv, Ring
<1>3. CASE nwrite = nread
  <2>1. UNCHANGED <<ringVars, wait_to_write, dst>>
    BY <1>3 DEF ReadTop
  <2>2. Used' = Used /\ Content' = Content /\ dst' = dst
    BY <2>1 DEF ringVars, Used, Content
  <2>3. Ring'
    BY <2>1, <2>2 DEF RingInv, Ring, Counters, Fits, ringVars
  <2>4. NobodySleepsInVain'
    BY <1>2, <1>3, <2>1, <2>2 DEF RingInv, NobodySleepsInVain
  <2>5. QED BY <2>2, <2>3, <2>4 DEF RingInv, QueueStep
<1>4. CASE nwrite # nread
  <2> DEFINE k == MinOf(n, Used)
  <2>1. /\ dst' = Taken(k) /\ nread' = (nread + k) % WORD /\ data' = data /\ nwrite' = nwrite
        /\ wait_to_write' = {} /\ wait_to_read' = wait_to_read
    BY <1>4 DEF ReadTop
  <2>2. k \in Nat /\ k <= Used
    BY <1>1, <1>2 DEF MinOf
  <2> HIDE DEF k
  <2>3. /\ Ring' /\ Used' = Used - k
        /\ Content' = SubSeq(Content, k + 1, Len(Content))
        /\ Taken(k) = SubSeq(Content, 1, k) /\ Taken(k) \in Seq(Bytes)
    <3>1. Ring
      BY DEF RingInv
    <3>2. QED BY <2>1, <2>2, <3>1, ReadTakes
  <2>4. wait_to_read = {}
    BY <1>2, <1>4 DEF RingInv, NobodySleepsInVain
  <2>5. RingInv'
    BY <2>1, <2>3, <2>4 DEF RingInv, NobodySleepsInVain
  <2>6. Len(Content) = Used
    <3>1. Used \in Nat /\ nread \in Nat /\ data \in Rings
      BY <1>2, Sizes DEF RingInv, Ring, Counters, Rings
    <3>2. Len(RingSeq(data, nread, Used)) = Used
      BY <3>1, RingSeqType, Zenon
    <3>3. QED BY <3>2, ContentIsRing
  <2>7. k \in 0 .. Len(Content)
    BY <1>2, <2>2, <2>6
  <2>8. F!Get
    BY <2>1, <2>3, <2>7, Zenon DEF F!Get
  <2>9. QED BY <2>5, <2>8 DEF QueueStep, F!Next
<1>5. QED BY <1>3, <1>4

LEMMA WriteTopRing ==
  ASSUME PipeAssumption, RingInv, NEW p \in Procs, NEW s \in Seq(Bytes), WriteTop(p, s), dst' = dst
  PROVE  RingInv' /\ QueueStep
<1>1. PIPESIZE \in Nat \ {0}
  BY DEF PipeAssumption
<1>2. Used \in Nat /\ Used <= PIPESIZE
  BY UsedFacts DEF RingInv, Ring, Fits
<1>3. CASE Used = PIPESIZE
  <2>1. UNCHANGED <<ringVars, wait_to_read>>
    BY <1>3 DEF WriteTop
  <2>2. Used' = Used /\ Content' = Content
    BY <2>1 DEF ringVars, Used, Content
  <2>3. Ring'
    BY <2>1, <2>2 DEF RingInv, Ring, Counters, Fits, ringVars
  <2>4. NobodySleepsInVain'
    BY <1>1, <1>2, <1>3, <2>1, <2>2 DEF RingInv, NobodySleepsInVain
  <2>5. QED BY <2>2, <2>3, <2>4 DEF RingInv, QueueStep
<1>4. CASE Used # PIPESIZE
  <2> DEFINE k == MinOf(Len(s), PIPESIZE - Used)
             t == SubSeq(s, 1, k)
             q == Content
  <2>1. /\ data' = Stored(s, k) /\ nwrite' = (nwrite + k) % WORD /\ nread' = nread
        /\ wait_to_read' = {} /\ wait_to_write' = wait_to_write
    BY <1>4 DEF WriteTop
  <2>2. Len(s) \in Nat
    BY LenProperties
  <2>3. k \in Nat /\ k <= Len(s) /\ Used + k <= PIPESIZE
    BY <1>1, <1>2, <2>2 DEF MinOf
  <2>4. Ring
    BY DEF RingInv
  <2> HIDE DEF k
  <2>5. Ring' /\ Content' = q \o t /\ Used' = Used + k
    BY <2>1, <2>3, <2>4, WriteAppends
  <2>6. wait_to_write = {}
    BY <1>4 DEF RingInv, NobodySleepsInVain
  <2>7. RingInv'
    BY <2>1, <2>5, <2>6 DEF RingInv, NobodySleepsInVain
  <2>8. q \in Seq(Bytes) /\ Len(q) = Used
    <3>1. Used \in Nat /\ nread \in Nat /\ data \in Rings
      BY <1>2, Sizes DEF RingInv, Ring, Counters, Rings
    <3>2. RingSeq(data, nread, Used) \in Seq(Bytes) /\ Len(RingSeq(data, nread, Used)) = Used
      BY <3>1, RingSeqType, Zenon
    <3>3. QED BY <3>2, ContentIsRing
  <2>9. \A i \in 1 .. k : s[i] \in Bytes
    BY <2>2, <2>3, ElementOfSeq
  <2>10. t \in Seq(Bytes) /\ Len(t) = k
    BY <2>3, <2>9, SubSeqProperties
  <2> HIDE DEF t, q
  <2>11. CASE k = 0
    <3>1. t = <<>>
      BY <2>10, <2>11, EmptySeq
    <3>2. q \o t = q
      BY <2>8, <3>1, ConcatEmptySeq
    <3>3. Content' = Content
      BY <2>5, <3>2 DEF q
    <3>4. QED BY <2>7, <3>3 DEF QueueStep
  <2>12. CASE k # 0
    <3>1. k \in 1 .. PIPESIZE /\ Len(q) + Len(t) <= PIPESIZE
      BY <1>1, <1>2, <2>3, <2>8, <2>10, <2>12
    <3>2. t \in [1 .. k -> Bytes]
      BY <2>10, LenProperties
    <3>3. t \in UNION {[1 .. n -> Bytes] : n \in 1 .. PIPESIZE}
      BY <3>1, <3>2
    <3>4. F!Put
      BY <2>5, <3>1, <3>3, Zenon DEF F!Put, q
    <3>5. QED BY <2>7, <3>4 DEF QueueStep, F!Next
  <2>13. QED BY <2>11, <2>12
<1>5. QED BY <1>3, <1>4

LEMMA RingStep ==
  ASSUME PipeAssumption, RingInv, RestOK, Next
  PROVE  RingInv' /\ QueueStep
<1> PICK p \in Procs : UserStep(p) \/ KernelStep(p) \/ kill(p)
  BY DEF Next
<1> USE PipeAssumption
<1>1. CASE pipe_read(p)
  BY <1>1, ReadTopRing DEF pipe_read
<1>2. CASE pipe_write(p)
  <2>1. PICK n \in 0 .. MAXREQ : \E s \in [1 .. n -> Bytes] : WriteTop(p, s)
    BY <1>2 DEF pipe_write
  <2>2. PICK s \in [1 .. n -> Bytes] : WriteTop(p, s)
    BY <2>1
  <2>3. n \in Nat
    BY <2>1 DEF PipeAssumption
  <2>4. s \in Seq(Bytes)
    BY <2>2, <2>3
  <2>5. dst' = dst
    BY <1>2 DEF pipe_write
  <2>6. QED BY <2>2, <2>4, <2>5, WriteTopRing
<1>3. CASE ReadWoken(p)
  <2>1. nbytes[p] \in 0 .. MAXREQ
    BY DEF RestOK
  <2>2. CASE ReadTop(p, nbytes[p])
    BY <2>1, <2>2, ReadTopRing
  <2>3. CASE UNCHANGED <<ringVars, listVars, dst>>
    BY <2>3, QuietStep DEF listVars
  <2>4. QED BY <1>3, <2>2, <2>3 DEF ReadWoken
<1>4. CASE WriteWoken(p)
  <2>1. src[p] \in Seq(Bytes)
    BY DEF RestOK
  <2>2. dst' = dst
    BY <1>4 DEF WriteWoken
  <2>3. CASE WriteTop(p, src[p])
    BY <2>1, <2>2, <2>3, WriteTopRing
  <2>4. CASE UNCHANGED <<ringVars, listVars>>
    BY <2>2, <2>4, QuietStep DEF listVars
  <2>5. QED BY <1>4, <2>3, <2>4 DEF WriteWoken
<1>5. CASE close(p) \/ ExitClose(p)
  <2>1. UNCHANGED <<ringVars, listVars, dst>>
    BY <1>5 DEF close, ExitClose, file_close
  <2>2. QED BY <2>1, QuietStep DEF listVars
<1>6. CASE pipe_close(p)
  <2>1. /\ UNCHANGED <<ringVars, dst>>
        /\ wait_to_read' \subseteq wait_to_read /\ wait_to_write' \subseteq wait_to_write
    BY <1>6 DEF pipe_close
  <2>2. QED BY <2>1, QuietStep
<1>7. CASE pipe_close_free(p) \/ TrapReturn(p) \/ exit(p) \/ ExitEnd(p) \/ \E c \in Procs : fork(p, c)
  <2>1. UNCHANGED <<ringVars, listVars, dst>>
    BY <1>7 DEF pipe_close_free, TrapReturn, exit, ExitEnd, fork
  <2>2. QED BY <2>1, QuietStep DEF listVars
<1>8. CASE kill(p)
  <2>1. /\ UNCHANGED <<ringVars, dst>>
        /\ wait_to_read' \subseteq wait_to_read /\ wait_to_write' \subseteq wait_to_write
    BY <1>8 DEF kill
  <2>2. QED BY <2>1, QuietStep
<1>9. QED BY <1>1, <1>2, <1>3, <1>4, <1>5, <1>6, <1>7, <1>8 DEF UserStep, KernelStep

-----------------------------------------------------------------------------
(* Where the processes are.                                                 *)

\* A step of p: the others stay, or leave a wait list for the code after
\* sleep().
Moves(p) ==
    /\ pc' \in [Procs -> Where]
    /\ \A r \in Procs \ {p} : \/ pc'[r] = pc[r]
                              \/ pc[r] = "read_sleep" /\ pc'[r] = "read_woken"
                              \/ pc[r] = "write_sleep" /\ pc'[r] = "write_woken"

LEMMA GotoMoves ==
  ASSUME NEW p \in Procs, NEW l \in Where, pc \in [Procs -> Where], Goto(p, l)
  PROVE  Moves(p) /\ pc'[p] = l
BY DEF Goto, Moves

LEMMA WakeMoves ==
  ASSUME NEW p \in Procs, NEW l \in Where, NEW P, pc \in [Procs -> Where],
         pc[p] \notin {"read_sleep", "write_sleep"}, WakeAndGoto(P, p, l)
  PROVE  Moves(p) /\ pc'[p] = l
<1> DEFINE g(r) == CASE r = p -> l
                     [] r \in P /\ pc[r] = "read_sleep"  -> "read_woken"
                     [] r \in P /\ pc[r] = "write_sleep" -> "write_woken"
                     [] OTHER -> pc[r]
<1>1. pc' = [r \in Procs |-> g(r)]
  BY DEF WakeAndGoto
<1>2. g(p) = l
  OBVIOUS
<1>3. ASSUME NEW r \in Procs \ {p}
      PROVE  \/ g(r) = pc[r]
             \/ pc[r] = "read_sleep" /\ g(r) = "read_woken"
             \/ pc[r] = "write_sleep" /\ g(r) = "write_woken"
  <2>1. CASE r \in P /\ pc[r] = "read_sleep"
    BY <2>1
  <2>2. CASE r \in P /\ pc[r] = "write_sleep"
    BY <2>2
  <2>3. CASE ~(r \in P /\ pc[r] = "read_sleep") /\ ~(r \in P /\ pc[r] = "write_sleep")
    <3>1. g(r) = pc[r]
      BY <2>3
    <3>2. QED BY <3>1
  <2>4. QED BY <2>1, <2>2, <2>3
<1>4. \A r \in Procs : g(r) \in Where
  BY <1>2, <1>3 DEF Where
<1> HIDE DEF g
<1>5. QED BY <1>1, <1>2, <1>3, <1>4 DEF Moves

\* Where a read or a write leaves its caller.
LEMMA ReadTopMoves ==
  ASSUME PipeAssumption, RestOK, NEW p \in Procs, NEW n \in 0 .. MAXREQ,
         pc[p] \notin {"read_sleep", "write_sleep"}, ReadTop(p, n)
  PROVE  /\ Moves(p) /\ pc'[p] \in {"read_sleep", "ret"}
         /\ wait_to_read' \subseteq Procs /\ wait_to_write' \subseteq Procs
         /\ nbytes' \in [Procs -> 0 .. MAXREQ]
<1>1. pc \in [Procs -> Where] /\ "read_sleep" \in Where /\ "ret" \in Where
  BY DEF RestOK, Where
<1>2. MAXREQ \in Nat
  BY DEF PipeAssumption
<1>3. CASE nwrite = nread
  <2>1. Goto(p, "read_sleep") /\ nbytes' = [nbytes EXCEPT ![p] = n]
        /\ wait_to_read' = wait_to_read \cup {p} /\ wait_to_write' = wait_to_write
    BY <1>3 DEF ReadTop
  <2>2. Moves(p) /\ pc'[p] = "read_sleep"
    BY <1>1, <2>1, GotoMoves
  <2>3. QED BY <2>1, <2>2 DEF RestOK
<1>4. CASE nwrite # nread
  <2>1. WakeAndGoto(wait_to_write, p, "ret") /\ nbytes' = [nbytes EXCEPT ![p] = 0]
        /\ wait_to_read' = wait_to_read /\ wait_to_write' = {}
    BY <1>4 DEF ReadTop
  <2>2. Moves(p) /\ pc'[p] = "ret"
    BY <1>1, <2>1, WakeMoves
  <2>3. QED BY <1>2, <2>1, <2>2 DEF RestOK
<1>5. QED BY <1>3, <1>4

LEMMA WriteTopMoves ==
  ASSUME RestOK, NEW p \in Procs, NEW s \in Seq(Bytes),
         pc[p] \notin {"read_sleep", "write_sleep"}, WriteTop(p, s)
  PROVE  /\ Moves(p) /\ pc'[p] \in {"write_sleep", "ret"}
         /\ wait_to_read' \subseteq Procs /\ wait_to_write' \subseteq Procs
         /\ src' \in [Procs -> Seq(Bytes)]
<1>1. pc \in [Procs -> Where] /\ "write_sleep" \in Where /\ "ret" \in Where
  BY DEF RestOK, Where
<1>2. CASE Used = PIPESIZE
  <2>1. Goto(p, "write_sleep") /\ src' = [src EXCEPT ![p] = s]
        /\ wait_to_write' = wait_to_write \cup {p} /\ wait_to_read' = wait_to_read
    BY <1>2 DEF WriteTop
  <2>2. Moves(p) /\ pc'[p] = "write_sleep"
    BY <1>1, <2>1, GotoMoves
  <2>3. QED BY <2>1, <2>2 DEF RestOK
<1>3. CASE Used # PIPESIZE
  <2>1. WakeAndGoto(wait_to_read, p, "ret") /\ src' = [src EXCEPT ![p] = <<>>]
        /\ wait_to_write' = wait_to_write /\ wait_to_read' = {}
    BY <1>3 DEF WriteTop
  <2>2. Moves(p) /\ pc'[p] = "ret"
    BY <1>1, <2>1, WakeMoves
  <2>3. <<>> \in Seq(Bytes)
    BY EmptySeq
  <2>4. QED BY <2>1, <2>2, <2>3 DEF RestOK
<1>4. QED BY <1>2, <1>3

-----------------------------------------------------------------------------
(* The steps, by what they do to the ends, the descriptors and the places.  *)

\* Calls of p on the pipe: the file table is left alone, and who enters a
\* function of the pipe has the descriptor it takes.
CallStep(p) ==
    /\ UNCHANGED <<open, frees, ref, fds>> /\ Moves(p)
    /\ pc[p] # "none" /\ pc'[p] \notin {"none", "close_r", "close_w"}
    /\ pc'[p] \in {"read_sleep", "read_woken"} =>
          pc[p] \in {"read_sleep", "read_woken"} \/ "O_RDONLY" \in fds[p]
    /\ pc'[p] \in {"write_sleep", "write_woken"} =>
          pc[p] \in {"write_sleep", "write_woken"} \/ "O_WRONLY" \in fds[p]

\* p gives one of its descriptors up.
DropStep(p) ==
    /\ pc[p] \in {"user", "exit"} /\ UNCHANGED <<open, frees>> /\ Moves(p)
    /\ \E e \in fds[p] :
          /\ fds' = [fds EXCEPT ![p] = @ \ {e}] /\ ref' = [ref EXCEPT ![e] = @ - 1]
          /\ \/ pc'[p] \in {"ret", "exit"} /\ ref[e] > 1
             \/ pc'[p] = "close_r" /\ e = "O_RDONLY" /\ ~(ref[e] > 1)
             \/ pc'[p] = "close_w" /\ e = "O_WRONLY" /\ ~(ref[e] > 1)

\* p closes an end that has no reference.
ShutStep(p) ==
    /\ UNCHANGED <<frees, ref, fds>> /\ Moves(p) /\ pc'[p] = "close_free"
    /\ \/ pc[p] = "close_r" /\ open' = open \ {"O_RDONLY"}
       \/ pc[p] = "close_w" /\ open' = open \ {"O_WRONLY"}

\* p frees the pipe when it finds both ends closed, or after somebody did.
FreeStep(p) ==
    /\ UNCHANGED <<open, ref, fds>> /\ Moves(p) /\ pc'[p] \in {"exit", "ret"} /\ pc[p] = "close_free"
    /\ frees' \in Nat /\ (frees' > 0 => frees > 0 \/ open = {})

\* c gets the descriptors of p.
ForkStep(p, c) ==
    /\ UNCHANGED <<open, frees>> /\ pc[p] = "user" /\ pc[c] = "none"
    /\ fds' = [fds EXCEPT ![c] = fds[p]]
    /\ ref' = [e \in End |-> IF e \in fds[p] THEN ref[e] + 1 ELSE ref[e]]
    /\ \E l \in {"user", "lost"} : pc' = [pc EXCEPT ![p] = "ret", ![c] = l]

StepKinds ==
    \/ UNCHANGED <<open, frees, ref, fds, pc>>
    \/ \E p \in Procs : \/ CallStep(p) \/ DropStep(p) \/ ShutStep(p) \/ FreeStep(p)
                        \/ \E c \in Procs : ForkStep(p, c)

LEMMA RestStep ==
  ASSUME PipeAssumption, RestOK, Next
  PROVE  RestOK' /\ StepKinds
<1> PICK p \in Procs : UserStep(p) \/ KernelStep(p) \/ kill(p)
  BY DEF Next
<1>0. pc \in [Procs -> Where] /\ ref \in [End -> Int] /\ fds \in [Procs -> SUBSET End]
  BY DEF RestOK
<1>1. CASE pipe_read(p)
  <2>1. UNCHANGED <<open, frees, ref, fds, killed, exiting, src>> /\ pc[p] = "user" /\ "O_RDONLY" \in fds[p]
    BY <1>1 DEF pipe_read, fileVars
  <2>2. /\ Moves(p) /\ pc'[p] \in {"read_sleep", "ret"}
        /\ wait_to_read' \subseteq Procs /\ wait_to_write' \subseteq Procs
        /\ nbytes' \in [Procs -> 0 .. MAXREQ]
    BY <1>1, <2>1, ReadTopMoves DEF pipe_read
  <2>3. CallStep(p)
    BY <2>1, <2>2 DEF CallStep
  <2>4. QED BY <2>1, <2>2, <2>3 DEF RestOK, StepKinds, Moves
<1>2. CASE pipe_write(p)
  <2>1. UNCHANGED <<open, frees, ref, fds, killed, exiting, nbytes>> /\ pc[p] = "user" /\ "O_WRONLY" \in fds[p]
    BY <1>2 DEF pipe_write, fileVars
  <2>2. PICK n \in 0 .. MAXREQ : \E s \in [1 .. n -> Bytes] : WriteTop(p, s)
    BY <1>2 DEF pipe_write
  <2>3. PICK s \in [1 .. n -> Bytes] : WriteTop(p, s)
    BY <2>2
  <2>4. n \in Nat
    BY <2>2 DEF PipeAssumption
  <2>5. s \in Seq(Bytes)
    BY <2>3, <2>4
  <2>6. /\ Moves(p) /\ pc'[p] \in {"write_sleep", "ret"}
        /\ wait_to_read' \subseteq Procs /\ wait_to_write' \subseteq Procs
        /\ src' \in [Procs -> Seq(Bytes)]
    BY <2>1, <2>3, <2>5, WriteTopMoves
  <2>7. CallStep(p)
    BY <2>1, <2>6 DEF CallStep
  <2>8. QED BY <2>1, <2>6, <2>7 DEF RestOK, StepKinds, Moves
<1>3. CASE ReadWoken(p)
  <2>1. UNCHANGED <<open, frees, ref, fds, killed, exiting, src>> /\ pc[p] = "read_woken"
    BY <1>3 DEF ReadWoken, fileVars
  <2>2. /\ Moves(p) /\ pc'[p] \in {"read_sleep", "ret"}
        /\ wait_to_read' \subseteq Procs /\ wait_to_write' \subseteq Procs
        /\ nbytes' \in [Procs -> 0 .. MAXREQ]
    <3>1. CASE ReadTop(p, nbytes[p])
      <4>1. nbytes[p] \in 0 .. MAXREQ
        BY DEF RestOK
      <4>2. QED BY <2>1, <3>1, <4>1, ReadTopMoves
    <3>2. CASE Goto(p, "ret") /\ nbytes' = [nbytes EXCEPT ![p] = 0] /\ UNCHANGED <<ringVars, listVars, dst>>
      <4>1. Moves(p) /\ pc'[p] = "ret"
        BY <1>0, <3>2, GotoMoves DEF Where
      <4>2. nbytes' \in [Procs -> 0 .. MAXREQ]
        BY <3>2 DEF RestOK, PipeAssumption
      <4>3. QED BY <3>2, <4>1, <4>2 DEF RestOK, listVars
    <3>3. QED BY <1>3, <3>1, <3>2 DEF ReadWoken
  <2>3. CallStep(p)
    BY <2>1, <2>2 DEF CallStep
  <2>4. QED BY <2>1, <2>2, <2>3 DEF RestOK, StepKinds, Moves
<1>4. CASE WriteWoken(p)
  <2>1. UNCHANGED <<open, frees, ref, fds, killed, exiting, nbytes>> /\ pc[p] = "write_woken"
    BY <1>4 DEF WriteWoken, fileVars
  <2>2. /\ Moves(p) /\ pc'[p] \in {"write_sleep", "ret"}
        /\ wait_to_read' \subseteq Procs /\ wait_to_write' \subseteq Procs
        /\ src' \in [Procs -> Seq(Bytes)]
    <3>1. CASE WriteTop(p, src[p])
      <4>1. src[p] \in Seq(Bytes)
        BY DEF RestOK
      <4>2. QED BY <2>1, <3>1, <4>1, WriteTopMoves
    <3>2. CASE Goto(p, "ret") /\ src' = [src EXCEPT ![p] = <<>>] /\ UNCHANGED <<ringVars, listVars>>
      <4>1. Moves(p) /\ pc'[p] = "ret"
        BY <1>0, <3>2, GotoMoves DEF Where
      <4>2. <<>> \in Seq(Bytes)
        BY EmptySeq
      <4>3. src' \in [Procs -> Seq(Bytes)]
        BY <3>2, <4>2 DEF RestOK
      <4>4. QED BY <3>2, <4>1, <4>3 DEF RestOK, listVars
    <3>3. QED BY <1>4, <3>1, <3>2 DEF WriteWoken
  <2>3. CallStep(p)
    BY <2>1, <2>2 DEF CallStep
  <2>4. QED BY <2>1, <2>2, <2>3 DEF RestOK, StepKinds, Moves
<1>5. CASE close(p) \/ ExitClose(p)
  <2>1. PICK e \in fds[p], back \in {"ret", "exit"} : file_close(p, e, back)
    BY <1>0, <1>5 DEF close, ExitClose, End
  <2>2. pc[p] \in {"user", "exit"} /\ e \in End
    BY <1>0, <1>5 DEF close, ExitClose
  <2> DEFINE l == IF ref[e] > 1 THEN back ELSE IF e = "O_RDONLY" THEN "close_r" ELSE "close_w"
  <2>3. /\ fds' = [fds EXCEPT ![p] = @ \ {e}] /\ ref' = [ref EXCEPT ![e] = @ - 1] /\ Goto(p, l)
        /\ UNCHANGED <<open, frees, wait_to_read, wait_to_write, killed, exiting, src, nbytes>>
    BY <2>1 DEF file_close, listVars, callVars
  <2>4. l \in Where
    BY DEF Where
  <2>5. \/ l \in {"ret", "exit"} /\ ref[e] > 1
        \/ l = "close_r" /\ e = "O_RDONLY" /\ ~(ref[e] > 1)
        \/ l = "close_w" /\ e = "O_WRONLY" /\ ~(ref[e] > 1)
    BY <2>2 DEF End
  <2> HIDE DEF l
  <2>6. Moves(p) /\ pc'[p] = l
    BY <1>0, <2>3, <2>4, GotoMoves
  <2>7. DropStep(p)
    BY <2>1, <2>2, <2>3, <2>5, <2>6 DEF DropStep
  <2>8. fds' \in [Procs -> SUBSET End] /\ ref' \in [End -> Int]
    BY <1>0, <2>2, <2>3
  <2>9. QED BY <2>3, <2>6, <2>7, <2>8 DEF RestOK, StepKinds, Moves
<1>6. CASE pipe_close(p)
  <2>1. /\ UNCHANGED <<frees, ref, fds, killed, exiting, src, nbytes>>
        /\ \/ pc[p] = "close_r" /\ open' = open \ {"O_RDONLY"}
           \/ pc[p] = "close_w" /\ open' = open \ {"O_WRONLY"}
        /\ wait_to_read' \subseteq wait_to_read /\ wait_to_write' \subseteq wait_to_write
    BY <1>6 DEF pipe_close, fileVars, callVars
  <2>2. PICK P \in {wait_to_read, wait_to_write} : WakeAndGoto(P, p, "close_free")
    BY <1>6 DEF pipe_close
  <2>3. Moves(p) /\ pc'[p] = "close_free"
    BY <1>0, <2>1, <2>2, WakeMoves DEF Where
  <2>4. ShutStep(p)
    BY <2>1, <2>3 DEF ShutStep
  <2>5. QED BY <2>1, <2>3, <2>4 DEF RestOK, StepKinds, Moves
<1>7. CASE pipe_close_free(p)
  <2> DEFINE l == IF p \in exiting THEN "exit" ELSE "ret"
  <2>1. /\ UNCHANGED <<open, ref, fds, wait_to_read, wait_to_write, killed, exiting, src, nbytes>>
        /\ pc[p] = "close_free" /\ Goto(p, l)
    BY <1>7 DEF pipe_close_free, fileVars, listVars, callVars
  <2>2. l \in Where /\ l \in {"exit", "ret"}
    BY DEF Where
  <2> HIDE DEF l
  <2>3. Moves(p) /\ pc'[p] = l
    BY <1>0, <2>1, <2>2, GotoMoves
  <2>4. frees' \in IF frees = 0 THEN {IF open = {} THEN 1 ELSE 0} ELSE {frees, frees + 1}
    BY <1>7 DEF pipe_close_free
  <2>5. frees' \in Nat /\ (frees' > 0 => frees > 0 \/ open = {})
    BY <2>4 DEF RestOK
  <2>6. FreeStep(p)
    BY <2>1, <2>2, <2>3, <2>5 DEF FreeStep
  <2>7. QED BY <2>1, <2>3, <2>5, <2>6 DEF RestOK, StepKinds, Moves
<1>8. CASE TrapReturn(p)
  <2> DEFINE l == IF p \in killed THEN "exit" ELSE "user"
  <2>1. /\ UNCHANGED <<open, frees, ref, fds, wait_to_read, wait_to_write, killed, src, nbytes>>
        /\ pc[p] \in {"ret", "user"} /\ Goto(p, l) /\ exiting' \subseteq Procs
    BY <1>8 DEF TrapReturn, fileVars, listVars, callVars, RestOK
  <2>2. l \in Where /\ l \in {"exit", "user"}
    BY DEF Where
  <2> HIDE DEF l
  <2>3. Moves(p) /\ pc'[p] = l
    BY <1>0, <2>1, <2>2, GotoMoves
  <2>4. CallStep(p)
    BY <2>1, <2>2, <2>3 DEF CallStep
  <2>5. QED BY <2>1, <2>3, <2>4 DEF RestOK, StepKinds, Moves
<1>9. CASE exit(p) \/ ExitEnd(p)
  <2>1. /\ UNCHANGED <<open, frees, ref, fds, wait_to_read, wait_to_write, killed, src, nbytes>>
        /\ pc[p] \in {"user", "exit"} /\ exiting' \subseteq Procs
    BY <1>9 DEF exit, ExitEnd, fileVars, listVars, callVars, RestOK
  <2>2. PICK l \in {"exit", "dead"} : Goto(p, l)
    BY <1>9 DEF exit, ExitEnd
  <2>3. Moves(p) /\ pc'[p] = l
    BY <1>0, <2>2, GotoMoves DEF Where
  <2>4. CallStep(p)
    BY <2>1, <2>2, <2>3 DEF CallStep
  <2>5. QED BY <2>1, <2>3, <2>4 DEF RestOK, StepKinds, Moves
<1>10. ASSUME NEW c \in Procs, fork(p, c) PROVE RestOK' /\ StepKinds
  <2>1. /\ ForkStep(p, c)
        /\ UNCHANGED <<open, frees, wait_to_read, wait_to_write, killed, exiting, src, nbytes>>
    BY <1>10 DEF fork, ForkStep, listVars, callVars
  <2>2. fds' \in [Procs -> SUBSET End] /\ ref' \in [End -> Int] /\ pc' \in [Procs -> Where]
    BY <1>0, <2>1 DEF ForkStep, Where
  <2>3. QED BY <2>1, <2>2 DEF RestOK, StepKinds
<1>11. CASE kill(p)
  <2> DEFINE l == CASE pc[p] = "read_sleep"  -> "read_woken"
                    [] pc[p] = "write_sleep" -> "write_woken"
                    [] OTHER -> pc[p]
  <2>1. /\ UNCHANGED <<open, frees, ref, fds, exiting, src, nbytes>>
        /\ pc[p] \notin {"none", "dead", "lost"} /\ Goto(p, l) /\ killed' \subseteq Procs
        /\ wait_to_read' \subseteq Procs /\ wait_to_write' \subseteq Procs
    BY <1>11 DEF kill, fileVars, callVars, RestOK
  <2>2. \/ l = pc[p]
        \/ pc[p] = "read_sleep" /\ l = "read_woken"
        \/ pc[p] = "write_sleep" /\ l = "write_woken"
    OBVIOUS
  <2> HIDE DEF l
  <2>3. l \in Where
    BY <1>0, <2>2 DEF Where
  <2>4. Moves(p) /\ pc'[p] = l
    BY <1>0, <2>1, <2>3, GotoMoves
  <2>5. CASE l \in {"close_r", "close_w"}
    <3>1. l = pc[p]
      BY <2>2, <2>5
    <3>2. pc' = pc
      BY <1>0, <2>1, <3>1 DEF Goto
    <3>3. QED BY <2>1, <2>4, <3>2 DEF RestOK, StepKinds, Moves
  <2>6. CASE l \notin {"close_r", "close_w"}
    <3>1. CallStep(p)
      BY <2>1, <2>2, <2>4, <2>6 DEF CallStep
    <3>2. QED BY <2>1, <2>4, <3>1 DEF RestOK, StepKinds, Moves
  <2>7. QED BY <2>5, <2>6
<1>12. QED BY <1>1, <1>2, <1>3, <1>4, <1>5, <1>6, <1>7, <1>8, <1>9, <1>10, <1>11 DEF UserStep, KernelStep

-----------------------------------------------------------------------------
(* The ends and their descriptors.                                          *)

Users(e) == {p \in Procs : e \in fds[p]}

Counted == \A e \in End : ref[e] = Cardinality(Users(e))

Opened == \A e \in End : ref[e] > 0 => e \in open

Freed == frees > 0 => open = {}

\* A process in pipe_read or pipe_write keeps the descriptor it called with, a
\* process on its way into pipe_close has taken the last reference, and one
\* that does not exist yet has no descriptors.
Holds ==
    \A p \in Procs :
        /\ pc[p] \in {"read_sleep", "read_woken"} => "O_RDONLY" \in fds[p]
        /\ pc[p] \in {"write_sleep", "write_woken"} => "O_WRONLY" \in fds[p]
        /\ pc[p] = "none" => fds[p] = {}
        /\ pc[p] = "close_r" => ref["O_RDONLY"] = 0
        /\ pc[p] = "close_w" => ref["O_WRONLY"] = 0

EndInv == Counted /\ Opened /\ Freed /\ Holds

LEMMA UsersFinite ==
  ASSUME PipeAssumption, NEW e
  PROVE  IsFiniteSet(Users(e)) /\ Cardinality(Users(e)) \in Nat
<1>1. Users(e) \in SUBSET Procs /\ IsFiniteSet(Procs)
  BY DEF Users, PipeAssumption
<1>2. IsFiniteSet(Users(e))
  BY <1>1, FS_Subset
<1>3. QED BY <1>2, FS_CardinalityType

\* Who has a descriptor holds a reference.
LEMMA HeldIsCounted ==
  ASSUME PipeAssumption, Counted, NEW e \in End, NEW p \in Procs, e \in fds[p]
  PROVE  ref[e] >= 1
<1>1. p \in Users(e) /\ ref[e] = Cardinality(Users(e))
  BY DEF Users, Counted
<1>2. IsFiniteSet(Users(e)) /\ Cardinality(Users(e)) \in Nat
  BY UsersFinite
<1>3. Cardinality(Users(e)) # 0
  BY <1>1, <1>2, FS_EmptySet
<1>4. QED BY <1>1, <1>2, <1>3

LEMMA EndsFollow ==
  ASSUME PipeAssumption, RestOK, EndInv
  PROVE  EndsMatchDescriptors
<1>1. \A e \in End : ref[e] = Cardinality({p \in Procs : e \in fds[p]})
  BY DEF EndInv, Counted, Users
<1>2. (\A e \in End : ref[e] > 0 => e \in open) /\ (frees > 0 => open = {})
  BY DEF EndInv, Opened, Freed
<1>3. ASSUME NEW p \in Procs, NEW e \in End, e \in fds[p] PROVE e \in open /\ frees = 0
  <2>1. ref[e] >= 1 /\ ref[e] \in Int
    BY <1>3, HeldIsCounted DEF EndInv, RestOK
  <2>2. e \in open
    BY <1>2, <2>1
  <2>3. QED BY <1>2, <2>2 DEF RestOK
<1>4. ASSUME NEW p \in Procs
      PROVE  /\ Reading(p) => "O_RDONLY" \in open /\ frees = 0
             /\ Writing(p) => "O_WRONLY" \in open /\ frees = 0
  BY <1>3 DEF EndInv, Holds, Reading, Writing, End
<1>5. QED BY <1>1, <1>2, <1>4 DEF EndsMatchDescriptors

\* Steps that leave the references alone.
LEMMA CallEnds ==
  ASSUME EndInv, RestOK, NEW p \in Procs, CallStep(p)
  PROVE  EndInv'
<1>1. UNCHANGED <<open, frees, ref, fds>>
  BY DEF CallStep
<1>2. Counted' /\ Opened' /\ Freed'
  BY <1>1 DEF EndInv, Counted, Users, Opened, Freed
<1>3. ASSUME NEW r \in Procs
      PROVE  /\ pc'[r] \in {"read_sleep", "read_woken"} => "O_RDONLY" \in fds[r]
             /\ pc'[r] \in {"write_sleep", "write_woken"} => "O_WRONLY" \in fds[r]
             /\ pc'[r] = "none" => fds[r] = {}
             /\ pc'[r] = "close_r" => ref["O_RDONLY"] = 0
             /\ pc'[r] = "close_w" => ref["O_WRONLY"] = 0
  <2>1. CASE r = p
    BY <2>1 DEF CallStep, EndInv, Holds
  <2>2. CASE r # p
    BY <2>2 DEF CallStep, Moves, EndInv, Holds
  <2>3. QED BY <2>1, <2>2
<1>4. Holds'
  BY <1>1, <1>3 DEF Holds
<1>5. QED BY <1>2, <1>4 DEF EndInv

LEMMA DropEnds ==
  ASSUME PipeAssumption, EndInv, RestOK, NEW p \in Procs, DropStep(p)
  PROVE  EndInv'
<1>1. PICK e \in fds[p] :
          /\ fds' = [fds EXCEPT ![p] = @ \ {e}] /\ ref' = [ref EXCEPT ![e] = @ - 1]
          /\ \/ pc'[p] \in {"ret", "exit"} /\ ref[e] > 1
             \/ pc'[p] = "close_r" /\ e = "O_RDONLY" /\ ~(ref[e] > 1)
             \/ pc'[p] = "close_w" /\ e = "O_WRONLY" /\ ~(ref[e] > 1)
  BY DEF DropStep
<1>2. /\ ref \in [End -> Int] /\ fds \in [Procs -> SUBSET End] /\ e \in End
      /\ UNCHANGED <<open, frees>> /\ Moves(p) /\ pc[p] \in {"user", "exit"}
  BY <1>1 DEF RestOK, DropStep
<1>3. ref[e] >= 1 /\ ref[e] \in Int
  BY <1>1, <1>2, HeldIsCounted DEF EndInv
<1>4. \A f \in End : ref'[f] = IF f = e THEN ref[f] - 1 ELSE ref[f]
  BY <1>1, <1>2
<1>5. \A r \in Procs : fds'[r] = IF r = p THEN fds[r] \ {e} ELSE fds[r]
  BY <1>1, <1>2
<1>6. Counted'
  <2> SUFFICES ASSUME NEW f \in End PROVE ref'[f] = Cardinality(Users(f)')
    BY DEF Counted
  <2>1. CASE f = e
    <3>1. Users(f)' = Users(f) \ {p}
      BY <1>5, <2>1 DEF Users
    <3>2. p \in Users(f)
      BY <1>1, <2>1 DEF Users
    <3>3. Cardinality(Users(f) \ {p}) = Cardinality(Users(f)) - 1
      BY <3>2, UsersFinite, FS_RemoveElement
    <3>4. ref[f] = Cardinality(Users(f))
      BY DEF EndInv, Counted
    <3>5. QED BY <1>4, <2>1, <3>1, <3>3, <3>4
  <2>2. CASE f # e
    <3>1. Users(f)' = Users(f)
      BY <1>5, <2>2 DEF Users
    <3>2. QED BY <1>4, <2>2, <3>1 DEF EndInv, Counted
  <2>3. QED BY <2>1, <2>2
<1>7. Opened'
  BY <1>2, <1>3, <1>4 DEF Opened, EndInv
<1>8. Freed'
  BY <1>2 DEF Freed, EndInv
<1>9. Holds'
  <2> SUFFICES ASSUME NEW r \in Procs
               PROVE  /\ pc'[r] \in {"read_sleep", "read_woken"} => "O_RDONLY" \in fds'[r]
                      /\ pc'[r] \in {"write_sleep", "write_woken"} => "O_WRONLY" \in fds'[r]
                      /\ pc'[r] = "none" => fds'[r] = {}
                      /\ pc'[r] = "close_r" => ref'["O_RDONLY"] = 0
                      /\ pc'[r] = "close_w" => ref'["O_WRONLY"] = 0
    BY DEF Holds
  <2>1. CASE r = p
    <3>1. ~(ref[e] > 1) => ref'[e] = 0
      BY <1>2, <1>3, <1>4
    <3>2. QED BY <1>1, <2>1, <3>1
  <2>2. CASE r # p
    <3>1. fds'[r] = fds[r]
      BY <1>5, <2>2
    <3>2. \A f \in End : ref[f] = 0 => ref'[f] = 0
      BY <1>3, <1>4
    <3>3. "O_RDONLY" \in End /\ "O_WRONLY" \in End
      BY DEF End
    <3>4. QED BY <1>2, <2>2, <3>1, <3>2, <3>3 DEF Moves, EndInv, Holds
  <2>3. QED BY <2>1, <2>2
<1>10. QED BY <1>6, <1>7, <1>8, <1>9 DEF EndInv

LEMMA ShutEnds ==
  ASSUME EndInv, RestOK, NEW p \in Procs, ShutStep(p)
  PROVE  EndInv'
<1>1. UNCHANGED <<frees, ref, fds>> /\ Moves(p) /\ pc'[p] = "close_free"
  BY DEF ShutStep
<1>2. Counted'
  BY <1>1 DEF EndInv, Counted, Users
<1>3. Opened'
  <2>1. CASE pc[p] = "close_r" /\ open' = open \ {"O_RDONLY"}
    <3>1. ref["O_RDONLY"] = 0
      BY <2>1 DEF EndInv, Holds
    <3>2. QED BY <1>1, <2>1, <3>1 DEF EndInv, Opened
  <2>2. CASE pc[p] = "close_w" /\ open' = open \ {"O_WRONLY"}
    <3>1. ref["O_WRONLY"] = 0
      BY <2>2 DEF EndInv, Holds
    <3>2. QED BY <1>1, <2>2, <3>1 DEF EndInv, Opened
  <2>3. QED BY <2>1, <2>2 DEF ShutStep
<1>4. Freed'
  <2>1. open' \subseteq open
    BY DEF ShutStep
  <2>2. QED BY <1>1, <2>1 DEF EndInv, Freed
<1>5. Holds'
  BY <1>1 DEF Moves, EndInv, Holds
<1>6. QED BY <1>2, <1>3, <1>4, <1>5 DEF EndInv

LEMMA FreeEnds ==
  ASSUME EndInv, RestOK, NEW p \in Procs, FreeStep(p)
  PROVE  EndInv'
<1>1. /\ UNCHANGED <<open, ref, fds>> /\ Moves(p) /\ pc'[p] \in {"exit", "ret"}
      /\ (frees' > 0 => frees > 0 \/ open = {})
  BY DEF FreeStep
<1>2. Counted' /\ Opened'
  BY <1>1 DEF EndInv, Counted, Users, Opened
<1>3. Freed'
  BY <1>1 DEF EndInv, Freed
<1>4. Holds'
  BY <1>1 DEF Moves, EndInv, Holds
<1>5. QED BY <1>2, <1>3, <1>4 DEF EndInv

LEMMA ForkEnds ==
  ASSUME PipeAssumption, EndInv, RestOK, NEW p \in Procs, NEW c \in Procs, ForkStep(p, c)
  PROVE  EndInv'
<1>1. /\ UNCHANGED <<open, frees>> /\ pc[p] = "user" /\ pc[c] = "none"
      /\ fds' = [fds EXCEPT ![c] = fds[p]]
      /\ ref' = [e \in End |-> IF e \in fds[p] THEN ref[e] + 1 ELSE ref[e]]
  BY DEF ForkStep
<1>2. PICK l \in {"user", "lost"} : pc' = [pc EXCEPT ![p] = "ret", ![c] = l]
  BY DEF ForkStep
<1>3. ref \in [End -> Int] /\ fds \in [Procs -> SUBSET End] /\ pc \in [Procs -> Where]
  BY DEF RestOK
<1>4. p # c /\ fds[c] = {}
  BY <1>1 DEF EndInv, Holds
<1>5. \A r \in Procs : fds'[r] = IF r = c THEN fds[p] ELSE fds[r]
  BY <1>1, <1>3
<1>6. \A e \in End : ref'[e] = IF e \in fds[p] THEN ref[e] + 1 ELSE ref[e]
  BY <1>1
<1>7. \A e \in End : e \in fds[p] => ref[e] >= 1
  BY HeldIsCounted DEF EndInv
<1>8. Counted'
  <2> SUFFICES ASSUME NEW f \in End PROVE ref'[f] = Cardinality(Users(f)')
    BY DEF Counted
  <2>0. ref[f] = Cardinality(Users(f)) /\ IsFiniteSet(Users(f)) /\ Cardinality(Users(f)) \in Nat
    BY UsersFinite DEF EndInv, Counted
  <2>1. CASE f \in fds[p]
    <3>1. Users(f)' = Users(f) \cup {c} /\ c \notin Users(f)
      BY <1>4, <1>5, <2>1 DEF Users
    <3>2. Cardinality(Users(f) \cup {c}) = Cardinality(Users(f)) + 1
      BY <2>0, <3>1, FS_AddElement
    <3>3. QED BY <1>6, <2>0, <2>1, <3>1, <3>2
  <2>2. CASE f \notin fds[p]
    <3>1. Users(f)' = Users(f)
      BY <1>4, <1>5, <2>2 DEF Users
    <3>2. QED BY <1>6, <2>0, <2>2, <3>1
  <2>3. QED BY <2>1, <2>2
<1>9. Opened'
  <2>1. ASSUME NEW f \in End, ref'[f] > 0 PROVE ref[f] > 0
    BY <1>3, <1>6, <1>7, <2>1
  <2>2. QED BY <1>1, <2>1 DEF Opened, EndInv
<1>10. Freed'
  BY <1>1 DEF Freed, EndInv
<1>11. Holds'
  <2> SUFFICES ASSUME NEW r \in Procs
               PROVE  /\ pc'[r] \in {"read_sleep", "read_woken"} => "O_RDONLY" \in fds'[r]
                      /\ pc'[r] \in {"write_sleep", "write_woken"} => "O_WRONLY" \in fds'[r]
                      /\ pc'[r] = "none" => fds'[r] = {}
                      /\ pc'[r] = "close_r" => ref'["O_RDONLY"] = 0
                      /\ pc'[r] = "close_w" => ref'["O_WRONLY"] = 0
    BY DEF Holds
  <2>1. CASE r \in {p, c}
    <3>1. pc'[r] \in {"ret", "user", "lost"}
      BY <1>2, <1>3, <2>1
    <3>2. QED BY <3>1
  <2>2. CASE r \notin {p, c}
    <3>1. fds'[r] = fds[r] /\ pc'[r] = pc[r]
      BY <1>2, <1>3, <1>5, <2>2
    <3>2. \A f \in End : ref[f] = 0 => ref'[f] = 0
      BY <1>6, <1>7
    <3>3. "O_RDONLY" \in End /\ "O_WRONLY" \in End
      BY DEF End
    <3>4. QED BY <3>1, <3>2, <3>3 DEF EndInv, Holds
  <2>3. QED BY <2>1, <2>2
<1>12. QED BY <1>8, <1>9, <1>10, <1>11 DEF EndInv

LEMMA EndStep ==
  ASSUME PipeAssumption, EndInv, RestOK, StepKinds
  PROVE  EndInv'
<1>1. CASE UNCHANGED <<open, frees, ref, fds, pc>>
  BY <1>1 DEF EndInv, Counted, Users, Opened, Freed, Holds
<1>2. ASSUME NEW p \in Procs,
             CallStep(p) \/ DropStep(p) \/ ShutStep(p) \/ FreeStep(p) \/ \E c \in Procs : ForkStep(p, c)
      PROVE  EndInv'
  BY <1>2, CallEnds, DropEnds, ShutEnds, FreeEnds, ForkEnds
<1>3. QED BY <1>1, <1>2 DEF StepKinds

-----------------------------------------------------------------------------
(* The theorems.                                                            *)

\* The inductive invariant.
PInv == RingInv /\ RestOK /\ EndInv

LEMMA PipeInit ==
  ASSUME PipeAssumption, Init
  PROVE  PInv /\ F!Init
<1>1. PIPESIZE \in Nat \ {0} /\ WORD \in Nat \ {0} /\ MAXREQ \in Nat /\ Creator \in Procs /\ Bytes # {}
  BY Sizes DEF PipeAssumption
<1>2. (CHOOSE b \in Bytes : TRUE) \in Bytes
  BY <1>1
<1>3. data \in [0 .. PIPESIZE - 1 -> Bytes]
  BY <1>2 DEF Init
<1>4. Counters
  BY <1>1 DEF Init, Counters
<1>5. Used = 0
  BY <1>4, UsedFacts DEF Init
<1>6. RingInv
  <2>1. dst \in Seq(Bytes)
    BY EmptySeq DEF Init
  <2>2. QED BY <1>1, <1>3, <1>4, <1>5, <2>1 DEF RingInv, Ring, Fits, NobodySleepsInVain, Init
<1>7. RestOK
  <2>1. <<>> \in Seq(Bytes)
    BY EmptySeq
  <2>2. QED BY <1>1, <2>1 DEF Init, RestOK, End, Where
<1>8. EndInv
  <2>1. \A e \in End : Users(e) = {Creator}
    BY <1>1 DEF Init, Users
  <2>2. Counted
    BY <2>1, FS_Singleton DEF Counted, Init
  <2>3. Opened /\ Freed /\ Holds
    BY DEF Init, Opened, Freed, Holds
  <2>4. QED BY <2>2, <2>3 DEF EndInv
<1>9. Content = <<>>
  <2>1. Content = [i \in 1 .. 0 |-> data[(nread + i - 1) % PIPESIZE]]
    BY <1>5 DEF Content
  <2>2. QED BY <2>1
<1>10. F!Init
  BY <1>9 DEF F!Init, Init
<1>11. QED BY <1>6, <1>7, <1>8, <1>10 DEF PInv

LEMMA PipeNext ==
  ASSUME PipeAssumption, PInv, [Next]_vars
  PROVE  PInv' /\ QueueStep
<1>1. CASE Next
  <2>1. RingInv /\ RestOK /\ EndInv
    BY DEF PInv
  <2>2. RingInv' /\ QueueStep
    BY <1>1, <2>1, RingStep
  <2>3. RestOK' /\ StepKinds
    BY <1>1, <2>1, RestStep
  <2>4. EndInv'
    BY <2>1, <2>3, EndStep
  <2>5. QED BY <2>2, <2>3, <2>4 DEF PInv
<1>2. CASE UNCHANGED vars
  <2>1. RingInv' /\ QueueStep
    BY <1>2, QuietStep DEF PInv, vars, listVars
  <2>2. RestOK'
    BY <1>2 DEF PInv, vars, RestOK, listVars, fileVars, callVars
  <2>3. EndInv'
    BY <1>2 DEF PInv, vars, fileVars, EndInv, Counted, Users, Opened, Freed, Holds
  <2>4. QED BY <2>1, <2>2, <2>3 DEF PInv
<1>3. QED BY <1>1, <1>2

\* The inductive invariant holds of every reachable state of the pipe: the ring
\* (pipe.c:66-125), the types, and the ends with their references (file.c,
\* pipe.c:42-64).
THEOREM PipeInvariance == ASSUME PipeAssumption PROVE Spec => []PInv
<1>1. Init => PInv
  BY PipeInit
<1>2. PInv /\ [Next]_vars => PInv'
  BY PipeNext
<1>3. QED BY <1>1, <1>2, PTL DEF Spec

\* The variables keep their types; both counters stay in 32 bits.
THEOREM PipeTypes == ASSUME PipeAssumption PROVE Spec => []TypeOK
<1>1. PInv => TypeOK
  BY TypeParts DEF PInv
<1>2. QED BY <1>1, PipeInvariance, PTL

\* The references of the two files are the descriptors that name them, an end
\* is open while one does, the memory is freed only when both are closed, and
\* pipe_close() never comes under a process that is in pipe_read or pipe_write.
THEOREM PipeEnds == ASSUME PipeAssumption PROVE Spec => []EndsMatchDescriptors
<1>1. PInv => EndsMatchDescriptors
  BY EndsFollow DEF PInv
<1>2. QED BY <1>1, PipeInvariance, PTL

\* Nobody sleeps in pipe_read over bytes that are there, or in pipe_write over
\* room that is there: every change of the ring wakes the other side.
THEOREM PipeSleepers == ASSUME PipeAssumption PROVE Spec => []NobodySleepsInVain
<1>1. PInv => NobodySleepsInVain
  BY DEF PInv, RingInv
<1>2. QED BY <1>1, PipeInvariance, PTL

\* The pipe implements the bounded queue: what pipe_read returns is what
\* pipe_write stored, in order and once, for every size of the ring and every
\* width of the counters that is a multiple of it.
THEOREM PipeIsFifo == ASSUME PipeAssumption PROVE Spec => IsFifo
<1>1. Init => F!Init
  BY PipeInit
<1>2. PInv /\ [Next]_vars => [F!Next]_<<Content, dst>>
  BY PipeNext DEF QueueStep
<1>3. QED BY <1>1, <1>2, PipeInvariance, PTL DEF Spec, IsFifo, F!Spec

-----------------------------------------------------------------------------
(* Positions of the console's ring, which wrap at WRAP.                     *)

LEMMA TtySizes ==
  /\ TTY_BUF \in Nat \ {0} /\ WRAP \in Nat \ {0} /\ TTY_BUF < WRAP /\ MaxBytes \in Nat
  /\ WRAP \div TTY_BUF \in Int /\ WRAP = TTY_BUF * (WRAP \div TTY_BUF)
<1>1. TTY_BUF \in Nat \ {0} /\ WRAP \in Nat \ {0} /\ TTY_BUF < WRAP /\ MaxBytes \in Nat /\ WRAP % TTY_BUF = 0
  BY MessagesAssumption DEF Tty!ConsoleAssumption
<1>2. WRAP \in Int
  BY <1>1
<1>3. /\ WRAP \div TTY_BUF \in Int
      /\ WRAP = TTY_BUF * (WRAP \div TTY_BUF) + (WRAP % TTY_BUF)
  BY <1>1, <1>2, DivMod
<1> DEFINE m == WRAP \div TTY_BUF
<1>4. TTY_BUF * m \in Int
  BY <1>1, <1>3
<1>5. QED BY <1>1, <1>3, <1>4

Positions == 0 .. WRAP - 1

\* How far w is ahead of r.
Ahead(r, w) == IF r <= w THEN w - r ELSE w + WRAP - r

\* A sum of positions has wrapped at most once.
LEMMA WrapOnce ==
  ASSUME NEW x \in 0 .. 2 * WRAP - 1
  PROVE  x % WRAP = (IF x < WRAP THEN x ELSE x - WRAP) /\ x % WRAP \in Positions
<1>1. WRAP \in Nat \ {0}
  BY TtySizes
<1>2. CASE x < WRAP
  <2>1. x \in 0 .. WRAP - 1 /\ x = WRAP * 0 + x
    BY <1>1, <1>2
  <2>2. (WRAP * 0 + x) % WRAP = x
    BY <1>1, <2>1, ModUnique
  <2>3. QED BY <1>1, <1>2, <2>1, <2>2 DEF Positions
<1>3. CASE x >= WRAP
  <2> DEFINE y == x - WRAP
  <2>1. y \in 0 .. WRAP - 1 /\ x = WRAP * 1 + y
    BY <1>1, <1>3
  <2>2. (WRAP * 1 + y) % WRAP = y
    BY <1>1, <2>1, ModUnique
  <2>3. QED BY <1>1, <1>3, <2>1, <2>2 DEF Positions
<1>4. QED BY <1>1, <1>2, <1>3

\* A position that has wrapped is at the same place of the ring.
LEMMA SamePlace ==
  ASSUME NEW x \in Int
  PROVE  (x + WRAP) % TTY_BUF = x % TTY_BUF
<1> DEFINE m == WRAP \div TTY_BUF
<1>1. TTY_BUF \in Nat \ {0} /\ m \in Int /\ WRAP = TTY_BUF * m
  BY TtySizes
<1> HIDE DEF m
<1>2. (x + TTY_BUF * m) % TTY_BUF = x % TTY_BUF
  BY <1>1, ModShift
<1>3. QED BY <1>1, <1>2

LEMMA WrapKeepsPlace ==
  ASSUME NEW x \in 0 .. 2 * WRAP - 1, NEW k \in Nat
  PROVE  ((x % WRAP) + k) % TTY_BUF = (x + k) % TTY_BUF
<1>1. WRAP \in Nat \ {0}
  BY TtySizes
<1>2. x % WRAP = IF x < WRAP THEN x ELSE x - WRAP
  BY WrapOnce
<1>3. CASE x < WRAP
  BY <1>2, <1>3
<1>4. CASE ~(x < WRAP)
  <2> DEFINE y == x - WRAP + k
  <2>1. y \in Int /\ y + WRAP = x + k /\ (x % WRAP) + k = y
    BY <1>1, <1>2, <1>4
  <2> HIDE DEF y
  <2>2. (y + WRAP) % TTY_BUF = y % TTY_BUF
    BY <2>1, SamePlace
  <2>3. QED BY <2>1, <2>2
<1>5. QED BY <1>3, <1>4

LEMMA AheadFacts ==
  ASSUME NEW r \in Positions, NEW w \in Positions
  PROVE  /\ Ahead(r, w) \in 0 .. WRAP - 1
         /\ (w + WRAP - r) % WRAP = Ahead(r, w)
         /\ (r + Ahead(r, w)) % TTY_BUF = w % TTY_BUF
         /\ Ahead(r, w) = 0 <=> r = w
<1>1. WRAP \in Nat \ {0} /\ r \in Nat /\ w \in Nat /\ r < WRAP /\ w < WRAP
  BY TtySizes DEF Positions
<1>2. Ahead(r, w) \in 0 .. WRAP - 1 /\ (Ahead(r, w) = 0 <=> r = w)
  BY <1>1 DEF Ahead
<1>3. (w + WRAP - r) % WRAP = Ahead(r, w)
  <2> DEFINE x == w + WRAP - r
  <2>1. x \in 0 .. 2 * WRAP - 1
    BY <1>1
  <2>2. x % WRAP = IF x < WRAP THEN x ELSE x - WRAP
    <3> HIDE DEF x
    <3> QED BY <2>1, WrapOnce
  <2>3. QED BY <1>1, <2>2 DEF Ahead
<1>4. (r + Ahead(r, w)) % TTY_BUF = w % TTY_BUF
  <2>1. w \in Int /\ (r + Ahead(r, w) = w \/ r + Ahead(r, w) = w + WRAP)
    BY <1>1 DEF Ahead
  <2>2. (w + WRAP) % TTY_BUF = w % TTY_BUF
    BY <2>1, SamePlace
  <2>3. QED BY <2>1, <2>2
<1>5. QED BY <1>2, <1>3, <1>4

\* What moving either position does to the distance.
LEMMA AheadMoves ==
  ASSUME NEW r \in Positions, NEW w \in Positions, NEW n \in Nat
  PROVE  /\ Ahead(r, w) + n < WRAP =>
               (w + n) % WRAP \in Positions /\ Ahead(r, (w + n) % WRAP) = Ahead(r, w) + n
         /\ n <= Ahead(r, w) =>
               /\ (w + WRAP - n) % WRAP \in Positions
               /\ Ahead(r, (w + WRAP - n) % WRAP) = Ahead(r, w) - n
               /\ (r + n) % WRAP \in Positions
               /\ Ahead((r + n) % WRAP, w) = Ahead(r, w) - n
<1>1. WRAP \in Nat \ {0} /\ r \in Nat /\ w \in Nat /\ r < WRAP /\ w < WRAP
  BY TtySizes DEF Positions
<1>2. Ahead(r, w) \in 0 .. WRAP - 1
  BY AheadFacts
<1>3. ASSUME Ahead(r, w) + n < WRAP
      PROVE  (w + n) % WRAP \in Positions /\ Ahead(r, (w + n) % WRAP) = Ahead(r, w) + n
  <2> DEFINE x == w + n
  <2>1. x \in 0 .. 2 * WRAP - 1
    BY <1>1, <1>2, <1>3
  <2> HIDE DEF x
  <2>2. x % WRAP = (IF x < WRAP THEN x ELSE x - WRAP) /\ x % WRAP \in Positions
    BY <2>1, WrapOnce
  <2>3. Ahead(r, x % WRAP) = Ahead(r, w) + n
    BY <1>1, <1>2, <1>3, <2>1, <2>2 DEF x, Ahead
  <2>4. QED BY <2>2, <2>3 DEF x
<1>4. ASSUME n <= Ahead(r, w)
      PROVE  (w + WRAP - n) % WRAP \in Positions /\ Ahead(r, (w + WRAP - n) % WRAP) = Ahead(r, w) - n
  <2> DEFINE x == w + WRAP - n
  <2>1. x \in 0 .. 2 * WRAP - 1
    BY <1>1, <1>2, <1>4
  <2> HIDE DEF x
  <2>2. x % WRAP = (IF x < WRAP THEN x ELSE x - WRAP) /\ x % WRAP \in Positions
    BY <2>1, WrapOnce
  <2>3. Ahead(r, x % WRAP) = Ahead(r, w) - n
    BY <1>1, <1>2, <1>4, <2>1, <2>2 DEF x, Ahead
  <2>4. QED BY <2>2, <2>3 DEF x
<1>5. ASSUME n <= Ahead(r, w)
      PROVE  (r + n) % WRAP \in Positions /\ Ahead((r + n) % WRAP, w) = Ahead(r, w) - n
  <2> DEFINE x == r + n
  <2>1. x \in 0 .. 2 * WRAP - 1
    BY <1>1, <1>2, <1>5
  <2> HIDE DEF x
  <2>2. x % WRAP = (IF x < WRAP THEN x ELSE x - WRAP) /\ x % WRAP \in Positions
    BY <2>1, WrapOnce
  <2>3. Ahead(x % WRAP, w) = Ahead(r, w) - n
    BY <1>1, <1>2, <1>5, <2>1, <2>2 DEF x, Ahead
  <2>4. QED BY <2>2, <2>3 DEF x
<1>6. QED BY <1>3, <1>4, <1>5

-----------------------------------------------------------------------------
(* The characters in the ring.                                              *)

Cells == [0 .. TTY_BUF - 1 -> Tty!Chars \cup {None}]

\* In buffer b the characters from position r to w are those of s.
RingHolds(b, r, w, s) ==
  /\ s \in Seq(Tty!Chars) /\ Len(s) = Ahead(r, w) /\ Len(s) <= TTY_BUF
  /\ \A i \in 1 .. Len(s) : s[i] = b[(r + i - 1) % TTY_BUF]

\* kbd_intr stores a character where there is room.
LEMMA RingPut ==
  ASSUME NEW b \in Cells, NEW r \in Positions, NEW w \in Positions, NEW s, RingHolds(b, r, w, s),
         NEW k \in Tty!Chars, Len(s) < TTY_BUF
  PROVE  /\ [b EXCEPT ![w % TTY_BUF] = k] \in Cells
         /\ (w + 1) % WRAP \in Positions
         /\ RingHolds([b EXCEPT ![w % TTY_BUF] = k], r, (w + 1) % WRAP, Append(s, k))
<1> DEFINE n == Len(s)
           t == Append(s, k)
           v == (w + 1) % WRAP
           c == [b EXCEPT ![w % TTY_BUF] = k]
<1>1. /\ TTY_BUF \in Nat \ {0} /\ WRAP \in Nat \ {0} /\ TTY_BUF < WRAP
      /\ r \in Nat /\ w \in Nat
  BY TtySizes DEF Positions
<1>2. /\ s \in Seq(Tty!Chars) /\ n = Ahead(r, w) /\ n \in Nat
      /\ \A i \in 1 .. n : s[i] = b[(r + i - 1) % TTY_BUF]
  BY DEF RingHolds
<1>3. v \in Positions /\ Ahead(r, v) = n + 1
  BY <1>1, <1>2, AheadMoves
<1>4. /\ t \in Seq(Tty!Chars) /\ Len(t) = n + 1
      /\ \A i \in 1 .. n : t[i] = s[i]
      /\ t[n + 1] = k
  BY <1>2, AppendProperties
<1>5. w % TTY_BUF \in 0 .. TTY_BUF - 1 /\ (r + n) % TTY_BUF = w % TTY_BUF
  <2>1. w \in Int
    BY <1>1
  <2>2. w % TTY_BUF \in 0 .. TTY_BUF - 1
    BY <1>1, <2>1, DivMod
  <2>3. (r + Ahead(r, w)) % TTY_BUF = w % TTY_BUF
    BY AheadFacts
  <2>4. QED BY <1>2, <2>2, <2>3
<1>6. c \in Cells /\ c[w % TTY_BUF] = k
  BY <1>5 DEF Cells
<1>7. ASSUME NEW i \in 1 .. n + 1 PROVE t[i] = c[(r + i - 1) % TTY_BUF]
  <2>1. CASE i = n + 1
    <3>1. r + i - 1 = r + n
      BY <1>1, <1>2, <2>1
    <3>2. QED BY <1>4, <1>5, <1>6, <2>1, <3>1
  <2>2. CASE i # n + 1
    <3> DEFINE x == r + i - 1
               y == r + n
    <3>1. i \in 1 .. n /\ x \in Int /\ y \in Int /\ x < y /\ y < x + TTY_BUF
      BY <1>1, <1>2, <2>2
    <3>2. x % TTY_BUF # y % TTY_BUF /\ x % TTY_BUF \in 0 .. TTY_BUF - 1
      <4> HIDE DEF x, y
      <4> QED BY <1>1, <3>1, ModApart, DivMod
    <3>3. c[x % TTY_BUF] = b[x % TTY_BUF]
      BY <1>5, <3>2 DEF Cells
    <3>4. QED BY <1>2, <1>4, <3>1, <3>3
  <2>3. QED BY <2>1, <2>2
<1>8. RingHolds(c, r, v, t)
  <2> HIDE DEF t, c, v, n
  <2>1. Len(t) <= TTY_BUF
    BY <1>1, <1>2, <1>4 DEF n
  <2>2. QED BY <1>3, <1>4, <1>7, <2>1 DEF RingHolds
<1>9. QED BY <1>3, <1>6, <1>8

\* Keys erase from the end.
LEMMA RingCut ==
  ASSUME NEW b \in Cells, NEW r \in Positions, NEW w \in Positions, NEW s, RingHolds(b, r, w, s),
         NEW n \in 0 .. Len(s)
  PROVE  /\ (w + WRAP - n) % WRAP \in Positions
         /\ RingHolds(b, r, (w + WRAP - n) % WRAP, SubSeq(s, 1, Len(s) - n))
         /\ Len(SubSeq(s, 1, Len(s) - n)) = Len(s) - n
         /\ \A i \in 1 .. Len(s) - n : SubSeq(s, 1, Len(s) - n)[i] = s[i]
<1> DEFINE m == Len(s) - n
           t == SubSeq(s, 1, m)
           v == (w + WRAP - n) % WRAP
<1>1. /\ s \in Seq(Tty!Chars) /\ Len(s) = Ahead(r, w) /\ Len(s) \in Nat /\ Len(s) <= TTY_BUF
      /\ \A i \in 1 .. Len(s) : s[i] = b[(r + i - 1) % TTY_BUF]
  BY DEF RingHolds
<1>2. n \in Nat /\ n <= Ahead(r, w) /\ m \in Nat /\ m <= Len(s)
  BY <1>1
<1>3. v \in Positions /\ Ahead(r, v) = m
  BY <1>1, <1>2, AheadMoves
<1>4. t \in Seq(Tty!Chars) /\ Len(t) = m /\ \A i \in 1 .. m : t[i] = s[i]
  <2>1. \A i \in 1 .. m : s[i] \in Tty!Chars
    BY <1>1, <1>2, ElementOfSeq
  <2>2. m \in Int /\ \A i \in 1 .. m : i \in 1 .. Len(s)
    BY <1>1, <1>2
  <2> HIDE DEF m
  <2>3. QED BY <1>1, <1>2, <2>1, <2>2, SubSeqProperties
<1>5. RingHolds(b, r, v, t)
  <2>1. \A i \in 1 .. m : t[i] = b[(r + i - 1) % TTY_BUF]
    BY <1>1, <1>2, <1>4
  <2>2. m <= TTY_BUF
    BY <1>1, <1>2, TtySizes
  <2> HIDE DEF m, t, v
  <2>3. QED BY <1>3, <1>4, <2>1, <2>2 DEF RingHolds
<1>6. QED BY <1>3, <1>4, <1>5

\* Readers take from the front.
LEMMA RingTake ==
  ASSUME NEW b \in Cells, NEW r \in Positions, NEW w \in Positions, NEW s, RingHolds(b, r, w, s),
         NEW n \in 0 .. Len(s)
  PROVE  /\ (r + n) % WRAP \in Positions
         /\ RingHolds(b, (r + n) % WRAP, w, SubSeq(s, n + 1, Len(s)))
         /\ Len(SubSeq(s, n + 1, Len(s))) = Len(s) - n
         /\ \A i \in 1 .. Len(s) - n : SubSeq(s, n + 1, Len(s))[i] = s[n + i]
<1> DEFINE l == Len(s)
           m == Len(s) - n
           k == n + 1
           t == SubSeq(s, k, l)
           q == (r + n) % WRAP
<1>1. /\ s \in Seq(Tty!Chars) /\ l = Ahead(r, w) /\ l \in Nat /\ l <= TTY_BUF
      /\ \A i \in 1 .. l : s[i] = b[(r + i - 1) % TTY_BUF]
  BY DEF RingHolds
<1>2. n \in Nat /\ n <= Ahead(r, w) /\ m \in Nat /\ m = l - n /\ k \in Nat /\ k >= 1
  BY <1>1
<1>3. q \in Positions /\ Ahead(q, w) = m
  BY <1>1, <1>2, AheadMoves
<1>4. t \in Seq(Tty!Chars) /\ Len(t) = m /\ \A i \in 1 .. m : t[i] = s[n + i]
  <2>1. k \in 1 .. l + 1 /\ l \in 0 .. Len(s)
    BY <1>1, <1>2
  <2>2. /\ t \in Seq(Tty!Chars) /\ Len(t) = (IF k <= l THEN l - k + 1 ELSE 0)
        /\ \A i \in 1 .. l - k + 1 : t[i] = s[k + i - 1]
    <3>1. \A i \in k .. l : s[i] \in Tty!Chars
      BY <1>1, <1>2, ElementOfSeq
    <3> HIDE DEF k, l
    <3>2. QED BY <1>1, <2>1, <3>1, SubSeqProperties
  <2>3. l - k + 1 = m /\ \A i \in 1 .. m : k + i - 1 = n + i
    BY <1>1, <1>2
  <2>4. Len(t) = m
    BY <1>1, <1>2, <2>2, <2>3
  <2>5. \A i \in 1 .. m : t[i] = s[n + i]
    BY <2>2, <2>3
  <2>6. QED BY <2>2, <2>4, <2>5
<1>5. ASSUME NEW i \in 1 .. m PROVE t[i] = b[(q + i - 1) % TTY_BUF]
  <2> DEFINE x == r + n
             j == i - 1
  <2>1. x \in 0 .. 2 * WRAP - 1 /\ j \in Nat /\ n + i \in 1 .. l /\ r + (n + i) - 1 = x + j
    <3>1. WRAP \in Nat /\ r \in 0 .. WRAP - 1 /\ Ahead(r, w) \in 0 .. WRAP - 1
      BY AheadFacts, TtySizes DEF Positions
    <3>2. i \in 1 .. l - n /\ l \in Nat /\ n \in Nat /\ n < WRAP
      BY <1>1, <1>2, <3>1
    <3> HIDE DEF l
    <3>3. QED BY <3>1, <3>2
  <2>2. (q + j) % TTY_BUF = (x + j) % TTY_BUF
    <3> HIDE DEF x, j
    <3>1. ((x % WRAP) + j) % TTY_BUF = (x + j) % TTY_BUF
      BY <2>1, WrapKeepsPlace
    <3>2. QED BY <3>1 DEF x
  <2>3. s[n + i] = b[(x + j) % TTY_BUF]
    BY <1>1, <2>1
  <2>4. q \in Int /\ q + i - 1 = q + j
    BY <1>3, TtySizes DEF Positions
  <2>5. QED BY <1>4, <2>2, <2>3, <2>4
<1>6. RingHolds(b, q, w, t)
  <2>1. m <= TTY_BUF
    BY <1>1, <1>2, TtySizes
  <2> HIDE DEF m, t, q
  <2>2. QED BY <1>3, <1>4, <1>5, <2>1 DEF RingHolds
<1>7. QED BY <1>3, <1>4, <1>6

-----------------------------------------------------------------------------
(* The inductive invariant of the console.                                  *)

\* Whoever sleeps has nothing to wait for but more characters.
Calm(sleepers, s) == sleepers # {} => Len(s) < TTY_BUF /\ \A i \in 1 .. Len(s) : s[i] # "newline"

RingOK ==
  /\ buf \in Cells /\ rpos \in Positions /\ wpos \in Positions
  /\ RingHolds(buf, rpos, wpos, pending) /\ Calm(procs_list, pending)

\* Only readers sleep and are killed, and none has more than it asked for.
ReadersOK ==
  /\ procs_list \subseteq slept /\ slept \subseteq Readers
  /\ tty_killed \subseteq Readers
  /\ tty_nbytes \in [Readers -> 0 .. MaxBytes \cup {None}] /\ cnt \in [Readers -> 0 .. MaxBytes]
  /\ \A p \in Readers : tty_nbytes[p] # None => cnt[p] <= tty_nbytes[p]
  /\ panic \in {None, "Deadlock"}

TtyFlags == getchar \in BOOLEAN /\ seen \in BOOLEAN

CInv == RingOK /\ ReadersOK /\ TtyFlags

\* The ring as the code reads it is the queue.
LEMMA RingIsPending ==
  ASSUME RingOK
  PROVE  /\ Tty!Length = Len(pending) /\ Len(pending) \in 0 .. TTY_BUF
         /\ Tty!Contents = pending /\ pending \in Seq(Tty!Chars)
<1>1. /\ pending \in Seq(Tty!Chars) /\ Len(pending) = Ahead(rpos, wpos) /\ Len(pending) <= TTY_BUF
      /\ \A i \in 1 .. Len(pending) : pending[i] = buf[(rpos + i - 1) % TTY_BUF]
  BY DEF RingOK, RingHolds
<1>2. Tty!Length = Len(pending)
  <2>1. (wpos + WRAP - rpos) % WRAP = Ahead(rpos, wpos)
    BY AheadFacts DEF RingOK
  <2>2. QED BY <1>1, <2>1 DEF Tty!Length
<1>3. Len(pending) \in 0 .. TTY_BUF
  BY <1>1, TtySizes
<1>4. Tty!Contents = pending
  <2>1. pending = [i \in 1 .. Len(pending) |-> pending[i]]
    BY <1>1
  <2>2. Tty!Contents = [i \in 1 .. Len(pending) |-> buf[(rpos + i - 1) % TTY_BUF]]
    BY <1>2 DEF Tty!Contents
  <2>3. QED BY <1>1, <2>1, <2>2
<1>5. QED BY <1>1, <1>2, <1>3, <1>4

\* The unfinished line is part of the queue.
LEMMA UnfinishedBound ==
  ASSUME NEW s \in Seq(Tty!Chars)
  PROVE  Tty!Unfinished(s) \in 0 .. Len(s)
<1> DEFINE T == Tty!Tail1(s)
           I == 1 .. Len(s)
<1>1. T \subseteq I /\ Len(s) \in Nat
  BY DEF Tty!Tail1
<1>2. IsFiniteSet(I) /\ Cardinality(I) = Len(s)
  <2>1. 1 \in Int /\ Len(s) \in Int
    BY <1>1
  <2>2. IsFiniteSet(I) /\ Cardinality(I) = IF 1 > Len(s) THEN 0 ELSE Len(s) - 1 + 1
    BY <2>1, FS_Interval
  <2>3. QED BY <1>1, <2>2
<1> HIDE DEF T, I
<1>3. IsFiniteSet(T) /\ Cardinality(T) <= Cardinality(I)
  BY <1>1, <1>2, FS_Subset
<1>4. Cardinality(T) \in Nat
  BY <1>3, FS_CardinalityType
<1>5. Cardinality(T) \in 0 .. Len(s)
  BY <1>1, <1>2, <1>3, <1>4
<1>6. Tty!Unfinished(s) = Cardinality(T)
  BY DEF Tty!Unfinished, T, Tty!Cardinality, Cardinality, Tty!IsFiniteSet, IsFiniteSet
<1>7. QED BY <1>5, <1>6

\* The end of the queue is cut, and the front of it is taken.
LEMMA CutRing ==
  ASSUME RingOK, NEW n \in 0 .. Len(pending),
         wpos' = (wpos + WRAP - n) % WRAP, pending' = SubSeq(pending, 1, Len(pending) - n),
         buf' = buf, rpos' = rpos, procs_list' = procs_list
  PROVE  RingOK'
<1> DEFINE t == SubSeq(pending, 1, Len(pending) - n)
           v == (wpos + WRAP - n) % WRAP
<1>1. /\ buf \in Cells /\ rpos \in Positions /\ wpos \in Positions
      /\ RingHolds(buf, rpos, wpos, pending) /\ Calm(procs_list, pending)
  BY DEF RingOK
<1>2. /\ v \in Positions /\ RingHolds(buf, rpos, v, t) /\ Len(t) = Len(pending) - n
      /\ \A i \in 1 .. Len(pending) - n : t[i] = pending[i]
  BY <1>1, RingCut
<1>3. Len(pending) \in 0 .. TTY_BUF
  BY RingIsPending
<1>4. Calm(procs_list, t)
  <2>1. Len(t) <= Len(pending) /\ \A i \in 1 .. Len(t) : i \in 1 .. Len(pending)
    BY <1>2, <1>3
  <2>2. procs_list # {} => Len(t) < TTY_BUF
    BY <1>1, <1>2, <1>3, <2>1, TtySizes DEF Calm
  <2>3. ASSUME procs_list # {}, NEW i \in 1 .. Len(t) PROVE t[i] # "newline"
    BY <1>1, <1>2, <2>1, <2>3 DEF Calm
  <2>4. QED BY <2>2, <2>3 DEF Calm
<1>5. wpos' = v /\ pending' = t
  OBVIOUS
<1> HIDE DEF t, v
<1>6. QED BY <1>1, <1>2, <1>4, <1>5 DEF RingOK

LEMMA TakeRing ==
  ASSUME RingOK, NEW n \in 0 .. Len(pending), Tty!Take(n)
  PROVE  /\ buf' \in Cells /\ rpos' \in Positions /\ wpos' \in Positions
         /\ RingHolds(buf, rpos, wpos, pending)' /\ Calm(procs_list, pending')
         /\ Len(pending') = Len(pending) - n
<1> DEFINE t == SubSeq(pending, n + 1, Len(pending))
           q == (rpos + n) % WRAP
<1>1. /\ buf \in Cells /\ rpos \in Positions /\ wpos \in Positions
      /\ RingHolds(buf, rpos, wpos, pending) /\ Calm(procs_list, pending)
  BY DEF RingOK
<1>2. /\ q \in Positions /\ RingHolds(buf, q, wpos, t) /\ Len(t) = Len(pending) - n
      /\ \A i \in 1 .. Len(pending) - n : t[i] = pending[n + i]
  BY <1>1, RingTake
<1>3. Len(pending) \in 0 .. TTY_BUF
  BY RingIsPending
<1>4. Calm(procs_list, t)
  <2>1. Len(t) <= Len(pending) /\ \A i \in 1 .. Len(t) : n + i \in 1 .. Len(pending)
    BY <1>2, <1>3
  <2>2. procs_list # {} => Len(t) < TTY_BUF
    BY <1>1, <1>2, <1>3, <2>1, TtySizes DEF Calm
  <2>3. ASSUME procs_list # {}, NEW i \in 1 .. Len(t) PROVE t[i] # "newline"
    BY <1>1, <1>2, <2>1, <2>3 DEF Calm
  <2>4. QED BY <2>2, <2>3 DEF Calm
<1>5. rpos' = q /\ pending' = t /\ buf' = buf /\ wpos' = wpos
  BY DEF Tty!Take
<1> HIDE DEF t, q
<1>6. QED BY <1>1, <1>2, <1>4, <1>5

\* A character is added, and whoever now has something to read is woken.
LEMMA PutRing ==
  ASSUME RingOK, NEW k \in Tty!Chars, Len(pending) < TTY_BUF,
         buf' = [buf EXCEPT ![wpos % TTY_BUF] = k], wpos' = Tty!Inc(wpos), rpos' = rpos,
         procs_list' = IF Tty!Wakes(k) THEN {} ELSE procs_list,
         pending' = Append(pending, k)
  PROVE  RingOK'
<1> DEFINE t == Append(pending, k)
           v == (wpos + 1) % WRAP
           c == [buf EXCEPT ![wpos % TTY_BUF] = k]
<1>1. /\ buf \in Cells /\ rpos \in Positions /\ wpos \in Positions
      /\ RingHolds(buf, rpos, wpos, pending) /\ Calm(procs_list, pending)
  BY DEF RingOK
<1>2. c \in Cells /\ v \in Positions /\ RingHolds(c, rpos, v, t)
  BY <1>1, RingPut
<1>3. /\ Len(t) = Len(pending) + 1 /\ t[Len(pending) + 1] = k
      /\ \A i \in 1 .. Len(pending) : t[i] = pending[i]
  BY RingIsPending, AppendProperties
<1>4. buf' = c /\ wpos' = v /\ pending' = t
  BY DEF Tty!Inc
<1>5. ASSUME procs_list' # {} PROVE Len(t) < TTY_BUF /\ \A i \in 1 .. Len(t) : t[i] # "newline"
  <2>1. procs_list # {} /\ k # "newline" /\ v # (rpos + TTY_BUF) % WRAP
    BY <1>5 DEF Tty!Wakes, Tty!Inc
  <2>2. Len(pending) \in 0 .. TTY_BUF
    BY RingIsPending
  <2>3. Len(t) # TTY_BUF
    <3> SUFFICES ASSUME Len(t) = TTY_BUF PROVE FALSE
      OBVIOUS
    <3>1. Ahead(rpos, wpos) + 1 = TTY_BUF
      BY <1>1, <1>3 DEF RingHolds
    <3> DEFINE x == wpos + 1
               y == rpos + TTY_BUF
    <3>2. /\ TTY_BUF \in Nat \ {0} /\ WRAP \in Nat \ {0} /\ TTY_BUF < WRAP
          /\ rpos \in 0 .. WRAP - 1 /\ wpos \in 0 .. WRAP - 1
      BY <1>1, TtySizes DEF Positions
    <3>3. x \in 0 .. 2 * WRAP - 1 /\ y \in 0 .. 2 * WRAP - 1
      BY <3>2
    <3>4. y = x \/ y = x + WRAP
      BY <3>1, <3>2 DEF Ahead
    <3> HIDE DEF x, y
    <3>5. x % WRAP = (IF x < WRAP THEN x ELSE x - WRAP) /\ y % WRAP = (IF y < WRAP THEN y ELSE y - WRAP)
      BY <3>3, WrapOnce
    <3>6. x % WRAP = y % WRAP
      BY <3>2, <3>3, <3>4, <3>5
    <3>7. QED BY <2>1, <3>6 DEF x, y
  <2>4. Len(t) < TTY_BUF
    BY <1>3, <2>2, <2>3, TtySizes
  <2>5. ASSUME NEW i \in 1 .. Len(t) PROVE t[i] # "newline"
    <3>1. i \in 1 .. Len(pending) \/ i = Len(pending) + 1
      BY <1>3, <2>2
    <3>2. QED BY <1>1, <1>3, <2>1, <3>1 DEF Calm
  <2>6. QED BY <2>4, <2>5
<1> HIDE DEF t, v, c
<1>6. Calm(procs_list', t)
  BY <1>5 DEF Calm
<1>7. QED BY <1>1, <1>2, <1>4, <1>6 DEF RingOK

-----------------------------------------------------------------------------
(* The steps of the console.                                                *)

LEMMA HandleRing ==
  ASSUME RingOK, NEW k \in Tty!Keys, Tty!Handle(k)
  PROVE  RingOK' /\ procs_list' \subseteq procs_list
<1>1. /\ Tty!Length = Len(pending) /\ Len(pending) \in 0 .. TTY_BUF
      /\ Tty!Contents = pending /\ pending \in Seq(Tty!Chars)
  BY RingIsPending
<1>2. rpos' = rpos
  BY DEF Tty!Handle
<1>3. CASE k = "kill"
  <2> DEFINE n == Tty!Unfinished(pending)
  <2>1. /\ wpos' = (wpos + WRAP - n) % WRAP /\ pending' = SubSeq(pending, 1, Len(pending) - n)
        /\ buf' = buf /\ procs_list' = procs_list
    BY <1>1, <1>3 DEF Tty!Handle, Tty!KillLine
  <2>2. n \in 0 .. Len(pending)
    BY <1>1, UnfinishedBound
  <2> HIDE DEF n
  <2>3. QED BY <1>2, <2>1, <2>2, CutRing
<1>4. CASE k = "backspace"
  <2>1. /\ IF wpos # rpos THEN wpos' = (wpos + WRAP - 1) % WRAP ELSE wpos' = wpos
        /\ pending' = SubSeq(pending, 1, Len(pending) - 1)
        /\ buf' = buf /\ procs_list' = procs_list
    BY <1>4 DEF Tty!Handle, Tty!Dec
  <2>2. Len(pending) = 0 <=> rpos = wpos
    BY AheadFacts DEF RingOK, RingHolds
  <2>3. CASE wpos = rpos
    <3>1. pending = <<>> /\ Len(pending) - 1 = -1
      BY <1>1, <2>2, <2>3, EmptySeq
    <3>2. SubSeq(pending, 1, -1) = <<>>
      BY SubSeqEmpty
    <3>3. pending' = pending
      BY <2>1, <3>1, <3>2
    <3>4. QED BY <1>2, <2>1, <2>3, <3>3 DEF RingOK
  <2>4. CASE wpos # rpos
    <3>1. 1 \in 0 .. Len(pending)
      BY <1>1, <2>2, <2>4
    <3>2. QED BY <1>2, <2>1, <2>4, <3>1, CutRing
  <2>5. QED BY <2>3, <2>4
<1>5. CASE k \in Tty!Chars
  <2>1. CASE Len(pending) < TTY_BUF
    <3>1. /\ buf' = [buf EXCEPT ![wpos % TTY_BUF] = k] /\ wpos' = Tty!Inc(wpos)
          /\ procs_list' = IF Tty!Wakes(k) THEN {} ELSE procs_list
          /\ pending' = Append(pending, k)
      BY <1>1, <1>5, <2>1 DEF Tty!Handle, Tty!HasRoom, Tty!Chars
    <3>2. RingOK'
      BY <1>2, <1>5, <2>1, <3>1, PutRing
    <3>3. QED BY <3>1, <3>2
  <2>2. CASE ~(Len(pending) < TTY_BUF)
    <3>1. UNCHANGED <<buf, wpos, procs_list, pending>>
      BY <1>1, <1>5, <2>2 DEF Tty!Handle, Tty!HasRoom, Tty!Chars
    <3>2. QED BY <1>2, <3>1 DEF RingOK
  <2>3. QED BY <2>1, <2>2
<1>6. QED BY <1>3, <1>4, <1>5 DEF Tty!Keys

\* seen stays a truth value.
LEMMA HandleSeen ==
  ASSUME seen \in BOOLEAN, NEW k, Tty!Handle(k)
  PROVE  seen' \in BOOLEAN
BY DEF Tty!Handle

\* The first of some places of the queue is one of them.
LEMMA FirstStop ==
  ASSUME NEW n \in Nat, NEW S \in SUBSET (1 .. n), S # {}
  PROVE  Tty!Min(S) \in 1 .. n
<1>1. S \subseteq Nat
  OBVIOUS
<1>2. PICK x \in S : \A y \in S : ~(<<y, x>> \in OpToRel(<, Nat))
  BY <1>1, WFMin, NatLessThanWellFounded
<1>3. \A y \in S : ~(y < x)
  BY <1>1, <1>2 DEF OpToRel
<1>4. \A y \in S : x <= y
  BY <1>1, <1>3
<1>5. Tty!Min(S) \in S
  BY <1>4 DEF Tty!Min
<1>6. QED BY <1>5

\* A reader takes characters and returns, or takes them all and sleeps.
LEMMA ReadRing ==
  ASSUME CInv, NEW p \in Readers, Tty!ReadLoop(p)
  PROVE  RingOK' /\ ReadersOK'
<1> DEFINE want == tty_nbytes[p] - cnt[p]
           near == {i \in Tty!Stops : i <= want}
           stop == Tty!Min(near)
<1>1. /\ Tty!Length = Len(pending) /\ Len(pending) \in 0 .. TTY_BUF
      /\ Tty!Contents = pending /\ pending \in Seq(Tty!Chars)
  BY RingIsPending DEF CInv
<1>2. tty_nbytes[p] # None /\ p \notin procs_list /\ panic' = panic
  BY DEF Tty!ReadLoop
<1>3. /\ tty_nbytes[p] \in 0 .. MaxBytes /\ cnt[p] \in 0 .. MaxBytes
      /\ cnt[p] <= tty_nbytes[p] /\ MaxBytes \in Nat
  BY <1>2, TtySizes DEF CInv, ReadersOK
<1>4. want \in Nat
  BY <1>3
<1>5. near # {} => stop \in 1 .. Len(pending)
  <2>1. Len(pending) \in Nat /\ near \in SUBSET (1 .. Len(pending))
    BY <1>1 DEF Tty!Stops
  <2> HIDE DEF near
  <2>2. QED BY <2>1, FirstStop
<1> DEFINE Return == /\ tty_nbytes' = [tty_nbytes EXCEPT ![p] = None]
                     /\ cnt' = [cnt EXCEPT ![p] = 0]
                     /\ slept' = slept \ {p} /\ tty_killed' = tty_killed \ {p}
                     /\ procs_list' = procs_list
<1>6. \/ near # {} /\ Tty!Take(stop) /\ Return
      \/ near # {} /\ Tty!Take(IF cnt[p] + stop > 1 THEN stop - 1 ELSE stop) /\ Return
      \/ Tty!Length >= want /\ Tty!Take(want) /\ Return
      \/ /\ Tty!Length < want
         /\ Tty!Take(Tty!Length)
         /\ cnt' = [cnt EXCEPT ![p] = @ + Tty!Length]
         /\ procs_list' = procs_list \cup {p} /\ slept' = slept \cup {p}
         /\ tty_nbytes' = tty_nbytes /\ tty_killed' = tty_killed
  BY DEF Tty!ReadLoop
<1>7. ASSUME Return, NEW n \in 0 .. Len(pending), Tty!Take(n)
      PROVE  RingOK' /\ ReadersOK'
  <2>1. RingOK'
    <3>1. /\ buf' \in Cells /\ rpos' \in Positions /\ wpos' \in Positions
          /\ RingHolds(buf, rpos, wpos, pending)' /\ Calm(procs_list, pending')
      BY <1>7, TakeRing DEF CInv
    <3>2. QED BY <1>7, <3>1 DEF RingOK
  <2>2. ReadersOK'
    <3>1. /\ procs_list' \subseteq slept' /\ slept' \subseteq Readers
          /\ tty_killed' \subseteq Readers
      BY <1>2, <1>7 DEF CInv, ReadersOK
    <3>2. /\ tty_nbytes' \in [Readers -> 0 .. MaxBytes \cup {None}] /\ cnt' \in [Readers -> 0 .. MaxBytes]
      BY <1>3, <1>7 DEF CInv, ReadersOK
    <3>3. \A r \in Readers : tty_nbytes'[r] # None => cnt'[r] <= tty_nbytes'[r]
      BY <1>3, <1>7 DEF CInv, ReadersOK
    <3>4. QED BY <1>2, <3>1, <3>2, <3>3 DEF CInv, ReadersOK
  <2>3. QED BY <2>1, <2>2
<1>8. CASE near # {} /\ Tty!Take(stop) /\ Return
  <2> HIDE DEF near, stop, Return
  <2>1. stop \in 0 .. Len(pending)
    BY <1>1, <1>5, <1>8
  <2>2. QED BY <1>7, <1>8, <2>1
<1>9. CASE near # {} /\ Tty!Take(IF cnt[p] + stop > 1 THEN stop - 1 ELSE stop) /\ Return
  <2> DEFINE n == IF cnt[p] + stop > 1 THEN stop - 1 ELSE stop
  <2> HIDE DEF near, stop, Return
  <2>1. n \in 0 .. Len(pending)
    BY <1>1, <1>5, <1>9
  <2>2. Tty!Take(n) /\ Return
    BY <1>9
  <2> HIDE DEF n
  <2>3. QED BY <1>7, <2>1, <2>2
<1>10. CASE Tty!Length >= want /\ Tty!Take(want) /\ Return
  <2> HIDE DEF want, Return
  <2>1. want \in 0 .. Len(pending)
    BY <1>1, <1>4, <1>10
  <2>2. QED BY <1>7, <1>10, <2>1
<1>11. CASE /\ Tty!Length < want
            /\ Tty!Take(Tty!Length)
            /\ cnt' = [cnt EXCEPT ![p] = @ + Tty!Length]
            /\ procs_list' = procs_list \cup {p} /\ slept' = slept \cup {p}
            /\ tty_nbytes' = tty_nbytes /\ tty_killed' = tty_killed
  <2> DEFINE n == Len(pending)
  <2>1. n \in 0 .. Len(pending) /\ Tty!Take(n)
    BY <1>1, <1>11
  <2>2. /\ buf' \in Cells /\ rpos' \in Positions /\ wpos' \in Positions
        /\ RingHolds(buf, rpos, wpos, pending)' /\ Len(pending') = Len(pending) - n
    <3> HIDE DEF n
    <3> QED BY <2>1, TakeRing DEF CInv
  <2>3. Len(pending') = 0
    BY <1>1, <2>2
  <2>4. Calm(procs_list', pending')
    BY <2>3, TtySizes DEF Calm
  <2>5. RingOK'
    BY <2>2, <2>4 DEF RingOK
  <2>6. /\ procs_list' \subseteq slept' /\ slept' \subseteq Readers
        /\ tty_killed' \subseteq Readers
    BY <1>2, <1>11 DEF CInv, ReadersOK
  <2>7. cnt[p] + n \in 0 .. MaxBytes /\ cnt[p] + n <= tty_nbytes[p]
    BY <1>1, <1>3, <1>11
  <2>8. cnt' = [cnt EXCEPT ![p] = cnt[p] + n]
    BY <1>1, <1>11
  <2> HIDE DEF n
  <2>9. cnt' \in [Readers -> 0 .. MaxBytes] /\ \A r \in Readers : tty_nbytes'[r] # None => cnt'[r] <= tty_nbytes'[r]
    BY <1>11, <2>7, <2>8 DEF CInv, ReadersOK
  <2>10. ReadersOK'
    BY <1>2, <1>11, <2>6, <2>9 DEF CInv, ReadersOK
  <2>11. QED BY <2>5, <2>10
<1>12. QED BY <1>6, <1>8, <1>9, <1>10, <1>11

LEMMA TtyInit == Tty!Init => CInv
<1> SUFFICES ASSUME Tty!Init PROVE CInv
  OBVIOUS
<1>1. /\ TTY_BUF \in Nat \ {0} /\ WRAP \in Nat \ {0} /\ MaxBytes \in Nat
  BY TtySizes
<1>2. buf \in Cells /\ rpos = 0 /\ wpos = 0 /\ pending = <<>> /\ procs_list = {}
  BY DEF Tty!Init, Cells
<1>3. 0 \in Positions /\ Ahead(0, 0) = 0
  BY <1>1 DEF Positions, Ahead
<1>4. <<>> \in Seq(Tty!Chars) /\ Len(<<>>) = 0
  OBVIOUS
<1>5. RingHolds(buf, 0, 0, <<>>)
  BY <1>1, <1>3, <1>4 DEF RingHolds
<1>6. RingOK
  BY <1>2, <1>3, <1>5 DEF RingOK, Calm
<1>7. ReadersOK
  BY <1>1 DEF ReadersOK, Tty!Init
<1>8. TtyFlags
  BY DEF TtyFlags, Tty!Init
<1>9. QED BY <1>6, <1>7, <1>8 DEF CInv

LEMMA TtyNext ==
  ASSUME CInv, Tty!Next
  PROVE  CInv'
<1>0. RingOK /\ ReadersOK /\ TtyFlags /\ MaxBytes \in Nat
  BY TtySizes DEF CInv
<1>1. ASSUME NEW k \in Tty!Keys, Tty!kbd_intr(k) PROVE CInv'
  <2>1. RingOK' /\ procs_list' \subseteq procs_list
    BY <1>0, <1>1, HandleRing DEF Tty!kbd_intr
  <2>2. UNCHANGED <<tty_nbytes, cnt, slept, tty_killed, getchar, panic>>
    BY <1>1 DEF Tty!kbd_intr
  <2>3. ReadersOK'
    BY <1>0, <2>1, <2>2 DEF ReadersOK
  <2>4. TtyFlags'
    BY <1>0, <1>1, <2>2, HandleSeen DEF TtyFlags, Tty!kbd_intr
  <2>5. QED BY <2>1, <2>3, <2>4 DEF CInv
<1>2. ASSUME NEW k \in Tty!Keys, Tty!GetcharKey(k) PROVE CInv'
  <2>1. UNCHANGED <<tty_nbytes, cnt, slept, tty_killed, getchar>>
    BY <1>2 DEF Tty!GetcharKey
  <2>2. CASE panic' = "Deadlock" /\ UNCHANGED <<buf, rpos, wpos, procs_list, pending, seen>>
    <3>1. RingOK'
      BY <1>0, <2>2 DEF RingOK
    <3>2. ReadersOK'
      BY <1>0, <2>1, <2>2 DEF ReadersOK
    <3>3. TtyFlags'
      BY <1>0, <2>1, <2>2 DEF TtyFlags
    <3>4. QED BY <3>1, <3>2, <3>3 DEF CInv
  <2>3. CASE Tty!Handle(k) /\ panic' = panic
    <3>1. RingOK' /\ procs_list' \subseteq procs_list
      BY <1>0, <1>2, <2>3, HandleRing
    <3>2. ReadersOK'
      BY <1>0, <2>1, <2>3, <3>1 DEF ReadersOK
    <3>3. TtyFlags'
      BY <1>0, <2>1, <2>3, HandleSeen DEF TtyFlags
    <3>4. QED BY <3>1, <3>2, <3>3 DEF CInv
  <2>4. QED BY <1>2, <2>2, <2>3 DEF Tty!GetcharKey, Tty!ring
<1>3. ASSUME NEW p \in Readers, Tty!console_read(p) PROVE CInv'
  <2>1. UNCHANGED <<buf, rpos, wpos, procs_list, slept, tty_killed, getchar, panic, pending, seen>>
    BY <1>3 DEF Tty!console_read, Tty!ring
  <2>2. PICK n \in 0 .. MaxBytes : tty_nbytes' = [tty_nbytes EXCEPT ![p] = n] /\ cnt' = [cnt EXCEPT ![p] = 0]
    BY <1>3 DEF Tty!console_read
  <2>3. RingOK' /\ TtyFlags'
    BY <1>0, <2>1 DEF RingOK, TtyFlags
  <2>4. /\ tty_nbytes' \in [Readers -> 0 .. MaxBytes \cup {None}] /\ cnt' \in [Readers -> 0 .. MaxBytes]
        /\ \A r \in Readers : tty_nbytes'[r] # None => cnt'[r] <= tty_nbytes'[r]
    BY <1>0, <2>2 DEF ReadersOK
  <2>5. ReadersOK'
    BY <1>0, <2>1, <2>4 DEF ReadersOK
  <2>6. QED BY <2>3, <2>5 DEF CInv
<1>4. ASSUME NEW p \in Readers, Tty!ReadLoop(p) PROVE CInv'
  <2>1. RingOK' /\ ReadersOK'
    BY <1>4, ReadRing
  <2>2. getchar' = getchar /\ seen' \in BOOLEAN
    BY <1>0, <1>4 DEF Tty!ReadLoop, Tty!Take, TtyFlags
  <2>3. QED BY <1>0, <2>1, <2>2 DEF CInv, TtyFlags
<1>5. ASSUME NEW p \in Readers, Tty!ReadKilled(p) PROVE CInv'
  <2>1. /\ UNCHANGED <<buf, rpos, wpos, procs_list, getchar, panic, pending, seen>>
        /\ tty_nbytes' = [tty_nbytes EXCEPT ![p] = None] /\ cnt' = [cnt EXCEPT ![p] = 0]
        /\ tty_killed' = tty_killed \ {p} /\ slept' = slept \ {p} /\ p \notin procs_list
    BY <1>5 DEF Tty!ReadKilled, Tty!ring
  <2>2. RingOK' /\ TtyFlags'
    BY <1>0, <2>1 DEF RingOK, TtyFlags
  <2>3. /\ tty_nbytes' \in [Readers -> 0 .. MaxBytes \cup {None}] /\ cnt' \in [Readers -> 0 .. MaxBytes]
        /\ \A r \in Readers : tty_nbytes'[r] # None => cnt'[r] <= tty_nbytes'[r]
    BY <1>0, <2>1 DEF ReadersOK
  <2>4. ReadersOK'
    BY <1>0, <2>1, <2>3 DEF ReadersOK
  <2>5. QED BY <2>2, <2>4 DEF CInv
<1>6. ASSUME NEW p \in Readers, Tty!Kill(p) PROVE CInv'
  <2>1. /\ UNCHANGED <<buf, rpos, wpos, tty_nbytes, cnt, slept, getchar, panic, pending, seen>>
        /\ tty_killed' = tty_killed \cup {p} /\ procs_list' = procs_list \ {p}
    BY <1>6 DEF Tty!Kill, Tty!ring
  <2>2. RingOK'
    <3>1. Calm(procs_list', pending)
      BY <1>0, <2>1 DEF RingOK, Calm
    <3>2. QED BY <1>0, <2>1, <3>1 DEF RingOK
  <2>3. ReadersOK' /\ TtyFlags'
    BY <1>0, <2>1 DEF ReadersOK, TtyFlags
  <2>4. QED BY <2>2, <2>3 DEF CInv
<1>7. ASSUME Tty!GetcharStart PROVE CInv'
  <2>1. /\ UNCHANGED <<buf, rpos, wpos, procs_list, tty_nbytes, cnt, slept, tty_killed, panic, pending, seen>>
        /\ getchar' = TRUE
    BY <1>7 DEF Tty!GetcharStart, Tty!ring
  <2>2. QED BY <1>0, <2>1 DEF CInv, RingOK, ReadersOK, TtyFlags
<1>8. ASSUME Tty!GetcharEnd PROVE CInv'
  <2>1. /\ UNCHANGED <<procs_list, tty_nbytes, cnt, slept, tty_killed, panic>>
        /\ Tty!Length > 0 /\ Tty!Take(1) /\ getchar' = FALSE
    BY <1>8 DEF Tty!GetcharEnd
  <2>2. 1 \in 0 .. Len(pending)
    BY <1>0, <2>1, RingIsPending
  <2>3. RingOK'
    <3>1. /\ buf' \in Cells /\ rpos' \in Positions /\ wpos' \in Positions
          /\ RingHolds(buf, rpos, wpos, pending)' /\ Calm(procs_list, pending')
      BY <1>0, <2>1, <2>2, TakeRing
    <3>2. QED BY <2>1, <3>1 DEF RingOK
  <2>4. ReadersOK'
    BY <1>0, <2>1 DEF ReadersOK
  <2>5. TtyFlags'
    BY <1>0, <2>1 DEF TtyFlags, Tty!Take
  <2>6. QED BY <2>3, <2>4, <2>5 DEF CInv
<1>9. QED BY <1>1, <1>2, <1>3, <1>4, <1>5, <1>6, <1>7, <1>8 DEF Tty!Next

-----------------------------------------------------------------------------
(* Messages alone: a message that was delivered stays until it is received. *)

\* Whoever is receiving sleeps in ipc_recv and has no message; whoever has one
\* was woken by its sender and has not yet returned.
XInv ==
  /\ status \in [Peers -> {"RUNNING", "SLEEPING"}]
  /\ DOMAIN call = Peers /\ DOMAIN ipc = Peers /\ DOMAIN mail = Peers
  /\ \A p \in ipc_recving : /\ p \in Peers /\ status[p] = "SLEEPING"
                            /\ call[p] = Exchange!Receive /\ mail[p] = <<>>
  /\ \A p \in Peers : \/ mail[p] = <<>>
                      \/ /\ mail[p] = <<ipc[p]>>
                         /\ call[p] = Exchange!Receive /\ status[p] = "RUNNING"

LEMMA CallsDiffer ==
  /\ Exchange!Receive # Exchange!NoCall
  /\ Exchange!Receive.op = "recv"
<1>1. None # "recv"
  BY MessagesAssumption DEF Exchange!IpcAssumption
<1>2. Exchange!NoCall.op = None /\ Exchange!Receive.op = "recv"
  BY DEF Exchange!Receive, Exchange!NoCall
<1>3. QED BY <1>1, <1>2

LEMMA ExchangeInit == Exchange!Init => XInv
BY DEF Exchange!Init, XInv

LEMMA ExchangeNext ==
  ASSUME XInv, Exchange!Next
  PROVE  XInv'
<1>1. PICK p \in Peers :
         \/ Exchange!ipc_lookup(p) \/ Exchange!ipc_try_send(p) \/ Exchange!ipc_refused(p)
         \/ Exchange!ipc_recv(p) \/ Exchange!ipc_recv_end(p)
  BY DEF Exchange!Next, Exchange!Fork, Exchange!Exit, Exchange!wait_reap, Exchange!wait_sleep,
         Exchange!kill, Exchange!InWait
<1>2. CASE Exchange!ipc_lookup(p) \/ Exchange!ipc_refused(p)
  <2>1. UNCHANGED <<status, ipc_recving, ipc, mail>>
    BY <1>2 DEF Exchange!ipc_lookup, Exchange!ipc_refused
  <2>2. PICK c : call' = [call EXCEPT ![p] = c]
    BY <1>2 DEF Exchange!ipc_lookup, Exchange!ipc_refused
  <2>3. call[p] # Exchange!Receive
    BY <1>2, CallsDiffer DEF Exchange!ipc_lookup, Exchange!ipc_refused, Exchange!User
  <2>4. DOMAIN call' = Peers /\ \A r \in Peers : r # p => call'[r] = call[r]
    BY <2>2 DEF XInv
  <2>5. mail[p] = <<>> /\ p \notin ipc_recving
    BY <2>3 DEF XInv
  <2>6. QED BY <2>1, <2>4, <2>5 DEF XInv
<1>3. CASE Exchange!ipc_try_send(p)
  <2> DEFINE d == call[p].to
             m == [value |-> call[p].value, from |-> pid[p], page |-> call[p].page /\ d \in wants_page]
  <2>1. /\ status[p] = "RUNNING" /\ d \in ipc_recving /\ ipc_recving' = ipc_recving \ {d}
        /\ ipc' = [ipc EXCEPT ![d] = m] /\ mail' = [mail EXCEPT ![d] = Append(mail[d], m)]
        /\ status' = Exchange!Wake(d) /\ call' = [call EXCEPT ![p] = Exchange!NoCall]
        /\ call[p].op = "send"
    BY <1>3 DEF Exchange!ipc_try_send
  <2> HIDE DEF d, m
  <2>2. d \in Peers /\ status[d] = "SLEEPING" /\ call[d] = Exchange!Receive /\ mail[d] = <<>> /\ d # p
    BY <2>1 DEF XInv
  <2>3. Append(mail[d], m) = <<m>>
    BY <2>2
  <2>4. /\ status' \in [Peers -> {"RUNNING", "SLEEPING"}] /\ status'[d] = "RUNNING"
        /\ \A r \in Peers : r # d => status'[r] = status[r]
    BY <2>1, <2>2 DEF XInv, Exchange!Wake
  <2>5. /\ DOMAIN call' = Peers /\ DOMAIN ipc' = Peers /\ DOMAIN mail' = Peers
        /\ ipc'[d] = m /\ mail'[d] = <<m>>
        /\ \A r \in Peers : r # d => ipc'[r] = ipc[r] /\ mail'[r] = mail[r]
        /\ \A r \in Peers : r # p => call'[r] = call[r]
    BY <2>1, <2>2, <2>3 DEF XInv
  <2>6. call[p] # Exchange!Receive
    BY <2>1, CallsDiffer
  <2>7. mail[p] = <<>> /\ p \notin ipc_recving
    BY <2>6 DEF XInv
  <2>8. \A r \in ipc_recving' : /\ r \in Peers /\ status'[r] = "SLEEPING"
                                /\ call'[r] = Exchange!Receive /\ mail'[r] = <<>>
    BY <2>1, <2>4, <2>5, <2>7 DEF XInv
  <2>9. ASSUME NEW r \in Peers
        PROVE  \/ mail'[r] = <<>>
               \/ mail'[r] = <<ipc'[r]>> /\ call'[r] = Exchange!Receive /\ status'[r] = "RUNNING"
    <3>1. CASE r = d
      BY <2>2, <2>4, <2>5, <3>1
    <3>2. CASE r # d /\ r # p
      BY <2>4, <2>5, <3>2 DEF XInv
    <3>3. CASE r = p
      BY <2>2, <2>5, <2>7, <3>3
    <3>4. QED BY <3>1, <3>2, <3>3
  <2>10. QED BY <2>4, <2>5, <2>8, <2>9 DEF XInv
<1>4. CASE Exchange!ipc_recv(p)
  <2>1. /\ ipc_recving' = ipc_recving \cup {p} /\ status' = [status EXCEPT ![p] = "SLEEPING"]
        /\ call' = [call EXCEPT ![p] = Exchange!Receive] /\ UNCHANGED <<ipc, mail>>
        /\ call[p] = Exchange!NoCall
    BY <1>4 DEF Exchange!ipc_recv, Exchange!User
  <2>2. mail[p] = <<>> /\ p \notin ipc_recving
    BY <2>1, CallsDiffer DEF XInv
  <2>3. /\ status' \in [Peers -> {"RUNNING", "SLEEPING"}] /\ DOMAIN call' = Peers
        /\ status'[p] = "SLEEPING" /\ call'[p] = Exchange!Receive
        /\ \A r \in Peers : r # p => status'[r] = status[r] /\ call'[r] = call[r]
    BY <2>1 DEF XInv
  <2>4. QED BY <2>1, <2>2, <2>3 DEF XInv
<1>5. CASE Exchange!ipc_recv_end(p)
  <2>1. /\ call' = [call EXCEPT ![p] = Exchange!NoCall] /\ mail' = [mail EXCEPT ![p] = <<>>]
        /\ UNCHANGED <<status, ipc_recving, ipc>> /\ status[p] = "RUNNING"
    BY <1>5 DEF Exchange!ipc_recv_end
  <2>2. p \notin ipc_recving
    BY <2>1 DEF XInv
  <2>3. /\ DOMAIN call' = Peers /\ DOMAIN mail' = Peers /\ mail'[p] = <<>>
        /\ \A r \in Peers : r # p => mail'[r] = mail[r] /\ call'[r] = call[r]
    BY <2>1 DEF XInv
  <2>4. QED BY <2>1, <2>2, <2>3 DEF XInv
<1>6. QED BY <1>1, <1>2, <1>3, <1>4, <1>5

LEMMA ExchangeKept == XInv => Exchange!DeliveredIsKept
<1> SUFFICES ASSUME XInv, NEW p \in Peers
             PROVE  Len(mail[p]) <= 1 /\ (mail[p] # <<>> => ipc[p] = mail[p][1] /\ ~Exchange!Asleep(p))
  BY DEF Exchange!DeliveredIsKept
<1>1. CASE mail[p] = <<>>
  BY <1>1
<1>2. CASE mail[p] = <<ipc[p]>> /\ status[p] = "RUNNING"
  <2>1. Len(<<ipc[p]>>) = 1 /\ <<ipc[p]>>[1] = ipc[p]
    OBVIOUS
  <2>2. QED BY <1>2, <2>1 DEF Exchange!Asleep
<1>3. QED BY <1>1, <1>2 DEF XInv

-----------------------------------------------------------------------------
(* Messages and the ids they are sent to: a receiver stays within reach.    *)

\* The three instances use the same words for a call.
LEMMA SameCalls ==
  /\ Family!Receive = Exchange!Receive /\ Victims!Receive = Exchange!Receive
  /\ Family!NoCall = Exchange!NoCall /\ Victims!NoCall = Exchange!NoCall
  /\ Family!Waiting = Exchange!Waiting /\ Victims!Waiting = Exchange!Waiting
BY DEF Exchange!Receive, Family!Receive, Victims!Receive, Exchange!NoCall, Family!NoCall,
       Victims!NoCall, Exchange!Waiting, Family!Waiting, Victims!Waiting

LEMMA NotReceiving ==
  /\ Exchange!NoCall # Exchange!Receive /\ Exchange!Waiting # Exchange!Receive
  /\ Exchange!Receive.op = "recv"
<1>1. Exchange!Waiting.op = "wait" /\ Exchange!Receive.op = "recv"
  BY DEF Exchange!Waiting, Exchange!Receive, Exchange!NoCall
<1>2. QED BY <1>1, CallsDiffer

\* A process that is in the table has an id of its own, the root process the
\* id 0, and whoever sleeps in ipc_recv has ipc_recving set.
IdsOK ==
  /\ DOMAIN status = Peers /\ DOMAIN call = Peers /\ DOMAIN pid = Peers
  /\ status[i0] \notin {"FREE", "ZOMBLE"} /\ pid[i0] = 0
  /\ \A p, q \in Peers : status[p] # "FREE" /\ status[q] # "FREE" /\ pid[p] = pid[q] => p = q
  /\ \A p \in Peers : call[p] = Exchange!Receive /\ status[p] = "SLEEPING" => p \in ipc_recving

LEMMA RootIsPeer == i0 \in Peers
BY MessagesAssumption DEF Exchange!IpcAssumption

LEMMA IdsInit == Exchange!Init => IdsOK
<1> SUFFICES ASSUME Exchange!Init PROVE IdsOK
  OBVIOUS
<1>1. /\ DOMAIN status = Peers /\ DOMAIN call = Peers
      /\ \A p \in Peers : status[p] = "RUNNING"
  BY DEF Exchange!Init
<1>2. DOMAIN pid = Peers /\ pid[i0] = 0 /\ \A p, q \in Peers : pid[p] = pid[q] => p = q
  BY RootIsPeer DEF Exchange!Init
<1>3. QED BY <1>1, <1>2, RootIsPeer DEF IdsOK

\* A step that gives nobody an id.
LEMMA IdsStay ==
  ASSUME IdsOK, pid' = pid, DOMAIN status' = Peers, DOMAIN call' = Peers,
         \A p \in Peers : status'[p] # "FREE" => status[p] # "FREE",
         status'[i0] \notin {"FREE", "ZOMBLE"},
         \A p \in Peers : call'[p] = Exchange!Receive /\ status'[p] = "SLEEPING" => p \in ipc_recving'
  PROVE  IdsOK'
BY DEF IdsOK

\* The process an id leads to is the one that has it.
LEMMA SleepersNamed ==
  ASSUME IdsOK
  PROVE  Exchange!SleeperCanReceive /\ Family!SleeperCanReceive /\ Victims!SleeperCanReceive
<1> SUFFICES ASSUME NEW p \in Peers \ {i0}, call[p] = Exchange!Receive, status[p] = "SLEEPING"
             PROVE  p \in ipc_recving /\ Exchange!Named(p) /\ Family!Named(p) /\ Victims!Named(p)
  BY SameCalls DEF Exchange!SleeperCanReceive, Family!SleeperCanReceive, Victims!SleeperCanReceive,
                   Exchange!Asleep, Family!Asleep, Victims!Asleep
<1>1. p \in ipc_recving
  BY DEF IdsOK
<1> DEFINE K == {d \in Peers : status[d] # "FREE"}
<1>2. p \in K /\ i0 \in K
  BY RootIsPeer DEF IdsOK
<1>3. pid[p] # 0
  BY <1>2 DEF IdsOK
<1>4. \A d \in K : pid[d] = pid[p] => d = p
  BY <1>2 DEF IdsOK
<1>5. (CHOOSE d \in K : pid[d] = pid[p]) = p
  BY <1>2, <1>4
<1>6. QED BY <1>1, <1>3, <1>5
          DEF Exchange!Named, Family!Named, Victims!Named, Exchange!pid2proc, Family!pid2proc,
              Victims!pid2proc, Exchange!Known, Family!Known, Victims!Known

LEMMA ExchangeIds ==
  ASSUME XInv, IdsOK, Exchange!Next
  PROVE  IdsOK'
<1>1. PICK p \in Peers :
         \/ Exchange!ipc_lookup(p) \/ Exchange!ipc_try_send(p) \/ Exchange!ipc_refused(p)
         \/ Exchange!ipc_recv(p) \/ Exchange!ipc_recv_end(p)
  BY DEF Exchange!Next, Exchange!Fork, Exchange!Exit, Exchange!wait_reap, Exchange!wait_sleep,
         Exchange!kill, Exchange!InWait
<1>2. pid' = pid /\ XInv'
  BY <1>1, ExchangeNext DEF Exchange!ipc_lookup, Exchange!ipc_try_send, Exchange!ipc_refused,
     Exchange!ipc_recv, Exchange!ipc_recv_end, Exchange!family
<1>3. ASSUME NEW r \in Peers, call'[r] = Exchange!Receive, status'[r] = "SLEEPING"
      PROVE  r \in ipc_recving'
  <2>1. CASE Exchange!ipc_lookup(p) \/ Exchange!ipc_refused(p) \/ Exchange!ipc_recv_end(p)
    <3>1. status' = status /\ ipc_recving' = ipc_recving
      BY <2>1 DEF Exchange!ipc_lookup, Exchange!ipc_refused, Exchange!ipc_recv_end
    <3>2. CASE r # p
      <4>1. call'[r] = call[r]
        BY <2>1, <3>2 DEF IdsOK, Exchange!ipc_lookup, Exchange!ipc_refused, Exchange!ipc_recv_end
      <4>2. QED BY <1>3, <3>1, <4>1 DEF IdsOK
    <3>3. CASE r = p
      <4>1. CASE Exchange!ipc_lookup(p) \/ Exchange!ipc_recv_end(p)
        BY <1>3, <3>1, <3>3, <4>1 DEF Exchange!ipc_lookup, Exchange!ipc_recv_end, Exchange!User
      <4>2. CASE Exchange!ipc_refused(p)
        BY <1>3, <3>1, <3>3, <4>2 DEF Exchange!ipc_refused
      <4>3. QED BY <2>1, <4>1, <4>2
    <3>4. QED BY <3>2, <3>3
  <2>2. CASE Exchange!ipc_try_send(p)
    <3>1. /\ ipc_recving' = ipc_recving \ {call[p].to} /\ status' = Exchange!Wake(call[p].to)
          /\ call' = [call EXCEPT ![p] = Exchange!NoCall]
      BY <2>2 DEF Exchange!ipc_try_send
    <3>2. r # call[p].to /\ status[r] = "SLEEPING"
      BY <1>3, <3>1 DEF IdsOK, Exchange!Wake
    <3>3. call[r] = Exchange!Receive
      BY <1>3, <3>1, CallsDiffer DEF IdsOK
    <3>4. QED BY <3>1, <3>2, <3>3 DEF IdsOK
  <2>3. CASE Exchange!ipc_recv(p)
    BY <1>3, <2>3 DEF IdsOK, Exchange!ipc_recv
  <2>4. QED BY <1>1, <2>1, <2>2, <2>3
<1>4. QED BY <1>2, <1>3, IdsStay, RootIsPeer DEF XInv, IdsOK

LEMMA VictimsNext ==
  ASSUME IdsOK, Victims!Next
  PROVE  IdsOK'
<1>1. PICK p \in Peers :
         \/ Victims!ipc_lookup(p) \/ Victims!ipc_try_send(p) \/ Victims!ipc_refused(p)
         \/ Victims!ipc_recv(p) \/ Victims!ipc_recv_end(p) \/ Victims!Exit(p)
         \/ Victims!wait_reap(p) \/ Victims!wait_sleep(p) \/ Victims!kill(p)
  BY DEF Victims!Next, Victims!Fork
<1>2. CASE Victims!ipc_lookup(p) \/ Victims!ipc_refused(p) \/ Victims!ipc_recv_end(p)
  <2>1. pid' = pid /\ status' = status /\ ipc_recving' = ipc_recving /\ status[p] = "RUNNING"
    BY <1>2 DEF Victims!ipc_lookup, Victims!ipc_refused, Victims!ipc_recv_end, Victims!User, Victims!family
  <2>2. DOMAIN call' = Peers /\ \A r \in Peers : r # p => call'[r] = call[r]
    BY <1>2 DEF IdsOK, Victims!ipc_lookup, Victims!ipc_refused, Victims!ipc_recv_end
  <2>3. QED BY <2>1, <2>2, IdsStay DEF IdsOK
<1>3. CASE Victims!ipc_try_send(p)
  <2>1. /\ pid' = pid /\ ipc_recving' = ipc_recving \ {call[p].to} /\ status' = Victims!Wake(call[p].to)
        /\ call' = [call EXCEPT ![p] = Victims!NoCall]
    BY <1>3 DEF Victims!ipc_try_send, Victims!family
  <2>2. /\ DOMAIN status' = Peers
        /\ \A r \in Peers : \/ status'[r] = status[r] /\ (status[r] = "SLEEPING" => r # call[p].to)
                            \/ status[r] = "SLEEPING" /\ status'[r] = "RUNNING"
    BY <2>1 DEF IdsOK, Victims!Wake
  <2>3. DOMAIN call' = Peers /\ \A r \in Peers : r # p => call'[r] = call[r]
    BY <2>1 DEF IdsOK
  <2>4. call'[p] # Exchange!Receive
    BY <2>1, SameCalls, NotReceiving DEF IdsOK
  <2>5. QED BY <2>1, <2>2, <2>3, <2>4, IdsStay, RootIsPeer DEF IdsOK
<1>4. CASE Victims!ipc_recv(p)
  <2>1. /\ pid' = pid /\ ipc_recving' = ipc_recving \cup {p} /\ status[p] = "RUNNING"
        /\ status' = [status EXCEPT ![p] = "SLEEPING"] /\ call' = [call EXCEPT ![p] = Victims!Receive]
    BY <1>4 DEF Victims!ipc_recv, Victims!User, Victims!family
  <2>2. QED BY <2>1, IdsStay, RootIsPeer DEF IdsOK
<1>5. CASE Victims!Exit(p)
  <2>1. /\ pid' = pid /\ call' = call /\ ipc_recving' = ipc_recving /\ p # i0 /\ status[p] = "RUNNING"
        /\ DOMAIN status' = Peers
        /\ \A r \in Peers : r # p => \/ status'[r] = status[r]
                                     \/ status[r] = "SLEEPING" /\ status'[r] = "RUNNING"
        /\ status'[p] = "ZOMBLE"
    BY <1>5 DEF IdsOK, Victims!Exit, Victims!Wake
  <2>2. QED BY <2>1, IdsStay, RootIsPeer DEF IdsOK
<1>6. CASE Victims!wait_reap(p)
  <2>1. PICK d \in Peers :
           /\ status[d] = "ZOMBLE" /\ status' = [status EXCEPT ![d] = "FREE"] /\ pid' = pid
           /\ call' = [call EXCEPT ![p] = Victims!NoCall] /\ ipc_recving' = ipc_recving
    BY <1>6 DEF Victims!wait_reap, Victims!Zombies
  <2>2. QED BY <2>1, SameCalls, NotReceiving, IdsStay, RootIsPeer DEF IdsOK
<1>7. CASE Victims!wait_sleep(p)
  <2>1. /\ pid' = pid /\ status' = [status EXCEPT ![p] = "SLEEPING"] /\ ipc_recving' = ipc_recving
        /\ call' = [call EXCEPT ![p] = Victims!Waiting] /\ status[p] = "RUNNING"
    BY <1>7 DEF Victims!wait_sleep, Victims!InWait, Victims!User, Victims!family
  <2>2. QED BY <2>1, SameCalls, NotReceiving, IdsStay, RootIsPeer DEF IdsOK
<1>8. CASE Victims!kill(p)
  <2>1. PICK d : status' = Victims!Wake(d)
    BY <1>8 DEF Victims!kill
  <2>2. pid' = pid /\ call' = call /\ ipc_recving' = ipc_recving
    BY <1>8 DEF Victims!kill, Victims!family
  <2>3. /\ DOMAIN status' = Peers
        /\ \A r \in Peers : \/ status'[r] = status[r]
                            \/ status[r] = "SLEEPING" /\ status'[r] = "RUNNING"
    BY <2>1 DEF IdsOK, Victims!Wake
  <2>4. QED BY <2>2, <2>3, IdsStay, RootIsPeer DEF IdsOK
<1>9. QED BY <1>1, <1>2, <1>3, <1>4, <1>5, <1>6, <1>7, <1>8

-----------------------------------------------------------------------------
(* Families: ids are given back and given out again.                        *)

\* At most as many processes as there are ids clear_pid gives back as they
\* are: from sizeof(uint32_t) up it sets another bit (proc.c:104).
FewPeers == IsFiniteSet(Peers) /\ Cardinality(Peers) <= 4

\* The free descriptors are as many as the free ids, and nobody in the table
\* has a free id.
TableOK ==
  /\ procs_desc_cache \in Seq(Peers \ {i0})
  /\ id_bitmap \subseteq 0 .. 3 /\ IsFiniteSet(id_bitmap)
  /\ Cardinality(id_bitmap) = Len(procs_desc_cache)
  /\ pid \in [Peers -> 0 .. 3]
  /\ \A p \in Peers : status[p] # "FREE" => pid[p] \notin id_bitmap

LEMMA TableInit == ASSUME FewPeers, Exchange!Init PROVE TableOK
<1> DEFINE n == Cardinality(Peers)
<1>1. \A S : Exchange!Cardinality(S) = Cardinality(S)
  BY DEF Exchange!Cardinality, Cardinality
<1>2. n \in 0 .. 4
  BY FS_CardinalityType DEF FewPeers
<1>3. id_bitmap = n .. n - 1
  BY <1>1 DEF Exchange!Init
<1>4. id_bitmap = {} /\ IsFiniteSet(id_bitmap) /\ Cardinality(id_bitmap) = 0
  BY <1>2, <1>3, FS_EmptySet
<1>5. PICK f \in [Peers -> 0 .. n - 1] : pid = [p \in Peers |-> IF p \in Peers THEN f[p] ELSE 0]
  BY <1>1 DEF Exchange!Init
<1>6. pid \in [Peers -> 0 .. 3]
  BY <1>2, <1>5
<1>7. procs_desc_cache \in [1 .. Cardinality(Peers \ Peers) -> Peers \ Peers]
  BY <1>1 DEF Exchange!Init
<1>8. Peers \ Peers = {}
  OBVIOUS
<1>9. Cardinality(Peers \ Peers) = 0
  BY <1>8, FS_EmptySet
<1>10. procs_desc_cache \in [1 .. 0 -> Peers \ {i0}]
  BY <1>7, <1>9
<1>11. procs_desc_cache \in Seq(Peers \ {i0}) /\ Len(procs_desc_cache) = 0
  BY <1>10
<1>12. QED BY <1>4, <1>6, <1>11 DEF TableOK

\* A set of small ids that is not empty has a least one.
LEMMA LeastId ==
  ASSUME NEW S \in SUBSET (0 .. 3), S # {}
  PROVE  Family!Min(S) \in S
<1>1. \E x \in S : \A y \in S : x <= y
  <2>1. CASE 0 \in S
    BY <2>1
  <2>2. CASE 0 \notin S /\ 1 \in S
    BY <2>2
  <2>3. CASE 0 \notin S /\ 1 \notin S /\ 2 \in S
    BY <2>3
  <2>4. CASE 0 \notin S /\ 1 \notin S /\ 2 \notin S
    <3>1. PICK x \in S : TRUE
      OBVIOUS
    <3>2. \A y \in S : y = 3
      BY <2>4
    <3>3. QED BY <3>1, <3>2
  <2>5. QED BY <2>1, <2>2, <2>3, <2>4
<1>2. QED BY <1>1 DEF Family!Min

LEMMA SmallIdsReturn == \A n \in 0 .. 3 : Family!clear_pid(n) = n
BY DEF Family!clear_pid

LEMMA FamilyFork ==
  ASSUME IdsOK, TableOK, NEW p \in Peers, Family!Fork(p)
  PROVE  IdsOK' /\ TableOK'
<1> DEFINE d == Head(procs_desc_cache)
           n == Family!Min(id_bitmap)
<1>1. /\ procs_desc_cache # <<>> /\ procs_desc_cache' = Tail(procs_desc_cache)
      /\ pid' = [pid EXCEPT ![d] = n] /\ id_bitmap' = id_bitmap \ {n}
      /\ status' = [status EXCEPT ![d] = "RUNNING"] /\ ipc_recving' = ipc_recving \ {d}
      /\ call' = call
  BY DEF Family!Fork, Family!get_pid
<1>2. d \in Peers /\ d # i0 /\ Tail(procs_desc_cache) \in Seq(Peers \ {i0})
      /\ Len(Tail(procs_desc_cache)) = Len(procs_desc_cache) - 1 /\ Len(procs_desc_cache) # 0
  BY <1>1 DEF TableOK
<1>3. id_bitmap # {}
  BY <1>2, FS_EmptySet DEF TableOK
<1>4. n \in id_bitmap /\ n \in 0 .. 3
  BY <1>3, LeastId DEF TableOK
<1> HIDE DEF d, n
<1>5. /\ DOMAIN status' = Peers /\ DOMAIN pid' = Peers /\ pid' \in [Peers -> 0 .. 3]
      /\ status'[d] = "RUNNING" /\ pid'[d] = n
      /\ \A r \in Peers : r # d => status'[r] = status[r] /\ pid'[r] = pid[r]
  BY <1>1, <1>2, <1>4 DEF IdsOK, TableOK
<1>6. \A r \in Peers : status[r] # "FREE" => pid[r] # n
  BY <1>4 DEF TableOK
<1>7. \A r, q \in Peers : status'[r] # "FREE" /\ status'[q] # "FREE" /\ pid'[r] = pid'[q] => r = q
  BY <1>5, <1>6 DEF IdsOK
<1>8. IdsOK'
  BY <1>1, <1>2, <1>5, <1>7, RootIsPeer DEF IdsOK
<1>9. IsFiniteSet(id_bitmap') /\ Cardinality(id_bitmap') = Cardinality(id_bitmap) - 1
  BY <1>1, <1>4, FS_RemoveElement DEF TableOK
<1>10. TableOK'
  BY <1>1, <1>2, <1>5, <1>6, <1>9 DEF TableOK
<1>11. QED BY <1>8, <1>10

LEMMA FamilyReap ==
  ASSUME IdsOK, TableOK, NEW p \in Peers, Family!wait_reap(p)
  PROVE  IdsOK' /\ TableOK'
<1>1. PICK d \in Peers :
         /\ status[d] = "ZOMBLE" /\ status' = [status EXCEPT ![d] = "FREE"] /\ pid' = pid
         /\ procs_desc_cache' = <<d>> \o procs_desc_cache
         /\ id_bitmap' = id_bitmap \cup {Family!clear_pid(pid[d])}
         /\ call' = [call EXCEPT ![p] = Family!NoCall] /\ ipc_recving' = ipc_recving
  BY DEF Family!wait_reap, Family!Zombies
<1>2. pid[d] \in 0 .. 3 /\ pid[d] \notin id_bitmap /\ d # i0
  BY <1>1 DEF TableOK, IdsOK
<1>3. id_bitmap' = id_bitmap \cup {pid[d]}
  BY <1>1, <1>2, SmallIdsReturn
<1>4. IdsOK'
  BY <1>1, <1>2, SameCalls, NotReceiving, IdsStay, RootIsPeer DEF IdsOK
<1>5. IsFiniteSet(id_bitmap') /\ Cardinality(id_bitmap') = Cardinality(id_bitmap) + 1
  BY <1>2, <1>3, FS_AddElement DEF TableOK
<1>6. procs_desc_cache' \in Seq(Peers \ {i0}) /\ Len(procs_desc_cache') = Len(procs_desc_cache) + 1
  <2>1. <<d>> \in Seq(Peers \ {i0}) /\ Len(<<d>>) = 1
    BY <1>2
  <2>2. procs_desc_cache \in Seq(Peers \ {i0}) /\ Len(procs_desc_cache) \in Nat
    BY DEF TableOK
  <2>3. QED BY <1>1, <2>1, <2>2, ConcatProperties
<1>7. \A r \in Peers : status'[r] # "FREE" => status[r] # "FREE" /\ r # d
  BY <1>1 DEF IdsOK
<1>8. \A r \in Peers : status'[r] # "FREE" => pid'[r] \notin id_bitmap'
  BY <1>1, <1>3, <1>7 DEF IdsOK, TableOK
<1>9. id_bitmap' \subseteq 0 .. 3 /\ pid' \in [Peers -> 0 .. 3]
  BY <1>1, <1>2, <1>3 DEF TableOK
<1>10. Cardinality(id_bitmap') = Len(procs_desc_cache')
  BY <1>5, <1>6 DEF TableOK
<1>11. QED BY <1>4, <1>5, <1>6, <1>8, <1>9, <1>10 DEF TableOK

LEMMA FamilyNext ==
  ASSUME IdsOK, TableOK, Family!Next
  PROVE  IdsOK' /\ TableOK'
<1>1. PICK p \in Peers :
         \/ Family!ipc_lookup(p) \/ Family!ipc_try_send(p) \/ Family!ipc_refused(p)
         \/ Family!ipc_recv(p) \/ Family!ipc_recv_end(p) \/ Family!Fork(p) \/ Family!Exit(p)
         \/ Family!wait_reap(p) \/ Family!wait_sleep(p)
  BY DEF Family!Next, Family!kill
<1>2. ASSUME IdsOK', pid' = pid, procs_desc_cache' = procs_desc_cache, id_bitmap' = id_bitmap,
             \A r \in Peers : status'[r] # "FREE" => status[r] # "FREE"
      PROVE  IdsOK' /\ TableOK'
  BY <1>2 DEF TableOK
<1>3. CASE Family!ipc_lookup(p) \/ Family!ipc_refused(p) \/ Family!ipc_recv_end(p)
  <2>1. UNCHANGED <<pid, procs_desc_cache, id_bitmap, status, ipc_recving>> /\ status[p] = "RUNNING"
    BY <1>3 DEF Family!ipc_lookup, Family!ipc_refused, Family!ipc_recv_end, Family!User, Family!family
  <2>2. DOMAIN call' = Peers /\ \A r \in Peers : r # p => call'[r] = call[r]
    BY <1>3 DEF IdsOK, Family!ipc_lookup, Family!ipc_refused, Family!ipc_recv_end
  <2>3. IdsOK'
    BY <2>1, <2>2, IdsStay DEF IdsOK
  <2>4. QED BY <1>2, <2>1, <2>3
<1>4. CASE Family!ipc_try_send(p)
  <2>1. /\ UNCHANGED <<pid, procs_desc_cache, id_bitmap>>
        /\ ipc_recving' = ipc_recving \ {call[p].to} /\ status' = Family!Wake(call[p].to)
        /\ call' = [call EXCEPT ![p] = Family!NoCall]
    BY <1>4 DEF Family!ipc_try_send, Family!family
  <2>2. /\ DOMAIN status' = Peers
        /\ \A r \in Peers : \/ status'[r] = status[r] /\ (status[r] = "SLEEPING" => r # call[p].to)
                            \/ status[r] = "SLEEPING" /\ status'[r] = "RUNNING"
    BY <2>1 DEF IdsOK, Family!Wake
  <2>3. DOMAIN call' = Peers /\ \A r \in Peers : r # p => call'[r] = call[r]
    BY <2>1 DEF IdsOK
  <2>4. call'[p] # Exchange!Receive
    BY <2>1, SameCalls, NotReceiving DEF IdsOK
  <2>5. IdsOK'
    BY <2>1, <2>2, <2>3, <2>4, IdsStay, RootIsPeer DEF IdsOK
  <2>6. QED BY <1>2, <2>1, <2>2, <2>5
<1>5. CASE Family!ipc_recv(p)
  <2>1. /\ UNCHANGED <<pid, procs_desc_cache, id_bitmap>>
        /\ ipc_recving' = ipc_recving \cup {p} /\ status[p] = "RUNNING"
        /\ status' = [status EXCEPT ![p] = "SLEEPING"] /\ call' = [call EXCEPT ![p] = Family!Receive]
    BY <1>5 DEF Family!ipc_recv, Family!User, Family!family
  <2>2. IdsOK'
    BY <2>1, IdsStay, RootIsPeer DEF IdsOK
  <2>3. \A r \in Peers : status'[r] # "FREE" => status[r] # "FREE"
    BY <2>1 DEF IdsOK
  <2>4. QED BY <1>2, <2>1, <2>2, <2>3
<1>6. CASE Family!Fork(p)
  BY <1>6, FamilyFork
<1>7. CASE Family!Exit(p)
  <2>1. /\ UNCHANGED <<pid, procs_desc_cache, id_bitmap, call, ipc_recving>>
        /\ p # i0 /\ status[p] = "RUNNING"
        /\ DOMAIN status' = Peers
        /\ \A r \in Peers : r # p => \/ status'[r] = status[r]
                                     \/ status[r] = "SLEEPING" /\ status'[r] = "RUNNING"
        /\ status'[p] = "ZOMBLE"
    BY <1>7 DEF IdsOK, Family!Exit, Family!Wake
  <2>2. IdsOK'
    BY <2>1, IdsStay, RootIsPeer DEF IdsOK
  <2>3. \A r \in Peers : status'[r] # "FREE" => status[r] # "FREE"
    BY <2>1
  <2>4. QED BY <1>2, <2>1, <2>2, <2>3
<1>8. CASE Family!wait_reap(p)
  BY <1>8, FamilyReap
<1>9. CASE Family!wait_sleep(p)
  <2>1. /\ UNCHANGED <<pid, procs_desc_cache, id_bitmap, ipc_recving>> /\ status[p] = "RUNNING"
        /\ status' = [status EXCEPT ![p] = "SLEEPING"] /\ call' = [call EXCEPT ![p] = Family!Waiting]
    BY <1>9 DEF Family!wait_sleep, Family!InWait, Family!User, Family!family
  <2>2. IdsOK'
    BY <2>1, SameCalls, NotReceiving, IdsStay, RootIsPeer DEF IdsOK
  <2>3. \A r \in Peers : status'[r] # "FREE" => status[r] # "FREE"
    BY <2>1 DEF IdsOK
  <2>4. QED BY <1>2, <2>1, <2>2, <2>3
<1>10. QED BY <1>1, <1>3, <1>4, <1>5, <1>6, <1>7, <1>8, <1>9

-----------------------------------------------------------------------------
(* The theorems.                                                            *)

\* The parts of MCMessages.
RunInv ==
  /\ part = "pipe" => PInv
  /\ part = "exchange" => XInv /\ IdsOK
  /\ part = "victims" => IdsOK
  /\ part = "console" => CInv

LEMMA RunInit == MCInit => RunInv
BY PipeAssumption, PipeInit, ExchangeInit, IdsInit, TtyInit DEF MCInit, RunInv

LEMMA RunNext == RunInv /\ [MCNext]_<<part, vars, ipcVars, ttyVars>> => RunInv'
<1> SUFFICES ASSUME RunInv, [MCNext]_<<part, vars, ipcVars, ttyVars>> PROVE RunInv'
  OBVIOUS
<1>1. ASSUME part = "pipe", part' = part, [Next]_vars PROVE RunInv'
  BY <1>1, PipeAssumption, PipeNext DEF RunInv
<1>2. ASSUME part = "exchange", part' = part, Exchange!Next PROVE RunInv'
  BY <1>2, ExchangeNext, ExchangeIds DEF RunInv
<1>3. ASSUME part = "family", part' = part, Family!Next PROVE RunInv'
  BY <1>3 DEF RunInv
<1>4. ASSUME part = "victims", part' = part, Victims!Next PROVE RunInv'
  BY <1>4, VictimsNext DEF RunInv
<1>5. ASSUME part = "console", part' = part, Tty!Next PROVE RunInv'
  BY <1>5, TtyNext DEF RunInv
<1>6. CASE MCNext
  BY <1>1, <1>2, <1>3, <1>4, <1>5, <1>6 DEF MCNext
<1>7. CASE UNCHANGED <<part, vars, ipcVars, ttyVars>>
  <2>1. ASSUME part = "exchange" PROVE RunInv'
    BY <1>7, <2>1 DEF RunInv, ipcVars, XInv, IdsOK
  <2>2. ASSUME part = "family" PROVE RunInv'
    BY <1>7, <2>2 DEF RunInv
  <2>3. ASSUME part = "victims" PROVE RunInv'
    BY <1>7, <2>3 DEF RunInv, ipcVars, IdsOK
  <2>4. ASSUME part = "console" PROVE RunInv'
    <3>1. CInv /\ CInv'
      BY <1>7, <2>4 DEF RunInv, ttyVars, CInv, RingOK, ReadersOK, TtyFlags, RingHolds, Calm
    <3>2. QED BY <1>7, <2>4, <3>1 DEF RunInv
  <2>5. CASE part \notin {"pipe", "exchange", "family", "victims", "console"}
    BY <1>7, <2>5 DEF RunInv
  <2>6. QED BY <1>1, <1>7, <2>1, <2>2, <2>3, <2>4, <2>5
<1>8. QED BY <1>6, <1>7

LEMMA RunInvariance == MCSpec => []RunInv
BY RunInit, RunNext, PTL DEF MCSpec

\* The part with families, for as many processes as get their own ids back.
FamilyInv == part = "family" => IdsOK /\ TableOK

LEMMA FamilyInvariance == ASSUME FewPeers PROVE MCSpec => []FamilyInv
<1>1. MCInit => FamilyInv
  BY IdsInit, TableInit DEF MCInit, FamilyInv
<1>2. FamilyInv /\ [MCNext]_<<part, vars, ipcVars, ttyVars>> => FamilyInv'
  <2> SUFFICES ASSUME FamilyInv, [MCNext]_<<part, vars, ipcVars, ttyVars>> PROVE FamilyInv'
    OBVIOUS
  <2>1. CASE part = "family" /\ Family!Next
    BY <2>1, FamilyNext DEF FamilyInv
  <2>2. CASE part' # "family"
    BY <2>2 DEF FamilyInv
  <2>3. CASE part = "family" /\ UNCHANGED ipcVars
    BY <2>3 DEF FamilyInv, ipcVars, IdsOK, TableOK
  <2>4. part' = part /\ (part = "family" => Family!Next \/ UNCHANGED ipcVars)
    BY DEF MCNext
  <2>5. QED BY <2>1, <2>2, <2>3, <2>4
<1>3. QED BY <1>1, <1>2, PTL DEF MCSpec

\* The console's state keeps its types, and with them its positions their
\* 32 bits (kbd.c:60-105, console.c:140-190).
THEOREM ConsoleTypes == MCSpec => [](part = "console" => Tty!TypeOK)
<1>1. RunInv => (part = "console" => Tty!TypeOK)
  <2> SUFFICES ASSUME CInv PROVE Tty!TypeOK
    BY DEF RunInv
  <2>1. pending \in Seq(Tty!Chars)
    BY DEF CInv, RingOK, RingHolds
  <2>2. getchar \in BOOLEAN /\ seen \in BOOLEAN
    BY DEF CInv, TtyFlags
  <2>3. QED BY <2>1, <2>2 DEF CInv, RingOK, ReadersOK, Cells, Positions, Tty!TypeOK
<1>2. QED BY <1>1, RunInvariance, PTL

\* Whatever is typed, erased, read, killed or polled by the monitor, in any
\* order, the console's ring is a queue: full, empty, and when its positions
\* wrap (kbd.c:60-105, console.c:140-190).
THEOREM ConsoleIsQueue == MCSpec => []RingIsQueue
<1>1. RunInv => RingIsQueue
  <2> SUFFICES ASSUME CInv PROVE Tty!RingIsQueue
    BY DEF RunInv, RingIsQueue
  <2>1. Tty!Length = Len(pending) /\ Len(pending) \in 0 .. TTY_BUF /\ Tty!Contents = pending
    BY RingIsPending DEF CInv
  <2>2. QED BY <2>1, TtySizes DEF Tty!RingIsQueue
<1>2. QED BY <1>1, RunInvariance, PTL

\* While processes do nothing but exchange messages, what a sender was told is
\* delivered is what the receiver returns with: nobody overwrites it and the
\* receiver does not sleep over it (sysfunc.c:600-678).
THEOREM MessagesKept == MCSpec => []DeliveredIsKept
<1>1. RunInv => DeliveredIsKept
  BY ExchangeKept DEF RunInv, DeliveredIsKept
<1>2. QED BY <1>1, RunInvariance, PTL

\* Nobody sleeps over bytes, room, a finished line or a message: a pipe's and
\* the console's sleepers have something to wait for (pipe.c:66-125,
\* kbd.c:89-99, console.c:160-180), and whoever sleeps in ipc_recv, the root
\* process apart, has ipc_recving set and is the one every sender finds under
\* its id, also when ids and descriptors are given back and used again
\* (sysfunc.c:601-678, proc.c:59-160).
THEOREM SleepersReachable == ASSUME FewPeers PROVE MCSpec => []WaitersAreWoken
<1>1. ASSUME PInv PROVE NobodySleepsInVain
  BY <1>1 DEF PInv, RingInv
<1>2. ASSUME CInv PROVE Tty!NobodySleepsInVain
  <2>1. Tty!Length = Len(pending) /\ Tty!Contents = pending
    BY <1>2, RingIsPending DEF CInv
  <2>2. QED BY <1>2, <2>1 DEF CInv, RingOK, Calm, Tty!NobodySleepsInVain
<1>3. RunInv /\ FamilyInv => WaitersAreWoken
  BY <1>1, <1>2, SleepersNamed DEF RunInv, FamilyInv, WaitersAreWoken
<1>4. QED BY <1>3, RunInvariance, FamilyInvariance, PTL

=============================================================================
