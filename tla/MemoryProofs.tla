--------------------------- MODULE MemoryProofs ---------------------------
(***************************************************************************)
(* Proofs about ProcTable, for any number of descriptors and any layout of *)
(* the bitmap: the table, the cache of descriptors, the count and the ids, *)
(* of the module itself and of the two instances MCMemory checks; and what *)
(* VmProofs says of the two instances of Vm that MCMemory checks.          *)
(***************************************************************************)
EXTENDS MCMemory, FiniteSetTheorems, SequenceTheorems, WellFoundedInduction, TLAPS

-----------------------------------------------------------------------------
(* The inductive invariants.                                                *)

\* Descriptors are handed out before they live, and ids are in reach of
\* clear_pid.
Made == live \subseteq made /\ \A d \in Desc : InBitmap(pid[d])

TInv == TypeOK /\ Made /\ TableEntriesLive /\ CacheDisjoint

\* Among the ids below sizeof(uint32_t) one whose bit is set is nobody's, and
\* no id has two owners.  The last id, which is out of clear_pid's reach, is
\* never given away, so that get_pid always finds one.
SmallOwned ==
    /\ NPROC - 1 \in id_bitmap
    /\ \A d \in live : pid[d] < WORDBYTES => pid[d] \notin id_bitmap
    /\ \A d, e \in live : pid[d] < WORDBYTES /\ pid[d] = pid[e] => d = e

LInv == AliveCounted /\ SmallOwned

\* proc_alloc_NoVm and proc_alloc_NoStack of an instance where they happen.
NoVm(d) ==
    /\ get_proc_desc(d)
    /\ proc_desc_destroy(d, 0, CacheLeft)
    /\ pid' = [pid EXCEPT ![d] = 0]
    /\ UNCHANGED live

NoStack(d) ==
    /\ InBitmap(get_pid)
    /\ get_proc_desc(d)
    /\ id_bitmap' = (id_bitmap \ {get_pid}) \cup {clear_pid(get_pid)}
    /\ pid' = [pid EXCEPT ![d] = get_pid]
    /\ Unhook(get_pid)
    /\ procs_desc_cache' = <<d>> \o CacheLeft
    /\ UNCHANGED <<live, n_procs_alive>>

-----------------------------------------------------------------------------
(* The bits of the ids.                                                     *)

LEMMA Sizes ==
  /\ WORDS \in Nat \ {0} /\ WORDBYTES \in Nat \ {0} /\ WORDBITS \in Nat \ {0}
  /\ WORDBYTES < WORDBITS /\ NPROC \in Nat \ {0} /\ NPROC = WORDS * WORDBITS
<1>1. /\ WORDS \in Nat \ {0} /\ WORDBYTES \in Nat \ {0} /\ WORDBITS \in Nat
      /\ WORDBYTES < WORDBITS /\ NPROC = WORDS * WORDBITS
  BY ProcTableAssumption
<1>2. WORDBITS \in Nat \ {0}
  BY <1>1
<1>3. NPROC \in Nat /\ NPROC > 0
  BY <1>1, <1>2
<1>4. QED BY <1>1, <1>2, <1>3

LEMMA Parts ==
  ASSUME NEW i \in Pid
  PROVE  /\ i \div WORDBYTES \in Nat /\ i % WORDBYTES \in 0 .. WORDBYTES - 1
         /\ i = WORDBYTES * (i \div WORDBYTES) + (i % WORDBYTES)
<1>1. i \in Nat /\ WORDBYTES \in Nat /\ WORDBYTES > 0
  BY Sizes DEF Pid
<1>2. i % WORDBYTES \in 0 .. WORDBYTES - 1
  BY <1>1
<1>3. i = WORDBYTES * (i \div WORDBYTES) + (i % WORDBYTES)
  BY <1>1
<1>4. i \div WORDBYTES \in Nat
  BY <1>1
<1>5. QED BY <1>2, <1>3, <1>4

\* clear_pid's bit is in the bitmap; it is the right one below WORDBYTES, and
\* none of those beyond.
LEMMA ClearPid ==
  ASSUME NEW i \in Pid, InBitmap(i)
  PROVE  /\ clear_pid(i) \in Pid
         /\ i < WORDBYTES => clear_pid(i) = i
         /\ i >= WORDBYTES => clear_pid(i) >= WORDBITS
<1> DEFINE q == i \div WORDBYTES
           r == i % WORDBYTES
<1>1. q \in Nat /\ r \in 0 .. WORDBYTES - 1 /\ i = WORDBYTES * q + r /\ q < WORDS /\ clear_pid(i) = q * WORDBITS + r
  BY Parts DEF InBitmap, clear_pid
<1> HIDE DEF q, r
<1>2. i \in Nat
  BY DEF Pid
<1>3. q * WORDBITS \in Nat /\ q * WORDBITS <= (WORDS - 1) * WORDBITS
  BY <1>1, Sizes
<1>4. (WORDS - 1) * WORDBITS = NPROC - WORDBITS
  BY Sizes
<1>5. clear_pid(i) \in Pid
  BY <1>1, <1>3, <1>4, Sizes DEF Pid
<1>6. ASSUME i < WORDBYTES PROVE clear_pid(i) = i
  <2>1. ~(q >= 1)
    <3> SUFFICES ASSUME q >= 1 PROVE FALSE
      OBVIOUS
    <3>1. WORDBYTES * q >= WORDBYTES
      BY <1>1, Sizes
    <3>2. QED BY <1>1, <1>6, <3>1, Sizes
  <2>2. q = 0
    BY <1>1, <2>1
  <2>3. QED BY <1>1, <2>2, Sizes
<1>7. ASSUME i >= WORDBYTES PROVE clear_pid(i) >= WORDBITS
  <2>1. q # 0
    BY <1>1, <1>7, Sizes
  <2>2. q * WORDBITS >= WORDBITS
    BY <1>1, <2>1, Sizes
  <2>3. QED BY <1>1, <1>3, <2>2, Sizes
<1>8. QED BY <1>5, <1>6, <1>7

\* Id 0 and the last one.
LEMMA EdgeIds ==
  /\ 0 \in Pid /\ InBitmap(0) /\ clear_pid(0) = 0
  /\ NPROC - 1 \in Pid /\ ~InBitmap(NPROC - 1) /\ NPROC - 1 >= WORDBYTES
<1>1. 0 \in Pid /\ NPROC - 1 \in Pid
  BY Sizes DEF Pid
<1>2. InBitmap(0)
  <2>1. 0 \div WORDBYTES = 0
    BY Sizes
  <2>2. QED BY <2>1, Sizes DEF InBitmap
<1>3. clear_pid(0) = 0
  BY <1>1, <1>2, ClearPid, Sizes
<1>4. NPROC - 1 >= WORDS * WORDBYTES
  <2>1. WORDS * WORDBITS >= WORDS * (WORDBYTES + 1)
    BY Sizes
  <2>2. WORDS * (WORDBYTES + 1) = WORDS * WORDBYTES + WORDS
    BY Sizes
  <2>3. WORDS * WORDBYTES \in Nat
    BY Sizes
  <2>4. QED BY <2>1, <2>2, <2>3, Sizes
<1>5. WORDS * WORDBYTES >= WORDBYTES
  BY Sizes
<1>6. ~InBitmap(NPROC - 1)
  <2> DEFINE q == (NPROC - 1) \div WORDBYTES
             r == (NPROC - 1) % WORDBYTES
  <2>1. q \in Nat /\ r \in 0 .. WORDBYTES - 1 /\ NPROC - 1 = WORDBYTES * q + r
    BY <1>1, Parts
  <2> SUFFICES ASSUME q < WORDS PROVE FALSE
    BY DEF InBitmap
  <2> HIDE DEF q, r
  <2>2. WORDBYTES * q <= WORDBYTES * (WORDS - 1)
    BY <2>1, Sizes
  <2>3. WORDBYTES * (WORDS - 1) = WORDS * WORDBYTES - WORDBYTES
    BY Sizes
  <2>4. WORDS * WORDBYTES \in Nat /\ WORDBYTES * q \in Nat
    BY <2>1, Sizes
  <2>5. QED BY <1>4, <2>1, <2>2, <2>3, <2>4, Sizes
<1>7. NPROC - 1 >= WORDBYTES
  <2>1. WORDS * WORDBYTES \in Nat
    BY Sizes
  <2>2. QED BY <1>4, <1>5, <2>1, Sizes
<1>8. QED BY <1>1, <1>2, <1>3, <1>6, <1>7

\* get_pid finds the lowest bit that is set.
LEMMA GetPid ==
  ASSUME id_bitmap \subseteq Pid
  PROVE  /\ get_pid \in Pid
         /\ id_bitmap # {} => get_pid \in id_bitmap
<1>1. CASE id_bitmap = {}
  BY <1>1, EdgeIds DEF get_pid
<1>2. CASE id_bitmap # {}
  <2>1. id_bitmap \subseteq Nat
    BY DEF Pid
  <2>2. PICK x \in id_bitmap : \A y \in id_bitmap : ~(<<y, x>> \in OpToRel(<, Nat))
    BY <1>2, <2>1, WFMin, NatLessThanWellFounded
  <2>a. \A y \in id_bitmap : ~(y < x)
    BY <2>1, <2>2 DEF OpToRel
  <2>3. \A y \in id_bitmap : x <= y
    BY <2>1, <2>a
  <2>4. Min(id_bitmap) \in id_bitmap
    BY <2>3 DEF Min
  <2>5. QED BY <1>2, <2>4 DEF get_pid
<1>3. QED BY <1>1, <1>2

-----------------------------------------------------------------------------
(* The cache of descriptors.                                                *)

\* A list without repetitions and its elements.
ListOf(s, F) == s \in Seq(Desc) /\ IsInjective(s) /\ ToSet(s) = F

LEMMA ListNone == ListOf(<<>>, {})
<1>1. <<>> \in Seq(Desc) /\ DOMAIN <<>> = {}
  OBVIOUS
<1>2. QED BY <1>1 DEF ListOf, IsInjective, ToSet

\* list_add at the front.
LEMMA ListFront ==
  ASSUME NEW s, NEW F, ListOf(s, F), NEW d \in Desc \ F
  PROVE  ListOf(<<d>> \o s, F \cup {d})
<1> DEFINE t == <<d>> \o s
           n == Len(s)
<1>1. s \in Seq(Desc) /\ n \in Nat /\ DOMAIN s = 1 .. n
  BY LenProperties DEF ListOf
<1>2. <<d>> \in Seq(Desc) /\ Len(<<d>>) = 1 /\ <<d>>[1] = d
  OBVIOUS
<1>3. /\ t \in Seq(Desc) /\ Len(t) = 1 + n
      /\ \A j \in 1 .. 1 + n : t[j] = IF j <= 1 THEN <<d>>[j] ELSE s[j - 1]
  BY <1>1, <1>2, ConcatProperties
<1>4. DOMAIN t = 1 .. 1 + n
  BY <1>3, LenProperties
<1>5. t[1] = d /\ \A j \in 2 .. 1 + n : (t[j] = s[j - 1] /\ j - 1 \in 1 .. n)
  BY <1>1, <1>2, <1>3
<1>6. \A i \in 1 .. n : s[i] \in F /\ t[i + 1] = s[i] /\ i + 1 \in 1 .. 1 + n
  <2>1. \A i \in 1 .. n : (i + 1 \in 2 .. 1 + n /\ (i + 1) - 1 = i /\ i + 1 \in 1 .. 1 + n)
    BY <1>1
  <2>2. \A i \in 1 .. n : s[i] \in F
    BY <1>1 DEF ListOf, ToSet
  <2>3. QED BY <1>5, <2>1, <2>2
<1>7. \A j \in 1 .. 1 + n : j = 1 \/ j \in 2 .. 1 + n
  BY <1>1
<1>a. 1 \in 1 .. 1 + n
  BY <1>1
<1> HIDE DEF t, n
<1>8. IsInjective(t)
  <2> SUFFICES ASSUME NEW j \in 1 .. 1 + n, NEW k \in 1 .. 1 + n, t[j] = t[k] PROVE j = k
    BY <1>4 DEF IsInjective
  <2>1. \A x, y \in 1 .. n : s[x] = s[y] => x = y
    BY <1>1 DEF ListOf, IsInjective
  <2>2. \A x \in 2 .. 1 + n : t[x] \in F
    BY <1>5, <1>6
  <2>3. CASE j = 1 \/ k = 1
    BY <1>5, <1>7, <2>2, <2>3
  <2>4. CASE j \in 2 .. 1 + n /\ k \in 2 .. 1 + n
    <3>1. s[j - 1] = s[k - 1] /\ j - 1 \in 1 .. n /\ k - 1 \in 1 .. n
      BY <1>5, <2>4
    <3>2. j - 1 = k - 1
      BY <2>1, <3>1
    <3>3. QED BY <1>1, <2>4, <3>2
  <2>5. QED BY <1>7, <2>3, <2>4
<1>9. ToSet(t) = F \cup {d}
  <2>1. F = {s[x] : x \in 1 .. n} /\ ToSet(t) = {t[x] : x \in 1 .. 1 + n}
    BY <1>1, <1>4 DEF ListOf, ToSet
  <2>2. \A x \in 1 .. 1 + n : t[x] \in F \cup {d}
    BY <1>5, <1>6, <1>7
  <2>3. \A x \in 1 .. n : s[x] \in ToSet(t)
    BY <1>6, <2>1
  <2>4. d \in ToSet(t)
    BY <1>5, <1>a, <2>1
  <2>5. QED BY <2>1, <2>2, <2>3, <2>4
<1>10. QED BY <1>3, <1>8, <1>9 DEF ListOf, t

\* list_del of the first one.
LEMMA ListTail ==
  ASSUME NEW s, NEW F, ListOf(s, F), s # <<>>
  PROVE  Head(s) \in F /\ ListOf(Tail(s), F \ {Head(s)})
<1> DEFINE t == Tail(s)
           n == Len(s)
<1>1. s \in Seq(Desc) /\ n \in Nat \ {0} /\ DOMAIN s = 1 .. n
  BY LenProperties, EmptySeq DEF ListOf
<1>2. /\ Head(s) = s[1] /\ t \in Seq(Desc) /\ Len(t) = n - 1
      /\ \A i \in 1 .. n - 1 : t[i] = s[i + 1]
  BY <1>1, HeadTailProperties
<1>3. DOMAIN t = 1 .. n - 1
  BY <1>2, LenProperties
<1> HIDE DEF t, n
<1>4. \A x, y \in 1 .. n : s[x] = s[y] => x = y
  BY <1>1 DEF ListOf, IsInjective
<1>5. F = {s[x] : x \in 1 .. n} /\ ToSet(t) = {t[x] : x \in 1 .. n - 1}
  BY <1>1, <1>3 DEF ListOf, ToSet
<1>6. \A x \in 1 .. n - 1 : (x + 1 \in 1 .. n /\ x + 1 # 1)
  BY <1>1
<1>7. 1 \in 1 .. n /\ \A x \in 1 .. n : (x = 1 \/ (x - 1 \in 1 .. n - 1 /\ (x - 1) + 1 = x))
  BY <1>1
<1>8. IsInjective(t)
  <2> SUFFICES ASSUME NEW j \in 1 .. n - 1, NEW k \in 1 .. n - 1, t[j] = t[k] PROVE j = k
    BY <1>3 DEF IsInjective
  <2>1. j + 1 = k + 1
    BY <1>2, <1>4, <1>6
  <2>2. QED BY <1>1, <2>1
<1>9. ToSet(t) = F \ {s[1]}
  <2>1. \A x \in 1 .. n - 1 : t[x] \in F /\ t[x] # s[1]
    BY <1>2, <1>4, <1>5, <1>6, <1>7
  <2>2. \A x \in 1 .. n : s[x] = s[1] \/ s[x] \in ToSet(t)
    <3> TAKE x \in 1 .. n
    <3>1. CASE x = 1
      BY <3>1
    <3>2. CASE x # 1
      <4>1. x - 1 \in 1 .. n - 1 /\ t[x - 1] = s[x]
        BY <1>2, <1>7, <3>2
      <4>2. QED BY <1>5, <4>1
    <3>3. QED BY <3>1, <3>2
  <2>3. QED BY <1>5, <2>1, <2>2
<1>10. s[1] \in F
  BY <1>5, <1>7
<1>11. QED BY <1>2, <1>8, <1>9, <1>10 DEF ListOf, t

LEMMA Cache == TInv <=> TypeOK /\ Made /\ TableEntriesLive /\ ListOf(procs_desc_cache, made \ live)
BY DEF TInv, CacheDisjoint, ListOf, TypeOK

\* A descriptor that is handed out was in the cache or is new; what the cache
\* holds once it is taken.
LEMMA Taken ==
  ASSUME TInv, NEW d \in Desc, get_proc_desc(d)
  PROVE  /\ d \notin live /\ made \subseteq made' /\ made' \subseteq Desc /\ d \in made'
         /\ ListOf(CacheLeft, (made' \ live) \ {d})
<1>1. ListOf(procs_desc_cache, made \ live) /\ live \subseteq made /\ made \subseteq Desc
  BY Cache DEF Made, TypeOK
<1>2. CASE procs_desc_cache # <<>>
  <2>1. d = Head(procs_desc_cache) /\ made' = made /\ CacheLeft = Tail(procs_desc_cache)
    BY <1>2 DEF get_proc_desc, CacheLeft
  <2>2. d \in made \ live /\ ListOf(Tail(procs_desc_cache), (made \ live) \ {d})
    BY <1>1, <1>2, <2>1, ListTail
  <2>3. QED BY <1>1, <2>1, <2>2
<1>3. CASE procs_desc_cache = <<>>
  <2>1. d \in Desc \ made /\ made' = made \cup {d} /\ CacheLeft = <<>>
    BY <1>3 DEF get_proc_desc, CacheLeft
  <2>2. made \ live = {}
    BY <1>1, <1>3 DEF ListOf, ToSet
  <2>3. (made' \ live) \ {d} = {}
    BY <2>1, <2>2
  <2>4. QED BY <1>1, <2>1, <2>3, ListNone
<1>4. QED BY <1>2, <1>3

-----------------------------------------------------------------------------
(* The steps.                                                               *)

LEMMA InitTInv == proc_init => TInv /\ LInv
<1> SUFFICES ASSUME proc_init PROVE TInv /\ LInv
  OBVIOUS
<1>1. /\ id_bitmap = Pid /\ proc_table = [i \in Pid |-> {}] /\ procs_desc_cache = <<>>
      /\ pid = [d \in Desc |-> 0] /\ live = {} /\ n_procs_alive = 0 /\ made = {}
  BY DEF proc_init
<1>2. TypeOK
  BY <1>1, EdgeIds DEF TypeOK
<1>3. Made
  BY <1>1, EdgeIds DEF Made
<1>4. TableEntriesLive
  BY <1>1 DEF TableEntriesLive, pid2proc
<1>5. ListOf(procs_desc_cache, made \ live)
  BY <1>1, ListNone
<1>6. AliveCounted
  BY <1>1, FS_EmptySet DEF AliveCounted
<1>7. SmallOwned
  BY <1>1, EdgeIds DEF SmallOwned
<1>8. QED BY <1>2, <1>3, <1>4, <1>5, <1>6, <1>7, Cache DEF LInv

\* A table whose slot i was cleared or given to d is right for the processes
\* that live then, if d was not alive before or is not any more.
LEMMA TableStep ==
  ASSUME TInv, NEW d \in Desc, NEW i \in Pid, NEW S \in SUBSET {d},
         proc_table' = [proc_table EXCEPT ![i] = S],
         pid' \in [Desc -> Pid], \A e \in Desc : (e # d => pid'[e] = pid[e]),
         live \ {d} \subseteq live', S \subseteq live',
         S # {} => pid'[d] = i,
         d \in live => pid[d] = i
  PROVE  TableEntriesLive' /\ proc_table' \in [Pid -> SUBSET Desc]
<1>1. proc_table \in [Pid -> SUBSET Desc]
  BY DEF TInv, TypeOK
<1>2. proc_table'[i] = S /\ \A j \in Pid : (j # i => proc_table'[j] = proc_table[j])
  BY <1>1
<1>3. proc_table' \in [Pid -> SUBSET Desc]
  BY <1>1
<1>4. ASSUME NEW j \in Pid, NEW e \in proc_table'[j] PROVE e \in live' /\ pid'[e] = j
  <2>1. CASE j = i
    BY <1>2, <1>4, <2>1
  <2>2. CASE j # i
    <3>1. e \in proc_table[j] /\ e \in Desc
      BY <1>1, <1>2, <1>4, <2>2
    <3>2. e \in live /\ pid[e] = j
      BY <3>1 DEF TInv, TableEntriesLive, pid2proc
    <3>3. e # d
      BY <2>2, <3>2
    <3>4. QED BY <3>1, <3>2, <3>3
  <2>3. QED BY <2>1, <2>2
<1>5. QED BY <1>3, <1>4 DEF TableEntriesLive, pid2proc

LEMMA AllocStep ==
  ASSUME TInv, NEW d \in Desc, proc_alloc(d)
  PROVE  TInv' /\ (LInv => LInv')
<1> DEFINE i == get_pid
<1>1. /\ get_proc_desc(d) /\ InBitmap(i) /\ procs_desc_cache' = CacheLeft
      /\ n_procs_alive' = n_procs_alive + 1 /\ pid' = [pid EXCEPT ![d] = i]
      /\ id_bitmap' = id_bitmap \ {i} /\ proc_table' = [proc_table EXCEPT ![i] = {d}]
      /\ live' = live \cup {d}
  BY DEF proc_alloc
<1>2. /\ id_bitmap \subseteq Pid /\ pid \in [Desc -> Pid] /\ live \subseteq Desc /\ n_procs_alive \in Int
      /\ live \subseteq made /\ \A e \in Desc : InBitmap(pid[e])
  BY DEF TInv, TypeOK, Made
<1>3. i \in Pid /\ (id_bitmap # {} => i \in id_bitmap)
  BY <1>2, GetPid
<1>4. /\ d \notin live /\ made \subseteq made' /\ made' \subseteq Desc /\ d \in made'
      /\ ListOf(CacheLeft, (made' \ live) \ {d})
  BY <1>1, Taken
<1> HIDE DEF i
<1>5. pid' \in [Desc -> Pid] /\ pid'[d] = i /\ \A e \in Desc : (e # d => pid'[e] = pid[e])
  BY <1>1, <1>2, <1>3
<1>6. TableEntriesLive' /\ proc_table' \in [Pid -> SUBSET Desc]
  <2>1. {d} \in SUBSET {d}
    OBVIOUS
  <2>2. QED BY <1>1, <1>3, <1>4, <1>5, <2>1, TableStep
<1>7. ListOf(procs_desc_cache', made' \ live')
  <2>1. made' \ live' = (made' \ live) \ {d}
    BY <1>1
  <2>2. QED BY <1>1, <1>4, <2>1
<1>8. TypeOK'
  BY <1>1, <1>2, <1>4, <1>5, <1>6, <1>7 DEF TypeOK, ListOf
<1>9. Made'
  <2>1. \A e \in Desc : InBitmap(pid'[e])
    BY <1>1, <1>2, <1>5
  <2>2. live' \subseteq made'
    BY <1>1, <1>2, <1>4
  <2>3. QED BY <2>1, <2>2 DEF Made, InBitmap
<1>10. TInv'
  BY <1>6, <1>7, <1>8, <1>9 DEF TInv, CacheDisjoint, ListOf
<1>11. ASSUME AliveCounted PROVE AliveCounted'
  <2>1. IsFiniteSet(live)
    BY <1>2, FS_Subset, ProcTableAssumption
  <2>2. Cardinality(live \cup {d}) = Cardinality(live) + 1
    BY <1>4, <2>1, FS_AddElement
  <2>3. QED BY <1>1, <1>11, <2>2 DEF AliveCounted
<1>12. ASSUME SmallOwned PROVE SmallOwned'
  <2>1. i \in id_bitmap /\ i # NPROC - 1
    BY <1>1, <1>3, <1>12, EdgeIds DEF SmallOwned
  <2>2. \A e \in live : e # d /\ e \in Desc /\ pid'[e] = pid[e]
    BY <1>2, <1>4, <1>5
  <2>3. \A e \in live : pid[e] < WORDBYTES => pid[e] # i
    BY <1>12, <2>1 DEF SmallOwned
  <2>4. NPROC - 1 \in id_bitmap'
    BY <1>1, <1>12, <2>1 DEF SmallOwned
  <2>5. \A e \in live' : pid'[e] < WORDBYTES => pid'[e] \notin id_bitmap'
    BY <1>1, <1>5, <1>12, <2>2 DEF SmallOwned
  <2>6. \A e, f \in live' : pid'[e] < WORDBYTES /\ pid'[e] = pid'[f] => e = f
    BY <1>1, <1>5, <1>12, <2>2, <2>3 DEF SmallOwned
  <2>7. QED BY <2>4, <2>5, <2>6 DEF SmallOwned
<1>13. QED BY <1>10, <1>11, <1>12 DEF LInv

\* A descriptor taken and given back: its id, if it had one, is set free, and
\* the process never lived.
LEMMA GiveBack ==
  ASSUME TInv, NEW d \in Desc, NEW i \in Pid, InBitmap(i), get_proc_desc(d),
         id_bitmap' \subseteq Pid, n_procs_alive' \in Int,
         proc_table' = [proc_table EXCEPT ![i] = {}],
         procs_desc_cache' = <<d>> \o CacheLeft,
         pid' = [pid EXCEPT ![d] = i], live' = live
  PROVE  TInv'
<1>1. /\ pid \in [Desc -> Pid] /\ live \subseteq Desc
      /\ live \subseteq made /\ \A e \in Desc : InBitmap(pid[e])
  BY DEF TInv, TypeOK, Made
<1>2. /\ d \notin live /\ made \subseteq made' /\ made' \subseteq Desc /\ d \in made'
      /\ ListOf(CacheLeft, (made' \ live) \ {d})
  BY Taken
<1>3. pid' \in [Desc -> Pid] /\ pid'[d] = i /\ \A e \in Desc : (e # d => pid'[e] = pid[e])
  BY <1>1
<1>4. TableEntriesLive' /\ proc_table' \in [Pid -> SUBSET Desc]
  <2> DEFINE S == {}
  <2>1. S \in SUBSET {d} /\ S \subseteq live' /\ live \ {d} \subseteq live' /\ (S # {} => pid'[d] = i)
    BY <1>3
  <2>2. proc_table' = [proc_table EXCEPT ![i] = S] /\ (d \in live => pid[d] = i)
    BY <1>2
  <2> HIDE DEF S
  <2>3. QED BY <1>3, <2>1, <2>2, TableStep
<1>5. ListOf(procs_desc_cache', made' \ live')
  <2> DEFINE F == (made' \ live) \ {d}
  <2>1. d \in Desc \ F /\ F \cup {d} = made' \ live'
    BY <1>2
  <2> HIDE DEF F
  <2>2. ListOf(<<d>> \o CacheLeft, F \cup {d})
    BY <1>2, <2>1, ListFront DEF F
  <2>3. QED BY <2>1, <2>2
<1>6. TypeOK'
  BY <1>1, <1>2, <1>3, <1>4, <1>5 DEF TypeOK, ListOf
<1>7. Made'
  BY <1>1, <1>2, <1>3 DEF Made, InBitmap
<1>8. QED BY <1>4, <1>5, <1>6, <1>7 DEF TInv, CacheDisjoint, ListOf

LEMMA NoVmStep ==
  ASSUME TInv, NEW d \in Desc, NoVm(d), n_procs_alive' \in Int
  PROVE  TInv'
<1>1. /\ get_proc_desc(d) /\ pid' = [pid EXCEPT ![d] = 0] /\ live' = live
      /\ id_bitmap' = id_bitmap \cup {clear_pid(0)} /\ proc_table' = [proc_table EXCEPT ![0] = {}]
      /\ procs_desc_cache' = <<d>> \o CacheLeft
  BY DEF NoVm, proc_desc_destroy, Unhook
<1>2. id_bitmap' \subseteq Pid
  BY <1>1, EdgeIds DEF TInv, TypeOK
<1>3. QED BY <1>1, <1>2, EdgeIds, GiveBack

LEMMA NoStackStep ==
  ASSUME TInv, NEW d \in Desc, NoStack(d)
  PROVE  TInv' /\ (LInv => LInv')
<1> DEFINE i == get_pid
<1>1. /\ get_proc_desc(d) /\ InBitmap(i) /\ pid' = [pid EXCEPT ![d] = i] /\ live' = live
      /\ id_bitmap' = (id_bitmap \ {i}) \cup {clear_pid(i)}
      /\ proc_table' = [proc_table EXCEPT ![i] = {}]
      /\ procs_desc_cache' = <<d>> \o CacheLeft /\ n_procs_alive' = n_procs_alive
  BY DEF NoStack, Unhook
<1>2. id_bitmap \subseteq Pid /\ n_procs_alive \in Int /\ pid \in [Desc -> Pid] /\ live \subseteq Desc
  BY DEF TInv, TypeOK
<1>3. i \in Pid /\ (id_bitmap # {} => i \in id_bitmap)
  BY <1>2, GetPid
<1> HIDE DEF i
<1>4. /\ clear_pid(i) \in Pid
      /\ i < WORDBYTES => clear_pid(i) = i
      /\ i >= WORDBYTES => clear_pid(i) >= WORDBITS
  BY <1>1, <1>3, ClearPid
<1>5. TInv'
  <2>1. id_bitmap' \subseteq Pid /\ n_procs_alive' \in Int
    BY <1>1, <1>2, <1>4
  <2>2. QED BY <1>1, <1>3, <2>1, GiveBack
<1>6. d \notin live
  BY <1>1, Taken
<1>7. ASSUME LInv PROVE LInv'
  <2>1. i \in id_bitmap /\ i # NPROC - 1
    BY <1>1, <1>3, <1>7, EdgeIds DEF LInv, SmallOwned
  <2>2. \A e \in live : e # d /\ e \in Desc /\ pid'[e] = pid[e] /\ pid[e] \in Nat
    BY <1>1, <1>2, <1>6 DEF Pid
  <2>3. \A e \in live : pid[e] < WORDBYTES => pid[e] # clear_pid(i)
    <3>1. \A e \in live : pid[e] < WORDBYTES => pid[e] # i
      BY <1>7, <2>1 DEF LInv, SmallOwned
    <3>2. i \in Nat
      BY <1>3 DEF Pid
    <3>3. CASE i < WORDBYTES
      BY <1>4, <3>1, <3>3
    <3>4. CASE i >= WORDBYTES
      <4>1. clear_pid(i) >= WORDBITS /\ clear_pid(i) \in Nat
        BY <1>4, <3>4 DEF Pid
      <4> HIDE DEF clear_pid
      <4>2. QED BY <2>2, <4>1, Sizes
    <3>5. QED BY <3>2, <3>3, <3>4, Sizes
  <2>4. NPROC - 1 \in id_bitmap'
    BY <1>1, <1>7, <2>1 DEF LInv, SmallOwned
  <2>5. \A e \in live' : pid'[e] < WORDBYTES => pid'[e] \notin id_bitmap'
    BY <1>1, <1>7, <2>2, <2>3 DEF LInv, SmallOwned
  <2>6. \A e, f \in live' : pid'[e] < WORDBYTES /\ pid'[e] = pid'[f] => e = f
    BY <1>1, <1>7, <2>2 DEF LInv, SmallOwned
  <2>7. AliveCounted'
    BY <1>1, <1>7 DEF LInv, AliveCounted
  <2>8. QED BY <2>4, <2>5, <2>6, <2>7 DEF LInv, SmallOwned
<1>8. QED BY <1>5, <1>7

LEMMA ReapStep ==
  ASSUME TInv, NEW d \in Desc, Reap(d)
  PROVE  TInv' /\ (LInv => LInv')
<1> DEFINE i == pid[d]
<1>1. /\ d \in live /\ live' = live \ {d} /\ pid' = pid /\ made' = made
      /\ n_procs_alive' = n_procs_alive - 1
      /\ id_bitmap' = id_bitmap \cup {clear_pid(i)}
      /\ proc_table' = [proc_table EXCEPT ![i] = {}]
      /\ procs_desc_cache' = <<d>> \o procs_desc_cache
  BY DEF Reap, proc_desc_destroy, Unhook
<1>2. /\ id_bitmap \subseteq Pid /\ n_procs_alive \in Int /\ pid \in [Desc -> Pid] /\ live \subseteq Desc
      /\ live \subseteq made /\ made \subseteq Desc /\ \A e \in Desc : InBitmap(pid[e])
      /\ ListOf(procs_desc_cache, made \ live)
  BY Cache DEF TInv, TypeOK, Made
<1>3. i \in Pid /\ InBitmap(i)
  BY <1>2
<1>4. /\ clear_pid(i) \in Pid
      /\ i < WORDBYTES => clear_pid(i) = i
      /\ i >= WORDBYTES => clear_pid(i) >= WORDBITS
  BY <1>3, ClearPid
<1>5. TableEntriesLive' /\ proc_table' \in [Pid -> SUBSET Desc]
  <2> DEFINE S == {}
  <2>1. S \in SUBSET {d} /\ S \subseteq live' /\ live \ {d} \subseteq live' /\ (S # {} => pid'[d] = i)
    BY <1>1
  <2>2. pid' \in [Desc -> Pid] /\ \A e \in Desc : (e # d => pid'[e] = pid[e])
    BY <1>1, <1>2
  <2>3. proc_table' = [proc_table EXCEPT ![i] = S] /\ pid[d] = i
    BY <1>1
  <2> HIDE DEF S, i
  <2>4. QED BY <1>3, <2>1, <2>2, <2>3, TableStep
<1>6. ListOf(procs_desc_cache', made' \ live')
  <2> DEFINE F == made \ live
  <2>1. d \in Desc \ F /\ F \cup {d} = made' \ live'
    BY <1>1, <1>2
  <2> HIDE DEF F
  <2>2. ListOf(<<d>> \o procs_desc_cache, F \cup {d})
    BY <1>2, <2>1, ListFront DEF F
  <2>3. QED BY <1>1, <2>1, <2>2
<1>7. TypeOK'
  BY <1>1, <1>2, <1>4, <1>5, <1>6 DEF TypeOK, ListOf
<1>8. Made'
  BY <1>1, <1>2 DEF Made, InBitmap
<1>9. TInv'
  BY <1>5, <1>6, <1>7, <1>8 DEF TInv, CacheDisjoint, ListOf
<1>10. ASSUME AliveCounted PROVE AliveCounted'
  <2>1. IsFiniteSet(live)
    BY <1>2, FS_Subset, ProcTableAssumption
  <2>2. Cardinality(live \ {d}) = Cardinality(live) - 1
    BY <1>1, <2>1, FS_RemoveElement
  <2>3. QED BY <1>1, <1>10, <2>2 DEF AliveCounted
<1>11. ASSUME SmallOwned PROVE SmallOwned'
  <2>1. \A e \in live : pid[e] \in Nat
    BY <1>2 DEF Pid
  <2>2. \A e \in live' : pid[e] < WORDBYTES => pid[e] # clear_pid(i)
    <3>1. \A e \in live' : pid[e] < WORDBYTES => pid[e] # i
      BY <1>1, <1>11 DEF SmallOwned
    <3>2. i \in Nat
      BY <1>3 DEF Pid
    <3>3. CASE i < WORDBYTES
      BY <1>4, <3>1, <3>3
    <3>4. CASE i >= WORDBYTES
      <4>1. clear_pid(i) >= WORDBITS /\ clear_pid(i) \in Nat
        BY <1>4, <3>4 DEF Pid
      <4> HIDE DEF clear_pid, i
      <4>2. QED BY <1>1, <2>1, <4>1, Sizes
    <3>5. QED BY <3>2, <3>3, <3>4, Sizes
  <2>3. NPROC - 1 \in id_bitmap'
    BY <1>1, <1>11 DEF SmallOwned
  <2>4. \A e \in live' : pid'[e] < WORDBYTES => pid'[e] \notin id_bitmap'
    BY <1>1, <1>11, <2>2 DEF SmallOwned
  <2>5. \A e, f \in live' : pid'[e] < WORDBYTES /\ pid'[e] = pid'[f] => e = f
    BY <1>1, <1>11 DEF SmallOwned
  <2>6. QED BY <2>3, <2>4, <2>5 DEF SmallOwned
<1>12. QED BY <1>9, <1>10, <1>11 DEF LInv

\* Where proc_alloc may fail at all its places, and where only late.
LEMMA NextTInv == TInv /\ [Next]_vars => TInv'
<1> SUFFICES ASSUME TInv, [Next]_vars PROVE TInv'
  OBVIOUS
<1>1. ASSUME NEW d \in Desc, proc_alloc(d) PROVE TInv'
  BY <1>1, AllocStep
<1>2. ASSUME NEW d \in Desc, proc_alloc_NoVm(d) PROVE TInv'
  <2>1. NoVm(d) /\ n_procs_alive' = n_procs_alive - 1
    BY <1>2 DEF proc_alloc_NoVm, NoVm
  <2>2. n_procs_alive' \in Int
    BY <2>1 DEF TInv, TypeOK
  <2>3. QED BY <2>1, <2>2, NoVmStep
<1>3. ASSUME NEW d \in Desc, proc_alloc_NoStack(d) PROVE TInv'
  <2>1. NoStack(d)
    BY <1>3 DEF proc_alloc_NoStack, NoStack
  <2>2. QED BY <2>1, NoStackStep
<1>4. ASSUME NEW d \in Desc, Reap(d) PROVE TInv'
  BY <1>4, ReapStep
<1>5. CASE UNCHANGED vars
  BY <1>5 DEF vars, TInv, TypeOK, Made, TableEntriesLive, CacheDisjoint, pid2proc, InBitmap
<1>6. QED BY <1>1, <1>2, <1>3, <1>4, <1>5 DEF Next

LEMMA NextLInv == TInv /\ LInv /\ Late!Next => TInv' /\ LInv'
<1> SUFFICES ASSUME TInv, LInv, Late!Next PROVE TInv' /\ LInv'
  OBVIOUS
<1>1. ASSUME NEW d \in Desc, Late!proc_alloc(d) PROVE TInv' /\ LInv'
  <2>1. proc_alloc(d)
    BY <1>1 DEF Late!proc_alloc, proc_alloc, Late!get_pid, get_pid, Late!InBitmap, InBitmap, Late!Min, Min,
                Late!get_proc_desc, get_proc_desc, Late!CacheLeft, CacheLeft
  <2>2. QED BY <2>1, AllocStep
<1>2. ASSUME NEW d \in Desc, Late!proc_alloc_NoStack(d) PROVE TInv' /\ LInv'
  <2>1. NoStack(d)
    BY <1>2 DEF Late!proc_alloc_NoStack, NoStack, Late!get_pid, get_pid, Late!InBitmap, InBitmap, Late!Min, Min,
                Late!get_proc_desc, get_proc_desc, Late!CacheLeft, CacheLeft, Late!Unhook, Unhook,
                Late!clear_pid, clear_pid
  <2>2. QED BY <2>1, NoStackStep
<1>3. ASSUME NEW d \in Desc, Late!Reap(d) PROVE TInv' /\ LInv'
  <2>1. Reap(d)
    BY <1>3 DEF Late!Reap, Reap, Late!proc_desc_destroy, proc_desc_destroy, Late!Unhook, Unhook,
                Late!clear_pid, clear_pid
  <2>2. QED BY <2>1, ReapStep
<1>4. ASSUME NEW d \in Desc PROVE ~Late!proc_alloc_NoVm(d)
  BY DEF Late!proc_alloc_NoVm
<1>5. QED BY <1>1, <1>2, <1>3, <1>4 DEF Late!Next

-----------------------------------------------------------------------------
(* The theorems.                                                            *)

\* Wherever proc_alloc fails, the table names living processes under their
\* own ids, and each descriptor is a process's or in the cache, once
\* (proc.c:100-152, 261-285).
THEOREM TableInvariance == Spec => []TInv
<1>1. proc_init => TInv
  BY InitTInv
<1>2. QED BY <1>1, NextTInv, PTL DEF Spec

\* The parts of MCMemory that move the table.
RunInv ==
    /\ part \in {"pids", "late"} => TInv
    /\ part = "late" => LInv

\* pid2proc reaches no destroyed descriptor and no living one is given away;
\* while proc_alloc fails only after it has counted, n_procs_alive is exact
\* and no two processes share an id for which clear_pid finds the right bit.
THEOREM TableIsExact == MCSpec => []TableExact
<1>1. MCInit => RunInv
  BY InitTInv DEF MCInit, RunInv
<1>2. RunInv /\ [MCNext]_<<part, vars, buddyVars, slabVars, vmVars>> => RunInv'
  <2> SUFFICES ASSUME RunInv, [MCNext]_<<part, vars, buddyVars, slabVars, vmVars>> PROVE RunInv'
    OBVIOUS
  <2>1. CASE part = "pids" /\ Next /\ part' = part
    <3>1. TInv'
      BY <2>1, NextTInv DEF RunInv
    <3>2. QED BY <2>1, <3>1 DEF RunInv
  <2>2. CASE part = "late" /\ Late!Next /\ part' = part
    <3>1. TInv' /\ LInv'
      BY <2>2, NextLInv DEF RunInv
    <3>2. QED BY <3>1 DEF RunInv
  <2>3. CASE part \notin {"pids", "late"} /\ part' = part
    BY <2>3 DEF RunInv
  <2>4. CASE UNCHANGED vars /\ part' = part
    BY <2>4 DEF RunInv, vars, TInv, TypeOK, Made, TableEntriesLive, CacheDisjoint, pid2proc, InBitmap,
                LInv, AliveCounted, SmallOwned
  <2>5. QED BY <2>1, <2>2, <2>3, <2>4 DEF MCNext
<1>3. RunInv => TableExact
  BY DEF RunInv, TInv, LInv, SmallOwned, SmallIdsUnique, TableExact, Made
<1>4. QED BY <1>1, <1>2, <1>3, PTL DEF MCSpec

-----------------------------------------------------------------------------
(* The address spaces of MCMemory.                                          *)

CowProofs == INSTANCE VmProofs WITH
    Procs <- {root, p1, p2}, Root <- root, NFrames <- 14, REFS <- 15, Vals <- {zero, one}, Zero <- zero,
    UTEXT <- 2, HEAPTOP <- 3, UTOP <- 4, ADDRESSES <- 16, PDENTRIES <- 8, TextPages <- 1,
    Calls <- {"read"}, MaxGrow <- 1

HeapProofs == INSTANCE VmProofs WITH
    Procs <- {root, child}, Root <- root, NFrames <- 11, REFS <- 12, Vals <- {zero}, Zero <- zero,
    UTEXT <- 2, HEAPTOP <- 4, UTOP <- 5, ADDRESSES <- 6, PDENTRIES <- 3, TextPages <- 1,
    Calls <- {"heap", "brk", "sbrk"}, MaxGrow <- 1

\* The operators of Vm that exec is made of are the same in both instances.
LEMMA CowPieces ==
  /\ \A t, s : Cow!setup_vm(t, s) = CowProofs!setup_vm(t, s)
  /\ \A t, s, n, v : Cow!Image(t, s, n, v) = CowProofs!Image(t, s, n, v)
  /\ \A t, s, f : Cow!kstack_insert(t, s, f) = CowProofs!kstack_insert(t, s, f)
  /\ \A t, s : Cow!pgdir_free(t, s) = CowProofs!pgdir_free(t, s)
  /\ \A t, s : Cow!kernel_free(t, s) = CowProofs!kernel_free(t, s)
  /\ \A t, f : Cow!page_decrease_ref(t, f) = CowProofs!page_decrease_ref(t, f)
<1>1. \A t, s : Cow!setup_vm(t, s) = CowProofs!setup_vm(t, s)
  BY Zenon DEF
     Cow!setup_vm, Cow!On, Cow!page_alloc, Cow!Fresh, Cow!Min, Cow!Frames, Cow!Vas, Cow!Tables,
     CowProofs!setup_vm, CowProofs!On, CowProofs!page_alloc, CowProofs!Fresh, CowProofs!Min,
     CowProofs!Frames, CowProofs!Vas, CowProofs!Tables
<1>2. \A t, s, n, v : Cow!Image(t, s, n, v) = CowProofs!Image(t, s, n, v)
  BY ZenonT(60) DEF
     Cow!Image, Cow!On, Cow!page_alloc, Cow!Fresh, Cow!Min, Cow!Frames, Cow!Vas, Cow!Tables,
     Cow!Drop, Cow!page_decrease_ref, Cow!WithTable, Cow!pgdir_walk, Cow!page_remove, Cow!Entry,
     Cow!page_insert, Cow!page_new, Cow!PTE_USTK, CowProofs!Image, CowProofs!On,
     CowProofs!page_alloc, CowProofs!Fresh, CowProofs!Min, CowProofs!Frames, CowProofs!Vas,
     CowProofs!Tables, CowProofs!Drop, CowProofs!page_decrease_ref, CowProofs!WithTable,
     CowProofs!pgdir_walk, CowProofs!page_remove, CowProofs!Entry, CowProofs!page_insert,
     CowProofs!page_new, CowProofs!PTE_USTK
<1>3. ASSUME NEW t, NEW s, NEW f PROVE Cow!kstack_insert(t, s, f) = CowProofs!kstack_insert(t, s, f)
  <2> DEFINE g == Cow!Fresh(t)
             h == CowProofs!Fresh(t)
             y == Cow!page_alloc(t)
             z == CowProofs!page_alloc(t)
             Put(x, u) == [u EXCEPT !.ref[f] = @ + 1, !.ref[x] = 1, !.space[s].ktable = x, !.space[s].kstack = f]
             PutI(u) == Put(g, u)
             PutP(u) == Put(h, u)
  <2>1. Cow!kstack_insert(t, s, f) = Cow!On(y, PutI) /\ CowProofs!kstack_insert(t, s, f) = CowProofs!On(z, PutP)
    BY DEF Cow!kstack_insert, CowProofs!kstack_insert
  <2>2. g = h
    BY Zenon DEF Cow!Fresh, CowProofs!Fresh, Cow!Min, CowProofs!Min
  <2>3. y = z
    BY <2>2 DEF Cow!page_alloc, CowProofs!page_alloc
  <2> HIDE DEF g, h, y, z, Put
  <2>4. \A u : PutI(u) = PutP(u)
    BY <2>2
  <2> HIDE DEF PutI, PutP
  <2>5. Cow!On(y, PutI) = PutI(y)
    BY Zenon DEF Cow!On
  <2>6. CowProofs!On(z, PutP) = PutP(z)
    BY Zenon DEF CowProofs!On
  <2>7. QED BY <2>1, <2>3, <2>4, <2>5, <2>6
<1>4. \A t, f : Cow!page_decrease_ref(t, f) = CowProofs!page_decrease_ref(t, f)
  BY Zenon DEF
     Cow!page_decrease_ref, Cow!Drop, Cow!Frames, CowProofs!page_decrease_ref, CowProofs!Drop,
     CowProofs!Frames
<1>5. ASSUME NEW t, NEW s PROVE Cow!pgdir_free(t, s) = CowProofs!pgdir_free(t, s)
  BY DEF Cow!pgdir_free, Cow!Drop, Cow!Frames, Cow!Vas, Cow!Tables, Cow!Cardinality,
     CowProofs!pgdir_free, CowProofs!Drop, CowProofs!Frames, CowProofs!Vas, CowProofs!Tables, CowProofs!Cardinality
<1>6. ASSUME NEW t, NEW s PROVE Cow!kernel_free(t, s) = CowProofs!kernel_free(t, s)
  <2> DEFINE Dir(u) == [Cow!page_decrease_ref(u, t.space[s].dir) EXCEPT !.space[s] = None]
             DirP(u) == [CowProofs!page_decrease_ref(u, t.space[s].dir) EXCEPT !.space[s] = None]
             y == Cow!page_decrease_ref(t, t.space[s].kstack)
             z == CowProofs!page_decrease_ref(t, t.space[s].kstack)
  <2>1. Cow!kernel_free(t, s) = Cow!On(y, Dir) /\ CowProofs!kernel_free(t, s) = CowProofs!On(z, DirP)
    BY DEF Cow!kernel_free, CowProofs!kernel_free
  <2>2. y = z /\ \A u : Dir(u) = DirP(u)
    BY <1>4
  <2> HIDE DEF Dir, DirP, y, z
  <2>3. Cow!On(y, Dir) = Dir(y)
    BY Zenon DEF Cow!On
  <2>4. CowProofs!On(z, DirP) = DirP(z)
    BY Zenon DEF CowProofs!On
  <2>5. QED BY <2>1, <2>2, <2>3, <2>4
<1>7. QED BY <1>1, <1>2, <1>3, <1>4, <1>5, <1>6

LEMMA CowFailure == ASSUME NEW p, Cow!ExecFailure(p) PROVE CowProofs!ExecFailure(p)
<1>1. PICK n \in 0 .. 1 :
         LET Free(y) == [Cow!page_decrease_ref(Cow!pgdir_free(y, New), y.space[New].dir) EXCEPT !.space[New] = None]
             Program(y) == Cow!On(Cow!Image(y, New, n, zero), Free)
         IN  m' = Cow!On(Cow!setup_vm(m, New), Program)
  BY Zenon DEF Cow!ExecFailure
<1> DEFINE Free(y) == [Cow!page_decrease_ref(Cow!pgdir_free(y, New), y.space[New].dir) EXCEPT !.space[New] = None]
           Program(y) == Cow!On(Cow!Image(y, New, n, zero), Free)
           FreeP(y) == [CowProofs!page_decrease_ref(CowProofs!pgdir_free(y, New), y.space[New].dir) EXCEPT !.space[New] = None]
           ProgramP(y) == CowProofs!On(CowProofs!Image(y, New, n, zero), FreeP)
<1>2. \A y : Free(y) = FreeP(y)
  BY CowPieces
<1>3. m' = Cow!On(Cow!setup_vm(m, New), Program)
  BY <1>1
<1> HIDE DEF Free, FreeP
<1>4. \A y : Program(y) = Free(Cow!Image(y, New, n, zero)) /\ ProgramP(y) = FreeP(CowProofs!Image(y, New, n, zero))
  BY Zenon DEF Cow!On, CowProofs!On
<1> HIDE DEF Program, ProgramP
<1>5. Cow!On(Cow!setup_vm(m, New), Program) = Program(Cow!setup_vm(m, New))
  BY Zenon DEF Cow!On
<1>6. CowProofs!On(CowProofs!setup_vm(m, New), ProgramP) = ProgramP(CowProofs!setup_vm(m, New))
  BY Zenon DEF CowProofs!On
<1>7. m' = CowProofs!On(CowProofs!setup_vm(m, New), ProgramP)
  BY <1>2, <1>3, <1>4, <1>5, <1>6, CowPieces
<1>8. /\ CowProofs!Runs(p) /\ CowProofs!Enough(1 + 2 + CowProofs!Cardinality(CowProofs!Tables))
      /\ CowProofs!Same /\ UNCHANGED panic
  BY Zenon DEF Cow!ExecFailure, Cow!Runs, Cow!Enough, Cow!Tables, Cow!Vas, Cow!Cardinality, Cow!Same,
     CowProofs!Runs, CowProofs!Enough, CowProofs!Tables, CowProofs!Vas, CowProofs!Cardinality, CowProofs!Same
<1>9. QED BY <1>7, <1>8, Zenon DEF CowProofs!ExecFailure, ProgramP, FreeP

LEMMA HeapPieces ==
  /\ \A t, s : Heap!setup_vm(t, s) = HeapProofs!setup_vm(t, s)
  /\ \A t, s, n, v : Heap!Image(t, s, n, v) = HeapProofs!Image(t, s, n, v)
  /\ \A t, s, f : Heap!kstack_insert(t, s, f) = HeapProofs!kstack_insert(t, s, f)
  /\ \A t, s : Heap!pgdir_free(t, s) = HeapProofs!pgdir_free(t, s)
  /\ \A t, s : Heap!kernel_free(t, s) = HeapProofs!kernel_free(t, s)
  /\ \A t, f : Heap!page_decrease_ref(t, f) = HeapProofs!page_decrease_ref(t, f)
<1>1. \A t, s : Heap!setup_vm(t, s) = HeapProofs!setup_vm(t, s)
  BY Zenon DEF
     Heap!setup_vm, Heap!On, Heap!page_alloc, Heap!Fresh, Heap!Min, Heap!Frames, Heap!Vas,
     Heap!Tables, HeapProofs!setup_vm, HeapProofs!On, HeapProofs!page_alloc, HeapProofs!Fresh,
     HeapProofs!Min, HeapProofs!Frames, HeapProofs!Vas, HeapProofs!Tables
<1>2. \A t, s, n, v : Heap!Image(t, s, n, v) = HeapProofs!Image(t, s, n, v)
  BY ZenonT(60) DEF
     Heap!Image, Heap!On, Heap!page_alloc, Heap!Fresh, Heap!Min, Heap!Frames, Heap!Vas,
     Heap!Tables, Heap!Drop, Heap!page_decrease_ref, Heap!WithTable, Heap!pgdir_walk,
     Heap!page_remove, Heap!Entry, Heap!page_insert, Heap!page_new, Heap!PTE_USTK,
     HeapProofs!Image, HeapProofs!On, HeapProofs!page_alloc, HeapProofs!Fresh, HeapProofs!Min,
     HeapProofs!Frames, HeapProofs!Vas, HeapProofs!Tables, HeapProofs!Drop,
     HeapProofs!page_decrease_ref, HeapProofs!WithTable, HeapProofs!pgdir_walk,
     HeapProofs!page_remove, HeapProofs!Entry, HeapProofs!page_insert, HeapProofs!page_new,
     HeapProofs!PTE_USTK
<1>3. ASSUME NEW t, NEW s, NEW f PROVE Heap!kstack_insert(t, s, f) = HeapProofs!kstack_insert(t, s, f)
  <2> DEFINE g == Heap!Fresh(t)
             h == HeapProofs!Fresh(t)
             y == Heap!page_alloc(t)
             z == HeapProofs!page_alloc(t)
             Put(x, u) == [u EXCEPT !.ref[f] = @ + 1, !.ref[x] = 1, !.space[s].ktable = x, !.space[s].kstack = f]
             PutI(u) == Put(g, u)
             PutP(u) == Put(h, u)
  <2>1. Heap!kstack_insert(t, s, f) = Heap!On(y, PutI) /\ HeapProofs!kstack_insert(t, s, f) = HeapProofs!On(z, PutP)
    BY DEF Heap!kstack_insert, HeapProofs!kstack_insert
  <2>2. g = h
    BY Zenon DEF Heap!Fresh, HeapProofs!Fresh, Heap!Min, HeapProofs!Min
  <2>3. y = z
    BY <2>2 DEF Heap!page_alloc, HeapProofs!page_alloc
  <2> HIDE DEF g, h, y, z, Put
  <2>4. \A u : PutI(u) = PutP(u)
    BY <2>2
  <2> HIDE DEF PutI, PutP
  <2>5. Heap!On(y, PutI) = PutI(y)
    BY Zenon DEF Heap!On
  <2>6. HeapProofs!On(z, PutP) = PutP(z)
    BY Zenon DEF HeapProofs!On
  <2>7. QED BY <2>1, <2>3, <2>4, <2>5, <2>6
<1>4. \A t, f : Heap!page_decrease_ref(t, f) = HeapProofs!page_decrease_ref(t, f)
  BY Zenon DEF
     Heap!page_decrease_ref, Heap!Drop, Heap!Frames, HeapProofs!page_decrease_ref,
     HeapProofs!Drop, HeapProofs!Frames
<1>5. ASSUME NEW t, NEW s PROVE Heap!pgdir_free(t, s) = HeapProofs!pgdir_free(t, s)
  BY DEF Heap!pgdir_free, Heap!Drop, Heap!Frames, Heap!Vas, Heap!Tables, Heap!Cardinality,
     HeapProofs!pgdir_free, HeapProofs!Drop, HeapProofs!Frames, HeapProofs!Vas, HeapProofs!Tables, HeapProofs!Cardinality
<1>6. ASSUME NEW t, NEW s PROVE Heap!kernel_free(t, s) = HeapProofs!kernel_free(t, s)
  <2> DEFINE Dir(u) == [Heap!page_decrease_ref(u, t.space[s].dir) EXCEPT !.space[s] = None]
             DirP(u) == [HeapProofs!page_decrease_ref(u, t.space[s].dir) EXCEPT !.space[s] = None]
             y == Heap!page_decrease_ref(t, t.space[s].kstack)
             z == HeapProofs!page_decrease_ref(t, t.space[s].kstack)
  <2>1. Heap!kernel_free(t, s) = Heap!On(y, Dir) /\ HeapProofs!kernel_free(t, s) = HeapProofs!On(z, DirP)
    BY DEF Heap!kernel_free, HeapProofs!kernel_free
  <2>2. y = z /\ \A u : Dir(u) = DirP(u)
    BY <1>4
  <2> HIDE DEF Dir, DirP, y, z
  <2>3. Heap!On(y, Dir) = Dir(y)
    BY Zenon DEF Heap!On
  <2>4. HeapProofs!On(z, DirP) = DirP(z)
    BY Zenon DEF HeapProofs!On
  <2>5. QED BY <2>1, <2>2, <2>3, <2>4
<1>7. QED BY <1>1, <1>2, <1>3, <1>4, <1>5, <1>6

LEMMA HeapFailure == ASSUME NEW p, Heap!ExecFailure(p) PROVE HeapProofs!ExecFailure(p)
<1>1. PICK n \in 0 .. 1 :
         LET Free(y) == [Heap!page_decrease_ref(Heap!pgdir_free(y, New), y.space[New].dir) EXCEPT !.space[New] = None]
             Program(y) == Heap!On(Heap!Image(y, New, n, zero), Free)
         IN  m' = Heap!On(Heap!setup_vm(m, New), Program)
  BY Zenon DEF Heap!ExecFailure
<1> DEFINE Free(y) == [Heap!page_decrease_ref(Heap!pgdir_free(y, New), y.space[New].dir) EXCEPT !.space[New] = None]
           Program(y) == Heap!On(Heap!Image(y, New, n, zero), Free)
           FreeP(y) == [HeapProofs!page_decrease_ref(HeapProofs!pgdir_free(y, New), y.space[New].dir) EXCEPT !.space[New] = None]
           ProgramP(y) == HeapProofs!On(HeapProofs!Image(y, New, n, zero), FreeP)
<1>2. \A y : Free(y) = FreeP(y)
  BY HeapPieces
<1>3. m' = Heap!On(Heap!setup_vm(m, New), Program)
  BY <1>1
<1> HIDE DEF Free, FreeP
<1>4. \A y : Program(y) = Free(Heap!Image(y, New, n, zero)) /\ ProgramP(y) = FreeP(HeapProofs!Image(y, New, n, zero))
  BY Zenon DEF Heap!On, HeapProofs!On
<1> HIDE DEF Program, ProgramP
<1>5. Heap!On(Heap!setup_vm(m, New), Program) = Program(Heap!setup_vm(m, New))
  BY Zenon DEF Heap!On
<1>6. HeapProofs!On(HeapProofs!setup_vm(m, New), ProgramP) = ProgramP(HeapProofs!setup_vm(m, New))
  BY Zenon DEF HeapProofs!On
<1>7. m' = HeapProofs!On(HeapProofs!setup_vm(m, New), ProgramP)
  BY <1>2, <1>3, <1>4, <1>5, <1>6, HeapPieces
<1>8. /\ HeapProofs!Runs(p) /\ HeapProofs!Enough(1 + 2 + HeapProofs!Cardinality(HeapProofs!Tables))
      /\ HeapProofs!Same /\ UNCHANGED panic
  BY Zenon DEF Heap!ExecFailure, Heap!Runs, Heap!Enough, Heap!Tables, Heap!Vas, Heap!Cardinality, Heap!Same,
     HeapProofs!Runs, HeapProofs!Enough, HeapProofs!Tables, HeapProofs!Vas, HeapProofs!Cardinality, HeapProofs!Same
<1>9. QED BY <1>7, <1>8, Zenon DEF HeapProofs!ExecFailure, ProgramP, FreeP

LEMMA CowExec == ASSUME NEW p, Cow!Exec(p) PROVE CowProofs!Exec(p)
<1>1. PICK n \in 1 .. 1, v \in {zero, one} \ {zero} :
         /\ LET Old(t) == Cow!kernel_free(Cow!pgdir_free(t, p), p)
                Switch(t) == LET Done(u) == [u EXCEPT !.space[p] = t.space[New], !.space[New] = None] IN Cow!On(Old(t), Done)
                Stack(t) == Cow!On(Cow!kstack_insert(t, New, m.space[p].kstack), Switch)
                Program(t) == Cow!On(Cow!Image(t, New, n, v), Stack)
            IN  m' = Cow!On(Cow!setup_vm(m, New), Program)
         /\ base_mem_sz' = [base_mem_sz EXCEPT ![p] = 2 + n]
         /\ heap_ptr' = [heap_ptr EXCEPT ![p] = 2 + n]
  BY Zenon DEF Cow!Exec
<1> DEFINE Old(y) == Cow!kernel_free(Cow!pgdir_free(y, p), p)
           Done(y, u) == [u EXCEPT !.space[p] = y.space[New], !.space[New] = None]
           Switch(y) == LET Done1(u) == [u EXCEPT !.space[p] = y.space[New], !.space[New] = None] IN Cow!On(Old(y), Done1)
           Stack(y) == Cow!On(Cow!kstack_insert(y, New, m.space[p].kstack), Switch)
           Program(y) == Cow!On(Cow!Image(y, New, n, v), Stack)
<1>2. m' = Cow!On(Cow!setup_vm(m, New), Program)
  BY <1>1
<1>3. \A y : Switch(y) = Done(y, Old(y))
  <2> HIDE DEF Old
  <2> QED BY Zenon DEF Cow!On
<1> HIDE DEF Switch
<1>4. \A y : Stack(y) = Switch(Cow!kstack_insert(y, New, m.space[p].kstack))
  BY Zenon DEF Cow!On
<1> HIDE DEF Stack
<1>5. \A y : Program(y) = Stack(Cow!Image(y, New, n, v))
  BY Zenon DEF Cow!On
<1> HIDE DEF Program
<1>6. Cow!On(Cow!setup_vm(m, New), Program) = Program(Cow!setup_vm(m, New))
  BY Zenon DEF Cow!On
<1>7. PICK a, b, c, d, e :
         /\ a = CowProofs!setup_vm(m, New) /\ b = CowProofs!Image(a, New, n, v)
         /\ c = CowProofs!kstack_insert(b, New, m.space[p].kstack)
         /\ d = CowProofs!pgdir_free(c, p) /\ e = CowProofs!kernel_free(d, p)
         /\ CowProofs!ExecMem(m, p, n, v) = CowProofs!Switched(e, c, p)
  BY CowProofs!ExecIs
<1>8. a = Cow!setup_vm(m, New) /\ b = Cow!Image(a, New, n, v) /\ c = Cow!kstack_insert(b, New, m.space[p].kstack)
  BY <1>7, CowPieces
<1>9. Old(c) = e
  BY <1>7, CowPieces
<1> HIDE DEF Old
<1>10. m' = Done(c, e)
  <2>1. m' = Program(a)
    BY <1>2, <1>6, <1>8
  <2>2. Program(a) = Stack(b)
    BY <1>5, <1>8
  <2>3. Stack(b) = Switch(c)
    BY <1>4, <1>8
  <2> HIDE DEF Done
  <2>4. Switch(c) = Done(c, e)
    BY <1>3, <1>9
  <2>5. QED BY <2>1, <2>2, <2>3, <2>4
<1>11. m' = CowProofs!ExecMem(m, p, n, v)
  BY <1>7, <1>10 DEF CowProofs!Switched
<1>12. /\ CowProofs!Runs(p) /\ CowProofs!Enough(1 + 2 + CowProofs!Cardinality(CowProofs!Tables))
       /\ UNCHANGED <<status, parent, fork, panic>>
  BY Zenon DEF Cow!Exec, Cow!Runs, Cow!Enough, Cow!Tables, Cow!Vas, Cow!Cardinality,
     CowProofs!Runs, CowProofs!Enough, CowProofs!Tables, CowProofs!Vas, CowProofs!Cardinality
<1>13. QED BY <1>1, <1>11, <1>12, Zenon DEF CowProofs!Exec, CowProofs!ExecMem

\* What MCMemory says of an instance of Vm is what the theorems say of the same
\* instance of VmProofs: all definitions are those of Vm.
LEMMA CowSame ==
  /\ Cow!Init => CowProofs!Init
  /\ Cow!Next => CowProofs!Next
<1>1. Cow!Init => CowProofs!Init
  BY ZenonT(60) DEF
     Cow!Frames, Cow!Vas, Cow!Tables, Cow!PTE_USTK, Cow!On, Cow!Fresh, Cow!page_alloc, Cow!Drop,
     Cow!page_decrease_ref, Cow!WithTable, Cow!pgdir_walk, Cow!page_remove, Cow!Entry,
     Cow!page_insert, Cow!page_new, Cow!setup_vm, Cow!kstack_insert, Cow!proc_setup_vm, Cow!Image,
     Cow!NoSpace, Cow!Blank, Cow!Init, Cow!Min, CowProofs!Frames, CowProofs!Vas, CowProofs!Tables,
     CowProofs!PTE_USTK, CowProofs!On, CowProofs!Fresh, CowProofs!page_alloc, CowProofs!Drop,
     CowProofs!page_decrease_ref, CowProofs!WithTable, CowProofs!pgdir_walk, CowProofs!page_remove,
     CowProofs!Entry, CowProofs!page_insert, CowProofs!page_new, CowProofs!setup_vm,
     CowProofs!kstack_insert, CowProofs!proc_setup_vm, CowProofs!Image, CowProofs!NoSpace,
     CowProofs!Blank, CowProofs!Init, CowProofs!Min
<1>2. ASSUME NEW p, Cow!Write(p) PROVE CowProofs!Write(p)
  BY <1>2, Zenon DEF
     Cow!Vas, Cow!Present, Cow!Perm, Cow!Runs, Cow!Same, Cow!Write, CowProofs!Vas,
     CowProofs!Present, CowProofs!Perm, CowProofs!Runs, CowProofs!Same, CowProofs!Write
<1>3. ASSUME NEW p, Cow!CowFault(p) PROVE CowProofs!CowFault(p)
  BY <1>3, ZenonT(60) DEF
     Cow!Frames, Cow!Vas, Cow!PFTEMP, Cow!PTE_USTK, Cow!On, Cow!Enough, Cow!Fresh, Cow!page_alloc,
     Cow!Drop, Cow!page_decrease_ref, Cow!WithTable, Cow!pgdir_walk, Cow!page_remove, Cow!Entry,
     Cow!page_insert, Cow!page_new, Cow!Present, Cow!Perm, Cow!user_page_map, Cow!cow_pgfault,
     Cow!Runs, Cow!Same, Cow!CowFault, Cow!Min, Cow!Cardinality, CowProofs!Frames, CowProofs!Vas,
     CowProofs!PFTEMP, CowProofs!PTE_USTK, CowProofs!On, CowProofs!Enough, CowProofs!Fresh,
     CowProofs!page_alloc, CowProofs!Drop, CowProofs!page_decrease_ref, CowProofs!WithTable,
     CowProofs!pgdir_walk, CowProofs!page_remove, CowProofs!Entry, CowProofs!page_insert,
     CowProofs!page_new, CowProofs!Present, CowProofs!Perm, CowProofs!user_page_map,
     CowProofs!cow_pgfault, CowProofs!Runs, CowProofs!Same, CowProofs!CowFault, CowProofs!Min,
     CowProofs!Cardinality
<1>4. ASSUME NEW p, Cow!WriteFaultNoTable(p) PROVE CowProofs!WriteFaultNoTable(p)
  BY <1>4, Zenon DEF
     Cow!Vas, Cow!Runs, Cow!Same, Cow!WriteFaultNoTable, CowProofs!Vas, CowProofs!Runs,
     CowProofs!Same, CowProofs!WriteFaultNoTable
<1>5. ASSUME NEW p, Cow!HeapFault(p) PROVE CowProofs!HeapFault(p)
  BY <1>5 DEF Cow!HeapFault
<1>6. ASSUME NEW p, Cow!CopyOut(p) PROVE CowProofs!CopyOut(p)
  BY <1>6, Zenon DEF
     Cow!Present, Cow!Perm, Cow!Runs, Cow!Same, Cow!CopyOut, CowProofs!Present, CowProofs!Perm,
     CowProofs!Runs, CowProofs!Same, CowProofs!CopyOut
<1>7. ASSUME NEW p, Cow!CopyNext(p) PROVE CowProofs!CopyNext(p)
  BY <1>7, ZenonT(60) DEF
     Cow!Frames, Cow!On, Cow!Enough, Cow!Fresh, Cow!page_alloc, Cow!Drop, Cow!page_decrease_ref,
     Cow!WithTable, Cow!pgdir_walk, Cow!page_remove, Cow!Entry, Cow!page_insert, Cow!Present,
     Cow!user_page_map, Cow!duppage, Cow!Left, Cow!CopyNext, Cow!Min, Cow!Cardinality,
     CowProofs!Frames, CowProofs!On, CowProofs!Enough, CowProofs!Fresh, CowProofs!page_alloc,
     CowProofs!Drop, CowProofs!page_decrease_ref, CowProofs!WithTable, CowProofs!pgdir_walk,
     CowProofs!page_remove, CowProofs!Entry, CowProofs!page_insert, CowProofs!Present,
     CowProofs!user_page_map, CowProofs!duppage, CowProofs!Left, CowProofs!CopyNext, CowProofs!Min,
     CowProofs!Cardinality
<1>8. ASSUME NEW p, Cow!EndFork(p) PROVE CowProofs!EndFork(p)
  BY <1>8, Zenon DEF
     Cow!Present, Cow!Left, Cow!EndFork, CowProofs!Present, CowProofs!Left, CowProofs!EndFork
<1>9. ASSUME NEW p, Cow!Exit(p) PROVE CowProofs!Exit(p)
  BY <1>9, Zenon DEF
     Cow!Frames, Cow!Vas, Cow!Tables, Cow!Drop, Cow!pgdir_free, Cow!Runs, Cow!Exit, Cow!Cardinality,
     CowProofs!Frames, CowProofs!Vas, CowProofs!Tables, CowProofs!Drop, CowProofs!pgdir_free,
     CowProofs!Runs, CowProofs!Exit, CowProofs!Cardinality
<1>10. ASSUME NEW p, Cow!Exec(p) PROVE CowProofs!Exec(p)
  BY <1>10, CowExec
<1>11. ASSUME NEW p, Cow!ExecFailure(p) PROVE CowProofs!ExecFailure(p)
  BY <1>11, CowFailure
<1>12. ASSUME NEW p, Cow!brk(p) PROVE CowProofs!brk(p)
  BY <1>12 DEF Cow!brk
<1>13. ASSUME NEW p, Cow!sbrkMore(p) PROVE CowProofs!sbrkMore(p)
  BY <1>13 DEF Cow!sbrkMore
<1>14. ASSUME NEW p, Cow!sbrkLess(p) PROVE CowProofs!sbrkLess(p)
  BY <1>14 DEF Cow!sbrkLess
<1>15. ASSUME NEW p, NEW q, Cow!StartFork(p, q) PROVE CowProofs!StartFork(p, q)
  BY <1>15, ZenonT(60) DEF
     Cow!Vas, Cow!Tables, Cow!On, Cow!Enough, Cow!Fresh, Cow!page_alloc, Cow!setup_vm,
     Cow!kstack_insert, Cow!proc_setup_vm, Cow!Runs, Cow!StartFork, Cow!Min, Cow!Cardinality,
     CowProofs!Vas, CowProofs!Tables, CowProofs!On, CowProofs!Enough, CowProofs!Fresh,
     CowProofs!page_alloc, CowProofs!setup_vm, CowProofs!kstack_insert, CowProofs!proc_setup_vm,
     CowProofs!Runs, CowProofs!StartFork, CowProofs!Min, CowProofs!Cardinality
<1>16. ASSUME NEW p, NEW q, Cow!Wait(p, q) PROVE CowProofs!Wait(p, q)
  BY <1>16, Zenon DEF
     Cow!Frames, Cow!On, Cow!Drop, Cow!page_decrease_ref, Cow!kernel_free, Cow!Runs, Cow!Wait,
     CowProofs!Frames, CowProofs!On, CowProofs!Drop, CowProofs!page_decrease_ref,
     CowProofs!kernel_free, CowProofs!Runs, CowProofs!Wait
<1>17. QED BY <1>1, <1>2, <1>3, <1>4, <1>5, <1>6, <1>7, <1>8, <1>9, <1>10, <1>11, <1>12, <1>13, <1>14, <1>15, <1>16 DEF Cow!Next, CowProofs!Next

LEMMA CowAssumed == CowProofs!VmAssumption
BY MemoryAssumption, Zenon DEF
   Cow!Frames, Cow!Vas, Cow!Tables, Cow!PTE_SYSCALL, Cow!Entries, Cow!Space, Cow!VmAssumption,
   Cow!Drop, Cow!Runs, Cow!Removed, Cow!brk, Cow!Cardinality, Cow!IsFiniteSet, CowProofs!Frames,
   CowProofs!Vas, CowProofs!Tables, CowProofs!PTE_SYSCALL, CowProofs!Entries, CowProofs!Space,
   CowProofs!VmAssumption, CowProofs!Drop, CowProofs!Runs, CowProofs!Removed, CowProofs!brk,
   CowProofs!Cardinality, CowProofs!IsFiniteSet

LEMMA HeapSame ==
  /\ Heap!Init => HeapProofs!Init
  /\ Heap!Next => HeapProofs!Next
<1>1. Heap!Init => HeapProofs!Init
  BY ZenonT(60) DEF
     Heap!Frames, Heap!Vas, Heap!Tables, Heap!PTE_USTK, Heap!On, Heap!Fresh, Heap!page_alloc,
     Heap!Drop, Heap!page_decrease_ref, Heap!WithTable, Heap!pgdir_walk, Heap!page_remove,
     Heap!Entry, Heap!page_insert, Heap!page_new, Heap!setup_vm, Heap!kstack_insert,
     Heap!proc_setup_vm, Heap!Image, Heap!NoSpace, Heap!Blank, Heap!Init, Heap!Min,
     HeapProofs!Frames, HeapProofs!Vas, HeapProofs!Tables, HeapProofs!PTE_USTK, HeapProofs!On,
     HeapProofs!Fresh, HeapProofs!page_alloc, HeapProofs!Drop, HeapProofs!page_decrease_ref,
     HeapProofs!WithTable, HeapProofs!pgdir_walk, HeapProofs!page_remove, HeapProofs!Entry,
     HeapProofs!page_insert, HeapProofs!page_new, HeapProofs!setup_vm, HeapProofs!kstack_insert,
     HeapProofs!proc_setup_vm, HeapProofs!Image, HeapProofs!NoSpace, HeapProofs!Blank,
     HeapProofs!Init, HeapProofs!Min
<1>2. ASSUME NEW p, Heap!Write(p) PROVE HeapProofs!Write(p)
  BY <1>2, Zenon DEF
     Heap!Vas, Heap!Present, Heap!Perm, Heap!Runs, Heap!Same, Heap!Write, HeapProofs!Vas,
     HeapProofs!Present, HeapProofs!Perm, HeapProofs!Runs, HeapProofs!Same, HeapProofs!Write
<1>3. ASSUME NEW p, Heap!CowFault(p) PROVE HeapProofs!CowFault(p)
  BY <1>3, ZenonT(60) DEF
     Heap!Frames, Heap!Vas, Heap!PFTEMP, Heap!PTE_USTK, Heap!On, Heap!Enough, Heap!Fresh,
     Heap!page_alloc, Heap!Drop, Heap!page_decrease_ref, Heap!WithTable, Heap!pgdir_walk,
     Heap!page_remove, Heap!Entry, Heap!page_insert, Heap!page_new, Heap!Present, Heap!Perm,
     Heap!user_page_map, Heap!cow_pgfault, Heap!Runs, Heap!Same, Heap!CowFault, Heap!Min,
     Heap!Cardinality, HeapProofs!Frames, HeapProofs!Vas, HeapProofs!PFTEMP, HeapProofs!PTE_USTK,
     HeapProofs!On, HeapProofs!Enough, HeapProofs!Fresh, HeapProofs!page_alloc, HeapProofs!Drop,
     HeapProofs!page_decrease_ref, HeapProofs!WithTable, HeapProofs!pgdir_walk,
     HeapProofs!page_remove, HeapProofs!Entry, HeapProofs!page_insert, HeapProofs!page_new,
     HeapProofs!Present, HeapProofs!Perm, HeapProofs!user_page_map, HeapProofs!cow_pgfault,
     HeapProofs!Runs, HeapProofs!Same, HeapProofs!CowFault, HeapProofs!Min, HeapProofs!Cardinality
<1>4. ASSUME NEW p, Heap!WriteFaultNoTable(p) PROVE HeapProofs!WriteFaultNoTable(p)
  BY <1>4, Zenon DEF
     Heap!Vas, Heap!Runs, Heap!Same, Heap!WriteFaultNoTable, HeapProofs!Vas, HeapProofs!Runs,
     HeapProofs!Same, HeapProofs!WriteFaultNoTable
<1>5. ASSUME NEW p, Heap!HeapFault(p) PROVE HeapProofs!HeapFault(p)
  <2>1. ASSUME NEW t, NEW s, NEW va, NEW perm
        PROVE  Heap!page_new(t, s, va, perm) = HeapProofs!page_new(t, s, va, perm)
    BY ZenonT(30) DEF
       Heap!Frames, Heap!On, Heap!Fresh, Heap!page_alloc, Heap!Drop, Heap!page_decrease_ref,
       Heap!WithTable, Heap!pgdir_walk, Heap!page_remove, Heap!Entry, Heap!page_insert,
       Heap!page_new, Heap!Min, HeapProofs!Frames, HeapProofs!On, HeapProofs!Fresh,
       HeapProofs!page_alloc, HeapProofs!Drop, HeapProofs!page_decrease_ref, HeapProofs!WithTable,
       HeapProofs!pgdir_walk, HeapProofs!page_remove, HeapProofs!Entry, HeapProofs!page_insert,
       HeapProofs!page_new, HeapProofs!Min
  <2>2. ASSUME NEW t, NEW s, NEW va, NEW aligned
        PROVE  Heap!proc_region_alloc(t, s, va, aligned) = HeapProofs!proc_region_alloc(t, s, va, aligned)
    <3> DEFINE A == Heap!page_new(t, s, va, Heap!PTE_SYSCALL)
               N(u) == IF aligned THEN u ELSE Heap!page_new(u, s, va + 1, Heap!PTE_SYSCALL)
               B == HeapProofs!page_new(t, s, va, HeapProofs!PTE_SYSCALL)
               M(u) == IF aligned THEN u ELSE HeapProofs!page_new(u, s, va + 1, HeapProofs!PTE_SYSCALL)
    <3>1. Heap!proc_region_alloc(t, s, va, aligned) = Heap!On(A, N)
      BY DEF Heap!proc_region_alloc
    <3>2. HeapProofs!proc_region_alloc(t, s, va, aligned) = HeapProofs!On(B, M)
      BY DEF HeapProofs!proc_region_alloc
    <3>3. Heap!On(A, N) = N(A) /\ HeapProofs!On(B, M) = M(B)
      <4> HIDE DEF A, B, N, M
      <4> QED BY Zenon DEF Heap!On, HeapProofs!On
    <3>4. Heap!PTE_SYSCALL = HeapProofs!PTE_SYSCALL
      BY DEF Heap!PTE_SYSCALL, HeapProofs!PTE_SYSCALL
    <3>5. N(A) = M(B)
      BY <2>1, <3>4, Zenon
    <3>6. QED BY <3>1, <3>2, <3>3, <3>5
  <2>3. QED BY <1>5, <2>2, Zenon DEF
       Heap!Vas, Heap!Enough, Heap!Present, Heap!Runs, Heap!Same, Heap!Region, Heap!HeapFault,
       Heap!Cardinality, HeapProofs!Vas, HeapProofs!Enough, HeapProofs!Present, HeapProofs!Runs,
       HeapProofs!Same, HeapProofs!Region, HeapProofs!HeapFault, HeapProofs!Cardinality
<1>6. ASSUME NEW p, Heap!CopyOut(p) PROVE HeapProofs!CopyOut(p)
  BY <1>6 DEF Heap!CopyOut
<1>7. ASSUME NEW p, Heap!CopyNext(p) PROVE HeapProofs!CopyNext(p)
  BY <1>7, ZenonT(60) DEF
     Heap!Frames, Heap!On, Heap!Enough, Heap!Fresh, Heap!page_alloc, Heap!Drop,
     Heap!page_decrease_ref, Heap!WithTable, Heap!pgdir_walk, Heap!page_remove, Heap!Entry,
     Heap!page_insert, Heap!Present, Heap!user_page_map, Heap!duppage, Heap!Left, Heap!CopyNext,
     Heap!Min, Heap!Cardinality, HeapProofs!Frames, HeapProofs!On, HeapProofs!Enough,
     HeapProofs!Fresh, HeapProofs!page_alloc, HeapProofs!Drop, HeapProofs!page_decrease_ref,
     HeapProofs!WithTable, HeapProofs!pgdir_walk, HeapProofs!page_remove, HeapProofs!Entry,
     HeapProofs!page_insert, HeapProofs!Present, HeapProofs!user_page_map, HeapProofs!duppage,
     HeapProofs!Left, HeapProofs!CopyNext, HeapProofs!Min, HeapProofs!Cardinality
<1>8. ASSUME NEW p, Heap!EndFork(p) PROVE HeapProofs!EndFork(p)
  BY <1>8, Zenon DEF
     Heap!Present, Heap!Left, Heap!EndFork, HeapProofs!Present, HeapProofs!Left, HeapProofs!EndFork
<1>9. ASSUME NEW p, Heap!Exit(p) PROVE HeapProofs!Exit(p)
  BY <1>9, Zenon DEF
     Heap!Frames, Heap!Vas, Heap!Tables, Heap!Drop, Heap!pgdir_free, Heap!Runs, Heap!Exit,
     Heap!Cardinality, HeapProofs!Frames, HeapProofs!Vas, HeapProofs!Tables, HeapProofs!Drop,
     HeapProofs!pgdir_free, HeapProofs!Runs, HeapProofs!Exit, HeapProofs!Cardinality
\* Heap has no program to load: zero is its only value.
<1>10. ASSUME NEW p, Heap!Exec(p) PROVE HeapProofs!Exec(p)
  <2>1. ~ \E n \in 1 .. 1, v \in {zero} \ {zero} : TRUE
    OBVIOUS
  <2>2. QED BY <1>10, <2>1, Zenon DEF Heap!Exec
<1>11. ASSUME NEW p, Heap!ExecFailure(p) PROVE HeapProofs!ExecFailure(p)
  BY <1>11, HeapFailure
<1>12. ASSUME NEW p, Heap!brk(p) PROVE HeapProofs!brk(p)
  BY <1>12, Zenon DEF
     Heap!Frames, Heap!Vas, Heap!Drop, Heap!Runs, Heap!Removed, Heap!brk, Heap!Cardinality,
     HeapProofs!Frames, HeapProofs!Vas, HeapProofs!Drop, HeapProofs!Runs, HeapProofs!Removed,
     HeapProofs!brk, HeapProofs!Cardinality
<1>13. ASSUME NEW p, Heap!sbrkMore(p) PROVE HeapProofs!sbrkMore(p)
  BY <1>13, Zenon DEF
     Heap!Runs, Heap!sbrkMore, HeapProofs!Runs, HeapProofs!sbrkMore
<1>14. ASSUME NEW p, Heap!sbrkLess(p) PROVE HeapProofs!sbrkLess(p)
  BY <1>14, Zenon DEF
     Heap!Frames, Heap!Vas, Heap!HALF, Heap!Drop, Heap!Runs, Heap!Removed, Heap!Breaks,
     Heap!sbrkLess, Heap!Cardinality, HeapProofs!Frames, HeapProofs!Vas, HeapProofs!HALF,
     HeapProofs!Drop, HeapProofs!Runs, HeapProofs!Removed, HeapProofs!Breaks, HeapProofs!sbrkLess,
     HeapProofs!Cardinality
<1>15. ASSUME NEW p, NEW q, Heap!StartFork(p, q) PROVE HeapProofs!StartFork(p, q)
  BY <1>15, ZenonT(60) DEF
     Heap!Vas, Heap!Tables, Heap!On, Heap!Enough, Heap!Fresh, Heap!page_alloc, Heap!setup_vm,
     Heap!kstack_insert, Heap!proc_setup_vm, Heap!Runs, Heap!StartFork, Heap!Min, Heap!Cardinality,
     HeapProofs!Vas, HeapProofs!Tables, HeapProofs!On, HeapProofs!Enough, HeapProofs!Fresh,
     HeapProofs!page_alloc, HeapProofs!setup_vm, HeapProofs!kstack_insert, HeapProofs!proc_setup_vm,
     HeapProofs!Runs, HeapProofs!StartFork, HeapProofs!Min, HeapProofs!Cardinality
<1>16. ASSUME NEW p, NEW q, Heap!Wait(p, q) PROVE HeapProofs!Wait(p, q)
  BY <1>16, Zenon DEF
     Heap!Frames, Heap!On, Heap!Drop, Heap!page_decrease_ref, Heap!kernel_free, Heap!Runs,
     Heap!Wait, HeapProofs!Frames, HeapProofs!On, HeapProofs!Drop, HeapProofs!page_decrease_ref,
     HeapProofs!kernel_free, HeapProofs!Runs, HeapProofs!Wait
<1>17. QED BY <1>1, <1>2, <1>3, <1>4, <1>5, <1>6, <1>7, <1>8, <1>9, <1>10, <1>11, <1>12, <1>13, <1>14, <1>15, <1>16 DEF Heap!Next, HeapProofs!Next

LEMMA HeapAssumed == HeapProofs!VmAssumption
BY MemoryAssumption, Zenon DEF
   Heap!Frames, Heap!Vas, Heap!Tables, Heap!PTE_SYSCALL, Heap!Entries, Heap!Space,
   Heap!VmAssumption, Heap!Drop, Heap!Runs, Heap!Removed, Heap!brk, Heap!Cardinality,
   Heap!IsFiniteSet, HeapProofs!Frames, HeapProofs!Vas, HeapProofs!Tables, HeapProofs!PTE_SYSCALL,
   HeapProofs!Entries, HeapProofs!Space, HeapProofs!VmAssumption, HeapProofs!Drop, HeapProofs!Runs,
   HeapProofs!Removed, HeapProofs!brk, HeapProofs!Cardinality, HeapProofs!IsFiniteSet

LEMMA PropertiesSame ==
  /\ CowProofs!RefsExact => Cow!RefsExact
  /\ CowProofs!WritableIsPrivate => Cow!WritableIsPrivate
  /\ HeapProofs!RefsExact => Heap!RefsExact
<1>1. CowProofs!RefsExact => Cow!RefsExact
  BY Zenon DEF
     Cow!Frames, Cow!Vas, Cow!Tables, Cow!Live, Cow!Uses, Cow!RefsExact, Cow!Cardinality,
     CowProofs!Frames, CowProofs!Vas, CowProofs!Tables, CowProofs!Live, CowProofs!Uses,
     CowProofs!RefsExact, CowProofs!Cardinality
<1>2. CowProofs!WritableIsPrivate => Cow!WritableIsPrivate
  BY Zenon DEF
     Cow!Vas, Cow!Tables, Cow!Live, Cow!Uses, Cow!WritableIsPrivate, Cow!Cardinality, CowProofs!Vas,
     CowProofs!Tables, CowProofs!Live, CowProofs!Uses, CowProofs!WritableIsPrivate,
     CowProofs!Cardinality
<1>3. HeapProofs!RefsExact => Heap!RefsExact
  BY Zenon DEF
     Heap!Frames, Heap!Vas, Heap!Tables, Heap!Live, Heap!Uses, Heap!RefsExact, Heap!Cardinality,
     HeapProofs!Frames, HeapProofs!Vas, HeapProofs!Tables, HeapProofs!Live, HeapProofs!Uses,
     HeapProofs!RefsExact, HeapProofs!Cardinality
<1>4. QED BY <1>1, <1>2, <1>3

LEMMA ContentsSame == Cow!Contents' = CowProofs!Contents'
BY Zenon DEF
   Cow!Vas, Cow!PFTEMP, Cow!Contents, CowProofs!Vas, CowProofs!PFTEMP, CowProofs!Contents

LEMMA MemorySame ==
  /\ Cow!Contents = CowProofs!Contents
  /\ CowProofs!Private!Init => Cow!Private!Init
  /\ CowProofs!Private!Next => Cow!Private!Next
<1>1. Cow!Contents = CowProofs!Contents
  BY Zenon DEF Cow!Vas, Cow!PFTEMP, Cow!Contents, CowProofs!Vas, CowProofs!PFTEMP, CowProofs!Contents
<1>2. CowProofs!Private!Init => Cow!Private!Init
  BY <1>1, Zenon DEF Cow!Private!Init, CowProofs!Private!Init, Cow!Vas, CowProofs!Vas, Cow!PFTEMP, CowProofs!PFTEMP
<1>3. ASSUME NEW p, CowProofs!Private!Store(p) PROVE Cow!Private!Store(p)
  BY <1>3, Zenon DEF Cow!Private!Store, CowProofs!Private!Store,
     Cow!Vas, Cow!PFTEMP, Cow!Contents, CowProofs!Vas, CowProofs!PFTEMP, CowProofs!Contents
<1>4. ASSUME NEW p, CowProofs!Private!Remap(p) PROVE Cow!Private!Remap(p)
  BY <1>4, Zenon DEF Cow!Private!Remap, CowProofs!Private!Remap,
     Cow!Vas, Cow!PFTEMP, Cow!Contents, CowProofs!Vas, CowProofs!PFTEMP, CowProofs!Contents
<1>5. ASSUME NEW p, CowProofs!Private!Load(p) PROVE Cow!Private!Load(p)
  BY <1>5, Zenon DEF Cow!Private!Load, CowProofs!Private!Load,
     Cow!Vas, Cow!PFTEMP, Cow!Contents, CowProofs!Vas, CowProofs!PFTEMP, CowProofs!Contents
<1>6. ASSUME NEW p, NEW q, CowProofs!Private!CopyPage(p, q) PROVE Cow!Private!CopyPage(p, q)
  BY <1>6, Zenon DEF Cow!Private!CopyPage, CowProofs!Private!CopyPage,
     Cow!Vas, Cow!PFTEMP, Cow!Contents, CowProofs!Vas, CowProofs!PFTEMP, CowProofs!Contents
<1>7. CowProofs!Private!Next => Cow!Private!Next
  BY <1>3, <1>4, <1>5, <1>6 DEF Cow!Private!Next, CowProofs!Private!Next
<1>8. QED BY <1>1, <1>2, <1>7

-----------------------------------------------------------------------------
(* The theorems about address spaces.                                       *)

\* The address spaces that move have their invariant.
VmInv ==
    /\ part = "cow" => CowProofs!IInv
    /\ part = "heap" => HeapProofs!IInv

LEMMA InitVm == MCInit => VmInv /\ (part = "cow" => Cow!Private!Init)
<1> SUFFICES ASSUME MCInit PROVE VmInv /\ (part = "cow" => Cow!Private!Init)
  OBVIOUS
<1>1. CASE part = "cow"
  <2>1. CowProofs!Init
    BY <1>1, CowSame DEF MCInit
  <2>2. CowProofs!IInv
    BY <2>1, CowAssumed, CowProofs!InitOk
  <2>3. CowProofs!Private!Init
    BY <2>1, CowAssumed, CowProofs!FirstSight
  <2>4. QED BY <1>1, <2>2, <2>3, MemorySame DEF VmInv
<1>2. CASE part = "heap"
  <2>1. HeapProofs!Init
    BY <1>2, HeapSame DEF MCInit
  <2>2. HeapProofs!IInv
    BY <2>1, HeapAssumed, HeapProofs!InitOk
  <2>3. QED BY <1>2, <2>2 DEF VmInv
<1>3. QED BY <1>1, <1>2 DEF VmInv

LEMMA StepVm ==
  ASSUME VmInv, [MCNext]_<<part, vars, buddyVars, slabVars, vmVars>>
  PROVE  VmInv' /\ (part = "cow" => Cow!Private!Next \/ UNCHANGED Cow!Contents)
<1>1. part' = part
  BY DEF MCNext
<1>2. CASE part = "cow"
  <2>1. Cow!Next \/ UNCHANGED vmVars
    BY <1>2 DEF MCNext
  <2>2. UNCHANGED vmVars => UNCHANGED CowProofs!vars
    BY DEF vmVars, CowProofs!vars
  <2>3. [CowProofs!Next]_CowProofs!vars
    BY <2>1, <2>2, CowSame
  <2>4. CowProofs!IInv
    BY <1>2 DEF VmInv
  <2>5. CowProofs!IInv'
    BY <2>3, <2>4, CowAssumed, CowProofs!NextStep, CowProofs!StutterStep
  <2>6. "heap" \notin {"read"}
    OBVIOUS
  <2>7. CowProofs!Private!Next \/ UNCHANGED CowProofs!Contents
    BY <2>3, <2>4, <2>6, CowAssumed, CowProofs!StepRefines
  <2>8. CASE CowProofs!Private!Next
    BY <1>1, <1>2, <2>5, <2>8, MemorySame DEF VmInv
  <2>9. CASE UNCHANGED CowProofs!Contents
    <3>1. UNCHANGED Cow!Contents
      BY <2>9, MemorySame, ContentsSame
    <3>2. QED BY <1>1, <1>2, <2>5, <3>1 DEF VmInv
  <2>10. QED BY <2>7, <2>8, <2>9
<1>3. CASE part = "heap"
  <2>1. Heap!Next \/ UNCHANGED vmVars
    BY <1>3 DEF MCNext
  <2>2. UNCHANGED vmVars => UNCHANGED HeapProofs!vars
    BY DEF vmVars, HeapProofs!vars
  <2>3. [HeapProofs!Next]_HeapProofs!vars
    BY <2>1, <2>2, HeapSame
  <2>4. HeapProofs!IInv
    BY <1>3 DEF VmInv
  <2>5. HeapProofs!IInv'
    BY <2>3, <2>4, HeapAssumed, HeapProofs!NextStep, HeapProofs!StutterStep
  <2>6. QED BY <1>1, <1>3, <2>5 DEF VmInv
<1>4. QED BY <1>1, <1>2, <1>3 DEF VmInv

\* p_ref is the number of entries that name a frame, with and without a heap,
\* and what one process may write while it forks is in no other address space.
THEOREM ReferencesExact == MCSpec => []RefsExact
<1>1. MCInit => VmInv
  BY InitVm
<1>2. VmInv /\ [MCNext]_<<part, vars, buddyVars, slabVars, vmVars>> => VmInv'
  BY StepVm
<1>3. VmInv => RefsExact
  <2> SUFFICES ASSUME VmInv PROVE RefsExact
    OBVIOUS
  <2>1. CASE part = "cow"
    <3>1. CowProofs!IInv /\ "heap" \notin {"read"}
      BY <2>1 DEF VmInv
    <3>2. CowProofs!RefsExact
      BY <3>1, CowAssumed, CowProofs!RefsAre
    <3>3. CowProofs!WritableIsPrivate
      BY <3>1, CowAssumed, CowProofs!WritablesAre
    <3>4. QED BY <2>1, <3>2, <3>3, PropertiesSame DEF RefsExact
  <2>2. CASE part = "heap"
    <3>1. HeapProofs!RefsExact
      BY <2>2, HeapAssumed, HeapProofs!RefsAre DEF VmInv
    <3>2. QED BY <2>2, <3>1, PropertiesSame DEF RefsExact
  <2>3. QED BY <2>1, <2>2 DEF RefsExact
<1>4. QED BY <1>1, <1>2, <1>3, PTL DEF MCSpec

\* The run's Vm implements Memory: a step shows in one process's pages only,
\* and as a store, a copy to a child, pages given back or a new program.
THEOREM MemoryIsPrivate == MCSpec => PrivateMemory
<1>1. MCInit => VmInv /\ (part = "cow" => Cow!Private!Init)
  BY InitVm
<1>2. VmInv /\ [MCNext]_<<part, vars, buddyVars, slabVars, vmVars>> =>
         VmInv' /\ [part = "cow" => Cow!Private!Next \/ UNCHANGED Cow!Contents]_vmVars
  BY StepVm
<1>3. QED BY <1>1, <1>2, PTL DEF MCSpec, PrivateMemory

=============================================================================
