--------------------------- MODULE StorageProofs ---------------------------
(***************************************************************************)
(* Proofs about Bio, for any number of processes, buffers, blocks and      *)
(* values: the free list, the sleepers, and that the cache implements      *)
(* BlockStore.                                                             *)
(*                                                                         *)
(* What MCStorage checks of its two logs follows from LogProofs, and is    *)
(* proved here for MCSpec: the same definitions, once as instances of Log  *)
(* and once as instances of LogProofs.                                     *)
(***************************************************************************)
EXTENDS MCStorage, FiniteSetTheorems, SequenceTheorems, TLAPS

-----------------------------------------------------------------------------
(* The inductive invariant.                                                 *)

\* A buffer is busy in the hands of one process.
Owned ==
    /\ \A p, r \in Procs : \A b \in held[p] : b \in held[r] => p = r
    /\ \A b \in Bufs : "BUSY" \in flag[b] <=> \E p \in Procs : b \in held[p]

\* What a process waits for.
Places ==
    \A p \in Procs :
        /\ pc[p] \in {"run", "getblk", "sleep_free"} => at[p] = {}
        /\ pc[p] = "io" => \E b \in held[p] : at[p] = {b}
        /\ pc[p] \in {"getblk", "sleep_buf", "sleep_free"} => want[p] \in Blocks

\* A block has one buffer, and a buffer in use has a block.
Hashed ==
    /\ \A b, c \in Bufs : blockno[b] = blockno[c] /\ blockno[b] \in Blocks => b = c
    /\ \A b \in Bufs : flag[b] # {} => blockno[b] \in Blocks

\* A valid buffer equals its block, a dirty one is newer, and one that is
\* neither is being read by its owner.
Contents ==
    /\ \A b \in Bufs : "VALID" \in flag[b] => "DIRTY" \notin flag[b] /\ data[b] = disk[blockno[b]]
    /\ \A b \in Bufs : blockno[b] \in Blocks =>
          \/ "VALID" \in flag[b] \/ "DIRTY" \in flag[b]
          \/ \E p \in Procs : pc[p] = "io" /\ b \in at[p]
    /\ \A p \in Procs : pc[p] = "io" => \A b \in at[p] : "VALID" \notin flag[b]

BInv == TypeOK /\ Owned /\ Places /\ Hashed /\ Contents /\ FreeIsClean /\ NobodySleepsOverFree

-----------------------------------------------------------------------------
(* Lists without repetitions.                                               *)

\* A list that may be a free list, and its elements.
FreeList(s, F) == s \in Seq(Bufs) /\ IsInjective(s) /\ ToSet(s) = F

\* The initial free list has every buffer once.
LEMMA AllBuffers == FreeList(SetToSeq(Bufs), Bufs)
<1> DEFINE n == Cardinality(Bufs)
           s == SetToSeq(Bufs)
<1>1. n \in Nat /\ ExistsBijection(1 .. n, Bufs)
  BY BioAssumption, FS_CardinalityType
<1>2. \E f \in [1 .. n -> Bufs] : IsInjective(f)
  BY <1>1 DEF ExistsBijection, Bijection, Injection
<1>3. s \in [1 .. n -> Bufs] /\ IsInjective(s)
  BY <1>2 DEF SetToSeq
<1>4. s \in Seq(Bufs) /\ DOMAIN s = 1 .. n
  BY <1>1, <1>3
<1>5. IsFiniteSet(1 .. n) /\ Cardinality(1 .. n) = n
  BY <1>1, FS_Interval
<1>6. s \in Injection(1 .. n, Bufs)
  BY <1>3 DEF Injection
<1>7. s \in Surjection(1 .. n, Bufs)
  BY <1>1, <1>5, <1>6, BioAssumption, FS_Injection
<1>8. ToSet(s) = Bufs
  BY <1>3, <1>4, <1>7 DEF ToSet, Surjection
<1>9. QED BY <1>3, <1>4, <1>8 DEF FreeList

LEMMA ListAppend ==
  ASSUME NEW s, NEW F, FreeList(s, F), NEW b \in Bufs \ F
  PROVE  FreeList(Append(s, b), F \cup {b})
<1> DEFINE t == Append(s, b)
<1>1. s \in Seq(Bufs) /\ Len(s) \in Nat /\ DOMAIN s = 1 .. Len(s)
  BY LenProperties DEF FreeList
<1>2. /\ t \in Seq(Bufs) /\ Len(t) = Len(s) + 1 /\ DOMAIN t = 1 .. Len(s) + 1
      /\ (\A i \in 1 .. Len(s) : t[i] = s[i]) /\ t[Len(s) + 1] = b
  BY <1>1, AppendProperties, LenProperties
<1>3. \A i \in 1 .. Len(s) + 1 : i \in 1 .. Len(s) \/ i = Len(s) + 1
  BY <1>1
<1>4. \A i \in 1 .. Len(s) : s[i] \in F /\ i \in 1 .. Len(s) + 1
  BY <1>1 DEF FreeList, ToSet
<1>5. IsInjective(t)
  BY <1>1, <1>2, <1>3, <1>4 DEF FreeList, IsInjective
<1>a. Len(s) + 1 \in 1 .. Len(s) + 1
  BY <1>1
<1>6. ToSet(t) = F \cup {b}
  <2>1. ToSet(t) \subseteq F \cup {b}
    BY <1>2, <1>3, <1>4 DEF ToSet
  <2>2. F \subseteq ToSet(t)
    BY <1>1, <1>2, <1>4 DEF FreeList, ToSet
  <2>3. b \in ToSet(t)
    BY <1>2, <1>a DEF ToSet
  <2>4. QED BY <2>1, <2>2, <2>3
<1>7. QED BY <1>2, <1>5, <1>6 DEF FreeList

\* Taking out position i.
LEMMA ListRemoveAt ==
  ASSUME NEW s, NEW F, FreeList(s, F), NEW i \in 1 .. Len(s)
  PROVE  FreeList(RemoveAt(s, i), F \ {s[i]})
<1> DEFINE n == Len(s)
           t == RemoveAt(s, i)
           u == SubSeq(s, 1, i - 1)
           v == SubSeq(s, i + 1, n)
<1>0. n \in Nat /\ i \in Int /\ 1 <= i /\ i <= n
  BY LenProperties DEF FreeList
<1>1. s \in Seq(Bufs) /\ n \in Nat /\ DOMAIN s = 1 .. n /\ \A j \in 1 .. n : s[j] \in Bufs
  BY LenProperties, ElementOfSeq DEF FreeList
<1>2. u \in Seq(Bufs) /\ Len(u) = i - 1 /\ \A j \in 1 .. i - 1 : u[j] = s[j]
  <2>1. \A j \in 1 .. i - 1 : s[j] \in Bufs
    BY <1>1
  <2>2. i - 1 \in Int /\ 1 \in Int /\ i - 1 - 1 + 1 = i - 1
    BY <1>1
  <2>3. /\ u \in Seq(Bufs)
        /\ Len(u) = IF 1 <= i - 1 THEN (i - 1) - 1 + 1 ELSE 0
        /\ \A j \in 1 .. (i - 1) - 1 + 1 : u[j] = s[1 + j - 1]
    BY <2>1, <2>2, SubSeqProperties
  <2>4. (IF 1 <= i - 1 THEN (i - 1) - 1 + 1 ELSE 0) = i - 1 /\ \A j \in 1 .. i - 1 : 1 + j - 1 = j
    BY <1>0
  <2>5. QED BY <2>2, <2>3, <2>4
<1>3. v \in Seq(Bufs) /\ Len(v) = n - i /\ \A j \in 1 .. n - i : v[j] = s[i + j]
  <2>1. \A j \in i + 1 .. n : s[j] \in Bufs
    BY <1>1
  <2>2. i + 1 \in Int /\ n \in Int
    BY <1>0, <1>1
  <2>3. /\ v \in Seq(Bufs)
        /\ Len(v) = IF i + 1 <= n THEN n - (i + 1) + 1 ELSE 0
        /\ \A j \in 1 .. n - (i + 1) + 1 : v[j] = s[(i + 1) + j - 1]
    BY <2>1, <2>2, SubSeqProperties
  <2>4. n - (i + 1) + 1 = n - i /\ (i + 1 <= n \/ n - i = 0)
    <3> HIDE DEF n
    <3>1. QED BY <1>0
  <2>5. \A j \in 1 .. n - i : (i + 1) + j - 1 = i + j
    BY <1>0, <1>1
  <2>6. Len(v) = n - i
    BY <1>0, <2>3, <2>4
  <2>7. QED BY <2>3, <2>4, <2>5, <2>6
<1>4. /\ t \in Seq(Bufs) /\ Len(t) = n - 1
      /\ \A j \in 1 .. n - 1 : t[j] = IF j < i THEN s[j] ELSE s[j + 1]
  <2>1. /\ t \in Seq(Bufs) /\ Len(t) = (i - 1) + (n - i)
        /\ \A j \in 1 .. (i - 1) + (n - i) : t[j] = IF j <= i - 1 THEN u[j] ELSE v[j - (i - 1)]
    <3>1. t = u \o v
      BY DEF RemoveAt
    <3> HIDE DEF t, u, v, n
    <3>2. /\ u \o v \in Seq(Bufs) /\ Len(u \o v) = Len(u) + Len(v)
          /\ \A j \in 1 .. Len(u) + Len(v) : (u \o v)[j] = IF j <= Len(u) THEN u[j] ELSE v[j - Len(u)]
      BY <1>2, <1>3, ConcatProperties
    <3>3. QED BY <1>2, <1>3, <3>1, <3>2
  <2>2. (i - 1) + (n - i) = n - 1
    BY <1>1
  <2>3. ASSUME NEW j \in 1 .. n - 1 PROVE t[j] = IF j < i THEN s[j] ELSE s[j + 1]
    <3>1. CASE j < i
      BY <1>1, <1>2, <2>1, <2>2, <3>1
    <3>2. CASE ~(j < i)
      <4>1. j - (i - 1) \in 1 .. n - i /\ i + (j - (i - 1)) = j + 1
        BY <1>1, <3>2
      <4>2. t[j] = v[j - (i - 1)]
        BY <1>1, <2>1, <2>2, <3>2
      <4>3. QED BY <1>3, <3>2, <4>1, <4>2
    <3>3. QED BY <3>1, <3>2
  <2>4. QED BY <2>1, <2>2, <2>3
<1>5. DOMAIN t = 1 .. n - 1
  BY <1>4, LenProperties
<1>6. \A j \in 1 .. n - 1 : (j \in 1 .. n /\ j + 1 \in 1 .. n)
  BY <1>1
<1>7. IsInjective(t)
  <2> SUFFICES ASSUME NEW j \in 1 .. n - 1, NEW k \in 1 .. n - 1, t[j] = t[k] PROVE j = k
    BY <1>5 DEF IsInjective
  <2>1. \A x, y \in 1 .. n : s[x] = s[y] => x = y
    BY <1>1 DEF FreeList, IsInjective
  <2>2. QED BY <1>1, <1>4, <1>6, <2>1
<1>8. ToSet(t) = F \ {s[i]}
  <2>1. \A x, y \in 1 .. n : s[x] = s[y] => x = y
    BY <1>1 DEF FreeList, IsInjective
  <2>2. F = {s[x] : x \in 1 .. n} /\ ToSet(t) = {t[x] : x \in 1 .. n - 1}
    BY <1>1, <1>5 DEF FreeList, ToSet
  <2>3. ASSUME NEW x \in 1 .. n - 1 PROVE t[x] \in F \ {s[i]}
    <3>1. CASE x < i
      BY <1>1, <1>4, <1>6, <2>1, <2>2, <3>1
    <3>2. CASE ~(x < i)
      <4>1. x + 1 \in 1 .. n /\ x + 1 # i
        BY <1>1, <3>2
      <4>2. QED BY <1>4, <2>1, <2>2, <3>2, <4>1
    <3>3. QED BY <3>1, <3>2
  <2>4. ASSUME NEW x \in 1 .. n, s[x] # s[i] PROVE s[x] \in ToSet(t)
    <3>1. CASE x < i
      <4>1. x \in 1 .. n - 1 /\ t[x] = s[x]
        BY <1>1, <1>4, <3>1
      <4>2. QED BY <2>2, <4>1
    <3>2. CASE x > i
      <4>1. x - 1 \in 1 .. n - 1 /\ ~(x - 1 < i) /\ (x - 1) + 1 = x
        BY <1>1, <3>2
      <4>2. t[x - 1] = s[x]
        BY <1>4, <4>1
      <4>3. QED BY <2>2, <4>1, <4>2
    <3>3. x < i \/ x > i
      BY <2>4, <1>1
    <3>4. QED BY <3>1, <3>2, <3>3
  <2>5. QED BY <2>2, <2>3, <2>4
<1>9. QED BY <1>4, <1>7, <1>8 DEF FreeList

LEMMA ListTail ==
  ASSUME NEW s, NEW F, FreeList(s, F), s # <<>>
  PROVE  Head(s) \in F /\ FreeList(Tail(s), F \ {Head(s)})
<1>1. s \in Seq(Bufs) /\ Len(s) \in Nat \ {0} /\ DOMAIN s = 1 .. Len(s)
  BY LenProperties, EmptySeq DEF FreeList
<1>2. 1 \in 1 .. Len(s) /\ Head(s) = s[1]
  BY <1>1
<1>3. FreeList(RemoveAt(s, 1), F \ {s[1]})
  BY <1>2, ListRemoveAt
<1>4. RemoveAt(s, 1) = Tail(s)
  <2>1. SubSeq(s, 1, 1 - 1) = <<>>
    BY SubSeqEmpty
  <2>2. Tail(s) = SubSeq(s, 2, Len(s)) /\ Tail(s) \in Seq(Bufs)
    BY <1>1, TailIsSubSeq, HeadTailProperties
  <2>3. QED BY <2>1, <2>2, ConcatEmptySeq DEF RemoveAt
<1>5. QED BY <1>1, <1>2, <1>3, <1>4 DEF FreeList, ToSet

\* list_del of a buffer that may be on the list or not.
LEMMA ListUnlink ==
  ASSUME NEW s, NEW F, FreeList(s, F), NEW b
  PROVE  FreeList(RemoveFirst(s, b), F \ {b})
<1>1. s \in Seq(Bufs) /\ Len(s) \in Nat /\ DOMAIN s = 1 .. Len(s)
  BY LenProperties DEF FreeList
<1>2. CASE \E i \in 1 .. Len(s) : s[i] = b
  <2>1. PICK i \in 1 .. Len(s) : s[i] = b
    BY <1>2
  <2>2. \A j \in 1 .. Len(s) : s[j] = b => j = i
    BY <1>1, <2>1 DEF FreeList, IsInjective
  <2>3. {j \in 1 .. Len(s) : s[j] = b} = {i}
    BY <2>1, <2>2
  <2>4. Min({i}) = i
    BY <1>1 DEF Min
  <2>5. RemoveFirst(s, b) = RemoveAt(s, i)
    BY <1>2, <2>3, <2>4 DEF RemoveFirst, SelectInSeq
  <2>6. QED BY <2>1, <2>5, ListRemoveAt
<1>3. CASE ~\E i \in 1 .. Len(s) : s[i] = b
  <2>1. RemoveFirst(s, b) = s
    BY <1>3 DEF RemoveFirst
  <2>2. b \notin F
    BY <1>1, <1>3 DEF FreeList, ToSet
  <2>3. QED BY <2>1, <2>2 DEF FreeList
<1>4. QED BY <1>2, <1>3

LEMMA ListEmpty ==
  ASSUME NEW s, NEW F, FreeList(s, F)
  PROVE  s = <<>> <=> F = {}
<1>1. s \in Seq(Bufs) /\ Len(s) \in Nat /\ DOMAIN s = 1 .. Len(s)
  BY LenProperties DEF FreeList
<1>2. s = <<>> => F = {}
  BY <1>1 DEF FreeList, ToSet
<1>3. s # <<>> => 1 \in DOMAIN s
  BY <1>1, EmptySeq
<1>4. s # <<>> => s[1] \in F
  BY <1>3 DEF FreeList, ToSet
<1>5. QED BY <1>2, <1>4

-----------------------------------------------------------------------------
(* The steps.                                                               *)

\* Types but for the free list.
Kinds ==
    /\ blockno \in [Bufs -> Blocks \cup {NoBlock}] /\ data \in [Bufs -> Values]
    /\ flag \in [Bufs -> SUBSET {"BUSY", "VALID", "DIRTY"}]
    /\ disk \in [Blocks -> Values] /\ held \in [Procs -> SUBSET Bufs]
    /\ at \in [Procs -> SUBSET Bufs] /\ want \in [Procs -> Blocks \cup {NoBlock}]
    /\ pc \in [Procs -> {"run", "getblk", "sleep_buf", "sleep_free", "io"}]

\* The buffers on the free list.
Free == ToSet(free_list)

LEMMA TypeParts == TypeOK <=> Kinds /\ FreeList(free_list, Free)
BY DEF TypeOK, Kinds, FreeList, Free

LEMMA InitBInv == buffer_init => BInv
<1> SUFFICES ASSUME buffer_init PROVE BInv
  OBVIOUS
<1> USE DEF buffer_init
<1>1. (CHOOSE v \in Values : TRUE) \in Values
  BY BioAssumption
<1>2. Kinds
  BY <1>1 DEF Kinds
<1>3. FreeList(free_list, Bufs)
  BY AllBuffers
<1>4. TypeOK
  BY <1>2, <1>3, TypeParts DEF FreeList, Free
<1>5. Owned /\ Places /\ Hashed
  BY BioAssumption DEF Owned, Places, Hashed
<1>6. Contents
  BY BioAssumption DEF Contents
<1>7. FreeIsClean /\ NobodySleepsOverFree
  BY <1>3 DEF FreeIsClean, NobodySleepsOverFree, FreeList
<1>8. QED BY <1>4, <1>5, <1>6, <1>7 DEF BInv

\* getblk gives buffer b to p: from the hash, or as the first free one.
LEMMA TakeStep ==
  ASSUME BInv, NEW p \in Procs, NEW b \in Bufs, pc[p] = "getblk", "BUSY" \notin flag[b],
         NEW new \in SUBSET {"BUSY", "VALID", "DIRTY"}, flag' = [flag EXCEPT ![b] = new],
         "BUSY" \in new, "DIRTY" \in new <=> "DIRTY" \in flag[b],
         "VALID" \in new => "VALID" \in flag[b] /\ blockno' = blockno,
         blockno' = [blockno EXCEPT ![b] = want[p]], \A c \in Bufs \ {b} : blockno[c] # want[p],
         UNCHANGED <<data, disk, want>>, FreeList(free_list', Free \ {b}), Got(p, b)
  PROVE  BInv'
<1>1. Kinds /\ FreeList(free_list, Free)
  BY TypeParts DEF BInv
<1>2. want[p] \in Blocks
  BY DEF BInv, Places
<1>3. \A c \in Bufs : flag'[c] = IF c = b THEN new ELSE flag[c]
  BY <1>1 DEF Kinds
<1>4. \A c \in Bufs : blockno'[c] = IF c = b THEN want[p] ELSE blockno[c]
  BY <1>1 DEF Kinds
<1>5. \A r \in Procs : held'[r] = IF r = p THEN held[p] \cup {b} ELSE held[r]
  BY <1>1 DEF Kinds, Got
<1>6. /\ \A r \in Procs \ {p} : pc'[r] = pc[r] /\ at'[r] = at[r]
      /\ IF "VALID" \in new THEN pc'[p] = "run" /\ at'[p] = {} ELSE pc'[p] = "io" /\ at'[p] = {b}
  BY <1>1, <1>3 DEF Kinds, Got, Goto
<1>7. Kinds'
  <2>1. \/ pc' = [pc EXCEPT ![p] = "run"] /\ at' = [at EXCEPT ![p] = {}]
        \/ pc' = [pc EXCEPT ![p] = "io"] /\ at' = [at EXCEPT ![p] = {b}]
    BY DEF Got, Goto
  <2>2. held' = [held EXCEPT ![p] = held[p] \cup {b}]
    BY DEF Got
  <2>3. held' \in [Procs -> SUBSET Bufs] /\ at' \in [Procs -> SUBSET Bufs]
    BY <1>1, <2>1, <2>2 DEF Kinds
  <2>4. QED BY <1>1, <1>2, <2>1, <2>3 DEF Kinds
<1>8. ToSet(free_list') = Free \ {b}
  BY DEF FreeList
<1>9. TypeOK'
  <2>1. FreeList(free_list', Free')
    BY <1>8 DEF FreeList, Free
  <2>2. QED BY <1>7, <2>1, TypeParts DEF FreeList, Free, TypeOK, Kinds
<1>10. \A r \in Procs : b \notin held[r]
  BY DEF BInv, Owned
<1>11. Owned'
  <2>1. \A q, r \in Procs : \A c \in held'[q] : c \in held'[r] => q = r
    BY <1>5, <1>10 DEF BInv, Owned
  <2>2. \A c \in Bufs : "BUSY" \in flag'[c] <=> \E q \in Procs : c \in held'[q]
    BY <1>3, <1>5 DEF BInv, Owned
  <2>3. QED BY <2>1, <2>2 DEF Owned
<1>12. Places'
  <2> SUFFICES ASSUME NEW r \in Procs
               PROVE  /\ pc'[r] \in {"run", "getblk", "sleep_free"} => at'[r] = {}
                      /\ pc'[r] = "io" => \E c \in held'[r] : at'[r] = {c}
                      /\ pc'[r] \in {"getblk", "sleep_buf", "sleep_free"} => want'[r] \in Blocks
    BY DEF Places
  <2>1. CASE r = p
    BY <1>5, <1>6, <2>1
  <2>2. CASE r # p
    BY <1>5, <1>6, <2>2 DEF BInv, Places
  <2>3. QED BY <2>1, <2>2
<1>13. Hashed'
  BY <1>2, <1>3, <1>4 DEF BInv, Hashed
<1>14. Contents'
  <2>1. \A c \in Bufs : "VALID" \in flag'[c] => "DIRTY" \notin flag'[c] /\ data'[c] = disk'[blockno'[c]]
    BY <1>3, <1>4 DEF BInv, Contents
  <2>2. ASSUME NEW c \in Bufs, blockno'[c] \in Blocks
        PROVE  \/ "VALID" \in flag'[c] \/ "DIRTY" \in flag'[c]
               \/ \E r \in Procs : pc'[r] = "io" /\ c \in at'[r]
    <3>1. CASE c = b
      BY <1>3, <1>6, <3>1
    <3>2. CASE c # b
      BY <1>3, <1>4, <1>6, <2>2, <3>2 DEF BInv, Contents
    <3>3. QED BY <3>1, <3>2
  <2>3. ASSUME NEW r \in Procs, pc'[r] = "io", NEW c \in at'[r] PROVE "VALID" \notin flag'[c]
    <3>1. CASE r = p
      BY <1>3, <1>6, <2>3, <3>1
    <3>2. CASE r # p
      <4>1. pc[r] = "io" /\ c \in at[r]
        BY <1>6, <2>3, <3>2
      <4>2. c \in held[r]
        BY <4>1 DEF BInv, Places
      <4>3. c # b /\ c \in Bufs
        BY <1>1, <1>10, <4>2 DEF Kinds
      <4>4. QED BY <1>3, <4>1, <4>3 DEF BInv, Contents
    <3>3. QED BY <3>1, <3>2
  <2>4. QED BY <2>1, <2>2, <2>3 DEF Contents
<1>15. FreeIsClean'
  <2> SUFFICES ASSUME NEW c \in Free \ {b}
               PROVE  flag'[c] \cap {"BUSY", "DIRTY"} = {} /\ \A r \in Procs : c \notin held'[r]
    BY <1>8 DEF FreeIsClean
  <2>1. c \in Bufs
    BY <1>1, LenProperties DEF FreeList, Free, ToSet
  <2>2. QED BY <1>3, <1>5, <2>1 DEF BInv, FreeIsClean, Free
<1>16. NobodySleepsOverFree'
  <2>1. free_list = <<>> => free_list' = <<>>
    BY <1>1, ListEmpty
  <2> SUFFICES ASSUME NEW r \in Procs
               PROVE  /\ pc'[r] = "sleep_free" => free_list' = <<>>
                      /\ pc'[r] = "sleep_buf" => \A c \in at'[r] : flag'[c] \cap {"BUSY", "DIRTY"} # {}
    BY DEF NobodySleepsOverFree
  <2>2. CASE r = p
    BY <1>6, <2>2
  <2>3. CASE r # p
    <3>1. at[r] \in SUBSET Bufs
      BY <1>1 DEF Kinds
    <3>2. QED BY <1>3, <1>6, <2>1, <2>3, <3>1 DEF BInv, NobodySleepsOverFree
  <2>4. QED BY <2>2, <2>3
<1>17. QED BY <1>9, <1>11, <1>12, <1>13, <1>14, <1>15, <1>16 DEF BInv

\* p goes to another place, with the buffers as they are.
LEMMA MoveStep ==
  ASSUME BInv, NEW p \in Procs, NEW l \in {"getblk", "sleep_buf", "sleep_free"}, NEW B \in SUBSET Bufs,
         pc[p] # "io", pc' = [pc EXCEPT ![p] = l], at' = [at EXCEPT ![p] = B],
         UNCHANGED <<cacheVars, disk, held>>,
         want' \in [Procs -> Blocks \cup {NoBlock}], want'[p] \in Blocks,
         \A r \in Procs \ {p} : want'[r] = want[r],
         l # "sleep_buf" => B = {}, l = "sleep_free" => free_list = <<>>,
         l = "sleep_buf" => \A b \in B : "BUSY" \in flag[b]
  PROVE  BInv'
<1>1. Kinds /\ FreeList(free_list, Free)
  BY TypeParts DEF BInv
<1>2. \A r \in Procs : pc'[r] = (IF r = p THEN l ELSE pc[r]) /\ at'[r] = IF r = p THEN B ELSE at[r]
  BY <1>1 DEF Kinds
<1>3. UNCHANGED <<blockno, flag, data, free_list, disk, held>>
  BY DEF cacheVars
<1>4. Kinds'
  BY <1>1, <1>3 DEF Kinds
<1>5. TypeOK'
  BY <1>1, <1>3, <1>4 DEF TypeOK, Kinds, FreeList
<1>6. Owned'
  BY <1>3 DEF BInv, Owned
<1>7. Places'
  <2> SUFFICES ASSUME NEW r \in Procs
               PROVE  /\ pc'[r] \in {"run", "getblk", "sleep_free"} => at'[r] = {}
                      /\ pc'[r] = "io" => \E c \in held'[r] : at'[r] = {c}
                      /\ pc'[r] \in {"getblk", "sleep_buf", "sleep_free"} => want'[r] \in Blocks
    BY DEF Places
  <2>1. CASE r = p
    BY <1>2, <2>1
  <2>2. CASE r # p
    BY <1>2, <1>3, <2>2 DEF BInv, Places
  <2>3. QED BY <2>1, <2>2
<1>8. Hashed'
  BY <1>3 DEF BInv, Hashed
<1>9. Contents'
  <2>1. \A r \in Procs : pc'[r] = "io" => pc[r] = "io" /\ at'[r] = at[r]
    BY <1>2
  <2>2. \A r \in Procs : pc[r] = "io" => pc'[r] = "io" /\ at'[r] = at[r]
    BY <1>2
  <2>3. QED BY <1>3, <2>1, <2>2 DEF BInv, Contents
<1>10. FreeIsClean'
  BY <1>3 DEF BInv, FreeIsClean
<1>11. NobodySleepsOverFree'
  <2> SUFFICES ASSUME NEW r \in Procs
               PROVE  /\ pc'[r] = "sleep_free" => free_list' = <<>>
                      /\ pc'[r] = "sleep_buf" => \A c \in at'[r] : flag'[c] \cap {"BUSY", "DIRTY"} # {}
    BY DEF NobodySleepsOverFree
  <2>1. CASE r = p
    BY <1>2, <1>3, <2>1
  <2>2. CASE r # p
    BY <1>2, <1>3, <2>2 DEF BInv, NobodySleepsOverFree
  <2>3. QED BY <2>1, <2>2
<1>12. QED BY <1>5, <1>6, <1>7, <1>8, <1>9, <1>10, <1>11 DEF BInv

\* The owner p of b changes its contents and flags, and may go to the driver
\* with it or come back from there.
LEMMA OwnerStep ==
  ASSUME BInv, NEW p \in Procs, NEW b \in held[p], NEW l \in {"run", "io"}, pc[p] \in {"run", "io"},
         pc[p] = "io" => at[p] = {b},
         pc' = [pc EXCEPT ![p] = l], at' = [at EXCEPT ![p] = IF l = "io" THEN {b} ELSE {}],
         NEW new \in SUBSET {"BUSY", "VALID", "DIRTY"}, flag' = [flag EXCEPT ![b] = new],
         "BUSY" \in new, "VALID" \in new <=> "DIRTY" \notin new, l = "io" => "VALID" \notin new,
         data' \in [Bufs -> Values], disk' \in [Blocks -> Values],
         \A c \in Bufs \ {b} : data'[c] = data[c],
         \A k \in Blocks \ {blockno[b]} : disk'[k] = disk[k],
         "VALID" \in new => data'[b] = disk'[blockno[b]],
         UNCHANGED <<blockno, free_list, held, want>>
  PROVE  BInv'
<1>1. Kinds /\ FreeList(free_list, Free)
  BY TypeParts DEF BInv
<1>2. b \in Bufs
  BY <1>1 DEF Kinds
<1>3. /\ \A c \in Bufs : flag'[c] = IF c = b THEN new ELSE flag[c]
      /\ \A r \in Procs \ {p} : pc'[r] = pc[r] /\ at'[r] = at[r]
      /\ pc'[p] = l /\ at'[p] = IF l = "io" THEN {b} ELSE {}
  BY <1>1 DEF Kinds
<1>4. Kinds'
  <2>1. at' \in [Procs -> SUBSET Bufs]
    BY <1>1, <1>2 DEF Kinds
  <2>2. QED BY <1>1, <1>2, <2>1 DEF Kinds
<1>5. TypeOK'
  BY <1>1, <1>4 DEF TypeOK, Kinds, FreeList
<1>6. "BUSY" \in flag[b]
  BY <1>2 DEF BInv, Owned
<1>7. Owned'
  BY <1>3, <1>6 DEF BInv, Owned
<1>8. Places'
  <2> SUFFICES ASSUME NEW r \in Procs
               PROVE  /\ pc'[r] \in {"run", "getblk", "sleep_free"} => at'[r] = {}
                      /\ pc'[r] = "io" => \E c \in held'[r] : at'[r] = {c}
                      /\ pc'[r] \in {"getblk", "sleep_buf", "sleep_free"} => want'[r] \in Blocks
    BY DEF Places
  <2>1. CASE r = p
    BY <1>3, <2>1
  <2>2. CASE r # p
    BY <1>3, <2>2 DEF BInv, Places
  <2>3. QED BY <2>1, <2>2
<1>9. Hashed'
  BY <1>3, <1>6 DEF BInv, Hashed
<1>10. blockno[b] \in Blocks /\ \A c \in Bufs : c # b => blockno[c] # blockno[b]
  BY <1>2, <1>6 DEF BInv, Hashed
<1>11. Contents'
  <2>1. ASSUME NEW c \in Bufs, "VALID" \in flag'[c]
        PROVE  "DIRTY" \notin flag'[c] /\ data'[c] = disk'[blockno'[c]]
    <3>1. CASE c = b
      BY <1>3, <2>1, <3>1
    <3>2. CASE c # b
      <4>1. "VALID" \in flag[c] /\ flag'[c] = flag[c]
        BY <1>3, <2>1, <3>2
      <4>2. blockno[c] \in Blocks /\ blockno[c] # blockno[b]
        BY <1>10, <3>2, <4>1 DEF BInv, Hashed
      <4>3. QED BY <3>2, <4>1, <4>2 DEF BInv, Contents
    <3>3. QED BY <3>1, <3>2
  <2>2. ASSUME NEW c \in Bufs, blockno'[c] \in Blocks
        PROVE  \/ "VALID" \in flag'[c] \/ "DIRTY" \in flag'[c]
               \/ \E r \in Procs : pc'[r] = "io" /\ c \in at'[r]
    <3>1. CASE c = b
      BY <1>3, <3>1
    <3>2. CASE c # b
      <4>1. \A r \in Procs : pc[r] = "io" /\ c \in at[r] => r # p
        BY <3>2
      <4>2. QED BY <1>3, <2>2, <3>2, <4>1 DEF BInv, Contents
    <3>3. QED BY <3>1, <3>2
  <2>3. ASSUME NEW r \in Procs, pc'[r] = "io", NEW c \in at'[r] PROVE "VALID" \notin flag'[c]
    <3>1. CASE r = p
      BY <1>2, <1>3, <2>3, <3>1
    <3>2. CASE r # p
      <4>1. pc[r] = "io" /\ c \in at[r]
        BY <1>3, <2>3, <3>2
      <4>2. c \in held[r]
        BY <4>1 DEF BInv, Places
      <4>3. c # b /\ c \in Bufs
        BY <1>1, <3>2, <4>2 DEF Kinds, BInv, Owned
      <4>4. QED BY <1>3, <4>1, <4>3 DEF BInv, Contents
    <3>3. QED BY <3>1, <3>2
  <2>4. QED BY <2>1, <2>2, <2>3 DEF Contents
<1>12. FreeIsClean'
  <2> SUFFICES ASSUME NEW c \in Free
               PROVE  flag'[c] \cap {"BUSY", "DIRTY"} = {} /\ \A r \in Procs : c \notin held'[r]
    BY DEF FreeIsClean, Free
  <2>1. c \in Bufs
    BY <1>1, LenProperties DEF FreeList, Free, ToSet
  <2>2. c # b
    BY DEF BInv, FreeIsClean, Free
  <2>3. QED BY <1>3, <2>1, <2>2 DEF BInv, FreeIsClean, Free
<1>13. NobodySleepsOverFree'
  <2> SUFFICES ASSUME NEW r \in Procs
               PROVE  /\ pc'[r] = "sleep_free" => free_list' = <<>>
                      /\ pc'[r] = "sleep_buf" => \A c \in at'[r] : flag'[c] \cap {"BUSY", "DIRTY"} # {}
    BY DEF NobodySleepsOverFree
  <2>1. CASE r = p
    BY <1>3, <2>1
  <2>2. CASE r # p
    <3>1. at[r] \in SUBSET Bufs
      BY <1>1 DEF Kinds
    <3>2. QED BY <1>3, <2>2, <3>1 DEF BInv, NobodySleepsOverFree
  <2>3. QED BY <2>1, <2>2
<1>14. QED BY <1>5, <1>7, <1>8, <1>9, <1>11, <1>12, <1>13 DEF BInv

\* A release: a clean buffer becomes free and wakes, a dirty one does not.
LEMMA ReleaseStep ==
  ASSUME BInv, NEW p \in Procs, NEW b \in Bufs, brelse(p, b)
  PROVE  BInv'
<1>1. Kinds /\ FreeList(free_list, Free)
  BY TypeParts DEF BInv
<1>2. pc[p] = "run" /\ b \in held[p] /\ at[p] = {} /\ UNCHANGED <<blockno, data, disk, want>>
  BY DEF brelse, BInv, Places
<1>3. /\ flag' = [flag EXCEPT ![b] = (flag[b] \cup {}) \ {"BUSY"}]
      /\ held' = [held EXCEPT ![p] = held[p] \ {b}]
  BY DEF brelse, SetFlag
<1>4. /\ \A c \in Bufs : flag'[c] = IF c = b THEN flag[c] \ {"BUSY"} ELSE flag[c]
      /\ \A r \in Procs : held'[r] = IF r = p THEN held[r] \ {b} ELSE held[r]
  BY <1>1, <1>3 DEF Kinds
<1>5. "BUSY" \in flag[b] /\ \A r \in Procs : b \in held[r] => r = p
  BY <1>2 DEF BInv, Owned
<1>6. blockno[b] \in Blocks /\ ~\E r \in Procs : pc[r] = "io" /\ b \in at[r]
  <2>1. blockno[b] \in Blocks
    BY <1>5 DEF BInv, Hashed
  <2>2. \A r \in Procs : pc[r] = "io" => at[r] \subseteq held[r]
    BY DEF BInv, Places
  <2>3. QED BY <1>2, <1>5, <2>1, <2>2
<1>7. "VALID" \in flag[b] <=> "DIRTY" \notin flag[b]
  BY <1>6 DEF BInv, Contents
<1>8. Clean(b) <=> "VALID" \in flag[b]
  BY <1>7 DEF Clean
<1>9. \A r \in Procs : \/ pc'[r] = pc[r] /\ at'[r] = at[r]
                       \/ pc[r] \in {"sleep_free", "sleep_buf"} /\ pc'[r] = "getblk" /\ at'[r] = {}
  BY DEF brelse, Wakes
<1>10. Kinds' /\ FreeList(free_list', IF Clean(b) THEN Free \cup {b} ELSE Free)
  <2>1. held' \in [Procs -> SUBSET Bufs] /\ flag' \in [Bufs -> SUBSET {"BUSY", "VALID", "DIRTY"}]
    BY <1>1, <1>3 DEF Kinds
  <2>2. CASE Clean(b)
    <3>1. b \notin Free
      BY <1>5 DEF BInv, FreeIsClean, Free
    <3>2. /\ free_list' = Append(free_list, b)
          /\ pc' = [r \in Procs |-> IF r \in Wakes(b) THEN "getblk" ELSE pc[r]]
          /\ at' = [r \in Procs |-> IF r \in Wakes(b) THEN {} ELSE at[r]]
      BY <2>2 DEF brelse
    <3>3. FreeList(free_list', Free \cup {b})
      BY <1>1, <3>1, <3>2, ListAppend
    <3>4. Kinds'
      BY <1>1, <1>2, <2>1, <3>2 DEF Kinds
    <3>5. QED BY <2>2, <3>3, <3>4
  <2>3. CASE ~Clean(b)
    <3>1. UNCHANGED <<free_list, pc, at>>
      BY <2>3 DEF brelse
    <3>2. QED BY <1>1, <1>2, <2>1, <2>3, <3>1 DEF Kinds
  <2>4. QED BY <2>2, <2>3
<1>11. TypeOK'
  BY <1>10 DEF TypeOK, Kinds, FreeList
<1>12. Owned'
  <2>a. \A r \in Procs, c \in Bufs : c \in held'[r] <=> c \in held[r] /\ ~(r = p /\ c = b)
    BY <1>4
  <2>b. \A r \in Procs : held'[r] \subseteq Bufs
    BY <1>10 DEF Kinds
  <2>c. \A q, r \in Procs : \A c \in held[q] : c \in held[r] => q = r
    BY DEF BInv, Owned
  <2>1. \A q, r \in Procs : \A c \in held'[q] : c \in held'[r] => q = r
    BY <2>a, <2>b, <2>c
  <2>2. ASSUME NEW c \in Bufs PROVE "BUSY" \in flag'[c] <=> \E q \in Procs : c \in held'[q]
    <3>1. CASE c = b
      BY <1>4, <1>5, <2>a, <3>1
    <3>2. CASE c # b
      <4>1. "BUSY" \in flag[c] <=> \E q \in Procs : c \in held[q]
        BY DEF BInv, Owned
      <4>2. flag'[c] = flag[c]
        BY <1>4, <3>2
      <4>3. QED BY <2>a, <3>2, <4>1, <4>2
    <3>3. QED BY <3>1, <3>2
  <2>3. QED BY <2>1, <2>2 DEF Owned
<1>13. Places'
  <2> SUFFICES ASSUME NEW r \in Procs
               PROVE  /\ pc'[r] \in {"run", "getblk", "sleep_free"} => at'[r] = {}
                      /\ pc'[r] = "io" => \E c \in held'[r] : at'[r] = {c}
                      /\ pc'[r] \in {"getblk", "sleep_buf", "sleep_free"} => want'[r] \in Blocks
    BY DEF Places
  <2>1. CASE pc'[r] = pc[r] /\ at'[r] = at[r]
    <3>1. pc[r] = "io" => r # p
      BY <1>2
    <3>2. QED BY <1>2, <1>4, <2>1, <3>1 DEF BInv, Places
  <2>2. CASE pc[r] \in {"sleep_free", "sleep_buf"} /\ pc'[r] = "getblk" /\ at'[r] = {}
    BY <1>2, <2>2 DEF BInv, Places
  <2>3. QED BY <1>9, <2>1, <2>2
<1>14. Hashed'
  BY <1>2, <1>4 DEF BInv, Hashed
<1>15. Contents'
  <2>1. \A c \in Bufs : "VALID" \in flag'[c] => "DIRTY" \notin flag'[c] /\ data'[c] = disk'[blockno'[c]]
    BY <1>2, <1>4 DEF BInv, Contents
  <2>2. \A c \in Bufs : \A x \in {"VALID", "DIRTY"} : x \in flag'[c] <=> x \in flag[c]
    BY <1>4
  <2>3. \A r \in Procs : pc[r] = "io" <=> pc'[r] = "io"
    BY <1>9
  <2>4. \A r \in Procs : pc[r] = "io" => at'[r] = at[r] /\ at[r] \in SUBSET Bufs
    BY <1>1, <1>9 DEF Kinds
  <2>5. \A c \in Bufs : blockno'[c] \in Blocks =>
          \/ "VALID" \in flag'[c] \/ "DIRTY" \in flag'[c]
          \/ \E r \in Procs : pc'[r] = "io" /\ c \in at'[r]
    BY <1>2, <2>2, <2>3, <2>4 DEF BInv, Contents
  <2>6. \A r \in Procs : pc'[r] = "io" => \A c \in at'[r] : "VALID" \notin flag'[c]
    BY <2>2, <2>3, <2>4 DEF BInv, Contents
  <2>7. QED BY <2>1, <2>5, <2>6 DEF Contents
<1>16. FreeIsClean'
  <2>1. ToSet(free_list') = IF Clean(b) THEN Free \cup {b} ELSE Free
    BY <1>10 DEF FreeList
  <2> SUFFICES ASSUME NEW c \in ToSet(free_list')
               PROVE  flag'[c] \cap {"BUSY", "DIRTY"} = {} /\ \A r \in Procs : c \notin held'[r]
    BY DEF FreeIsClean
  <2>2. CASE c = b
    <3>1. b \notin Free
      BY <1>5 DEF BInv, FreeIsClean, Free
    <3>2. QED BY <1>4, <1>5, <1>7, <1>8, <2>1, <2>2, <3>1
  <2>3. CASE c # b
    <3>1. c \in Free
      BY <2>1, <2>3
    <3>2. c \in Bufs
      BY <1>1, <3>1, LenProperties DEF FreeList, Free, ToSet
    <3>3. QED BY <1>4, <2>3, <3>1, <3>2 DEF BInv, FreeIsClean, Free
  <2>4. QED BY <2>2, <2>3
<1>17. NobodySleepsOverFree'
  <2> SUFFICES ASSUME NEW r \in Procs
               PROVE  /\ pc'[r] = "sleep_free" => free_list' = <<>>
                      /\ pc'[r] = "sleep_buf" => \A c \in at'[r] : flag'[c] \cap {"BUSY", "DIRTY"} # {}
    BY DEF NobodySleepsOverFree
  <2>1. at[r] \in SUBSET Bufs
    BY <1>1 DEF Kinds
  <2>2. CASE Clean(b)
    <3>1. pc'[r] = (IF r \in Wakes(b) THEN "getblk" ELSE pc[r]) /\ at'[r] = IF r \in Wakes(b) THEN {} ELSE at[r]
      BY <2>2 DEF brelse
    <3>2. pc'[r] # "sleep_free" /\ (pc'[r] = "sleep_buf" => pc[r] = "sleep_buf" /\ b \notin at'[r] /\ at'[r] = at[r])
      BY <3>1 DEF Wakes
    <3>3. QED BY <1>4, <2>1, <3>2 DEF BInv, NobodySleepsOverFree
  <2>3. CASE ~Clean(b)
    <3>1. pc'[r] = pc[r] /\ at'[r] = at[r] /\ free_list' = free_list
      BY <2>3 DEF brelse
    <3>2. "DIRTY" \in flag'[b]
      BY <1>4, <1>7, <1>8, <2>3
    <3>3. \A c \in Bufs : flag[c] \cap {"BUSY", "DIRTY"} # {} => flag'[c] \cap {"BUSY", "DIRTY"} # {}
      BY <1>4, <3>2
    <3>4. QED BY <2>1, <3>1, <3>3 DEF BInv, NobodySleepsOverFree
  <2>4. QED BY <2>2, <2>3
<1>18. QED BY <1>11, <1>12, <1>13, <1>14, <1>15, <1>16, <1>17 DEF BInv

LEMMA StepBInv == BInv /\ [Next]_vars => BInv'
<1> SUFFICES ASSUME BInv, [Next]_vars PROVE BInv'
  OBVIOUS
<1>0. Kinds /\ FreeList(free_list, Free)
  BY TypeParts DEF BInv
<1>1. ASSUME NEW p \in Procs, NEW k \in Blocks, bread(p, k) PROVE BInv'
  <2>1. pc[p] = "run" /\ pc' = [pc EXCEPT ![p] = "getblk"] /\ at' = at /\ want' = [want EXCEPT ![p] = k]
    BY <1>1 DEF bread, Goto
  <2>2. at' = [at EXCEPT ![p] = {}]
    BY <1>0, <2>1 DEF BInv, Places, Kinds
  <2>3. want' \in [Procs -> Blocks \cup {NoBlock}] /\ want'[p] \in Blocks /\ \A r \in Procs \ {p} : want'[r] = want[r]
    BY <1>0, <2>1 DEF Kinds
  <2>4. UNCHANGED <<cacheVars, disk, held>>
    BY <1>1 DEF bread
  <2> DEFINE B == {}
  <2>5. /\ pc[p] # "io" /\ at' = [at EXCEPT ![p] = B] /\ B \in SUBSET Bufs /\ B = {}
        /\ pc' = [pc EXCEPT ![p] = "getblk"]
    BY <2>1, <2>2
  <2> HIDE DEF B
  <2>6. QED BY <2>3, <2>4, <2>5, MoveStep
<1>2. ASSUME NEW p \in Procs, getblk_Busy(p) PROVE BInv'
  <2>1. PICK b \in Bufs : "BUSY" \in flag[b] /\ at' = [at EXCEPT ![p] = {b}]
    BY <1>2 DEF getblk_Busy, find_blk_in_hash
  <2>2. pc[p] = "getblk" /\ pc' = [pc EXCEPT ![p] = "sleep_buf"] /\ UNCHANGED <<cacheVars, disk, held, want>>
    BY <1>2 DEF getblk_Busy, Goto
  <2>3. want' \in [Procs -> Blocks \cup {NoBlock}] /\ want'[p] \in Blocks /\ \A r \in Procs \ {p} : want'[r] = want[r]
    BY <1>0, <2>2 DEF BInv, Places, Kinds
  <2>4. {b} \in SUBSET Bufs /\ \A c \in {b} : "BUSY" \in flag[c]
    BY <2>1
  <2>5. pc[p] # "io" /\ UNCHANGED <<cacheVars, disk, held>>
    BY <2>2
  <2> DEFINE B == {b}
  <2>6. at' = [at EXCEPT ![p] = B] /\ B \in SUBSET Bufs /\ \A c \in B : "BUSY" \in flag[c]
    BY <2>1, <2>4
  <2> HIDE DEF B
  <2>7. QED BY <2>2, <2>3, <2>5, <2>6, MoveStep
<1>3. ASSUME NEW p \in Procs, getblk_Full(p) PROVE BInv'
  <2>1. /\ pc[p] = "getblk" /\ free_list = <<>> /\ pc' = [pc EXCEPT ![p] = "sleep_free"]
        /\ at' = at /\ UNCHANGED <<cacheVars, disk, held, want>>
    BY <1>3 DEF getblk_Full, Goto
  <2>2. at' = [at EXCEPT ![p] = {}]
    BY <1>0, <2>1 DEF BInv, Places, Kinds
  <2>3. want \in [Procs -> Blocks \cup {NoBlock}] /\ want[p] \in Blocks
    BY <1>0, <2>1 DEF BInv, Places, Kinds
  <2>4. QED BY <2>1, <2>2, <2>3, MoveStep
<1>4. ASSUME NEW p \in Procs, kill(p) PROVE BInv'
  <2>1. /\ pc[p] \in {"sleep_buf", "sleep_free"} /\ pc' = [pc EXCEPT ![p] = "getblk"]
        /\ at' = [at EXCEPT ![p] = {}] /\ UNCHANGED <<cacheVars, disk, held, want>>
    BY <1>4 DEF kill, Goto
  <2>2. want' \in [Procs -> Blocks \cup {NoBlock}] /\ want'[p] \in Blocks /\ \A r \in Procs \ {p} : want'[r] = want[r]
    BY <1>0, <2>1 DEF BInv, Places, Kinds
  <2>3. /\ pc[p] # "io" /\ UNCHANGED <<cacheVars, disk, held>>
        /\ pc' = [pc EXCEPT ![p] = "getblk"] /\ at' = [at EXCEPT ![p] = {}]
    BY <2>1
  <2> DEFINE l == "getblk"
             B == {}
  <2>4. /\ l \in {"getblk", "sleep_buf", "sleep_free"} /\ l # "sleep_buf" /\ l # "sleep_free"
        /\ B \in SUBSET Bufs /\ B = {} /\ pc' = [pc EXCEPT ![p] = l] /\ at' = [at EXCEPT ![p] = B]
    BY <2>3
  <2> HIDE DEF l, B
  <2>5. QED BY <2>2, <2>3, <2>4, MoveStep
<1>5. ASSUME NEW p \in Procs, getblk_Hit(p) PROVE BInv'
  <2>1. PICK b \in Bufs : /\ blockno[b] = want[p] /\ "BUSY" \notin flag[b] /\ SetFlag(b, {"BUSY"}, {})
                          /\ free_list' = RemoveFirst(free_list, b) /\ Got(p, b)
    BY <1>5 DEF getblk_Hit, find_blk_in_hash
  <2>2. pc[p] = "getblk" /\ UNCHANGED <<blockno, data, disk, want>>
    BY <1>5 DEF getblk_Hit
  <2> DEFINE new == flag[b] \cup {"BUSY"}
  <2>3. flag' = [flag EXCEPT ![b] = new]
    BY <2>1 DEF SetFlag
  <2>4. new \in SUBSET {"BUSY", "VALID", "DIRTY"} /\ "BUSY" \in new
    BY <1>0 DEF Kinds
  <2>5. "DIRTY" \in new <=> "DIRTY" \in flag[b]
    OBVIOUS
  <2>6. "VALID" \in new => "VALID" \in flag[b] /\ blockno' = blockno
    BY <2>2
  <2>7. blockno' = [blockno EXCEPT ![b] = want[p]]
    BY <1>0, <2>1, <2>2 DEF Kinds
  <2>8. \A c \in Bufs \ {b} : blockno[c] # want[p]
    BY <2>1, <2>2 DEF BInv, Hashed, Places
  <2>9. FreeList(free_list', Free \ {b})
    BY <1>0, <2>1, ListUnlink
  <2> HIDE DEF new
  <2>10. QED BY <2>1, <2>2, <2>3, <2>4, <2>5, <2>6, <2>7, <2>8, <2>9, TakeStep
<1>6. ASSUME NEW p \in Procs, getblk_Miss(p) PROVE BInv'
  <2> DEFINE b == Head(free_list)
             new == (flag[b] \cup {"BUSY"}) \ {"VALID"}
  <2>1. /\ pc[p] = "getblk" /\ UNCHANGED <<data, disk, want>>
        /\ find_blk_in_hash(want[p]) = {} /\ free_list # <<>>
    BY <1>6 DEF getblk_Miss
  <2>2. /\ free_list' = Tail(free_list) /\ blockno' = [blockno EXCEPT ![b] = want[p]]
        /\ flag' = [flag EXCEPT ![b] = new] /\ Got(p, b)
    BY <1>6 DEF getblk_Miss, SetFlag
  <2>3. b \in Free /\ FreeList(free_list', Free \ {b})
    BY <1>0, <2>1, <2>2, ListTail
  <2>4. b \in Bufs
    BY <1>0, <2>3, LenProperties DEF FreeList, Free, ToSet
  <2>5. "BUSY" \notin flag[b] /\ "DIRTY" \notin flag[b]
    BY <2>3 DEF BInv, FreeIsClean, Free
  <2>6. new \in SUBSET {"BUSY", "VALID", "DIRTY"} /\ "BUSY" \in new /\ "VALID" \notin new
    BY <1>0, <2>4 DEF Kinds
  <2>7. "DIRTY" \in new <=> "DIRTY" \in flag[b]
    OBVIOUS
  <2>8. \A c \in Bufs \ {b} : blockno[c] # want[p]
    BY <2>1 DEF find_blk_in_hash
  <2> HIDE DEF new, b
  <2>9. QED BY <2>1, <2>2, <2>3, <2>4, <2>5, <2>6, <2>7, <2>8, TakeStep
<1>7. ASSUME NEW p \in Procs, IoDone(p) PROVE BInv'
  <2>1. PICK b \in at[p] : /\ IF "DIRTY" \in flag[b]
                              THEN disk' = [disk EXCEPT ![blockno[b]] = data[b]] /\ UNCHANGED data
                              ELSE data' = [data EXCEPT ![b] = disk[blockno[b]]] /\ UNCHANGED disk
                           /\ SetFlag(b, {"VALID"}, {"DIRTY"})
    BY <1>7 DEF IoDone
  <2>2. /\ pc[p] = "io" /\ at' = [at EXCEPT ![p] = {}] /\ pc' = [pc EXCEPT ![p] = "run"]
        /\ UNCHANGED <<blockno, free_list, held, want>>
    BY <1>7 DEF IoDone, Goto
  <2>3. at[p] = {b} /\ b \in held[p]
    BY <2>2 DEF BInv, Places
  <2>4. b \in Bufs
    BY <1>0, <2>3 DEF Kinds
  <2>5. "BUSY" \in flag[b] /\ blockno[b] \in Blocks
    BY <2>3, <2>4 DEF BInv, Owned, Hashed
  <2> DEFINE new == (flag[b] \cup {"VALID"}) \ {"DIRTY"}
  <2>6. flag' = [flag EXCEPT ![b] = new]
    BY <2>1 DEF SetFlag
  <2>7. new \in SUBSET {"BUSY", "VALID", "DIRTY"} /\ "BUSY" \in new /\ "VALID" \in new /\ "DIRTY" \notin new
    BY <1>0, <2>4, <2>5 DEF Kinds
  <2>8. /\ data' \in [Bufs -> Values] /\ disk' \in [Blocks -> Values]
        /\ \A c \in Bufs \ {b} : data'[c] = data[c]
        /\ \A k \in Blocks \ {blockno[b]} : disk'[k] = disk[k]
        /\ data'[b] = disk'[blockno[b]]
    BY <1>0, <2>1, <2>4, <2>5 DEF Kinds
  <2> HIDE DEF new
  <2>9. QED BY <2>2, <2>3, <2>6, <2>7, <2>8, OwnerStep
<1>8. ASSUME NEW p \in Procs, NEW b \in Bufs, NEW v \in Values, bwrite(p, b, v) \/ log_write(p, b, v) PROVE BInv'
  <2>1. /\ pc[p] = "run" /\ b \in held[p] /\ data' = [data EXCEPT ![b] = v]
        /\ flag' = [flag EXCEPT ![b] = (flag[b] \cup {"DIRTY"}) \ {"VALID"}]
        /\ UNCHANGED <<blockno, free_list, disk, held, want>>
    BY <1>8 DEF bwrite, log_write, SetFlag
  <2>2. \/ pc' = [pc EXCEPT ![p] = "io"] /\ at' = [at EXCEPT ![p] = {b}]
        \/ UNCHANGED <<pc, at>>
    BY <1>8 DEF bwrite, log_write, Goto
  <2>3. "BUSY" \in flag[b]
    BY <2>1 DEF BInv, Owned
  <2> DEFINE new == (flag[b] \cup {"DIRTY"}) \ {"VALID"}
  <2>4. new \in SUBSET {"BUSY", "VALID", "DIRTY"} /\ "BUSY" \in new /\ "VALID" \notin new /\ "DIRTY" \in new
    BY <1>0, <2>3 DEF Kinds
  <2>5. /\ data' \in [Bufs -> Values] /\ disk' \in [Blocks -> Values]
        /\ \A c \in Bufs \ {b} : data'[c] = data[c]
    BY <1>0, <2>1 DEF Kinds
  <2>6. PICK l \in {"run", "io"} : pc' = [pc EXCEPT ![p] = l] /\ at' = [at EXCEPT ![p] = IF l = "io" THEN {b} ELSE {}]
    <3>1. CASE UNCHANGED <<pc, at>>
      <4>1. pc' = [pc EXCEPT ![p] = "run"] /\ at' = [at EXCEPT ![p] = {}]
        BY <1>0, <2>1, <3>1 DEF BInv, Places, Kinds
      <4>2. QED BY <4>1
    <3>2. QED BY <2>2, <3>1
  <2> HIDE DEF new
  <2>7. flag' = [flag EXCEPT ![b] = new]
    BY <2>1 DEF new
  <2>8. QED BY <2>1, <2>4, <2>5, <2>6, <2>7, OwnerStep
<1>9. ASSUME NEW p \in Procs, NEW b \in Bufs, brelse(p, b) PROVE BInv'
  BY <1>9, ReleaseStep
<1>10. CASE UNCHANGED vars
  <2>1. UNCHANGED <<blockno, flag, data, free_list, disk, held, at, want, pc>>
    BY <1>10 DEF vars, cacheVars
  <2>2. TypeOK' /\ Owned' /\ Places' /\ Hashed'
    BY <2>1 DEF BInv, TypeOK, Owned, Places, Hashed
  <2>3. Contents' /\ FreeIsClean' /\ NobodySleepsOverFree'
    BY <2>1 DEF BInv, Contents, FreeIsClean, NobodySleepsOverFree
  <2>4. QED BY <2>2, <2>3 DEF BInv
<1>11. QED BY <1>1, <1>2, <1>3, <1>4, <1>5, <1>6, <1>7, <1>8, <1>9, <1>10 DEF Next, getblk

-----------------------------------------------------------------------------
(* The theorems.                                                            *)

\* The invariant holds in every behaviour of the cache.
THEOREM BioInvariance == Spec => []BInv
BY InitBInv, StepBInv, PTL DEF Spec

\* A buffer on the free list is nobody's and clean, so that getblk may give
\* the first one away without a look (bio.c:93-104), and nobody sleeps for a
\* buffer that brelse put there (bio.c:188-189).
THEOREM FreeIsFree == Spec => []FreeMeansFree
BY BioInvariance, PTL DEF BInv, FreeMeansFree

-----------------------------------------------------------------------------
(* The refinement.                                                          *)

\* The mapping, as Store has it.
Owner == [k \in Blocks |-> {p \in Procs : \E b \in held[p] : blockno[b] = k}]
Val == [k \in Blocks |-> IF Cached(k) = {} THEN disk[k] ELSE data[CHOOSE b \in Cached(k) : TRUE]]

LEMMA ValDomain == BInv => Val = [k \in Blocks |-> Val[k]]
BY DEF Val

\* A block's value is in its dirty buffer, or on the disk.
LEMMA ValDirty ==
  BInv => \A b \in Bufs : blockno[b] \in Blocks /\ "DIRTY" \in flag[b] => Val[blockno[b]] = data[b]
<1> SUFFICES ASSUME BInv, NEW b \in Bufs, blockno[b] \in Blocks, "DIRTY" \in flag[b]
             PROVE  Val[blockno[b]] = data[b]
  OBVIOUS
<1>1. Cached(blockno[b]) = {b}
  BY DEF Cached, find_blk_in_hash, BInv, Hashed
<1>2. QED BY <1>1 DEF Val

LEMMA ValDisk ==
  BInv => \A k \in Blocks : (\A b \in Bufs : blockno[b] = k => "DIRTY" \notin flag[b]) => Val[k] = disk[k]
<1> SUFFICES ASSUME BInv, NEW k \in Blocks, \A b \in Bufs : blockno[b] = k => "DIRTY" \notin flag[b]
             PROVE  Val[k] = disk[k]
  OBVIOUS
<1>1. CASE Cached(k) = {}
  BY <1>1 DEF Val
<1>2. CASE Cached(k) # {}
  <2> DEFINE b == CHOOSE b \in Cached(k) : TRUE
  <2>1. b \in Cached(k)
    BY <1>2
  <2>2. b \in Bufs /\ blockno[b] = k /\ "VALID" \in flag[b]
    BY <2>1 DEF Cached, find_blk_in_hash
  <2>3. data[b] = disk[k]
    BY <2>2 DEF BInv, Contents
  <2>4. QED BY <1>2, <2>3 DEF Val
<1>3. QED BY <1>1, <1>2

\* Nothing that BlockStore sees.
LEMMA Unseen ==
  ASSUME BInv, BInv', UNCHANGED <<held, blockno>>,
         \A b \in Bufs : \/ /\ data'[b] = data[b] /\ ("DIRTY" \in flag'[b] <=> "DIRTY" \in flag[b])
                            /\ \A k \in Blocks : blockno[b] = k => disk'[k] = disk[k]
                         \/ "DIRTY" \in flag[b] /\ "DIRTY" \notin flag'[b] /\ disk'[blockno[b]] = data[b],
         \A k \in Blocks : (\A b \in Bufs : blockno[b] # k) => disk'[k] = disk[k]
  PROVE  Owner' = Owner /\ Val' = Val
<1>a. (BInv => \A b \in Bufs : blockno[b] \in Blocks /\ "DIRTY" \in flag[b] => Val[blockno[b]] = data[b])'
  BY ValDirty, PTL
<1>b. (BInv => \A k \in Blocks : (\A b \in Bufs : blockno[b] = k => "DIRTY" \notin flag[b]) => Val[k] = disk[k])'
  BY ValDisk, PTL
<1>1. Owner' = Owner
  BY DEF Owner
<1>2. ASSUME NEW k \in Blocks PROVE Val'[k] = Val[k]
  <2>1. CASE \E b \in Bufs : blockno[b] = k /\ "DIRTY" \in flag[b]
    <3>1. PICK b \in Bufs : blockno[b] = k /\ "DIRTY" \in flag[b]
      BY <2>1
    <3>2. Val[k] = data[b]
      BY <3>1, ValDirty
    <3>3. CASE "DIRTY" \in flag'[b]
      BY <1>a, <3>1, <3>2, <3>3
    <3>4. CASE "DIRTY" \notin flag'[b]
      <4>1. \A c \in Bufs : blockno[c] = k => c = b
        BY <3>1 DEF BInv, Hashed
      <4>2. Val'[k] = disk'[k]
        BY <1>b, <3>1, <3>4, <4>1
      <4>3. QED BY <3>1, <3>2, <3>4, <4>2
    <3>5. QED BY <3>3, <3>4
  <2>2. CASE \A b \in Bufs : blockno[b] = k => "DIRTY" \notin flag[b]
    <3>1. Val[k] = disk[k]
      BY <2>2, ValDisk
    <3>2. \A b \in Bufs : blockno'[b] = k => "DIRTY" \notin flag'[b]
      BY <2>2
    <3>3. disk'[k] = disk[k]
      BY <2>2
    <3>4. QED BY <1>b, <3>1, <3>2, <3>3
  <2>3. QED BY <2>1, <2>2
<1>3. (BInv => Val = [k \in Blocks |-> Val[k]])'
  BY ValDomain, PTL
<1>4. Val' = Val
  BY <1>2, <1>3, ValDomain
<1>5. QED BY <1>1, <1>4

\* The steps that Next takes, as BlockStore sees them.
LEMMA StepStore ==
  ASSUME BInv, BInv', [Next]_vars
  PROVE  \/ UNCHANGED <<Owner, Val>>
         \/ \E p \in Procs, k \in Blocks :
               \/ Owner[k] = {} /\ Owner' = [Owner EXCEPT ![k] = {p}] /\ Val' = Val
               \/ Owner[k] = {p} /\ Owner' = [Owner EXCEPT ![k] = {}] /\ Val' = Val
               \/ \E v \in Values : Owner[k] = {p} /\ Owner' = Owner /\ Val' = [Val EXCEPT ![k] = v]
<1> DEFINE Goal == \/ UNCHANGED <<Owner, Val>>
                   \/ \E p \in Procs, k \in Blocks :
                        \/ Owner[k] = {} /\ Owner' = [Owner EXCEPT ![k] = {p}] /\ Val' = Val
                        \/ Owner[k] = {p} /\ Owner' = [Owner EXCEPT ![k] = {}] /\ Val' = Val
                        \/ \E v \in Values : Owner[k] = {p} /\ Owner' = Owner /\ Val' = [Val EXCEPT ![k] = v]
<1>0. Kinds /\ FreeList(free_list, Free)
  BY TypeParts DEF BInv
<1>a. (BInv => \A b \in Bufs : blockno[b] \in Blocks /\ "DIRTY" \in flag[b] => Val[blockno[b]] = data[b])'
  BY ValDirty, PTL
<1>b. (BInv => \A k \in Blocks : (\A b \in Bufs : blockno[b] = k => "DIRTY" \notin flag[b]) => Val[k] = disk[k])'
  BY ValDisk, PTL
<1>c. Val' = [k \in Blocks |-> Val'[k]] /\ Val = [k \in Blocks |-> Val[k]]
  BY DEF Val
<1>d. /\ Owner' = [k \in Blocks |-> Owner'[k]] /\ Owner = [k \in Blocks |-> Owner[k]]
      /\ \A k \in Blocks : Owner[k] \subseteq Procs /\ Owner'[k] \subseteq Procs
      /\ \A k \in Blocks, p \in Procs : p \in Owner[k] <=> \E b \in held[p] : blockno[b] = k
      /\ \A k \in Blocks, p \in Procs : p \in Owner'[k] <=> \E b \in held'[p] : blockno'[b] = k
  BY DEF Owner
<1>e. ASSUME NEW p \in Procs, NEW b \in held[p] PROVE b \in Bufs /\ blockno[b] \in Blocks /\ Owner[blockno[b]] = {p}
  <2>1. b \in Bufs
    BY <1>0 DEF Kinds
  <2>2. "BUSY" \in flag[b] /\ \A r \in Procs : b \in held[r] => r = p
    BY <2>1 DEF BInv, Owned
  <2>3. blockno[b] \in Blocks
    BY <2>1, <2>2 DEF BInv, Hashed
  <2>4. \A r \in Procs : held[r] \subseteq Bufs
    BY <1>0 DEF Kinds
  <2>5. \A c \in Bufs : blockno[c] = blockno[b] => c = b
    BY <2>1, <2>3 DEF BInv, Hashed
  <2>6. \A r \in Procs : r \in Owner[blockno[b]] <=> r = p
    BY <1>d, <2>2, <2>3, <2>4, <2>5
  <2>7. QED BY <1>d, <2>1, <2>3, <2>6
<1>1. ASSUME NEW p \in Procs, NEW k \in Blocks, bread(p, k) PROVE Goal
  BY <1>1 DEF bread, cacheVars, Owner, Val, Cached, find_blk_in_hash
<1>2. ASSUME NEW p \in Procs, getblk_Busy(p) \/ getblk_Full(p) \/ kill(p) PROVE Goal
  <2>1. UNCHANGED <<cacheVars, disk, held>>
    BY <1>2 DEF getblk_Busy, getblk_Full, kill
  <2>2. QED BY <2>1 DEF cacheVars, Owner, Val, Cached, find_blk_in_hash
<1>3. ASSUME NEW p \in Procs, NEW b \in Bufs, pc[p] = "getblk", "BUSY" \notin flag[b],
             \A c \in Bufs : blockno'[c] = IF c = b THEN want[p] ELSE blockno[c],
             \A c \in Bufs \ {b} : blockno[c] # want[p],
             \A r \in Procs : held'[r] = IF r = p THEN held[p] \cup {b} ELSE held[r],
             \A c \in Bufs : "DIRTY" \in flag'[c] <=> "DIRTY" \in flag[c],
             blockno' = blockno \/ "DIRTY" \notin flag[b], UNCHANGED <<data, disk>>
      PROVE  Goal
  <2>1. want[p] \in Blocks
    BY <1>3 DEF BInv, Places
  <2>2. \A r \in Procs : held[r] \subseteq Bufs /\ b \notin held[r]
    BY <1>0, <1>3 DEF Kinds, BInv, Owned
  <2>3. Owner[want[p]] = {}
    BY <1>3, <1>d, <2>1, <2>2
  <2>4. ASSUME NEW k \in Blocks PROVE Owner'[k] = IF k = want[p] THEN {p} ELSE Owner[k]
    <3>1. \A r \in Procs, c \in Bufs : c \in held'[r] <=> c \in held[r] \/ (r = p /\ c = b)
      BY <1>3
    <3>2. \A r \in Procs : held'[r] \subseteq Bufs
      BY <1>3, <2>2
    <3>3. CASE k = want[p]
      <4>1. \A r \in Procs : r \in Owner'[k] <=> r = p
        BY <1>3, <1>d, <2>1, <2>2, <3>1, <3>2, <3>3
      <4>2. QED BY <1>d, <3>3, <4>1
    <3>4. CASE k # want[p]
      <4>1. ASSUME NEW r \in Procs PROVE r \in Owner'[k] <=> r \in Owner[k]
        <5>1. \A c \in Bufs : (c \in held'[r] /\ blockno'[c] = k) <=> (c \in held[r] /\ blockno[c] = k)
          BY <1>3, <2>2, <3>1, <3>4
        <5>2. QED BY <1>d, <2>2, <3>2, <5>1
      <4>2. QED BY <1>d, <3>4, <4>1
    <3>5. QED BY <3>3, <3>4
  <2>5. Owner' = [Owner EXCEPT ![want[p]] = {p}]
    BY <1>d, <2>1, <2>4
  <2>6. ASSUME NEW k \in Blocks PROVE Val'[k] = Val[k]
    <3>1. CASE \E c \in Bufs : blockno[c] = k /\ "DIRTY" \in flag[c]
      <4>1. PICK c \in Bufs : blockno[c] = k /\ "DIRTY" \in flag[c]
        BY <3>1
      <4>2. blockno'[c] = k /\ "DIRTY" \in flag'[c]
        BY <1>3, <4>1
      <4>3. QED BY <1>3, <1>a, <4>1, <4>2, ValDirty
    <3>2. CASE \A c \in Bufs : blockno[c] = k => "DIRTY" \notin flag[c]
      <4>1. \A c \in Bufs : blockno'[c] = k => "DIRTY" \notin flag'[c]
        BY <1>3, <3>2
      <4>2. QED BY <1>3, <1>b, <3>2, <4>1, ValDisk
    <3>3. QED BY <3>1, <3>2
  <2>7. Val' = Val
    BY <1>c, <2>6
  <2>8. QED BY <2>1, <2>3, <2>5, <2>7
<1>4. ASSUME NEW p \in Procs, getblk_Hit(p) PROVE Goal
  <2>1. PICK b \in Bufs : /\ blockno[b] = want[p] /\ "BUSY" \notin flag[b] /\ SetFlag(b, {"BUSY"}, {})
                          /\ Got(p, b)
    BY <1>4 DEF getblk_Hit, find_blk_in_hash
  <2>2. pc[p] = "getblk" /\ UNCHANGED <<blockno, data, disk>>
    BY <1>4 DEF getblk_Hit
  <2>3. \A c \in Bufs : blockno'[c] = IF c = b THEN want[p] ELSE blockno[c]
    BY <2>1, <2>2
  <2>4. \A c \in Bufs \ {b} : blockno[c] # want[p]
    BY <2>1, <2>2 DEF BInv, Hashed, Places
  <2>5. \A r \in Procs : held'[r] = IF r = p THEN held[p] \cup {b} ELSE held[r]
    BY <1>0, <2>1 DEF Kinds, Got
  <2>6. \A c \in Bufs : "DIRTY" \in flag'[c] <=> "DIRTY" \in flag[c]
    BY <1>0, <2>1 DEF Kinds, SetFlag
  <2>7. QED BY <1>3, <2>1, <2>2, <2>3, <2>4, <2>5, <2>6
<1>5. ASSUME NEW p \in Procs, getblk_Miss(p) PROVE Goal
  <2> DEFINE b == Head(free_list)
  <2>1. /\ pc[p] = "getblk" /\ UNCHANGED <<data, disk>>
        /\ find_blk_in_hash(want[p]) = {} /\ free_list # <<>>
        /\ blockno' = [blockno EXCEPT ![b] = want[p]] /\ SetFlag(b, {"BUSY"}, {"VALID"}) /\ Got(p, b)
    BY <1>5 DEF getblk_Miss
  <2>2. b \in Free
    BY <1>0, <2>1, ListTail
  <2>3. b \in Bufs /\ "BUSY" \notin flag[b] /\ "DIRTY" \notin flag[b]
    BY <1>0, <2>2, LenProperties DEF FreeList, Free, ToSet, BInv, FreeIsClean
  <2> HIDE DEF b
  <2>4. \A c \in Bufs : blockno'[c] = IF c = b THEN want[p] ELSE blockno[c]
    BY <1>0, <2>1, <2>3 DEF Kinds
  <2>5. \A c \in Bufs \ {b} : blockno[c] # want[p]
    BY <2>1 DEF find_blk_in_hash
  <2>6. \A r \in Procs : held'[r] = IF r = p THEN held[p] \cup {b} ELSE held[r]
    BY <1>0, <2>1 DEF Kinds, Got
  <2>7. \A c \in Bufs : "DIRTY" \in flag'[c] <=> "DIRTY" \in flag[c]
    BY <1>0, <2>1, <2>3 DEF Kinds, SetFlag
  <2>8. QED BY <1>3, <2>1, <2>3, <2>4, <2>5, <2>6, <2>7
<1>6. ASSUME NEW p \in Procs, IoDone(p) PROVE Goal
  <2>1. PICK b \in at[p] : /\ IF "DIRTY" \in flag[b]
                              THEN disk' = [disk EXCEPT ![blockno[b]] = data[b]] /\ UNCHANGED data
                              ELSE data' = [data EXCEPT ![b] = disk[blockno[b]]] /\ UNCHANGED disk
                           /\ SetFlag(b, {"VALID"}, {"DIRTY"})
    BY <1>6 DEF IoDone
  <2>2. pc[p] = "io" /\ UNCHANGED <<blockno, held>>
    BY <1>6 DEF IoDone
  <2>3. b \in held[p]
    BY <2>2 DEF BInv, Places
  <2>4. b \in Bufs /\ blockno[b] \in Blocks
    BY <1>e, <2>3
  <2>5. \A c \in Bufs : flag'[c] = IF c = b THEN (flag[b] \cup {"VALID"}) \ {"DIRTY"} ELSE flag[c]
    BY <1>0, <2>1, <2>4 DEF Kinds, SetFlag
  <2>6. \A c \in Bufs : c # b => blockno[c] # blockno[b]
    BY <2>4 DEF BInv, Hashed
  <2>7. \A k \in Blocks : disk'[k] = disk[k] \/ (k = blockno[b] /\ disk'[k] = data[b] /\ "DIRTY" \in flag[b])
    BY <1>0, <2>1, <2>4 DEF Kinds
  <2>8. \A k \in Blocks : (\A c \in Bufs : blockno[c] # k) => disk'[k] = disk[k]
    BY <2>4, <2>7
  <2>9. CASE "DIRTY" \in flag[b]
    <3>1. data' = data /\ disk'[blockno[b]] = data[b]
      BY <1>0, <2>1, <2>4, <2>9 DEF Kinds
    <3>2. \A c \in Bufs : \/ /\ data'[c] = data[c] /\ ("DIRTY" \in flag'[c] <=> "DIRTY" \in flag[c])
                            /\ \A k \in Blocks : blockno[c] = k => disk'[k] = disk[k]
                          \/ "DIRTY" \in flag[c] /\ "DIRTY" \notin flag'[c] /\ disk'[blockno[c]] = data[c]
      BY <2>4, <2>5, <2>6, <2>7, <2>9, <3>1
    <3>3. QED BY <2>2, <2>8, <3>2, Unseen
  <2>10. CASE "DIRTY" \notin flag[b]
    <3>1. disk' = disk /\ \A c \in Bufs : c # b => data'[c] = data[c]
      BY <1>0, <2>1, <2>4, <2>10 DEF Kinds
    <3>2. \A c \in Bufs : "DIRTY" \in flag'[c] <=> "DIRTY" \in flag[c]
      BY <2>5, <2>10
    <3>3. ASSUME NEW k \in Blocks PROVE Val'[k] = Val[k]
      <4>1. CASE \E c \in Bufs : blockno[c] = k /\ "DIRTY" \in flag[c]
        <5>1. PICK c \in Bufs : blockno[c] = k /\ "DIRTY" \in flag[c]
          BY <4>1
        <5>2. c # b /\ blockno'[c] = k /\ "DIRTY" \in flag'[c]
          BY <2>2, <2>10, <3>2, <5>1
        <5>3. QED BY <1>a, <3>1, <5>1, <5>2, ValDirty
      <4>2. CASE \A c \in Bufs : blockno[c] = k => "DIRTY" \notin flag[c]
        <5>1. \A c \in Bufs : blockno'[c] = k => "DIRTY" \notin flag'[c]
          BY <2>2, <3>2, <4>2
        <5>2. QED BY <1>b, <3>1, <4>2, <5>1, ValDisk
      <4>3. QED BY <4>1, <4>2
    <3>4. Val' = Val
      BY <1>c, <3>3
    <3>5. Owner' = Owner
      BY <2>2 DEF Owner
    <3>6. QED BY <3>4, <3>5
  <2>11. QED BY <2>9, <2>10
<1>7. ASSUME NEW p \in Procs, NEW b \in Bufs, NEW v \in Values, bwrite(p, b, v) \/ log_write(p, b, v) PROVE Goal
  <2>1. /\ b \in held[p] /\ data' = [data EXCEPT ![b] = v] /\ UNCHANGED <<blockno, disk, held>>
        /\ flag' = [flag EXCEPT ![b] = (flag[b] \cup {"DIRTY"}) \ {"VALID"}]
    BY <1>7 DEF bwrite, log_write, SetFlag
  <2>2. Owner' = Owner
    BY <2>1 DEF Owner
  <2>3. blockno[b] \in Blocks /\ Owner[blockno[b]] = {p}
    BY <1>e, <2>1
  <2>4. /\ \A c \in Bufs : flag'[c] = IF c = b THEN (flag[b] \cup {"DIRTY"}) \ {"VALID"} ELSE flag[c]
        /\ \A c \in Bufs : data'[c] = IF c = b THEN v ELSE data[c]
    BY <1>0, <2>1 DEF Kinds
  <2>5. \A c \in Bufs : c # b => blockno[c] # blockno[b]
    BY <2>3 DEF BInv, Hashed
  <2>6. ASSUME NEW k \in Blocks PROVE Val'[k] = IF k = blockno[b] THEN v ELSE Val[k]
    <3>1. CASE k = blockno[b]
      BY <1>a, <2>1, <2>4, <3>1
    <3>2. CASE k # blockno[b] /\ \E c \in Bufs : blockno[c] = k /\ "DIRTY" \in flag[c]
      <4>1. PICK c \in Bufs : blockno[c] = k /\ "DIRTY" \in flag[c]
        BY <3>2
      <4>2. QED BY <1>a, <2>1, <2>4, <3>2, <4>1, ValDirty
    <3>3. CASE k # blockno[b] /\ \A c \in Bufs : blockno[c] = k => "DIRTY" \notin flag[c]
      <4>1. \A c \in Bufs : blockno'[c] = k => "DIRTY" \notin flag'[c]
        BY <2>1, <2>4, <3>3
      <4>2. QED BY <1>b, <2>1, <3>3, <4>1, ValDisk
    <3>4. QED BY <3>1, <3>2, <3>3
  <2>7. Val' = [Val EXCEPT ![blockno[b]] = v]
    BY <1>c, <2>6
  <2>8. QED BY <2>2, <2>3, <2>7
<1>8. ASSUME NEW p \in Procs, NEW b \in Bufs, brelse(p, b) PROVE Goal
  <2>1. /\ b \in held[p] /\ UNCHANGED <<blockno, data, disk>> /\ held' = [held EXCEPT ![p] = held[p] \ {b}]
        /\ flag' = [flag EXCEPT ![b] = (flag[b] \cup {}) \ {"BUSY"}]
    BY <1>8 DEF brelse, SetFlag
  <2>2. blockno[b] \in Blocks /\ Owner[blockno[b]] = {p}
    BY <1>e, <2>1
  <2>3. \A c \in Bufs : \A x \in {"VALID", "DIRTY"} : x \in flag'[c] <=> x \in flag[c]
    BY <1>0, <2>1 DEF Kinds
  <2>4. Val' = Val
    <3>1. ASSUME NEW k \in Blocks PROVE Val'[k] = Val[k]
      <4>1. CASE \E c \in Bufs : blockno[c] = k /\ "DIRTY" \in flag[c]
        <5>1. PICK c \in Bufs : blockno[c] = k /\ "DIRTY" \in flag[c]
          BY <4>1
        <5>2. QED BY <1>a, <2>1, <2>3, <5>1, ValDirty
      <4>2. CASE \A c \in Bufs : blockno[c] = k => "DIRTY" \notin flag[c]
        <5>1. \A c \in Bufs : blockno'[c] = k => "DIRTY" \notin flag'[c]
          BY <2>1, <2>3, <4>2
        <5>2. QED BY <1>b, <2>1, <4>2, <5>1, ValDisk
      <4>3. QED BY <4>1, <4>2
    <3>2. QED BY <1>c, <3>1
  <2>5. ASSUME NEW k \in Blocks PROVE Owner'[k] = IF k = blockno[b] THEN {} ELSE Owner[k]
    <3>1. \A r \in Procs : held[r] \subseteq Bufs
      BY <1>0 DEF Kinds
    <3>2. \A r \in Procs, c \in Bufs : c \in held'[r] <=> c \in held[r] /\ ~(r = p /\ c = b)
      BY <1>0, <2>1 DEF Kinds
    <3>3. \A r \in Procs : held'[r] \subseteq Bufs
      BY <1>0, <2>1 DEF Kinds
    <3>4. ASSUME NEW r \in Procs PROVE r \in Owner'[k] <=> k # blockno[b] /\ r \in Owner[k]
      <4>1. CASE k = blockno[b]
        <5>1. \A c \in Bufs : blockno[c] = k => c = b
          BY <2>2, <4>1 DEF BInv, Hashed
        <5>2. r # p => r \notin Owner[k]
          BY <2>2, <4>1
        <5>3. r # p => b \notin held[r]
          BY <1>d, <4>1, <5>2
        <5>4. b \notin held'[r]
          BY <3>2, <5>3
        <5>5. QED BY <1>d, <2>1, <3>3, <4>1, <5>1, <5>4
      <4>2. CASE k # blockno[b]
        <5>1. \A c \in Bufs : (c \in held'[r] /\ blockno'[c] = k) <=> (c \in held[r] /\ blockno[c] = k)
          BY <2>1, <3>2, <4>2
        <5>2. QED BY <1>d, <3>1, <3>3, <4>2, <5>1
      <4>3. QED BY <4>1, <4>2
    <3>5. Owner'[k] \subseteq Procs /\ Owner[k] \subseteq Procs
      BY <1>d
    <3>6. CASE k = blockno[b]
      BY <3>4, <3>5, <3>6
    <3>7. CASE k # blockno[b]
      BY <3>4, <3>5, <3>7
    <3>8. QED BY <3>6, <3>7
  <2>6. Owner' = [Owner EXCEPT ![blockno[b]] = {}]
    BY <1>d, <2>2, <2>5
  <2>7. QED BY <2>2, <2>4, <2>6
<1>9. CASE UNCHANGED vars
  BY <1>9 DEF vars, cacheVars, Owner, Val, Cached, find_blk_in_hash
<1>10. QED BY <1>1, <1>2, <1>4, <1>5, <1>6, <1>7, <1>8, <1>9 DEF Next, getblk

LEMMA InitStore == buffer_init => Store!Init
<1> SUFFICES ASSUME buffer_init PROVE Store!Init
  OBVIOUS
<1>1. Owner = [k \in Blocks |-> {}]
  BY DEF buffer_init, Owner
<1>2. \A k \in Blocks : Cached(k) = {}
  BY BioAssumption DEF buffer_init, Cached, find_blk_in_hash
<1>3. (CHOOSE v \in Values : TRUE) \in Values
  BY BioAssumption
<1>4. Val \in [Blocks -> Values]
  BY <1>2, <1>3 DEF buffer_init, Val
<1>5. QED BY <1>1, <1>4 DEF Store!Init, Owner, Val

\* The cache implements BlockStore: whatever is evicted, written back, read
\* again, waited for or killed, a block has at most one owner and keeps what
\* the last owner wrote (bio.c:65-195).
THEOREM CacheIsBlockStore == Spec => IsBlockStore
<1>1. BInv /\ BInv' /\ [Next]_vars => [Store!Next]_<<Owner, Val>>
  <2> SUFFICES ASSUME BInv, BInv', [Next]_vars PROVE [Store!Next]_<<Owner, Val>>
    OBVIOUS
  <2>1. ASSUME NEW p \in Procs, NEW k \in Blocks,
               Owner[k] = {}, Owner' = [Owner EXCEPT ![k] = {p}], Val' = Val
        PROVE  Store!Acquire(p, k)
    BY <2>1 DEF Store!Acquire, Owner, Val
  <2>2. ASSUME NEW p \in Procs, NEW k \in Blocks,
               Owner[k] = {p}, Owner' = [Owner EXCEPT ![k] = {}], Val' = Val
        PROVE  Store!Release(p, k)
    BY <2>2 DEF Store!Release, Owner, Val
  <2>3. ASSUME NEW p \in Procs, NEW k \in Blocks, NEW v \in Values,
               Owner[k] = {p}, Owner' = Owner, Val' = [Val EXCEPT ![k] = v]
        PROVE  Store!Write(p, k, v)
    BY <2>3 DEF Store!Write, Owner, Val
  <2>4. QED BY <2>1, <2>2, <2>3, StepStore DEF Store!Next
<1>2. QED BY <1>1, InitStore, BioInvariance, PTL DEF Spec, IsBlockStore, Store!Spec, Owner, Val

-----------------------------------------------------------------------------
(* The logs of MCStorage.                                                   *)

CrashesProofs == INSTANCE LogProofs WITH
    Procs <- ThreeProcs, Blocks <- {1, 2}, MAXOPBLOCKS <- 2, LOGSIZE <- 6, size <- 6,
    MAXTX <- 3, MAXCRASH <- 2, pc <- log_pc

CrowdProofs == INSTANCE LogProofs WITH
    Procs <- ThreeProcs \cup {p4}, Blocks <- ThreeBlocks, MAXOPBLOCKS <- 1, LOGSIZE <- 2,
    size <- 2, MAXTX <- 4, MAXCRASH <- 0, pc <- log_pc

-----------------------------------------------------------------------------
(* The two readings of each instance agree.                                 *)

LEMMA CrashesSame ==
  /\ Crashes!log_init => CrashesProofs!log_init
  /\ Crashes!Next => CrashesProofs!Next
<1>1. Crashes!log_init => CrashesProofs!log_init
  BY Zenon DEF Crashes!log_init, CrashesProofs!log_init
<1>2. Crashes!Next => CrashesProofs!Next
  BY Zenon DEF
     Crashes!Next, Crashes!Step, Crashes!Recover, Crashes!commit, Crashes!begin_transaction,
     Crashes!BeginLoop, Crashes!Admits, Crashes!Bread, Crashes!Write, Crashes!log_write,
     Crashes!Read, Crashes!end_transaction, Crashes!CopyBlock, Crashes!DozenStep,
     Crashes!write_log_blk, Crashes!write_log_header, Crashes!keep_consistent_on_disk,
     Crashes!ClearLog, Crashes!CommitEnd, Crashes!Crash, Crashes!read_log_header,
     Crashes!RecoverBlock, Crashes!recover_from_log, Crashes!Goto, Crashes!WakeAndGoto,
     Crashes!InLog, Crashes!txVars, Crashes!diskVars, Crashes!bounds, CrashesProofs!Next,
     CrashesProofs!Step, CrashesProofs!Recover, CrashesProofs!commit,
     CrashesProofs!begin_transaction, CrashesProofs!BeginLoop, CrashesProofs!Admits,
     CrashesProofs!Bread, CrashesProofs!Write, CrashesProofs!log_write, CrashesProofs!Read,
     CrashesProofs!end_transaction, CrashesProofs!CopyBlock, CrashesProofs!DozenStep,
     CrashesProofs!write_log_blk, CrashesProofs!write_log_header,
     CrashesProofs!keep_consistent_on_disk, CrashesProofs!ClearLog, CrashesProofs!CommitEnd,
     CrashesProofs!Crash, CrashesProofs!read_log_header, CrashesProofs!RecoverBlock,
     CrashesProofs!recover_from_log, CrashesProofs!Goto, CrashesProofs!WakeAndGoto,
     CrashesProofs!InLog, CrashesProofs!txVars, CrashesProofs!diskVars, CrashesProofs!bounds
<1>3. QED BY <1>1, <1>2

LEMMA CrashesAssumed == CrashesProofs!LogAssumption
BY StorageAssumption DEF Crashes!LogAssumption, CrashesProofs!LogAssumption, Crashes!IsFiniteSet, CrashesProofs!IsFiniteSet

LEMMA CrowdSame ==
  /\ Crowd!log_init => CrowdProofs!log_init
  /\ Crowd!Next => CrowdProofs!Next
<1>1. Crowd!log_init => CrowdProofs!log_init
  BY Zenon DEF Crowd!log_init, CrowdProofs!log_init
<1>2. Crowd!Next => CrowdProofs!Next
  BY Zenon DEF
     Crowd!Next, Crowd!Step, Crowd!Recover, Crowd!commit, Crowd!begin_transaction,
     Crowd!BeginLoop, Crowd!Admits, Crowd!Bread, Crowd!Write, Crowd!log_write, Crowd!Read,
     Crowd!end_transaction, Crowd!CopyBlock, Crowd!DozenStep, Crowd!write_log_blk,
     Crowd!write_log_header, Crowd!keep_consistent_on_disk, Crowd!ClearLog, Crowd!CommitEnd,
     Crowd!Crash, Crowd!read_log_header, Crowd!RecoverBlock, Crowd!recover_from_log, Crowd!Goto,
     Crowd!WakeAndGoto, Crowd!InLog, Crowd!txVars, Crowd!diskVars, Crowd!bounds,
     CrowdProofs!Next, CrowdProofs!Step, CrowdProofs!Recover, CrowdProofs!commit,
     CrowdProofs!begin_transaction, CrowdProofs!BeginLoop, CrowdProofs!Admits,
     CrowdProofs!Bread, CrowdProofs!Write, CrowdProofs!log_write, CrowdProofs!Read,
     CrowdProofs!end_transaction, CrowdProofs!CopyBlock, CrowdProofs!DozenStep,
     CrowdProofs!write_log_blk, CrowdProofs!write_log_header,
     CrowdProofs!keep_consistent_on_disk, CrowdProofs!ClearLog, CrowdProofs!CommitEnd,
     CrowdProofs!Crash, CrowdProofs!read_log_header, CrowdProofs!RecoverBlock,
     CrowdProofs!recover_from_log, CrowdProofs!Goto, CrowdProofs!WakeAndGoto, CrowdProofs!InLog,
     CrowdProofs!txVars, CrowdProofs!diskVars, CrowdProofs!bounds
<1>3. QED BY <1>1, <1>2

LEMMA CrowdAssumed == CrowdProofs!LogAssumption
BY StorageAssumption DEF Crowd!LogAssumption, CrowdProofs!LogAssumption, Crowd!IsFiniteSet, CrowdProofs!IsFiniteSet

LEMMA PropertiesSame ==
  /\ CrashesProofs!Durable => Crashes!Durable
  /\ CrashesProofs!CommitsAlone => Crashes!CommitsAlone
  /\ CrashesProofs!HeaderFits => Crashes!HeaderFits
  /\ CrowdProofs!CommitsAlone => Crowd!CommitsAlone
  /\ CrowdProofs!HeaderFits => Crowd!HeaderFits
<1>1. CrashesProofs!Durable => Crashes!Durable
  BY Zenon DEF CrashesProofs!Durable, Crashes!Durable, CrashesProofs!Recovered, Crashes!Recovered,
               CrashesProofs!InLog, Crashes!InLog
<1>2. CrashesProofs!CommitsAlone => Crashes!CommitsAlone
  BY Zenon DEF CrashesProofs!CommitsAlone, Crashes!CommitsAlone, CrashesProofs!Cardinality, Crashes!Cardinality
<1>3. CrashesProofs!HeaderFits => Crashes!HeaderFits
  BY Zenon DEF CrashesProofs!HeaderFits, Crashes!HeaderFits
<1>4. CrowdProofs!CommitsAlone => Crowd!CommitsAlone
  BY Zenon DEF CrowdProofs!CommitsAlone, Crowd!CommitsAlone, CrowdProofs!Cardinality, Crowd!Cardinality
<1>5. CrowdProofs!HeaderFits => Crowd!HeaderFits
  BY Zenon DEF CrowdProofs!HeaderFits, Crowd!HeaderFits
<1>6. QED BY <1>1, <1>2, <1>3, <1>4, <1>5

-----------------------------------------------------------------------------
(* The theorems.                                                            *)

\* The log that moves has its invariant.
StorageInv ==
    /\ part = "crashes" => CrashesProofs!LInv
    /\ part = "crowd" => CrowdProofs!LInv

LEMMA InitStorage == MCInit => StorageInv
<1> SUFFICES ASSUME MCInit PROVE StorageInv
  OBVIOUS
<1>1. CASE part = "crashes"
  BY <1>1, CrashesSame, CrashesAssumed, CrashesProofs!InitLInv DEF MCInit, StorageInv
<1>2. CASE part = "crowd"
  BY <1>2, CrowdSame, CrowdAssumed, CrowdProofs!InitLInv DEF MCInit, StorageInv
<1>3. QED BY <1>1, <1>2 DEF StorageInv

LEMMA StepStorage == StorageInv /\ [MCNext]_<<part, vars, ideVars, logVars>> => StorageInv'
<1> SUFFICES ASSUME StorageInv, [MCNext]_<<part, vars, ideVars, logVars>> PROVE StorageInv'
  OBVIOUS
<1>1. part' = part
  BY DEF MCNext
<1>2. CASE part = "crashes"
  <2>1. Crashes!Next \/ UNCHANGED logVars
    BY <1>2 DEF MCNext
  <2>2. UNCHANGED logVars => UNCHANGED CrashesProofs!vars
    BY DEF logVars, CrashesProofs!vars, CrashesProofs!diskVars, CrashesProofs!txVars, CrashesProofs!bounds
  <2>3. [CrashesProofs!Next]_CrashesProofs!vars
    BY <2>1, <2>2, CrashesSame
  <2>4. CrashesProofs!LInv
    BY <1>2 DEF StorageInv
  <2>5. CrashesProofs!LInv'
    BY <2>3, <2>4, CrashesAssumed, CrashesProofs!StepLInv
  <2>6. QED BY <1>1, <1>2, <2>5 DEF StorageInv
<1>3. CASE part = "crowd"
  <2>1. Crowd!Next \/ UNCHANGED logVars
    BY <1>3 DEF MCNext
  <2>2. UNCHANGED logVars => UNCHANGED CrowdProofs!vars
    BY DEF logVars, CrowdProofs!vars, CrowdProofs!diskVars, CrowdProofs!txVars, CrowdProofs!bounds
  <2>3. [CrowdProofs!Next]_CrowdProofs!vars
    BY <2>1, <2>2, CrowdSame
  <2>4. CrowdProofs!LInv
    BY <1>3 DEF StorageInv
  <2>5. CrowdProofs!LInv'
    BY <2>3, <2>4, CrowdAssumed, CrowdProofs!StepLInv
  <2>6. QED BY <1>1, <1>3, <2>5 DEF StorageInv
<1>4. CASE part \notin {"crashes", "crowd"}
  BY <1>1, <1>4 DEF StorageInv
<1>5. QED BY <1>2, <1>3, <1>4

LEMMA StorageImplies == StorageInv => Durable /\ CommitsFit
<1> SUFFICES ASSUME StorageInv PROVE Durable /\ CommitsFit
  OBVIOUS
<1>1. part = "crashes" => Crashes!Durable /\ Crashes!CommitsAlone /\ Crashes!HeaderFits
  BY CrashesAssumed, CrashesProofs!LInvImplies, PropertiesSame DEF StorageInv
<1>2. part = "crowd" => Crowd!CommitsAlone /\ Crowd!HeaderFits
  BY CrowdAssumed, CrowdProofs!LInvImplies, PropertiesSame DEF StorageInv
<1>3. QED BY <1>1, <1>2 DEF Durable, CommitsFit

\* No crash takes back what was committed, in the log that MCStorage crashes
\* (log.c:87-128).
THEOREM StorageDurable == MCSpec => []Durable
BY InitStorage, StepStorage, StorageImplies, PTL DEF MCSpec

\* In both logs of MCStorage the commit runs alone and the header has room
\* (log.c:117-123, 140, 213-232).
THEOREM StorageCommitsFit == MCSpec => []CommitsFit
BY InitStorage, StepStorage, StorageImplies, PTL DEF MCSpec

=============================================================================
