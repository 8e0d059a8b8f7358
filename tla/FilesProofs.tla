---------------------------- MODULE FilesProofs ----------------------------
(***************************************************************************)
(* Proofs about the inode cache and the open files of MCFiles, for any     *)
(* number of processes, slots, inode numbers, files and descriptors:       *)
(* references are counted, nobody locks a slot without one, and no file is *)
(* freed while a descriptor names it.                                      *)
(***************************************************************************)
EXTENDS MCFiles, FiniteSetTheorems, SequenceTheorems, WellFoundedInduction, TLAPS

-----------------------------------------------------------------------------
(* Lists without repetitions.                                               *)

\* A list of members of S without repetitions, and its elements.
ListIn(S, s, F) == s \in Seq(S) /\ IsInjective(s) /\ ToSet(s) = F

\* The initial free list has everything once.
LEMMA AllListed ==
  ASSUME NEW S, IsFiniteSet(S)
  PROVE  ListIn(S, SetToSeq(S), S)
<1> DEFINE n == Cardinality(S)
           s == SetToSeq(S)
<1>1. n \in Nat /\ ExistsBijection(1 .. n, S)
  BY FS_CardinalityType
<1>2. \E f \in [1 .. n -> S] : IsInjective(f)
  BY <1>1 DEF ExistsBijection, Bijection, Injection
<1>3. s \in [1 .. n -> S] /\ IsInjective(s)
  BY <1>2 DEF SetToSeq
<1>4. s \in Seq(S) /\ DOMAIN s = 1 .. n
  BY <1>1, <1>3
<1>5. IsFiniteSet(1 .. n) /\ Cardinality(1 .. n) = n
  BY <1>1, FS_Interval
<1>6. s \in Injection(1 .. n, S)
  BY <1>3 DEF Injection
<1>7. s \in Surjection(1 .. n, S)
  BY <1>1, <1>5, <1>6, FS_Injection
<1>8. ToSet(s) = S
  BY <1>3, <1>4, <1>7 DEF ToSet, Surjection
<1>9. QED BY <1>3, <1>4, <1>8 DEF ListIn

LEMMA ListAppend ==
  ASSUME NEW S, NEW s, NEW F, ListIn(S, s, F), NEW b \in S \ F
  PROVE  ListIn(S, Append(s, b), F \cup {b})
<1> DEFINE t == Append(s, b)
<1>1. s \in Seq(S) /\ Len(s) \in Nat /\ DOMAIN s = 1 .. Len(s)
  BY LenProperties DEF ListIn
<1>2. /\ t \in Seq(S) /\ Len(t) = Len(s) + 1 /\ DOMAIN t = 1 .. Len(s) + 1
      /\ (\A i \in 1 .. Len(s) : t[i] = s[i]) /\ t[Len(s) + 1] = b
  BY <1>1, AppendProperties, LenProperties
<1>3. \A i \in 1 .. Len(s) + 1 : i \in 1 .. Len(s) \/ i = Len(s) + 1
  BY <1>1
<1>4. \A i \in 1 .. Len(s) : s[i] \in F /\ i \in 1 .. Len(s) + 1
  BY <1>1 DEF ListIn, ToSet
<1>5. IsInjective(t)
  BY <1>1, <1>2, <1>3, <1>4 DEF ListIn, IsInjective
<1>a. Len(s) + 1 \in 1 .. Len(s) + 1
  BY <1>1
<1>6. ToSet(t) = F \cup {b}
  <2>1. ToSet(t) \subseteq F \cup {b}
    BY <1>2, <1>3, <1>4 DEF ToSet
  <2>2. F \subseteq ToSet(t)
    BY <1>1, <1>2, <1>4 DEF ListIn, ToSet
  <2>3. b \in ToSet(t)
    BY <1>2, <1>a DEF ToSet
  <2>4. QED BY <2>1, <2>2, <2>3
<1>7. QED BY <1>2, <1>5, <1>6 DEF ListIn

\* Taking out position i.
LEMMA ListRemoveAt ==
  ASSUME NEW S, NEW s, NEW F, ListIn(S, s, F), NEW i \in 1 .. Len(s)
  PROVE  ListIn(S, RemoveAt(s, i), F \ {s[i]})
<1> DEFINE n == Len(s)
           t == RemoveAt(s, i)
           u == SubSeq(s, 1, i - 1)
           v == SubSeq(s, i + 1, n)
<1>0. n \in Nat /\ i \in Int /\ 1 <= i /\ i <= n
  BY LenProperties DEF ListIn
<1>1. s \in Seq(S) /\ n \in Nat /\ DOMAIN s = 1 .. n /\ \A j \in 1 .. n : s[j] \in S
  BY LenProperties, ElementOfSeq DEF ListIn
<1>2. u \in Seq(S) /\ Len(u) = i - 1 /\ \A j \in 1 .. i - 1 : u[j] = s[j]
  <2>1. \A j \in 1 .. i - 1 : s[j] \in S
    BY <1>1
  <2>2. i - 1 \in Int /\ 1 \in Int /\ i - 1 - 1 + 1 = i - 1
    BY <1>1
  <2>3. /\ u \in Seq(S)
        /\ Len(u) = IF 1 <= i - 1 THEN (i - 1) - 1 + 1 ELSE 0
        /\ \A j \in 1 .. (i - 1) - 1 + 1 : u[j] = s[1 + j - 1]
    BY <2>1, <2>2, SubSeqProperties
  <2>4. (IF 1 <= i - 1 THEN (i - 1) - 1 + 1 ELSE 0) = i - 1 /\ \A j \in 1 .. i - 1 : 1 + j - 1 = j
    BY <1>0
  <2>5. QED BY <2>2, <2>3, <2>4
<1>3. v \in Seq(S) /\ Len(v) = n - i /\ \A j \in 1 .. n - i : v[j] = s[i + j]
  <2>1. \A j \in i + 1 .. n : s[j] \in S
    BY <1>1
  <2>2. i + 1 \in Int /\ n \in Int
    BY <1>0, <1>1
  <2>3. /\ v \in Seq(S)
        /\ Len(v) = IF i + 1 <= n THEN n - (i + 1) + 1 ELSE 0
        /\ \A j \in 1 .. n - (i + 1) + 1 : v[j] = s[(i + 1) + j - 1]
    BY <2>1, <2>2, SubSeqProperties
  <2>4. n - (i + 1) + 1 = n - i /\ (i + 1 <= n \/ n - i = 0)
    <3> HIDE DEF n
    <3>1. QED BY <1>0
  <2>5. \A j \in 1 .. n - i : (i + 1) + j - 1 = i + j
    BY <1>0, <1>1
  <2>6. Len(v) = n - i
    BY <1>0, <2>3, <2>4
  <2>7. QED BY <2>3, <2>4, <2>5, <2>6
<1>4. /\ t \in Seq(S) /\ Len(t) = n - 1
      /\ \A j \in 1 .. n - 1 : t[j] = IF j < i THEN s[j] ELSE s[j + 1]
  <2>1. /\ t \in Seq(S) /\ Len(t) = (i - 1) + (n - i)
        /\ \A j \in 1 .. (i - 1) + (n - i) : t[j] = IF j <= i - 1 THEN u[j] ELSE v[j - (i - 1)]
    <3>1. t = u \o v
      BY DEF RemoveAt
    <3> HIDE DEF t, u, v, n
    <3>2. /\ u \o v \in Seq(S) /\ Len(u \o v) = Len(u) + Len(v)
          /\ \A j \in 1 .. Len(u) + Len(v) : (u \o v)[j] = IF j <= Len(u) THEN u[j] ELSE v[j - Len(u)]
      BY <1>2, <1>3, ConcatProperties
    <3>3. QED BY <1>2, <1>3, <3>1, <3>2
  <2>2. (i - 1) + (n - i) = n - 1
    BY <1>1
  <2>3. ASSUME NEW j \in 1 .. n - 1 PROVE t[j] = IF j < i THEN s[j] ELSE s[j + 1]
    <3>1. CASE j < i
      BY <1>1, <1>2, <2>1, <2>2, <3>1
    <3>2. CASE ~(j < i)
      <4>1. j - (i - 1) \in 1 .. n - i /\ i + (j - (i - 1)) = j + 1
        BY <1>1, <3>2
      <4>2. t[j] = v[j - (i - 1)]
        BY <1>1, <2>1, <2>2, <3>2
      <4>3. QED BY <1>3, <3>2, <4>1, <4>2
    <3>3. QED BY <3>1, <3>2
  <2>4. QED BY <2>1, <2>2, <2>3
<1>5. DOMAIN t = 1 .. n - 1
  BY <1>4, LenProperties
<1>6. \A j \in 1 .. n - 1 : (j \in 1 .. n /\ j + 1 \in 1 .. n)
  BY <1>1
<1>7. IsInjective(t)
  <2> SUFFICES ASSUME NEW j \in 1 .. n - 1, NEW k \in 1 .. n - 1, t[j] = t[k] PROVE j = k
    BY <1>5 DEF IsInjective
  <2>1. \A k1, k2 \in 1 .. n : s[k1] = s[k2] => k1 = k2
    BY <1>1 DEF ListIn, IsInjective
  <2>2. QED BY <1>1, <1>4, <1>6, <2>1
<1>8. ToSet(t) = F \ {s[i]}
  <2>1. \A k1, k2 \in 1 .. n : s[k1] = s[k2] => k1 = k2
    BY <1>1 DEF ListIn, IsInjective
  <2>2. F = {s[k1] : k1 \in 1 .. n} /\ ToSet(t) = {t[k1] : k1 \in 1 .. n - 1}
    BY <1>1, <1>5 DEF ListIn, ToSet
  <2>3. ASSUME NEW k1 \in 1 .. n - 1 PROVE t[k1] \in F \ {s[i]}
    <3>1. CASE k1 < i
      BY <1>1, <1>4, <1>6, <2>1, <2>2, <3>1
    <3>2. CASE ~(k1 < i)
      <4>1. k1 + 1 \in 1 .. n /\ k1 + 1 # i
        BY <1>1, <3>2
      <4>2. QED BY <1>4, <2>1, <2>2, <3>2, <4>1
    <3>3. QED BY <3>1, <3>2
  <2>4. ASSUME NEW k1 \in 1 .. n, s[k1] # s[i] PROVE s[k1] \in ToSet(t)
    <3>1. CASE k1 < i
      <4>1. k1 \in 1 .. n - 1 /\ t[k1] = s[k1]
        BY <1>1, <1>4, <3>1
      <4>2. QED BY <2>2, <4>1
    <3>2. CASE k1 > i
      <4>1. k1 - 1 \in 1 .. n - 1 /\ ~(k1 - 1 < i) /\ (k1 - 1) + 1 = k1
        BY <1>1, <3>2
      <4>2. t[k1 - 1] = s[k1]
        BY <1>4, <4>1
      <4>3. QED BY <2>2, <4>1, <4>2
    <3>3. k1 < i \/ k1 > i
      BY <2>4, <1>1
    <3>4. QED BY <3>1, <3>2, <3>3
  <2>5. QED BY <2>2, <2>3, <2>4
<1>9. QED BY <1>4, <1>7, <1>8 DEF ListIn

LEMMA ListTail ==
  ASSUME NEW S, NEW s, NEW F, ListIn(S, s, F), s # <<>>
  PROVE  Head(s) \in F /\ ListIn(S, Tail(s), F \ {Head(s)})
<1>1. s \in Seq(S) /\ Len(s) \in Nat \ {0} /\ DOMAIN s = 1 .. Len(s)
  BY LenProperties, EmptySeq DEF ListIn
<1>2. 1 \in 1 .. Len(s) /\ Head(s) = s[1]
  BY <1>1
<1>3. ListIn(S, RemoveAt(s, 1), F \ {s[1]})
  BY <1>2, ListRemoveAt
<1>4. RemoveAt(s, 1) = Tail(s)
  <2>1. SubSeq(s, 1, 1 - 1) = <<>>
    BY SubSeqEmpty
  <2>2. Tail(s) = SubSeq(s, 2, Len(s)) /\ Tail(s) \in Seq(S)
    BY <1>1, TailIsSubSeq, HeadTailProperties
  <2>3. QED BY <2>1, <2>2, ConcatEmptySeq DEF RemoveAt
<1>5. QED BY <1>1, <1>2, <1>3, <1>4 DEF ListIn, ToSet

\* list_del of a slot that may be on the list or not.
LEMMA ListUnlink ==
  ASSUME NEW S, NEW s, NEW F, ListIn(S, s, F), NEW b
  PROVE  ListIn(S, RemoveFirst(s, b), F \ {b})
<1>1. s \in Seq(S) /\ Len(s) \in Nat /\ DOMAIN s = 1 .. Len(s)
  BY LenProperties DEF ListIn
<1>2. CASE \E i \in 1 .. Len(s) : s[i] = b
  <2>1. PICK i \in 1 .. Len(s) : s[i] = b
    BY <1>2
  <2>2. \A j \in 1 .. Len(s) : s[j] = b => j = i
    BY <1>1, <2>1 DEF ListIn, IsInjective
  <2>3. {j \in 1 .. Len(s) : s[j] = b} = {i}
    BY <2>1, <2>2
  <2>4. Min({i}) = i
    BY <1>1 DEF Min
  <2>5. RemoveFirst(s, b) = RemoveAt(s, i)
    BY <1>2, <2>3, <2>4 DEF RemoveFirst, SelectInSeq
  <2>6. QED BY <2>1, <2>5, ListRemoveAt
<1>3. CASE ~\E i \in 1 .. Len(s) : s[i] = b
  <2>1. RemoveFirst(s, b) = s
    BY <1>3 DEF RemoveFirst
  <2>2. b \notin F
    BY <1>1, <1>3 DEF ListIn, ToSet
  <2>3. QED BY <2>1, <2>2 DEF ListIn
<1>4. QED BY <1>2, <1>3

LEMMA ListEmpty ==
  ASSUME NEW S, NEW s, NEW F, ListIn(S, s, F)
  PROVE  s = <<>> <=> F = {}
<1>1. s \in Seq(S) /\ Len(s) \in Nat /\ DOMAIN s = 1 .. Len(s)
  BY LenProperties DEF ListIn
<1>2. s = <<>> => F = {}
  BY <1>1 DEF ListIn, ToSet
<1>3. s # <<>> => 1 \in DOMAIN s
  BY <1>1, EmptySeq
<1>4. s # <<>> => s[1] \in F
  BY <1>3 DEF ListIn, ToSet
<1>5. QED BY <1>2, <1>4

\* Putting b in front.
LEMMA ListPush ==
  ASSUME NEW S, NEW s, NEW F, ListIn(S, s, F), NEW b \in S \ F
  PROVE  ListIn(S, <<b>> \o s, F \cup {b}) /\ Len(<<b>> \o s) = Len(s) + 1
<1> DEFINE t == <<b>> \o s
           n == Len(s)
<1>1. s \in Seq(S) /\ n \in Nat /\ DOMAIN s = 1 .. n
  BY LenProperties DEF ListIn
<1>2. t \in Seq(S) /\ Len(t) = n + 1 /\ \A i \in 1 .. n + 1 : t[i] = IF i <= 1 THEN b ELSE s[i - 1]
  <2>1. <<b>> \in Seq(S) /\ Len(<<b>>) = 1 /\ <<b>>[1] = b
    OBVIOUS
  <2> DEFINE u == <<b>>
  <2>2. u \in Seq(S) /\ Len(u) = 1 /\ u[1] = b
    BY <2>1
  <2> HIDE DEF u
  <2>3. /\ u \o s \in Seq(S) /\ Len(u \o s) = Len(u) + Len(s)
        /\ \A i \in 1 .. Len(u) + Len(s) : (u \o s)[i] = IF i <= Len(u) THEN u[i] ELSE s[i - Len(u)]
    BY <1>1, <2>2, ConcatProperties
  <2>4. \A i \in 1 .. n + 1 : i <= 1 => i = 1
    BY <1>1
  <2>5. 1 + n = n + 1
    BY <1>1
  <2>6. QED BY <2>2, <2>3, <2>4, <2>5 DEF u
<1>3. DOMAIN t = 1 .. n + 1
  BY <1>1, <1>2, LenProperties
<1> HIDE DEF t, n
<1>4. \A i \in 1 .. n + 1 : (i = 1 /\ t[i] = b) \/ (i - 1 \in 1 .. n /\ t[i] = s[i - 1])
  BY <1>1, <1>2
<1>5. \A i \in 1 .. n : s[i] \in F /\ i + 1 \in 1 .. n + 1 /\ t[i + 1] = s[i]
  <2>1. \A i \in 1 .. n : s[i] \in F
    BY <1>1 DEF ListIn, ToSet
  <2>2. \A i \in 1 .. n : i + 1 \in 1 .. n + 1 /\ ~(i + 1 <= 1) /\ (i + 1) - 1 = i
    BY <1>1
  <2>3. QED BY <1>2, <2>1, <2>2
<1>6. IsInjective(t)
  <2> SUFFICES ASSUME NEW i \in 1 .. n + 1, NEW j \in 1 .. n + 1, t[i] = t[j] PROVE i = j
    BY <1>3 DEF IsInjective
  <2>1. \A k1, k2 \in 1 .. n : s[k1] = s[k2] => k1 = k2
    BY <1>1 DEF ListIn, IsInjective
  <2>2. CASE i = 1
    BY <1>4, <1>5, <2>2
  <2>3. CASE j = 1
    BY <1>4, <1>5, <2>3
  <2>4. CASE i # 1 /\ j # 1
    <3>1. i - 1 = j - 1
      BY <1>4, <2>1, <2>4
    <3>2. QED BY <1>1, <3>1
  <2>5. QED BY <2>2, <2>3, <2>4
<1>7. ToSet(t) = F \cup {b}
  <2>1. ToSet(t) = {t[i] : i \in 1 .. n + 1} /\ F = {s[i] : i \in 1 .. n}
    BY <1>1, <1>3 DEF ToSet, ListIn
  <2>2. ToSet(t) \subseteq F \cup {b}
    BY <1>4, <1>5, <2>1
  <2>3. F \subseteq ToSet(t)
    BY <1>5, <2>1
  <2>4. b \in ToSet(t)
    <3>1. 1 \in 1 .. n + 1 /\ t[1] = b
      BY <1>1, <1>2
    <3>2. QED BY <2>1, <3>1
  <2>5. QED BY <2>2, <2>3, <2>4
<1>8. QED BY <1>2, <1>6, <1>7 DEF ListIn, t, n

LEMMA TailShorter ==
  ASSUME NEW S, NEW s, NEW F, ListIn(S, s, F), s # <<>>
  PROVE  Len(Tail(s)) = Len(s) - 1
BY HeadTailProperties DEF ListIn

-----------------------------------------------------------------------------
(* The inductive invariant of the inode cache.                              *)

\* The slots without a reference.
Unused == {s \in Slots : ref[s] = 0}

Kinds ==
    /\ ino \in [Slots -> Inos \cup {NoIno}] /\ ref \in [Slots -> Nat] /\ nlink \in [Slots -> {0, 1}]
    /\ slk \in [Slots -> SUBSET Procs] /\ pc \in [Procs -> SUBSET Slots]

Bools == valid \in [Slots -> BOOLEAN] /\ icache_lock \in BOOLEAN

OnDisk == d_type \in SUBSET Inos /\ d_nlink \in [Inos -> {0, 1}]

Names == named \in [Inos -> BOOLEAN]

Lists ==
    /\ \E F \in SUBSET Slots : ListIn(Slots, hash_list, F)
    /\ ListIn(Slots, free_list, Unused)

\* A process's references: how many to each slot it refers to.
RefBags == UNION {[S -> Nat \ {0}] : S \in SUBSET Slots}

Bagged == refs \in [Procs -> RefBags]

Counted == \A s \in Slots : IsFiniteSet(Held(s)) /\ ref[s] = Cardinality(Held(s))

\* Who is in iput() has still its reference.
Putting == \A p \in Procs : pc[p] \subseteq DOMAIN refs[p]

\* The cache in memory, and all.
CInv == Kinds /\ Bools /\ Lists /\ Bagged /\ Counted /\ Putting /\ NoDie1

FInv == CInv /\ OnDisk /\ Names

-----------------------------------------------------------------------------
(* Bags of references.                                                      *)

\* How often a bag has s.
Copies(b, s) == IF s \in DOMAIN b THEN b[s] ELSE 0

LEMMA BagFacts ==
  ASSUME NEW b \in RefBags
  PROVE  DOMAIN b \in SUBSET Slots /\ b \in [DOMAIN b -> Nat \ {0}]
BY DEF RefBags

LEMMA CopiesType ==
  ASSUME NEW b \in RefBags, NEW s
  PROVE  Copies(b, s) \in Nat /\ (s \in DOMAIN b <=> Copies(b, s) > 0)
BY BagFacts DEF Copies

LEMMA BagAdd ==
  ASSUME NEW b \in RefBags, NEW s \in Slots
  PROVE  /\ b (+) SetToBag({s}) \in RefBags
         /\ DOMAIN (b (+) SetToBag({s})) = DOMAIN b \cup {s}
         /\ Copies(b (+) SetToBag({s}), s) = Copies(b, s) + 1
         /\ \A t : t # s => Copies(b (+) SetToBag({s}), t) = Copies(b, t)
<1> DEFINE c == b (+) SetToBag({s})
<1>1. DOMAIN b \in SUBSET Slots /\ b \in [DOMAIN b -> Nat \ {0}]
  BY BagFacts
<1>2. c = [e \in DOMAIN b \cup {s} |-> (IF e \in DOMAIN b THEN b[e] ELSE 0) + (IF e \in {s} THEN 1 ELSE 0)]
  BY DEF (+), SetToBag
<1> HIDE DEF c
<1>3. DOMAIN c = DOMAIN b \cup {s} /\ DOMAIN c \in SUBSET Slots
  BY <1>1, <1>2
<1>4. c[s] = Copies(b, s) + 1 /\ \A e \in DOMAIN b : e # s => c[e] = b[e]
  BY <1>1, <1>2 DEF Copies
<1>5. \A e \in DOMAIN c : c[e] \in Nat \ {0}
  BY <1>1, <1>3, <1>4, CopiesType
<1>6. c \in [DOMAIN c -> Nat \ {0}]
  BY <1>2, <1>3, <1>5
<1>7. c \in RefBags
  BY <1>3, <1>6 DEF RefBags
<1>8. Copies(c, s) = Copies(b, s) + 1
  BY <1>3, <1>4 DEF Copies
<1>9. \A t : t # s => Copies(c, t) = Copies(b, t)
  BY <1>3, <1>4 DEF Copies
<1>10. QED BY <1>3, <1>7, <1>8, <1>9 DEF c

LEMMA BagDrop ==
  ASSUME NEW b \in RefBags, NEW s \in DOMAIN b
  PROVE  /\ b (-) SetToBag({s}) \in RefBags
         /\ \A t \in DOMAIN b : t # s => t \in DOMAIN (b (-) SetToBag({s}))
         /\ Copies(b (-) SetToBag({s}), s) = Copies(b, s) - 1
         /\ \A t : t # s => Copies(b (-) SetToBag({s}), t) = Copies(b, t)
<1> DEFINE c == b (-) SetToBag({s})
           B == [e \in DOMAIN b |-> IF e \in {s} THEN b[e] - 1 ELSE b[e]]
           D == {e \in DOMAIN b : B[e] > 0}
<1>1. DOMAIN b \in SUBSET Slots /\ b \in [DOMAIN b -> Nat \ {0}]
  BY BagFacts
<1>2. c = [e \in D |-> B[e]]
  BY DEF (-), SetToBag
<1>3. /\ D \in SUBSET Slots /\ \A e \in D : e \in DOMAIN b /\ B[e] \in Nat \ {0}
      /\ B[s] = b[s] - 1 /\ (s \in D <=> b[s] > 1)
      /\ \A e \in DOMAIN b : e # s => e \in D /\ B[e] = b[e]
  BY <1>1
<1> HIDE DEF c, B, D
<1>4. c \in [D -> Nat \ {0}] /\ DOMAIN c = D
  BY <1>2, <1>3
<1>5. c \in RefBags
  BY <1>3, <1>4 DEF RefBags
<1>6. Copies(c, s) = Copies(b, s) - 1
  BY <1>1, <1>2, <1>3, <1>4 DEF Copies
<1>7. \A t : t # s => Copies(c, t) = Copies(b, t)
  BY <1>2, <1>3, <1>4 DEF Copies
<1>8. QED BY <1>3, <1>4, <1>5, <1>6, <1>7 DEF c

\* The references to s in r, which is refs or refs'.
HeldOf(r, s) == UNION {{p} \X (1 .. r[p][s]) : p \in {q \in Procs : s \in DOMAIN r[q]}}

LEMMA HeldIs == \A s : Held(s) = HeldOf(refs, s) /\ Held(s)' = HeldOf(refs', s)
BY DEF Held, Holders, HeldOf, BagToSet

LEMMA HeldPairs ==
  ASSUME NEW r \in [Procs -> RefBags], NEW s
  PROVE  HeldOf(r, s) = {e \in Procs \X (Nat \ {0}) : e[2] <= Copies(r[e[1]], s)}
<1> DEFINE H == {q \in Procs : s \in DOMAIN r[q]}
<1>1. \A p \in H : p \in Procs /\ r[p][s] \in Nat \ {0} /\ Copies(r[p], s) = r[p][s]
  BY BagFacts DEF Copies
<1>2. \A p \in Procs : p \notin H => Copies(r[p], s) = 0
  BY DEF Copies
<1>3. ASSUME NEW e \in HeldOf(r, s)
      PROVE  e \in Procs \X (Nat \ {0}) /\ e[2] <= Copies(r[e[1]], s)
  <2>1. PICK p \in H : e \in {p} \X (1 .. r[p][s])
    BY DEF HeldOf
  <2>2. PICK i \in 1 .. r[p][s] : e = <<p, i>>
    BY <2>1
  <2>3. i \in Nat \ {0} /\ i <= Copies(r[p], s) /\ p \in Procs
    BY <1>1, <2>2
  <2>4. QED BY <2>2, <2>3
<1>4. ASSUME NEW e \in Procs \X (Nat \ {0}), e[2] <= Copies(r[e[1]], s)
      PROVE  e \in HeldOf(r, s)
  <2>1. PICK p \in Procs, i \in Nat \ {0} : e = <<p, i>>
    OBVIOUS
  <2>2. i <= Copies(r[p], s)
    BY <1>4, <2>1
  <2>3. p \in H
    BY <1>2, <2>2
  <2>4. e \in {p} \X (1 .. r[p][s])
    BY <1>1, <2>1, <2>2, <2>3
  <2>5. QED BY <2>3, <2>4 DEF HeldOf
<1>5. QED BY <1>3, <1>4

\* One reference more is counted once.
LEMMA CountUp ==
  ASSUME Bagged, Counted, Kinds, NEW p \in Procs, NEW s \in Slots, AddRef(p, s)
  PROVE  /\ Bagged'
         /\ \A q \in Procs : DOMAIN refs[q] \subseteq DOMAIN refs'[q]
         /\ \A t \in Slots : IsFiniteSet(Held(t)')
         /\ Cardinality(Held(s)') = ref[s] + 1
         /\ \A t \in Slots \ {s} : Cardinality(Held(t)') = ref[t]
<1> DEFINE b == refs[p] (+) SetToBag({s})
           k == Copies(refs[p], s)
<1>1. refs \in [Procs -> RefBags] /\ \A q \in Procs : refs[q] \in RefBags
  BY DEF Bagged
<1>2. /\ b \in RefBags /\ DOMAIN b = DOMAIN refs[p] \cup {s} /\ Copies(b, s) = k + 1
      /\ \A t : t # s => Copies(b, t) = Copies(refs[p], t)
  BY <1>1, BagAdd
<1>3. refs' = [refs EXCEPT ![p] = b]
  BY DEF AddRef
<1>4. k \in Nat
  BY <1>1, CopiesType
<1> HIDE DEF b
<1>5. refs' \in [Procs -> RefBags] /\ refs'[p] = b /\ \A q \in Procs : q # p => refs'[q] = refs[q]
  BY <1>1, <1>2, <1>3
<1>6. Bagged'
  BY <1>5 DEF Bagged
<1>7. \A q \in Procs : DOMAIN refs[q] \subseteq DOMAIN refs'[q]
  BY <1>2, <1>5
<1>8. \A t : /\ Held(t) = {e \in Procs \X (Nat \ {0}) : e[2] <= Copies(refs[e[1]], t)}
             /\ Held(t)' = {e \in Procs \X (Nat \ {0}) : e[2] <= Copies(refs'[e[1]], t)}
  BY <1>1, <1>5, HeldPairs, HeldIs
<1>9. \A q \in Procs, t \in Slots : t # s \/ q # p => Copies(refs'[q], t) = Copies(refs[q], t)
  BY <1>2, <1>5
<1>10. \A t \in Slots \ {s} : Held(t)' = Held(t)
  BY <1>8, <1>9
<1>11. Held(s)' = Held(s) \cup {<<p, k + 1>>} /\ <<p, k + 1>> \notin Held(s)
  <2>1. \A q \in Procs : q # p => Copies(refs'[q], s) = Copies(refs[q], s)
    BY <1>9
  <2>2. Copies(refs'[p], s) = k + 1 /\ Copies(refs[p], s) = k
    BY <1>2, <1>5
  <2> HIDE DEF k
  <2>3. \A i \in Nat \ {0} : i <= k + 1 <=> i <= k \/ i = k + 1
    BY <1>4
  <2>4. ASSUME NEW e \in Procs \X (Nat \ {0}) PROVE e \in Held(s)' <=> e \in Held(s) \/ e = <<p, k + 1>>
    <3>1. PICK q \in Procs, i \in Nat \ {0} : e = <<q, i>>
      OBVIOUS
    <3>2. e \in Held(s)' <=> i <= Copies(refs'[q], s)
      BY <1>8, <3>1
    <3>3. e \in Held(s) <=> i <= Copies(refs[q], s)
      BY <1>8, <3>1
    <3>4. QED BY <2>1, <2>2, <2>3, <3>1, <3>2, <3>3
  <2>5. <<p, k + 1>> \in Procs \X (Nat \ {0})
    BY <1>4
  <2>6. Held(s) \subseteq Procs \X (Nat \ {0}) /\ Held(s)' \subseteq Procs \X (Nat \ {0})
    BY <1>8
  <2>7. <<p, k + 1>> \notin Held(s)
    BY <1>4, <1>8, <2>2
  <2>8. QED BY <2>4, <2>5, <2>6, <2>7
<1>12. IsFiniteSet(Held(s)') /\ Cardinality(Held(s)') = ref[s] + 1
  <2>1. IsFiniteSet(Held(s)) /\ ref[s] = Cardinality(Held(s)) /\ ref[s] \in Nat
    BY DEF Counted, Kinds
  <2> DEFINE S == Held(s)
             e == <<p, k + 1>>
  <2>2. IsFiniteSet(S) /\ e \notin S
    BY <1>11, <2>1
  <2> HIDE DEF S, e
  <2>3. IsFiniteSet(S \cup {e}) /\ Cardinality(S \cup {e}) = Cardinality(S) + 1
    BY <2>2, FS_AddElement
  <2>4. QED BY <1>11, <2>1, <2>3 DEF S, e
<1>13. \A t \in Slots \ {s} : IsFiniteSet(Held(t)') /\ Cardinality(Held(t)') = ref[t]
  BY <1>10 DEF Counted
<1>14. QED BY <1>6, <1>7, <1>12, <1>13

\* One less, by who has one.
LEMMA CountDown ==
  ASSUME Bagged, Counted, Kinds, NEW p \in Procs, NEW s \in Slots, s \in DOMAIN refs[p], DropRef(p, s)
  PROVE  /\ Bagged'
         /\ \A q \in Procs : q # p => refs'[q] = refs[q]
         /\ \A t \in Slots : IsFiniteSet(Held(t)')
         /\ ref[s] > 0 /\ Cardinality(Held(s)') = ref[s] - 1
         /\ \A t \in Slots \ {s} : Cardinality(Held(t)') = ref[t]
<1> DEFINE b == refs[p] (-) SetToBag({s})
           k == Copies(refs[p], s)
<1>1. refs \in [Procs -> RefBags] /\ \A q \in Procs : refs[q] \in RefBags
  BY DEF Bagged
<1>2. /\ b \in RefBags /\ Copies(b, s) = k - 1
      /\ \A t : t # s => Copies(b, t) = Copies(refs[p], t)
  BY <1>1, BagDrop
<1>3. refs' = [refs EXCEPT ![p] = b]
  BY DEF DropRef
<1>4. k \in Nat \ {0}
  BY <1>1, CopiesType
<1> HIDE DEF b
<1>5. refs' \in [Procs -> RefBags] /\ refs'[p] = b /\ \A q \in Procs : q # p => refs'[q] = refs[q]
  BY <1>1, <1>2, <1>3
<1>6. Bagged'
  BY <1>5 DEF Bagged
<1>8. \A t : /\ Held(t) = {e \in Procs \X (Nat \ {0}) : e[2] <= Copies(refs[e[1]], t)}
             /\ Held(t)' = {e \in Procs \X (Nat \ {0}) : e[2] <= Copies(refs'[e[1]], t)}
  BY <1>1, <1>5, HeldPairs, HeldIs
<1>9. \A q \in Procs, t \in Slots : t # s \/ q # p => Copies(refs'[q], t) = Copies(refs[q], t)
  BY <1>2, <1>5
<1>10. \A t \in Slots \ {s} : Held(t)' = Held(t)
  BY <1>8, <1>9
<1>11. Held(s)' = Held(s) \ {<<p, k>>} /\ <<p, k>> \in Held(s)
  <2>1. \A q \in Procs : q # p => Copies(refs'[q], s) = Copies(refs[q], s)
    BY <1>9
  <2>2. Copies(refs'[p], s) = k - 1 /\ Copies(refs[p], s) = k
    BY <1>2, <1>5
  <2> HIDE DEF k
  <2>3. \A i \in Nat \ {0} : i <= k - 1 <=> i <= k /\ i # k
    BY <1>4
  <2>4. ASSUME NEW e \in Procs \X (Nat \ {0}) PROVE e \in Held(s)' <=> e \in Held(s) /\ e # <<p, k>>
    <3>1. PICK q \in Procs, i \in Nat \ {0} : e = <<q, i>>
      OBVIOUS
    <3>2. e \in Held(s)' <=> i <= Copies(refs'[q], s)
      BY <1>8, <3>1
    <3>3. e \in Held(s) <=> i <= Copies(refs[q], s)
      BY <1>8, <3>1
    <3>4. QED BY <2>1, <2>2, <2>3, <3>1, <3>2, <3>3
  <2>5. <<p, k>> \in Procs \X (Nat \ {0})
    BY <1>4
  <2>6. Held(s) \subseteq Procs \X (Nat \ {0}) /\ Held(s)' \subseteq Procs \X (Nat \ {0})
    BY <1>8
  <2>7. <<p, k>> \in Held(s)
    BY <1>4, <1>8, <2>2, <2>5
  <2>8. QED BY <2>4, <2>5, <2>6, <2>7
<1>12. IsFiniteSet(Held(s)') /\ ref[s] > 0 /\ Cardinality(Held(s)') = ref[s] - 1
  <2>1. IsFiniteSet(Held(s)) /\ ref[s] = Cardinality(Held(s)) /\ ref[s] \in Nat
    BY DEF Counted, Kinds
  <2> DEFINE S == Held(s)
             e == <<p, k>>
  <2>2. IsFiniteSet(S) /\ e \in S
    BY <1>11, <2>1
  <2> HIDE DEF S, e
  <2>3. IsFiniteSet(S \ {e}) /\ Cardinality(S \ {e}) = Cardinality(S) - 1
    BY <2>2, FS_RemoveElement
  <2>4. Cardinality(S) # 0
    BY <2>2, FS_EmptySet
  <2>5. QED BY <1>11, <2>1, <2>3, <2>4 DEF S, e
<1>13. \A t \in Slots \ {s} : IsFiniteSet(Held(t)') /\ Cardinality(Held(t)') = ref[t]
  BY <1>10 DEF Counted
<1>14. QED BY <1>5, <1>6, <1>12, <1>13

\* Who refers to a slot is counted in its ref.
LEMMA Referred ==
  ASSUME Kinds, Bagged, Counted, NEW p \in Procs, NEW s \in Slots, s \in DOMAIN refs[p]
  PROVE  ref[s] > 0
<1>1. refs \in [Procs -> RefBags] /\ refs[p] \in RefBags
  BY DEF Bagged
<1>2. Copies(refs[p], s) \in Nat /\ Copies(refs[p], s) > 0
  BY <1>1, CopiesType
<1>3. Held(s) = {e \in Procs \X (Nat \ {0}) : e[2] <= Copies(refs[e[1]], s)}
  BY <1>1, HeldIs, HeldPairs
<1>4. <<p, 1>> \in Held(s)
  BY <1>2, <1>3
<1>5. IsFiniteSet(Held(s)) /\ ref[s] = Cardinality(Held(s)) /\ ref[s] \in Nat
  BY DEF Counted, Kinds
<1>6. ref[s] # 0
  BY <1>4, <1>5, FS_EmptySet
<1>7. QED BY <1>5, <1>6

-----------------------------------------------------------------------------
(* The steps.                                                               *)

\* A reference to s is taken: iget and iref.
LEMMA TakeStep ==
  ASSUME CInv, NEW p \in Procs, NEW s \in Slots, AddRef(p, s),
         ref' = [ref EXCEPT ![s] = ref[s] + 1], pc' = pc
  PROVE  /\ Bagged' /\ Counted' /\ Putting' /\ ref' \in [Slots -> Nat]
         /\ Unused' = Unused \ {s}
<1>1. Kinds /\ Bagged /\ Counted /\ Putting
  BY DEF CInv
<1>2. ref \in [Slots -> Nat]
  BY <1>1 DEF Kinds
<1>3. /\ Bagged'
      /\ \A q \in Procs : DOMAIN refs[q] \subseteq DOMAIN refs'[q]
      /\ \A t \in Slots : IsFiniteSet(Held(t)')
      /\ Cardinality(Held(s)') = ref[s] + 1
      /\ \A t \in Slots \ {s} : Cardinality(Held(t)') = ref[t]
  BY <1>1, CountUp
<1>4. ref' \in [Slots -> Nat] /\ ref'[s] = ref[s] + 1 /\ \A t \in Slots \ {s} : ref'[t] = ref[t]
  BY <1>2
<1>5. Counted'
  BY <1>3, <1>4 DEF Counted
<1>6. Putting'
  BY <1>1, <1>3 DEF Putting
<1>7. Unused' = Unused \ {s}
  BY <1>2, <1>4 DEF Unused
<1>8. QED BY <1>3, <1>4, <1>5, <1>6, <1>7

\* Nothing of the cache changes but the locks, the fields read from disk and
\* the panics.
LEMMA StillStep ==
  ASSUME CInv, UNCHANGED <<ref, refs, hash_list, free_list>>,
         Kinds', Bools', Putting', NoDie1'
  PROVE  CInv'
<1>1. Lists'
  BY DEF CInv, Lists, Unused
<1>2. Bagged'
  BY DEF CInv, Bagged
<1>3. Counted'
  BY DEF CInv, Counted, Held, Holders
<1>4. QED BY <1>1, <1>2, <1>3 DEF CInv

LEMMA FoundSlot ==
  ASSUME CInv, NEW n, NEW s \in find_inode_in_hash(n)
  PROVE  s \in Slots
<1> DEFINE at == {i \in 1 .. Len(hash_list) : ino[hash_list[i]] = n}
<1>1. hash_list \in Seq(Slots)
  BY DEF CInv, Lists, ListIn
<1>2. at # {} /\ s = hash_list[Min(at)]
  BY DEF find_inode_in_hash
<1>3. at \in SUBSET Nat /\ at # {}
  BY <1>1, <1>2
<1>4. Min(at) \in at
  <2> HIDE DEF at
  <2>1. \E i \in at : \A j \in at : i <= j
    <3>1. PICK i \in at : \A j \in at : ~(<<j, i>> \in OpToRel(<, Nat))
      BY <1>3, WFMin, NatLessThanWellFounded
    <3>2. i \in Nat /\ \A j \in at : j \in Nat /\ ~(j < i)
      BY <1>3, <3>1 DEF OpToRel
    <3>3. \A j \in at : i <= j
      BY <3>2
    <3>4. QED BY <3>1, <3>3
  <2>2. QED BY <2>1 DEF Min
<1>5. QED BY <1>1, <1>2, <1>4

\* The lock of the cache was left locked: all stays as it is.
LEMMA PanicStep ==
  ASSUME CInv, panicked' = {"spin_lock_irqsave(): Deadlock!!!"}, UNCHANGED <<slotVars, slk, hash_list, free_list, refs, pc, icache_lock>>
  PROVE  CInv'
<1>1. UNCHANGED <<ino, ref, valid, nlink, slk, hash_list, free_list, refs, pc, icache_lock>>
  BY DEF slotVars
<1>2. Kinds' /\ Bools' /\ Putting' /\ NoDie1'
  BY <1>1 DEF CInv, Kinds, Bools, Putting, NoDie1
<1>3. QED BY <1>1, <1>2, StillStep

LEMMA GetStep ==
  ASSUME CInv, NEW p \in Procs, NEW n \in Inos, iget(p, n)
  PROVE  CInv'
<1> DEFINE found == {s \in find_inode_in_hash(n) : ref[s] > 0}
           s0 == IF found # {} THEN CHOOSE f \in found : TRUE ELSE Head(free_list)
<1>0. /\ Kinds /\ Bools /\ Lists /\ NoDie1
      /\ ino \in [Slots -> Inos \cup {NoIno}] /\ ref \in [Slots -> Nat] /\ nlink \in [Slots -> {0, 1}]
      /\ slk \in [Slots -> SUBSET Procs] /\ pc \in [Procs -> SUBSET Slots]
  BY DEF CInv, Kinds
<1>1. UNCHANGED <<nlink, slk, pc>>
  BY DEF iget
<1>2. CASE icache_lock
  <2>1. panicked' = {"spin_lock_irqsave(): Deadlock!!!"} /\ UNCHANGED <<slotVars, slk, hash_list, free_list, refs, pc, icache_lock>>
    BY <1>2 DEF iget, Locks
  <2>2. QED BY <2>1, PanicStep
<1>3. CASE ~icache_lock /\ found # {}
  <2>1. /\ ref' = RefUp(s0) /\ free_list' = FreeTaken(s0) /\ AddRef(p, s0)
        /\ UNCHANGED <<ino, valid, hash_list, icache_lock, panicked>>
    BY <1>3 DEF iget, Locks
  <2>2. s0 \in found
    BY <1>3
  <2> HIDE DEF s0
  <2>3. s0 \in Slots /\ ref[s0] > 0
    BY <2>2, FoundSlot
  <2>4. ref' = [ref EXCEPT ![s0] = ref[s0] + 1]
    BY <2>1 DEF RefUp
  <2>5. /\ Bagged' /\ Counted' /\ Putting' /\ ref' \in [Slots -> Nat] /\ Unused' = Unused \ {s0}
    BY <1>1, <2>1, <2>3, <2>4, TakeStep
  <2>6. ListIn(Slots, free_list', Unused')
    BY <1>0, <2>1, <2>5, ListUnlink DEF Lists, FreeTaken
  <2>7. Lists'
    BY <1>0, <2>1, <2>6 DEF Lists
  <2>8. Kinds' /\ Bools' /\ NoDie1'
    BY <1>0, <1>1, <2>1, <2>5 DEF Kinds, Bools, NoDie1
  <2>9. QED BY <2>5, <2>7, <2>8 DEF CInv
<1>4. CASE ~icache_lock /\ found = {} /\ free_list = <<>>
  <2>1. icache_lock' = TRUE /\ UNCHANGED <<ino, ref, valid, hash_list, free_list, refs, panicked>>
    BY <1>4 DEF iget, Locks
  <2>2. Kinds' /\ Putting' /\ NoDie1'
    BY <1>0, <1>1, <2>1 DEF CInv, Kinds, Putting, NoDie1
  <2>3. Bools'
    BY <1>0, <2>1 DEF Bools
  <2>4. QED BY <2>1, <2>2, <2>3, StillStep
<1>5. CASE ~icache_lock /\ found = {} /\ free_list # <<>>
  <2> DEFINE s == Head(free_list)
  <2>1. /\ free_list' = Tail(free_list) /\ ref' = [ref EXCEPT ![s] = 1] /\ ino' = [ino EXCEPT ![s] = n]
        /\ valid' = [valid EXCEPT ![s] = FALSE] /\ hash_list' = Append(RemoveFirst(hash_list, s), s)
        /\ AddRef(p, s) /\ UNCHANGED <<icache_lock, panicked>>
    BY <1>5 DEF iget, Locks
  <2>2. s \in Unused /\ ListIn(Slots, Tail(free_list), Unused \ {s})
    BY <1>0, <1>5, ListTail DEF Lists
  <2> HIDE DEF s
  <2>3. s \in Slots /\ ref[s] = 0
    BY <2>2 DEF Unused
  <2>4. ref' = [ref EXCEPT ![s] = ref[s] + 1]
    BY <2>1, <2>3
  <2>5. /\ Bagged' /\ Counted' /\ Putting' /\ ref' \in [Slots -> Nat] /\ Unused' = Unused \ {s}
    BY <1>1, <2>1, <2>3, <2>4, TakeStep
  <2>6. ListIn(Slots, free_list', Unused')
    BY <2>1, <2>2, <2>5
  <2>7. \E F \in SUBSET Slots : ListIn(Slots, hash_list', F)
    <3>1. PICK F \in SUBSET Slots : ListIn(Slots, hash_list, F)
      BY <1>0 DEF Lists
    <3>2. ListIn(Slots, RemoveFirst(hash_list, s), F \ {s})
      BY <3>1, ListUnlink
    <3> DEFINE h == RemoveFirst(hash_list, s)
               G == F \ {s}
    <3>3. ListIn(Slots, h, G) /\ s \in Slots \ G
      BY <2>3, <3>2
    <3> HIDE DEF h, G
    <3>4. ListIn(Slots, Append(h, s), G \cup {s})
      BY <3>3, ListAppend
    <3>5. G \cup {s} \in SUBSET Slots
      BY <2>3, <3>1 DEF G
    <3>6. QED BY <2>1, <3>4, <3>5 DEF h
  <2>8. Lists'
    BY <2>6, <2>7 DEF Lists
  <2>9. ino' \in [Slots -> Inos \cup {NoIno}]
    BY <1>0, <2>1
  <2>10. Kinds' /\ NoDie1'
    BY <1>0, <1>1, <2>1, <2>5, <2>9 DEF Kinds, NoDie1
  <2>11. Bools'
    BY <1>0, <2>1 DEF Bools
  <2>12. QED BY <2>5, <2>8, <2>10, <2>11 DEF CInv
<1>6. QED BY <1>2, <1>3, <1>4, <1>5

\* The end of iput().
LEMMA PutStep ==
  ASSUME CInv, NEW p \in Procs, IputEnd(p)
  PROVE  CInv'
<1>0. /\ Kinds /\ Bools /\ Lists /\ Bagged /\ Counted /\ Putting /\ NoDie1
      /\ ino \in [Slots -> Inos \cup {NoIno}] /\ ref \in [Slots -> Nat] /\ nlink \in [Slots -> {0, 1}]
      /\ slk \in [Slots -> SUBSET Procs] /\ pc \in [Procs -> SUBSET Slots]
  BY DEF CInv, Kinds
<1>1. PICK s \in pc[p] :
        Locks(/\ ref' = [ref EXCEPT ![s] = @ - 1]
              /\ free_list' = ToFree(s)
              /\ DropRef(p, s)
              /\ slk' = [slk EXCEPT ![s] = {}]
              /\ pc' = [pc EXCEPT ![p] = {}]
              /\ UNCHANGED <<ino, valid, nlink, hash_list, icache_lock, panicked>>)
  BY DEF IputEnd
<1>2. s \in Slots /\ s \in DOMAIN refs[p]
  BY <1>0 DEF Putting
<1>3. CASE icache_lock
  <2>1. panicked' = {"spin_lock_irqsave(): Deadlock!!!"} /\ UNCHANGED <<slotVars, slk, hash_list, free_list, refs, pc, icache_lock>>
    BY <1>1, <1>3 DEF Locks
  <2>2. QED BY <2>1, PanicStep
<1>4. CASE ~icache_lock
  <2>1. /\ ref' = [ref EXCEPT ![s] = ref[s] - 1] /\ free_list' = ToFree(s) /\ DropRef(p, s)
        /\ slk' = [slk EXCEPT ![s] = {}] /\ pc' = [pc EXCEPT ![p] = {}]
        /\ UNCHANGED <<ino, valid, nlink, hash_list, icache_lock, panicked>>
    BY <1>1, <1>4 DEF Locks
  <2>2. /\ Bagged'
        /\ \A q \in Procs : q # p => refs'[q] = refs[q]
        /\ \A t \in Slots : IsFiniteSet(Held(t)')
        /\ ref[s] > 0 /\ Cardinality(Held(s)') = ref[s] - 1
        /\ \A t \in Slots \ {s} : Cardinality(Held(t)') = ref[t]
    BY <1>0, <1>2, <2>1, CountDown
  <2>3. ref' \in [Slots -> Nat] /\ ref'[s] = ref[s] - 1 /\ \A t \in Slots \ {s} : ref'[t] = ref[t]
    BY <1>0, <1>2, <2>1, <2>2
  <2>4. Counted'
    BY <2>2, <2>3 DEF Counted
  <2>5. pc' \in [Procs -> SUBSET Slots] /\ pc'[p] = {} /\ \A q \in Procs : q # p => pc'[q] = pc[q]
    BY <1>0, <2>1
  <2>6. Putting'
    BY <1>0, <2>2, <2>5 DEF Putting
  <2>7. ListIn(Slots, free_list', Unused')
    <3>1. ListIn(Slots, free_list, Unused) /\ s \notin Unused
      BY <1>0, <2>2 DEF Lists, Unused
    <3>2. CASE ref[s] = 1
      <4>1. Unused' = Unused \cup {s}
        BY <1>0, <1>2, <2>3, <3>2 DEF Unused
      <4>2. free_list' = Append(free_list, s)
        BY <2>1, <3>2 DEF ToFree
      <4>3. ListIn(Slots, Append(free_list, s), Unused \cup {s})
        BY <1>2, <3>1, ListAppend
      <4>4. QED BY <4>1, <4>2, <4>3
    <3>3. CASE ref[s] # 1
      <4>1. Unused' = Unused
        BY <1>0, <1>2, <2>2, <2>3, <3>3 DEF Unused
      <4>2. QED BY <2>1, <3>1, <3>3, <4>1 DEF ToFree
    <3>4. QED BY <3>2, <3>3
  <2>8. Lists'
    BY <1>0, <2>1, <2>7 DEF Lists
  <2>9. slk' \in [Slots -> SUBSET Procs]
    BY <1>0, <2>1
  <2>10. Kinds' /\ Bools' /\ NoDie1'
    BY <1>0, <2>1, <2>3, <2>5, <2>9 DEF Kinds, Bools, NoDie1
  <2>11. QED BY <2>2, <2>4, <2>6, <2>8, <2>10 DEF CInv
<1>5. QED BY <1>3, <1>4

\* The initial state: no reference, and every slot free.
LEMMA InitFInv == inode_init => FInv
<1> SUFFICES ASSUME inode_init PROVE FInv
  OBVIOUS
<1>1. ref = [s \in Slots |-> 0] /\ refs = [p \in Procs |-> EmptyBag]
  BY DEF inode_init
<1>2. Unused = Slots
  BY <1>1 DEF Unused
<1>3. Lists
  <2>1. ListIn(Slots, free_list, Unused)
    BY <1>2, AllListed, IcacheAssumption DEF inode_init
  <2>2. ListIn(Slots, <<>>, {})
    BY EmptySeq DEF ListIn, IsInjective, ToSet
  <2>3. hash_list = <<>>
    BY DEF inode_init
  <2>4. {} \in SUBSET Slots
    OBVIOUS
  <2>5. QED BY <2>1, <2>2, <2>3, <2>4 DEF Lists
<1>4. EmptyBag \in RefBags /\ DOMAIN EmptyBag = {}
  <2>1. EmptyBag = [e \in {} |-> 1]
    BY DEF EmptyBag, SetToBag
  <2>2. EmptyBag \in [{} -> Nat \ {0}] /\ DOMAIN EmptyBag = {}
    BY <2>1
  <2>3. QED BY <2>2 DEF RefBags
<1>5. Bagged
  BY <1>1, <1>4 DEF Bagged
<1>6. Counted
  <2> SUFFICES ASSUME NEW s \in Slots PROVE IsFiniteSet(Held(s)) /\ ref[s] = Cardinality(Held(s))
    BY DEF Counted
  <2>1. Holders(s) = {}
    BY <1>1, <1>4 DEF Holders, BagToSet
  <2>2. Held(s) = {}
    BY <2>1 DEF Held
  <2>3. QED BY <1>1, <2>2, FS_EmptySet
<1>7. Kinds /\ Putting /\ NoDie1
  BY DEF inode_init, Kinds, Putting, NoDie1
<1>8. Bools
  BY DEF inode_init, Bools
<1>9. (CHOOSE n \in Inos : TRUE) \in Inos
  BY IcacheAssumption
<1>10. OnDisk
  BY <1>9 DEF inode_init, OnDisk
<1>11. Names
  BY DEF inode_init, Names
<1>12. QED BY <1>3, <1>5, <1>6, <1>7, <1>8, <1>10, <1>11 DEF FInv, CInv

LEMMA StepFInv == FInv /\ [Next]_vars => FInv'
<1> SUFFICES ASSUME FInv, [Next]_vars PROVE FInv'
  OBVIOUS
<1>0. /\ CInv /\ Kinds /\ Bools /\ Lists /\ Bagged /\ Counted /\ Putting /\ NoDie1 /\ OnDisk /\ Names
      /\ ino \in [Slots -> Inos \cup {NoIno}] /\ ref \in [Slots -> Nat] /\ nlink \in [Slots -> {0, 1}]
      /\ slk \in [Slots -> SUBSET Procs] /\ pc \in [Procs -> SUBSET Slots]
      /\ d_type \in SUBSET Inos /\ d_nlink \in [Inos -> {0, 1}]
  BY DEF FInv, CInv, Kinds, OnDisk
<1>1. ASSUME NEW p \in Procs, NEW n \in Inos, Lookup(p, n) PROVE FInv'
  <2>1. iget(p, n) /\ UNCHANGED <<d_type, d_nlink, named>>
    BY <1>1 DEF Lookup, diskVars
  <2>2. CInv'
    BY <1>0, <2>1, GetStep
  <2>3. QED BY <1>0, <2>1, <2>2 DEF FInv, OnDisk, Names
<1>2. ASSUME NEW p \in Procs, NEW n \in Inos, ialloc(p, n) PROVE FInv'
  <2>1. iget(p, n) /\ d_type' = d_type \cup {n} /\ d_nlink' = [d_nlink EXCEPT ![n] = 0] /\ named' = named
    BY <1>2 DEF ialloc
  <2>2. CInv'
    BY <1>0, <2>1, GetStep
  <2>3. OnDisk'
    BY <1>0, <2>1 DEF OnDisk
  <2>4. QED BY <1>0, <2>1, <2>2, <2>3 DEF FInv, Names
<1>3. ASSUME NEW p \in Procs, NEW s \in Slots, iref(p, s) PROVE FInv'
  <2>1. UNCHANGED <<d_type, d_nlink, named>>
    BY <1>3 DEF iref, diskVars
  <2>2. CASE icache_lock
    <3>1. panicked' = {"spin_lock_irqsave(): Deadlock!!!"} /\ UNCHANGED <<slotVars, slk, hash_list, free_list, refs, pc, icache_lock>>
      BY <1>3, <2>2 DEF iref, Locks
    <3>2. CInv'
      BY <1>0, <3>1, PanicStep
    <3>3. QED BY <1>0, <2>1, <3>2 DEF FInv, OnDisk, Names
  <2>3. CASE ~icache_lock
    <3>1. /\ ref' = [ref EXCEPT ![s] = ref[s] + 1] /\ AddRef(p, s) /\ s \in DOMAIN refs[p]
          /\ UNCHANGED <<ino, valid, nlink, slk, hash_list, free_list, pc, icache_lock, panicked>>
      BY <1>3, <2>3 DEF iref, Locks, RefUp, BagToSet
    <3>2. /\ Bagged' /\ Counted' /\ Putting' /\ ref' \in [Slots -> Nat] /\ Unused' = Unused \ {s}
      BY <1>0, <3>1, TakeStep
    <3>3. ref[s] > 0
      BY <1>0, <3>1, Referred
    <3>4. Unused' = Unused
      BY <3>2, <3>3 DEF Unused
    <3>5. Lists'
      BY <1>0, <3>1, <3>4 DEF Lists
    <3>6. Kinds' /\ NoDie1'
      BY <1>0, <3>1, <3>2 DEF Kinds, NoDie1
    <3>7. Bools'
      BY <1>0, <3>1 DEF Bools
    <3>8. CInv'
      BY <3>2, <3>5, <3>6, <3>7 DEF CInv
    <3>9. QED BY <1>0, <2>1, <3>8 DEF FInv, OnDisk, Names
  <2>4. QED BY <2>2, <2>3
<1>4. ASSUME NEW p \in Procs, NEW s \in Slots, ilock(p, s) PROVE FInv'
  <2>1. /\ s \in DOMAIN refs[p]
        /\ UNCHANGED <<ino, ref, hash_list, free_list, d_type, d_nlink, named, refs, pc, icache_lock>>
    BY <1>4 DEF ilock, diskVars, BagToSet
  <2>2. ref[s] \in Nat /\ ref[s] > 0
    BY <1>0, <2>1, Referred
  <2>a. ~(ref[s] < 1)
    BY <2>2
  <2>c. panicked' = panicked \/ panicked' = {"ilock die2!!!"}
    BY <1>4, <2>a, Zenon DEF ilock
  <2>d. slk' = slk \/ slk' = [slk EXCEPT ![s] = {p}]
    BY <1>4, <2>a, Zenon DEF ilock
  <2>e. nlink' = nlink \/ (ino[s] \in d_type /\ nlink' = [nlink EXCEPT ![s] = d_nlink[ino[s]]])
    BY <1>4, <2>a, Zenon DEF ilock
  <2>b. valid' = valid \/ valid' = [valid EXCEPT ![s] = TRUE]
    BY <1>4, <2>a, Zenon DEF ilock
  <2>4. NoDie1'
    <3>1. "ilock die1!!!" # "ilock die2!!!"
      OBVIOUS
    <3>2. CASE panicked' = panicked
      BY <1>0, <3>2 DEF NoDie1
    <3>3. CASE panicked' = {"ilock die2!!!"}
      BY <3>1, <3>3 DEF NoDie1
    <3>4. QED BY <2>c, <3>2, <3>3
  <2>5. slk' \in [Slots -> SUBSET Procs]
    BY <1>0, <2>d
  <2>6. nlink' \in [Slots -> {0, 1}]
    <3>1. ino[s] \in d_type => d_nlink[ino[s]] \in {0, 1}
      BY <1>0
    <3>2. QED BY <1>0, <2>e, <3>1
  <2>7. Kinds' /\ Putting'
    BY <1>0, <2>1, <2>5, <2>6 DEF Kinds, Putting
  <2>8. Bools'
    BY <1>0, <2>1, <2>b DEF Bools
  <2>9. CInv'
    BY <1>0, <2>1, <2>4, <2>7, <2>8, StillStep
  <2>10. QED BY <1>0, <2>1, <2>9 DEF FInv, OnDisk, Names
<1>5. ASSUME NEW p \in Procs, NEW s \in Slots, iunlock(p, s) PROVE FInv'
  <2>1. /\ slk' = [slk EXCEPT ![s] = {}]
        /\ UNCHANGED <<ino, ref, valid, nlink, hash_list, free_list, d_type, d_nlink, named, refs, pc, icache_lock, panicked>>
    BY <1>5 DEF iunlock, slotVars, diskVars
  <2>2. slk' \in [Slots -> SUBSET Procs]
    BY <1>0, <2>1
  <2>3. Kinds' /\ Putting' /\ NoDie1'
    BY <1>0, <2>1, <2>2 DEF Kinds, Putting, NoDie1
  <2>4. Bools'
    BY <1>0, <2>1 DEF Bools
  <2>5. CInv'
    BY <1>0, <2>1, <2>3, <2>4, StillStep
  <2>6. QED BY <1>0, <2>1, <2>5 DEF FInv, OnDisk, Names
<1>6. ASSUME NEW p \in Procs, NEW s \in Slots, iput(p, s) PROVE FInv'
  <2>1. /\ s \in DOMAIN refs[p] /\ slk' = [slk EXCEPT ![s] = {p}] /\ pc' = [pc EXCEPT ![p] = {s}]
        /\ (d_type' = d_type \/ d_type' = d_type \ {ino[s]})
        /\ (valid' = valid \/ valid' = [valid EXCEPT ![s] = FALSE])
        /\ UNCHANGED <<ino, ref, nlink, hash_list, free_list, d_nlink, named, refs, icache_lock, panicked>>
    BY <1>6 DEF iput, BagToSet
  <2>2. slk' \in [Slots -> SUBSET Procs]
    BY <1>0, <2>1
  <2>3. pc' \in [Procs -> SUBSET Slots] /\ pc'[p] = {s} /\ \A q \in Procs : q # p => pc'[q] = pc[q]
    BY <1>0, <2>1
  <2>4. Putting'
    BY <1>0, <2>1, <2>3 DEF Putting
  <2>5. Kinds' /\ NoDie1'
    BY <1>0, <2>1, <2>2, <2>3 DEF Kinds, NoDie1
  <2>6. Bools'
    BY <1>0, <2>1 DEF Bools
  <2>7. CInv'
    BY <1>0, <2>1, <2>4, <2>5, <2>6, StillStep
  <2>8. OnDisk'
    BY <1>0, <2>1 DEF OnDisk
  <2>9. QED BY <1>0, <2>1, <2>7, <2>8 DEF FInv, Names
<1>7. ASSUME NEW p \in Procs, NEW s \in Slots, NEW on \in BOOLEAN, SetLink(p, s, on) PROVE FInv'
  <2>1. /\ named' = [named EXCEPT ![ino[s]] = on] /\ nlink' = [nlink EXCEPT ![s] = IF on THEN 1 ELSE 0]
        /\ d_nlink' = [d_nlink EXCEPT ![ino[s]] = nlink'[s]]
        /\ UNCHANGED <<ino, ref, valid, slk, hash_list, free_list, d_type, refs, pc, icache_lock, panicked>>
    BY <1>7 DEF SetLink
  <2>2. nlink' \in [Slots -> {0, 1}]
    BY <1>0, <2>1
  <2>3. nlink'[s] \in {0, 1}
    BY <2>2
  <2>4. OnDisk'
    BY <1>0, <2>1, <2>3 DEF OnDisk
  <2>5. Names'
    BY <1>0, <2>1 DEF Names
  <2>6. Kinds' /\ Putting' /\ NoDie1'
    BY <1>0, <2>1, <2>2 DEF Kinds, Putting, NoDie1
  <2>7. Bools'
    BY <1>0, <2>1 DEF Bools
  <2>8. CInv'
    BY <1>0, <2>1, <2>6, <2>7, StillStep
  <2>9. QED BY <2>4, <2>5, <2>8 DEF FInv
<1>8. ASSUME NEW p \in Procs, IputEnd(p) PROVE FInv'
  <2>1. UNCHANGED <<d_type, d_nlink, named>>
    BY <1>8 DEF IputEnd, diskVars
  <2>2. CInv'
    BY <1>0, <1>8, PutStep
  <2>3. QED BY <1>0, <2>1, <2>2 DEF FInv, OnDisk, Names
<1>9. CASE UNCHANGED vars
  <2>1. /\ UNCHANGED <<ino, ref, valid, nlink, slk, hash_list, free_list, refs, pc, icache_lock, panicked>>
        /\ UNCHANGED <<d_type, d_nlink, named>>
    BY <1>9 DEF vars, slotVars, diskVars
  <2>2. Kinds' /\ Bools' /\ Putting' /\ NoDie1'
    BY <1>0, <2>1 DEF Kinds, Bools, Putting, NoDie1
  <2>3. CInv'
    BY <1>0, <2>1, <2>2, StillStep
  <2>4. QED BY <1>0, <2>1, <2>3 DEF FInv, OnDisk, Names
<1>10. QED BY <1>1, <1>2, <1>3, <1>4, <1>5, <1>6, <1>7, <1>8, <1>9 DEF Next

\* What the invariant says of the cache.
LEMMA FInvMeans == FInv => TypeOK /\ RefsCounted /\ NoDie1
<1> SUFFICES ASSUME FInv PROVE TypeOK /\ RefsCounted /\ NoDie1
  OBVIOUS
<1>1. Kinds /\ Bools /\ Lists /\ Counted /\ OnDisk /\ Names /\ NoDie1
  BY DEF FInv, CInv
<1>2. IsInjective(hash_list) /\ ListIn(Slots, free_list, Unused)
  BY <1>1 DEF Lists, ListIn
<1>3. \A s \in Slots : Contains(free_list, s) <=> ref[s] = 0
  <2>1. free_list \in Seq(Slots) /\ ToSet(free_list) = Unused
    BY <1>2 DEF ListIn
  <2>2. DOMAIN free_list = 1 .. Len(free_list)
    BY <2>1, LenProperties
  <2>3. \A s \in Slots : Contains(free_list, s) <=> s \in Unused
    BY <2>1, <2>2 DEF Contains, ToSet
  <2>4. QED BY <2>3 DEF Unused
<1>4. RefsCounted
  BY <1>1, <1>3 DEF RefsCounted, Counted
<1>5. TypeOK
  BY <1>1, <1>2, Zenon DEF TypeOK, Kinds, Bools, OnDisk, Names, ListIn
<1>6. QED BY <1>1, <1>4, <1>5

-----------------------------------------------------------------------------

\* The inode cache keeps its invariant, in every order of iget, ialloc, iref,
\* ilock, iunlock and iput (inode.c:82-301).
THEOREM IcacheInvariance == Spec => []FInv
<1>1. FInv /\ [Next]_vars => FInv'
  BY StepFInv
<1>2. QED BY <1>1, InitFInv, PTL DEF Spec

\* ref counts the references of the processes, the free list has exactly the
\* slots nobody refers to, and no process that locks an inode finds its
\* reference gone (inode.c:99-160, 265-287): what MCFiles checks on two slots,
\* for any number of them.
THEOREM InodesAreHeld == MCSpec => []InodesHeld
<1> DEFINE Inv == part = "inodes" => FInv
<1>1. MCInit => Inv
  BY InitFInv DEF MCInit
<1>2. Inv /\ [MCNext]_<<part, vars, dataVars, dirVars, tableVars>> => Inv'
  <2> SUFFICES ASSUME Inv, [MCNext]_<<part, vars, dataVars, dirVars, tableVars>>, part' = "inodes" PROVE FInv'
    OBVIOUS
  <2>1. part' = part
    BY DEF MCNext
  <2>2. FInv
    BY <2>1
  <2>3. [Next]_vars
    BY <2>1 DEF MCNext
  <2>4. QED BY <2>2, <2>3, StepFInv
<1>3. Inv => InodesHeld
  BY FInvMeans DEF InodesHeld
<1>4. QED BY <1>1, <1>2, <1>3, PTL DEF MCSpec

-----------------------------------------------------------------------------
(* What the copies of library operators in module FileTable mean.           *)

LEMMA SameSets ==
  /\ \A S : Open!Cardinality(S) = Cardinality(S)
  /\ \A S : Open!IsFiniteSet(S) <=> IsFiniteSet(S)
  /\ \A s, e : Open!Contains(s, e) <=> Contains(s, e)
  /\ \A S : Open!SetToSeq(S) = SetToSeq(S)
<1>1. \A S : Open!Cardinality(S) = Cardinality(S)
  BY DEF Open!Cardinality, Cardinality
<1>2. \A S : Open!IsFiniteSet(S) <=> IsFiniteSet(S)
  BY DEF Open!IsFiniteSet, IsFiniteSet
<1>3. \A s, e : Open!Contains(s, e) <=> Contains(s, e)
  BY DEF Open!Contains, Contains
<1>4. \A f : Open!IsInjective(f) <=> IsInjective(f)
  BY DEF Open!IsInjective, IsInjective
<1>5. \A S : Open!SetToSeq(S) = SetToSeq(S)
  BY <1>1, <1>4 DEF Open!SetToSeq, SetToSeq, Open!Cardinality, Cardinality, Open!IsInjective, IsInjective
<1>6. QED BY <1>1, <1>2, <1>3, <1>5

LEMMA OpenFacts ==
  /\ root_proc \in OpenProcs /\ IsFiniteSet(OpenFiles) /\ NoFile \notin OpenFiles
  /\ NOFILE \in Nat \ {0} /\ Open!NFILE \in Nat
  /\ IsFiniteSet(Open!Fd) /\ Open!Fd \subseteq Nat /\ \A fd \in Open!Fd : fd < NOFILE
<1>1. /\ root_proc \in OpenProcs /\ IsFiniteSet(OpenFiles) /\ NoFile \notin OpenFiles
      /\ NOFILE \in Nat \ {0}
  BY FilesAssumption, SameSets DEF Open!FileTableAssumption
<1>2. Open!NFILE \in Nat
  BY <1>1, SameSets, FS_CardinalityType DEF Open!NFILE
<1>3. IsFiniteSet(Open!Fd)
  BY <1>1, FS_Interval DEF Open!Fd
<1>4. Open!Fd \subseteq Nat /\ \A fd \in Open!Fd : fd < NOFILE
  BY <1>1 DEF Open!Fd
<1>5. QED BY <1>1, <1>2, <1>3, <1>4

\* Min() of natural numbers.
LEMMA LeastOf ==
  ASSUME NEW S \in SUBSET Nat, S # {}
  PROVE  Open!Min(S) \in S /\ \A k \in S : Open!Min(S) <= k
<1>0. S \subseteq Nat
  OBVIOUS
<1>1. PICK m \in S : \A k \in S : ~(<<k, m>> \in OpToRel(<, Nat))
  BY <1>0, WFMin, NatLessThanWellFounded
<1>2. m \in Nat /\ \A k \in S : k \in Nat /\ ~(k < m)
  BY <1>0, <1>1 DEF OpToRel
<1>3. \A k \in S : m <= k
  BY <1>2
<1>4. QED BY <1>3 DEF Open!Min
-----------------------------------------------------------------------------
(* The file table.                                                          *)

\* The free list is exactly the files without a reference, n_openfiles is
\* the number of the others, and nothing panicked.
TableOK(t) ==
    /\ t \in [ref : [OpenFiles -> Nat], flist : Seq(OpenFiles), n : Int, corrupt : BOOLEAN]
    /\ ListIn(OpenFiles, t.flist, {f \in OpenFiles : t.ref[f] = 0})
    /\ t.n = Open!NFILE - Len(t.flist)
    /\ t.corrupt = FALSE

LEMMA AllocOK ==
  ASSUME NEW t, TableOK(t), t.n # Open!NFILE
  PROVE  /\ TableOK(Open!file_alloc(t)) /\ Open!file_alloc(t).n = t.n + 1
         /\ Open!Allocated(t) \in OpenFiles /\ t.ref[Open!Allocated(t)] = 0
         /\ Open!file_alloc(t).ref = [t.ref EXCEPT ![Open!Allocated(t)] = t.ref[Open!Allocated(t)] + 1]
<1> DEFINE f == Head(t.flist)
           u == Open!file_alloc(t)
<1>1. /\ t.ref \in [OpenFiles -> Nat] /\ t.flist \in Seq(OpenFiles) /\ t.n \in Int
      /\ Len(t.flist) \in Nat /\ Open!NFILE \in Nat
  BY OpenFacts, LenProperties DEF TableOK
<1>2. t.flist # <<>>
  BY <1>1 DEF TableOK
<1>3. /\ f \in {g \in OpenFiles : t.ref[g] = 0}
      /\ ListIn(OpenFiles, Tail(t.flist), {g \in OpenFiles : t.ref[g] = 0} \ {f})
  BY <1>2, ListTail DEF TableOK
<1>4. Len(Tail(t.flist)) = Len(t.flist) - 1 /\ Tail(t.flist) \in Seq(OpenFiles)
  BY <1>2, <1>3, TailShorter DEF TableOK, ListIn
<1>5. /\ u.ref = [t.ref EXCEPT ![f] = 1] /\ u.flist = Tail(t.flist) /\ u.n = t.n + 1 /\ u.corrupt = t.corrupt
      /\ u = [ref |-> u.ref, flist |-> u.flist, n |-> u.n, corrupt |-> u.corrupt]
  <2> DEFINE w == Tail(t.flist)
  <2>1. u = [t EXCEPT !.ref[f] = 1, !.flist = w, !.n = t.n + 1]
    BY DEF Open!file_alloc, Open!Allocated
  <2>2. t \in [ref : [OpenFiles -> Nat], flist : Seq(OpenFiles), n : Int, corrupt : BOOLEAN]
    BY DEF TableOK
  <2> HIDE DEF u, f, w
  <2>3. u.ref = [t.ref EXCEPT ![f] = 1] /\ u.flist = w /\ u.n = t.n + 1 /\ u.corrupt = t.corrupt
    BY <2>1, <2>2
  <2>4. u = [ref |-> u.ref, flist |-> u.flist, n |-> u.n, corrupt |-> u.corrupt]
    BY <2>1, <2>2
  <2>5. QED BY <2>3, <2>4 DEF w
<1> HIDE DEF u, f
<1>6. {g \in OpenFiles : u.ref[g] = 0} = {g \in OpenFiles : t.ref[g] = 0} \ {f}
  BY <1>1, <1>3, <1>5
<1>7. u.ref \in [OpenFiles -> Nat] /\ u.flist \in Seq(OpenFiles) /\ u.n \in Int
  BY <1>1, <1>3, <1>4, <1>5
<1>a. u.corrupt = FALSE
  BY <1>5 DEF TableOK
<1>8. u \in [ref : [OpenFiles -> Nat], flist : Seq(OpenFiles), n : Int, corrupt : BOOLEAN]
  BY <1>5, <1>7, <1>a
<1>9. u.n = Open!NFILE - Len(u.flist)
  BY <1>1, <1>4, <1>5 DEF TableOK
<1>10. TableOK(u)
  BY <1>3, <1>5, <1>6, <1>8, <1>9, <1>a DEF TableOK
<1>11. Open!Allocated(t) = f
  BY DEF Open!Allocated, f
<1>12. f \in OpenFiles /\ t.ref[f] = 0 /\ u.ref = [t.ref EXCEPT ![f] = t.ref[f] + 1] /\ u.n = t.n + 1
  BY <1>3, <1>5
<1>13. QED BY <1>10, <1>11, <1>12 DEF u

LEMMA DupOK ==
  ASSUME NEW t, TableOK(t), NEW f \in OpenFiles, t.ref[f] > 0
  PROVE  TableOK(Open!file_dup(t, f)) /\ Open!file_dup(t, f).ref = [t.ref EXCEPT ![f] = t.ref[f] + 1]
<1> DEFINE u == Open!file_dup(t, f)
<1>1. t.ref \in [OpenFiles -> Nat] /\ t.ref[f] \in Nat /\ t.ref[f] # 0
  BY DEF TableOK
<1>2. /\ u.ref = [t.ref EXCEPT ![f] = t.ref[f] + 1] /\ u.flist = t.flist /\ u.n = t.n
      /\ u.corrupt = t.corrupt
      /\ u = [ref |-> u.ref, flist |-> u.flist, n |-> u.n, corrupt |-> u.corrupt]
  BY <1>1 DEF Open!file_dup, TableOK
<1> HIDE DEF u
<1>3. {g \in OpenFiles : u.ref[g] = 0} = {g \in OpenFiles : t.ref[g] = 0}
  BY <1>1, <1>2
<1>4. u.ref \in [OpenFiles -> Nat] /\ u.flist \in Seq(OpenFiles) /\ u.n \in Int
  BY <1>1, <1>2 DEF TableOK
<1>a. u.corrupt = FALSE
  BY <1>2 DEF TableOK
<1>5. u \in [ref : [OpenFiles -> Nat], flist : Seq(OpenFiles), n : Int, corrupt : BOOLEAN]
  BY <1>2, <1>4, <1>a
<1>6. TableOK(u)
  BY <1>2, <1>3, <1>5, <1>a DEF TableOK
<1>7. QED BY <1>2, <1>6 DEF u

LEMMA CloseOK ==
  ASSUME NEW t, TableOK(t), NEW f \in OpenFiles, t.ref[f] > 0
  PROVE  TableOK(Open!file_close(t, f)) /\ Open!file_close(t, f).ref = [t.ref EXCEPT ![f] = t.ref[f] - 1]
<1> DEFINE u == Open!file_close(t, f)
           F == {g \in OpenFiles : t.ref[g] = 0}
<1>1. t.ref \in [OpenFiles -> Nat] /\ t.ref[f] \in Nat /\ t.ref[f] # 0 /\ t.flist \in Seq(OpenFiles)
  BY DEF TableOK
<1>b. t.n \in Int /\ Len(t.flist) \in Nat /\ Open!NFILE \in Nat /\ t.corrupt = FALSE
  BY OpenFacts, LenProperties DEF TableOK
<1>2. CASE t.ref[f] = 1
  <2>1. /\ u.ref = [t.ref EXCEPT ![f] = 0] /\ u.flist = <<f>> \o t.flist /\ u.n = t.n - 1
        /\ u.corrupt = t.corrupt
        /\ u = [ref |-> u.ref, flist |-> u.flist, n |-> u.n, corrupt |-> u.corrupt]
    BY <1>1, <1>2 DEF Open!file_close, TableOK
  <2> HIDE DEF u, F
  <2>2. f \in OpenFiles \ F
    BY <1>1 DEF F
  <2>3. ListIn(OpenFiles, <<f>> \o t.flist, F \cup {f}) /\ Len(<<f>> \o t.flist) = Len(t.flist) + 1
    <3>1. ListIn(OpenFiles, t.flist, F)
      BY DEF TableOK, F
    <3>2. QED BY <2>2, <3>1, ListPush
  <2>4. {g \in OpenFiles : u.ref[g] = 0} = F \cup {f}
    BY <1>1, <2>1 DEF F
  <2>5. u.ref \in [OpenFiles -> Nat] /\ u.flist \in Seq(OpenFiles) /\ u.n \in Int
    BY <1>1, <1>b, <2>1, <2>3 DEF ListIn
  <2>6. u \in [ref : [OpenFiles -> Nat], flist : Seq(OpenFiles), n : Int, corrupt : BOOLEAN]
    BY <1>b, <2>1, <2>5
  <2>7. u.n = Open!NFILE - Len(u.flist)
    BY <1>b, <2>1, <2>3 DEF TableOK
  <2>8. TableOK(u)
    BY <1>b, <2>1, <2>3, <2>4, <2>6, <2>7 DEF TableOK
  <2>9. u.ref = [t.ref EXCEPT ![f] = t.ref[f] - 1]
    BY <1>2, <2>1
  <2>10. QED BY <2>8, <2>9 DEF u
<1>3. CASE t.ref[f] # 1
  <2>1. /\ u.ref = [t.ref EXCEPT ![f] = t.ref[f] - 1] /\ u.flist = t.flist /\ u.n = t.n
        /\ u.corrupt = t.corrupt
        /\ u = [ref |-> u.ref, flist |-> u.flist, n |-> u.n, corrupt |-> u.corrupt]
    BY <1>1, <1>3 DEF Open!file_close, TableOK
  <2> HIDE DEF u, F
  <2>2. {g \in OpenFiles : u.ref[g] = 0} = F
    BY <1>1, <1>3, <2>1 DEF F
  <2>3. u.ref \in [OpenFiles -> Nat] /\ u.flist \in Seq(OpenFiles) /\ u.n \in Int
    BY <1>1, <1>3, <1>b, <2>1
  <2>4. u \in [ref : [OpenFiles -> Nat], flist : Seq(OpenFiles), n : Int, corrupt : BOOLEAN]
    BY <1>b, <2>1, <2>3
  <2>5. TableOK(u)
    BY <1>b, <2>1, <2>2, <2>4 DEF TableOK, F
  <2>6. QED BY <2>1, <2>5 DEF u
<1>4. QED BY <1>2, <1>3
-----------------------------------------------------------------------------
(* Descriptors and the references they stand for.                           *)

Entries == OpenFiles \cup {NoFile}

Descs == [OpenProcs -> [Open!Fd -> Entries]]

\* exit() has closed entry fd of p, with loops lp.
Shut(lp, p, fd) == \E v \in lp[p] : v[1] = p /\ fd < v[2]

\* The descriptors that name f, in tables tab.
NamingIn(tab, lp, f) == {e \in OpenProcs \X Open!Fd : tab[e[1]][e[2]] = f /\ ~Shut(lp, e[1], e[2])}

\* The files have a reference for each of them.
HeldIn(tab, lp, rf) ==
    \A f \in OpenFiles : /\ IsFiniteSet(NamingIn(tab, lp, f))
                         /\ rf[f] >= Cardinality(NamingIn(tab, lp, f))

LEMMA CardSubset ==
  ASSUME NEW N, IsFiniteSet(N), NEW M, M \subseteq N
  PROVE  /\ IsFiniteSet(M) /\ Cardinality(M) \in Nat /\ Cardinality(N) \in Nat
         /\ Cardinality(M) <= Cardinality(N)
BY FS_Subset, FS_CardinalityType

LEMMA CardPlus ==
  ASSUME NEW N, IsFiniteSet(N), NEW e, NEW M, M \subseteq N \cup {e}
  PROVE  /\ IsFiniteSet(M) /\ Cardinality(M) \in Nat /\ Cardinality(N) \in Nat
         /\ Cardinality(M) <= Cardinality(N) + 1
<1>1. IsFiniteSet(N \cup {e}) /\ Cardinality(N) \in Nat
  BY FS_AddElement, FS_CardinalityType
<1>2. Cardinality(N \cup {e}) <= Cardinality(N) + 1 /\ Cardinality(N \cup {e}) \in Nat
  BY <1>1, FS_AddElement, FS_CardinalityType
<1>3. IsFiniteSet(M) /\ Cardinality(M) <= Cardinality(N \cup {e}) /\ Cardinality(M) \in Nat
  BY <1>1, CardSubset
<1>4. QED BY <1>1, <1>2, <1>3

LEMMA CardMinus ==
  ASSUME NEW N, IsFiniteSet(N), NEW e \in N, NEW M, M \subseteq N \ {e}
  PROVE  /\ IsFiniteSet(M) /\ Cardinality(M) \in Nat /\ Cardinality(N) \in Nat
         /\ Cardinality(M) <= Cardinality(N) - 1
<1>1. IsFiniteSet(N \ {e}) /\ Cardinality(N) \in Nat
  BY FS_RemoveElement, FS_CardinalityType
<1>2. Cardinality(N \ {e}) = Cardinality(N) - 1
  BY FS_RemoveElement
<1>3. IsFiniteSet(M) /\ Cardinality(M) <= Cardinality(N \ {e}) /\ Cardinality(M) \in Nat
  BY <1>1, CardSubset
<1>4. QED BY <1>1, <1>2, <1>3

\* A file that a descriptor names has a reference.
LEMMA NamedIsHeld ==
  ASSUME NEW tab, NEW lp, NEW rf \in [OpenFiles -> Nat], HeldIn(tab, lp, rf),
         NEW p \in OpenProcs, NEW fd \in Open!Fd, tab[p][fd] \in OpenFiles, ~Shut(lp, p, fd)
  PROVE  rf[tab[p][fd]] > 0
<1> DEFINE f == tab[p][fd]
           N == NamingIn(tab, lp, f)
<1>1. <<p, fd>> \in N
  BY DEF NamingIn
<1>2. f \in OpenFiles /\ IsFiniteSet(N) /\ rf[f] >= Cardinality(N) /\ rf[f] \in Nat
  BY DEF HeldIn
<1> HIDE DEF N, f
<1>3. Cardinality(N) \in Nat /\ Cardinality(N) # 0
  BY <1>1, <1>2, FS_CardinalityType, FS_EmptySet
<1>4. rf[f] > 0
  BY <1>2, <1>3
<1>5. QED BY <1>4 DEF f

\* Closing an entry and giving its reference back.
LEMMA HeldClose ==
  ASSUME NEW tab \in Descs, NEW lp, NEW rf \in [OpenFiles -> Nat], HeldIn(tab, lp, rf),
         NEW p \in OpenProcs, NEW fd \in Open!Fd, tab[p][fd] \in OpenFiles, ~Shut(lp, p, fd)
  PROVE  HeldIn([tab EXCEPT ![p][fd] = NoFile], lp, [rf EXCEPT ![tab[p][fd]] = rf[tab[p][fd]] - 1])
<1> DEFINE g == tab[p][fd]
           tab2 == [tab EXCEPT ![p][fd] = NoFile]
           rf2 == [rf EXCEPT ![g] = rf[g] - 1]
<1> SUFFICES ASSUME NEW f \in OpenFiles
             PROVE  /\ IsFiniteSet(NamingIn(tab2, lp, f))
                    /\ rf2[f] >= Cardinality(NamingIn(tab2, lp, f))
  BY DEF HeldIn
<1>1. \A e \in OpenProcs \X Open!Fd : e # <<p, fd>> => tab2[e[1]][e[2]] = tab[e[1]][e[2]]
  BY DEF Descs
<1>2. tab2[p][fd] = NoFile /\ NoFile # f /\ g \in OpenFiles
  BY OpenFacts DEF Descs
<1> HIDE DEF tab2
<1> DEFINE N == NamingIn(tab, lp, f)
           M == NamingIn(tab2, lp, f)
<1>3. M \subseteq N \ {<<p, fd>>}
  BY <1>1, <1>2 DEF NamingIn
<1>4. IsFiniteSet(N) /\ rf[f] >= Cardinality(N) /\ rf[f] \in Nat
  BY DEF HeldIn
<1>5. CASE f = g
  <2>1. <<p, fd>> \in N
    BY <1>5 DEF NamingIn
  <2>2. rf2[f] = rf[f] - 1
    BY <1>5
  <2> HIDE DEF N, M, rf2
  <2>3. IsFiniteSet(M) /\ Cardinality(M) \in Nat /\ Cardinality(N) \in Nat /\ Cardinality(M) <= Cardinality(N) - 1
    BY <1>3, <1>4, <2>1, CardMinus
  <2>4. rf2[f] >= Cardinality(M)
    BY <1>4, <2>2, <2>3
  <2>5. QED BY <2>3, <2>4 DEF M
<1>6. CASE f # g
  <2>1. rf2[f] = rf[f]
    BY <1>6
  <2> HIDE DEF N, M, rf2
  <2>2. M \subseteq N
    BY <1>3
  <2>3. IsFiniteSet(M) /\ Cardinality(M) \in Nat /\ Cardinality(N) \in Nat /\ Cardinality(M) <= Cardinality(N)
    BY <1>4, <2>2, CardSubset
  <2>4. rf2[f] >= Cardinality(M)
    BY <1>4, <2>1, <2>3
  <2>5. QED BY <2>3, <2>4 DEF M
<1>7. QED BY <1>5, <1>6

\* Filling an entry, with a new reference; what it held before may leak.
LEMMA HeldFill ==
  ASSUME NEW tab \in Descs, NEW lp, NEW rf \in [OpenFiles -> Nat], HeldIn(tab, lp, rf),
         NEW p \in OpenProcs, NEW fd \in Open!Fd, NEW g \in OpenFiles
  PROVE  HeldIn([tab EXCEPT ![p][fd] = g], lp, [rf EXCEPT ![g] = rf[g] + 1])
<1> DEFINE tab2 == [tab EXCEPT ![p][fd] = g]
           rf2 == [rf EXCEPT ![g] = rf[g] + 1]
<1> SUFFICES ASSUME NEW f \in OpenFiles
             PROVE  /\ IsFiniteSet(NamingIn(tab2, lp, f))
                    /\ rf2[f] >= Cardinality(NamingIn(tab2, lp, f))
  BY DEF HeldIn
<1>1. \A e \in OpenProcs \X Open!Fd : e # <<p, fd>> => tab2[e[1]][e[2]] = tab[e[1]][e[2]]
  BY DEF Descs
<1>2. tab2[p][fd] = g
  BY DEF Descs
<1> HIDE DEF tab2
<1> DEFINE N == NamingIn(tab, lp, f)
           M == NamingIn(tab2, lp, f)
<1>4. IsFiniteSet(N) /\ rf[f] >= Cardinality(N) /\ rf[f] \in Nat
  BY DEF HeldIn
<1>5. CASE f = g
  <2>1. M \subseteq N \cup {<<p, fd>>}
    BY <1>1 DEF NamingIn
  <2>2. rf2[f] = rf[f] + 1
    BY <1>5
  <2> HIDE DEF N, M, rf2
  <2>3. IsFiniteSet(M) /\ Cardinality(M) \in Nat /\ Cardinality(N) \in Nat /\ Cardinality(M) <= Cardinality(N) + 1
    BY <1>4, <2>1, CardPlus
  <2>4. rf2[f] >= Cardinality(M)
    BY <1>4, <2>2, <2>3
  <2>5. QED BY <2>3, <2>4 DEF M
<1>6. CASE f # g
  <2>1. rf2[f] = rf[f]
    BY <1>6
  <2>2. M \subseteq N
    BY <1>1, <1>2, <1>6 DEF NamingIn
  <2> HIDE DEF N, M, rf2
  <2>3. IsFiniteSet(M) /\ Cardinality(M) \in Nat /\ Cardinality(N) \in Nat /\ Cardinality(M) <= Cardinality(N)
    BY <1>4, <2>2, CardSubset
  <2>4. rf2[f] >= Cardinality(M)
    BY <1>4, <2>1, <2>3
  <2>5. QED BY <2>3, <2>4 DEF M
<1>7. QED BY <1>5, <1>6

\* Fewer descriptors that name a file need no more references.
LEMMA HeldFewer ==
  ASSUME NEW tab, NEW lp, NEW tab2, NEW lp2, NEW rf \in [OpenFiles -> Nat], HeldIn(tab, lp, rf),
         \A f \in OpenFiles : NamingIn(tab2, lp2, f) \subseteq NamingIn(tab, lp, f)
  PROVE  HeldIn(tab2, lp2, rf)
<1> SUFFICES ASSUME NEW f \in OpenFiles
             PROVE  /\ IsFiniteSet(NamingIn(tab2, lp2, f))
                    /\ rf[f] >= Cardinality(NamingIn(tab2, lp2, f))
  BY DEF HeldIn
<1> DEFINE N == NamingIn(tab, lp, f)
           M == NamingIn(tab2, lp2, f)
<1>1. IsFiniteSet(N) /\ rf[f] >= Cardinality(N) /\ rf[f] \in Nat /\ M \subseteq N
  BY DEF HeldIn
<1> HIDE DEF N, M
<1>2. IsFiniteSet(M) /\ Cardinality(M) \in Nat /\ Cardinality(N) \in Nat /\ Cardinality(M) <= Cardinality(N)
  BY <1>1, CardSubset
<1>3. rf[f] >= Cardinality(M)
  BY <1>1, <1>2
<1>4. QED BY <1>2, <1>3 DEF M

\* The descriptors in use of one table.
UsedIn(T) == {fd \in Open!Fd : T[fd] # NoFile}

\* How a new value of one entry changes their number.
LEMMA UsedEntry ==
  ASSUME NEW T \in [Open!Fd -> Entries], NEW fd \in Open!Fd, NEW g
  PROVE  /\ Cardinality(UsedIn(T)) \in Nat
         /\ Cardinality(UsedIn([T EXCEPT ![fd] = g]))
              = Cardinality(UsedIn(T)) - Open!Entry(T[fd]) + Open!Entry(g)
<1> DEFINE U == UsedIn(T)
           W == UsedIn([T EXCEPT ![fd] = g])
<1>1. IsFiniteSet(U) /\ Cardinality(U) \in Nat
  BY OpenFacts, FS_Subset, FS_CardinalityType DEF UsedIn
<1>2. \A k \in Open!Fd \ {fd} : k \in W <=> k \in U
  BY DEF UsedIn
<1>3. (fd \in U <=> T[fd] # NoFile) /\ (fd \in W <=> g # NoFile) /\ U \subseteq Open!Fd /\ W \subseteq Open!Fd
  BY DEF UsedIn
<1>4. Open!Entry(T[fd]) = (IF T[fd] = NoFile THEN 0 ELSE 1) /\ Open!Entry(g) = (IF g = NoFile THEN 0 ELSE 1)
  BY DEF Open!Entry
<1> HIDE DEF U, W
<1>5. CASE T[fd] = NoFile /\ g = NoFile
  <2>1. W = U
    BY <1>2, <1>3, <1>5
  <2>2. QED BY <1>1, <1>4, <1>5, <2>1 DEF U, W
<1>6. CASE T[fd] = NoFile /\ g # NoFile
  <2>1. W = U \cup {fd} /\ fd \notin U
    BY <1>2, <1>3, <1>6
  <2>2. Cardinality(W) = Cardinality(U) + 1
    BY <1>1, <2>1, FS_AddElement
  <2>3. QED BY <1>1, <1>4, <1>6, <2>2 DEF U, W
<1>7. CASE T[fd] # NoFile /\ g = NoFile
  <2>1. W = U \ {fd} /\ fd \in U
    BY <1>2, <1>3, <1>7
  <2>2. Cardinality(W) = Cardinality(U) - 1
    BY <1>1, <2>1, FS_RemoveElement
  <2>3. QED BY <1>1, <1>4, <1>7, <2>2 DEF U, W
<1>8. CASE T[fd] # NoFile /\ g # NoFile
  <2>1. W = U
    BY <1>2, <1>3, <1>8
  <2>2. QED BY <1>1, <1>4, <1>8, <2>1 DEF U, W
<1>9. QED BY <1>5, <1>6, <1>7, <1>8
-----------------------------------------------------------------------------
(* The invariant of the open files.                                         *)

Shapes ==
    /\ open_file_table \in Descs /\ n_opfiles \in [OpenProcs -> Int]
    /\ alive \in SUBSET OpenProcs /\ spoiled \in SUBSET {"overrun", "failed"}

\* A process is in one loop at most.  A loop is at a table that nobody else
\* uses: a zombie's own, or a new one, which has the entries of the parent up
\* to the one that is next.
Loops ==
    /\ loop \in [OpenProcs -> SUBSET (OpenProcs \X Nat)]
    /\ \A p \in OpenProcs : \A v, w \in loop[p] : v = w
    /\ \A p, r \in OpenProcs : \A v \in loop[p], w \in loop[r] : v[1] = w[1] => p = r
    /\ \A p \in OpenProcs : \A v \in loop[p] :
          /\ v[1] \notin alive
          /\ v[1] # p => /\ p \in alive /\ loop[v[1]] = {}
                         /\ \A fd \in Open!Fd : open_file_table[v[1]][fd]
                                                  = IF fd < v[2] THEN open_file_table[p][fd] ELSE NoFile

\* A table that nobody uses is empty.
IdleEmpty == \A q \in OpenProcs : Open!Idle(q) => \A fd \in Open!Fd : open_file_table[q][fd] = NoFile

Counts == \A p \in alive : n_opfiles[p] = Cardinality(UsedIn(open_file_table[p]))

OpenInv ==
    /\ TableOK(ft) /\ Shapes /\ Loops /\ IdleEmpty
    /\ "failed" \notin spoiled => HeldIn(open_file_table, loop, ft.ref)
    /\ spoiled = {} => Counts

LEMMA UpMeans ==
  ASSUME OpenInv, Open!Up
  PROVE  /\ spoiled = {} /\ HeldIn(open_file_table, loop, ft.ref) /\ Counts
         /\ ft.ref \in [OpenFiles -> Nat]
<1>1. "overrun" \notin spoiled /\ "failed" \notin spoiled
  BY DEF Open!Up
<1>2. spoiled = {}
  BY <1>1 DEF OpenInv, Shapes
<1>3. QED BY <1>1, <1>2 DEF OpenInv, TableOK

\* A process that is in no loop replaces its own table.
LEMMA OwnTable ==
  ASSUME Shapes, Loops, IdleEmpty, NEW p \in alive, loop[p] = {}, NEW T \in [Open!Fd -> Entries],
         open_file_table' = [open_file_table EXCEPT ![p] = T], loop' = loop, alive' = alive
  PROVE  open_file_table' \in Descs /\ Loops' /\ IdleEmpty'
<1>1. p \in OpenProcs /\ open_file_table \in Descs
  BY DEF Shapes
<1>2. open_file_table' \in Descs /\ \A q \in OpenProcs : q # p => open_file_table'[q] = open_file_table[q]
  BY <1>1 DEF Descs
<1>3. \A q \in OpenProcs : \A v \in loop[q] : v[1] \in OpenProcs /\ v[1] # p /\ q # p
  BY DEF Loops
<1>4. Loops'
  BY <1>2, <1>3 DEF Loops
<1>5. \A q \in OpenProcs : Open!Idle(q)' => q # p /\ Open!Idle(q)
  BY DEF Open!Idle
<1>6. IdleEmpty'
  BY <1>2, <1>5 DEF IdleEmpty
<1>7. QED BY <1>2, <1>4, <1>6

\* What open, dup, dup2, close and a pipe() that succeeds have in common.
LEMMA CallStep ==
  ASSUME OpenInv, NEW p \in OpenProcs, Open!Runs(p), NEW T \in [Open!Fd -> Entries],
         open_file_table' = [open_file_table EXCEPT ![p] = T],
         TableOK(ft'), HeldIn(open_file_table', loop, ft'.ref),
         n_opfiles' = [n_opfiles EXCEPT ![p] = Cardinality(UsedIn(T))],
         UNCHANGED <<alive, loop, spoiled>>
  PROVE  OpenInv'
<1>1. Shapes /\ Loops /\ IdleEmpty /\ p \in alive /\ loop[p] = {} /\ loop' = loop /\ alive' = alive
  BY DEF OpenInv, Open!Runs
<1>2. open_file_table' \in Descs /\ Loops' /\ IdleEmpty'
  BY <1>1, OwnTable
<1>3. spoiled = {} /\ spoiled' = {} /\ Counts
  BY UpMeans DEF Open!Runs
<1>4. Cardinality(UsedIn(T)) \in Nat
  BY OpenFacts, FS_Subset, FS_CardinalityType DEF UsedIn
<1>5. n_opfiles' \in [OpenProcs -> Int]
  BY <1>1, <1>4 DEF Shapes
<1>6. Shapes'
  BY <1>1, <1>2, <1>3, <1>5 DEF Shapes
<1>7. Counts'
  <2>1. \A q \in OpenProcs : q # p => open_file_table'[q] = open_file_table[q] /\ n_opfiles'[q] = n_opfiles[q]
    BY <1>1 DEF Shapes, Descs
  <2>2. open_file_table'[p] = T /\ n_opfiles'[p] = Cardinality(UsedIn(T))
    BY <1>1 DEF Shapes, Descs
  <2>3. \A q \in alive : q \in OpenProcs
    BY <1>1 DEF Shapes
  <2>4. QED BY <1>1, <1>3, <2>1, <2>2, <2>3 DEF Counts
<1>8. QED BY <1>1, <1>2, <1>3, <1>6, <1>7 DEF OpenInv

\* fd_alloc() finds an entry that is free.
LEMMA FreeEntry ==
  ASSUME NEW p, NEW fd \in Open!fd_alloc(p)
  PROVE  fd \in Open!Fd /\ open_file_table[p][fd] = NoFile
<1>1. Open!Used(p) # Open!Fd /\ fd = Open!Min(Open!Fd \ Open!Used(p))
  BY DEF Open!fd_alloc
<1>2. Open!Fd \ Open!Used(p) # {} /\ Open!Fd \ Open!Used(p) \in SUBSET Nat
  BY <1>1, OpenFacts DEF Open!Used
<1>3. fd \in Open!Fd \ Open!Used(p)
  BY <1>1, <1>2, LeastOf
<1>4. QED BY <1>3 DEF Open!Used, Open!Table

\* The facts every call starts from.
LEMMA RunsMeans ==
  ASSUME OpenInv, NEW p \in OpenProcs, Open!Runs(p)
  PROVE  /\ TableOK(ft) /\ ft.ref \in [OpenFiles -> Nat] /\ HeldIn(open_file_table, loop, ft.ref)
         /\ open_file_table \in Descs /\ open_file_table[p] \in [Open!Fd -> Entries]
         /\ n_opfiles[p] = Cardinality(UsedIn(open_file_table[p])) /\ spoiled = {}
         /\ p \in alive /\ loop[p] = {} /\ \A fd : ~Shut(loop, p, fd)
<1>1. p \in alive /\ loop[p] = {} /\ Open!Up
  BY DEF Open!Runs
<1>2. spoiled = {} /\ HeldIn(open_file_table, loop, ft.ref) /\ Counts /\ ft.ref \in [OpenFiles -> Nat]
  BY <1>1, UpMeans
<1>3. open_file_table \in Descs /\ TableOK(ft)
  BY DEF OpenInv, Shapes
<1>4. QED BY <1>1, <1>2, <1>3 DEF Counts, Shut, Descs

\* The entries of one table.
LEMMA OneEntry ==
  ASSUME NEW tab \in Descs, NEW p \in OpenProcs, NEW fd \in Open!Fd, NEW g
  PROVE  /\ [tab EXCEPT ![p][fd] = g] = [tab EXCEPT ![p] = [tab[p] EXCEPT ![fd] = g]]
         /\ g \in Entries => [tab[p] EXCEPT ![fd] = g] \in [Open!Fd -> Entries]
         /\ g \in Entries => [tab EXCEPT ![p][fd] = g] \in Descs
<1>1. tab[p] \in [Open!Fd -> Entries]
  BY DEF Descs
<1>2. [tab EXCEPT ![p][fd] = g] = [tab EXCEPT ![p] = [tab[p] EXCEPT ![fd] = g]]
  OBVIOUS
<1> DEFINE T == [tab[p] EXCEPT ![fd] = g]
<1>3. g \in Entries => T \in [Open!Fd -> Entries]
  BY <1>1
<1> HIDE DEF T
<1>5. T \in [Open!Fd -> Entries] => [tab EXCEPT ![p] = T] \in Descs
  BY DEF Descs
<1>6. QED BY <1>2, <1>3, <1>5 DEF T

LEMMA OpenStep ==
  ASSUME OpenInv, NEW p \in OpenProcs, Open!open(p)
  PROVE  OpenInv'
<1> DEFINE f == Open!Allocated(ft)
<1>1. Open!Runs(p) /\ UNCHANGED <<alive, loop, spoiled>>
  BY DEF Open!open
<1>2. PICK fd \in Open!fd_alloc(p) :
        /\ ft.n # Open!NFILE /\ ft' = Open!file_alloc(ft)
        /\ open_file_table' = [open_file_table EXCEPT ![p][fd] = f]
        /\ n_opfiles' = [n_opfiles EXCEPT ![p] = n_opfiles[p] + 1]
  BY DEF Open!open, Open!SetFd, Open!Count
<1>3. fd \in Open!Fd /\ open_file_table[p][fd] = NoFile
  BY FreeEntry
<1>4. /\ TableOK(ft) /\ ft.ref \in [OpenFiles -> Nat] /\ HeldIn(open_file_table, loop, ft.ref)
      /\ open_file_table \in Descs /\ open_file_table[p] \in [Open!Fd -> Entries]
      /\ n_opfiles[p] = Cardinality(UsedIn(open_file_table[p]))
  BY <1>1, RunsMeans
<1>5. TableOK(ft') /\ f \in OpenFiles /\ ft'.ref = [ft.ref EXCEPT ![f] = ft.ref[f] + 1]
  BY <1>2, <1>4, AllocOK
<1> HIDE DEF f
<1>6. HeldIn(open_file_table', loop, ft'.ref)
  <2>1. HeldIn([open_file_table EXCEPT ![p][fd] = f], loop, [ft.ref EXCEPT ![f] = ft.ref[f] + 1])
    BY <1>3, <1>4, <1>5, HeldFill, Zenon
  <2>2. QED BY <1>2, <1>5, <2>1, Zenon
<1> DEFINE T == [open_file_table[p] EXCEPT ![fd] = f]
<1>7. T \in [Open!Fd -> Entries] /\ open_file_table' = [open_file_table EXCEPT ![p] = T]
  BY <1>2, <1>4, <1>5, OneEntry DEF Entries
<1>8. Cardinality(UsedIn(T)) = n_opfiles[p] + 1
  <2>1. Open!Entry(NoFile) = 0 /\ Open!Entry(f) = 1
    BY <1>5, OpenFacts DEF Open!Entry
  <2>2. /\ Cardinality(UsedIn(open_file_table[p])) \in Nat
        /\ Cardinality(UsedIn(T))
             = Cardinality(UsedIn(open_file_table[p])) - Open!Entry(open_file_table[p][fd]) + Open!Entry(f)
    BY <1>3, <1>4, UsedEntry
  <2> HIDE DEF T
  <2>3. QED BY <1>3, <1>4, <2>1, <2>2
<1> HIDE DEF T
<1>9. QED BY <1>1, <1>2, <1>5, <1>6, <1>7, <1>8, CallStep

LEMMA DupStep ==
  ASSUME OpenInv, NEW p \in OpenProcs, NEW k \in Open!Fd, Open!dup(p, k)
  PROVE  OpenInv'
<1> DEFINE f == open_file_table[p][k]
<1>1. Open!Runs(p) /\ UNCHANGED <<alive, loop, spoiled>> /\ f # NoFile
  BY DEF Open!dup, Open!Used, Open!Table
<1>2. PICK fd \in Open!fd_alloc(p) :
        /\ ft' = Open!file_dup(ft, f)
        /\ open_file_table' = [open_file_table EXCEPT ![p][fd] = f]
        /\ n_opfiles' = [n_opfiles EXCEPT ![p] = n_opfiles[p] + 1]
  BY DEF Open!dup, Open!SetFd, Open!Count, Open!Table
<1>3. fd \in Open!Fd /\ open_file_table[p][fd] = NoFile
  BY FreeEntry
<1>4. /\ TableOK(ft) /\ ft.ref \in [OpenFiles -> Nat] /\ HeldIn(open_file_table, loop, ft.ref)
      /\ open_file_table \in Descs /\ open_file_table[p] \in [Open!Fd -> Entries]
      /\ n_opfiles[p] = Cardinality(UsedIn(open_file_table[p])) /\ ~Shut(loop, p, k)
  BY <1>1, RunsMeans
<1>5. f \in OpenFiles
  BY <1>1, <1>4 DEF Entries
<1>6. ft.ref[f] > 0
  BY <1>4, <1>5, NamedIsHeld
<1> HIDE DEF f
<1>7. TableOK(ft') /\ ft'.ref = [ft.ref EXCEPT ![f] = ft.ref[f] + 1]
  BY <1>2, <1>4, <1>5, <1>6, DupOK
<1>8. HeldIn(open_file_table', loop, ft'.ref)
  <2>1. HeldIn([open_file_table EXCEPT ![p][fd] = f], loop, [ft.ref EXCEPT ![f] = ft.ref[f] + 1])
    BY <1>3, <1>4, <1>5, HeldFill, Zenon
  <2>2. QED BY <1>2, <1>7, <2>1, Zenon
<1> DEFINE T == [open_file_table[p] EXCEPT ![fd] = f]
<1>9. T \in [Open!Fd -> Entries] /\ open_file_table' = [open_file_table EXCEPT ![p] = T]
  BY <1>2, <1>4, <1>5, OneEntry DEF Entries
<1>10. Cardinality(UsedIn(T)) = n_opfiles[p] + 1
  <2>1. Open!Entry(NoFile) = 0 /\ Open!Entry(f) = 1
    BY <1>5, OpenFacts DEF Open!Entry
  <2>2. /\ Cardinality(UsedIn(open_file_table[p])) \in Nat
        /\ Cardinality(UsedIn(T))
             = Cardinality(UsedIn(open_file_table[p])) - Open!Entry(open_file_table[p][fd]) + Open!Entry(f)
    BY <1>3, <1>4, UsedEntry
  <2> HIDE DEF T
  <2>3. QED BY <1>3, <1>4, <2>1, <2>2
<1> HIDE DEF T
<1>11. QED BY <1>1, <1>2, <1>7, <1>8, <1>9, <1>10, CallStep

LEMMA CloseStep ==
  ASSUME OpenInv, NEW p \in OpenProcs, NEW fd \in Open!Fd, Open!close(p, fd)
  PROVE  OpenInv'
<1> DEFINE f == open_file_table[p][fd]
<1>1. Open!Runs(p) /\ UNCHANGED <<alive, loop, spoiled>> /\ f # NoFile
  BY DEF Open!close, Open!Used, Open!Table
<1>2. /\ ft' = Open!file_close(ft, f)
      /\ open_file_table' = [open_file_table EXCEPT ![p][fd] = NoFile]
      /\ n_opfiles' = [n_opfiles EXCEPT ![p] = n_opfiles[p] - 1]
  BY DEF Open!close, Open!SetFd, Open!Count, Open!Table
<1>4. /\ TableOK(ft) /\ ft.ref \in [OpenFiles -> Nat] /\ HeldIn(open_file_table, loop, ft.ref)
      /\ open_file_table \in Descs /\ open_file_table[p] \in [Open!Fd -> Entries]
      /\ n_opfiles[p] = Cardinality(UsedIn(open_file_table[p])) /\ ~Shut(loop, p, fd)
  BY <1>1, RunsMeans
<1>5. f \in OpenFiles
  BY <1>1, <1>4 DEF Entries
<1>6. ft.ref[f] > 0
  BY <1>4, <1>5, NamedIsHeld
<1>7. TableOK(ft') /\ ft'.ref = [ft.ref EXCEPT ![f] = ft.ref[f] - 1]
  BY <1>2, <1>4, <1>5, <1>6, CloseOK
<1>8. HeldIn(open_file_table', loop, ft'.ref)
  <2>1. HeldIn([open_file_table EXCEPT ![p][fd] = NoFile], loop, [ft.ref EXCEPT ![f] = ft.ref[f] - 1])
    BY <1>4, <1>5, HeldClose, Zenon
  <2>2. QED BY <1>2, <1>7, <2>1, Zenon
<1> DEFINE T == [open_file_table[p] EXCEPT ![fd] = NoFile]
<1>9. T \in [Open!Fd -> Entries] /\ open_file_table' = [open_file_table EXCEPT ![p] = T]
  BY <1>2, <1>4, <1>5, OneEntry DEF Entries
<1>10. Cardinality(UsedIn(T)) = n_opfiles[p] - 1
  <2>1. Open!Entry(NoFile) = 0 /\ Open!Entry(f) = 1
    BY <1>5, OpenFacts DEF Open!Entry
  <2>2. /\ Cardinality(UsedIn(open_file_table[p])) \in Nat
        /\ Cardinality(UsedIn(T)) = Cardinality(UsedIn(open_file_table[p])) - Open!Entry(f) + Open!Entry(NoFile)
    BY <1>4, UsedEntry
  <2> HIDE DEF T
  <2>3. QED BY <1>4, <2>1, <2>2
<1> HIDE DEF T
<1>11. QED BY <1>1, <1>2, <1>7, <1>8, <1>9, <1>10, CallStep

\* newfd is closed, if it was open, and then filled, if oldfd is open.
LEMMA Dup2Step ==
  ASSUME OpenInv, NEW p \in OpenProcs, NEW oldfd \in Open!Fd, NEW newfd \in Open!Fd, Open!dup2(p, oldfd, newfd)
  PROVE  OpenInv'
<1> DEFINE new == open_file_table[p][oldfd]
           old == open_file_table[p][newfd]
           t == Open!CloseEntry(ft, old)
           tab == [open_file_table EXCEPT ![p][newfd] = NoFile]
<1>1. Open!Runs(p) /\ UNCHANGED <<alive, loop, spoiled>> /\ oldfd # newfd
  BY DEF Open!dup2
<1>2. /\ ft' = IF new = NoFile THEN t ELSE Open!file_dup(t, new)
      /\ open_file_table' = [open_file_table EXCEPT ![p][newfd] = new]
      /\ n_opfiles' = [n_opfiles EXCEPT ![p] = n_opfiles[p] - Open!Entry(old) + Open!Entry(new)]
  BY DEF Open!dup2, Open!SetFd, Open!Count, Open!Table
<1>3. /\ TableOK(ft) /\ ft.ref \in [OpenFiles -> Nat] /\ HeldIn(open_file_table, loop, ft.ref)
      /\ open_file_table \in Descs /\ open_file_table[p] \in [Open!Fd -> Entries]
      /\ n_opfiles[p] = Cardinality(UsedIn(open_file_table[p]))
      /\ ~Shut(loop, p, newfd) /\ ~Shut(loop, p, oldfd)
  BY <1>1, RunsMeans
<1>4. new \in Entries /\ old \in Entries
  BY <1>3
<1>5. tab \in Descs /\ tab[p][oldfd] = new
  BY <1>1, <1>3 DEF Descs, Entries
<1>6. TableOK(t) /\ HeldIn(tab, loop, t.ref)
  <2>1. CASE old = NoFile
    <3>1. t = ft
      BY <2>1 DEF Open!CloseEntry
    <3>2. tab = open_file_table
      BY <1>3, <2>1 DEF Descs
    <3>3. QED BY <1>3, <3>1, <3>2, Zenon
  <2>2. CASE old # NoFile
    <3>1. t = Open!file_close(ft, old) /\ old \in OpenFiles
      BY <1>4, <2>2 DEF Open!CloseEntry, Entries
    <3>2. ft.ref[old] > 0
      BY <1>3, <3>1, NamedIsHeld
    <3>3. TableOK(t) /\ t.ref = [ft.ref EXCEPT ![old] = ft.ref[old] - 1]
      BY <1>3, <3>1, <3>2, CloseOK
    <3>4. HeldIn(tab, loop, t.ref)
      <4>1. HeldIn([open_file_table EXCEPT ![p][newfd] = NoFile], loop, [ft.ref EXCEPT ![old] = ft.ref[old] - 1])
        BY <1>3, <3>1, HeldClose, Zenon
      <4>2. QED BY <3>3, <4>1, Zenon
    <3>5. QED BY <3>3, <3>4
  <2>3. QED BY <2>1, <2>2
<1>7. [tab EXCEPT ![p][newfd] = new] = open_file_table'
  BY <1>2, <1>3 DEF Descs
<1>8. new = NoFile => open_file_table' = tab
  BY <1>2
<1> HIDE DEF t, tab, new, old
<1>9. TableOK(ft') /\ HeldIn(open_file_table', loop, ft'.ref)
  <2>1. CASE new = NoFile
    BY <1>2, <1>6, <1>8, <2>1
  <2>2. CASE new # NoFile
    <3>1. new \in OpenFiles /\ ft' = Open!file_dup(t, new) /\ t.ref \in [OpenFiles -> Nat]
      BY <1>2, <1>4, <1>6, <2>2 DEF Entries, TableOK
    <3>2. t.ref[new] > 0
      BY <1>3, <1>5, <1>6, <3>1, NamedIsHeld
    <3>3. TableOK(ft') /\ ft'.ref = [t.ref EXCEPT ![new] = t.ref[new] + 1]
      BY <1>6, <3>1, <3>2, DupOK
    <3>4. HeldIn(open_file_table', loop, ft'.ref)
      <4>1. HeldIn([tab EXCEPT ![p][newfd] = new], loop, [t.ref EXCEPT ![new] = t.ref[new] + 1])
        BY <1>5, <1>6, <3>1, HeldFill, Zenon
      <4>2. QED BY <1>7, <3>3, <4>1, Zenon
    <3>5. QED BY <3>3, <3>4
  <2>3. QED BY <2>1, <2>2
<1> DEFINE T == [open_file_table[p] EXCEPT ![newfd] = new]
<1>10. T \in [Open!Fd -> Entries] /\ open_file_table' = [open_file_table EXCEPT ![p] = T]
  BY <1>2, <1>3, <1>4, OneEntry
<1>11. Cardinality(UsedIn(T)) = n_opfiles[p] - Open!Entry(old) + Open!Entry(new)
  BY <1>3, UsedEntry DEF old
<1> HIDE DEF T
<1>12. QED BY <1>1, <1>2, <1>9, <1>10, <1>11, CallStep

\* A step after which the run is over, since pipe() failed or overran.
LEMMA PipeFails ==
  ASSUME OpenInv, NEW p \in OpenProcs, Open!Runs(p), NEW T \in [Open!Fd -> Entries],
         open_file_table' = [open_file_table EXCEPT ![p] = T], TableOK(ft'),
         spoiled' = spoiled \cup {"failed"}, UNCHANGED <<n_opfiles, alive, loop>>
  PROVE  OpenInv'
<1>1. Shapes /\ Loops /\ IdleEmpty /\ p \in alive /\ loop[p] = {} /\ loop' = loop /\ alive' = alive
  BY DEF OpenInv, Open!Runs
<1>2. open_file_table' \in Descs /\ Loops' /\ IdleEmpty'
  BY <1>1, OwnTable
<1>3. spoiled' = {"failed"}
  BY RunsMeans
<1>4. Shapes'
  BY <1>1, <1>2, <1>3 DEF Shapes
<1>5. QED BY <1>2, <1>3, <1>4 DEF OpenInv

LEMMA PipeStep ==
  ASSUME OpenInv, NEW p \in OpenProcs, NEW mem \in BOOLEAN, Open!pipe(p, mem)
  PROVE  OpenInv'
<1> DEFINE U == Open!Used(p)
           a == Open!Min(U \cup {NOFILE})
           B == {fd \in U : fd > a}
           b == Open!Min(B \cup {NOFILE})
<1>1. Open!Runs(p) /\ UNCHANGED <<n_opfiles, alive, loop>>
  BY DEF Open!pipe
<1>2. /\ TableOK(ft) /\ ft.ref \in [OpenFiles -> Nat] /\ HeldIn(open_file_table, loop, ft.ref)
      /\ open_file_table \in Descs /\ open_file_table[p] \in [Open!Fd -> Entries]
      /\ n_opfiles[p] = Cardinality(UsedIn(open_file_table[p])) /\ spoiled = {}
      /\ \A fd : ~Shut(loop, p, fd)
  BY <1>1, RunsMeans
<1>3. CASE b < NOFILE
  <2>1. /\ Open!pipe_alloc(p, a, b, mem)
        /\ spoiled' = IF mem /\ ft.n < Open!NFILE - 1 THEN spoiled ELSE spoiled \cup {"failed"}
    BY <1>3 DEF Open!pipe
  <2>2. U \in SUBSET Nat /\ NOFILE \in Nat /\ \A fd \in U : fd < NOFILE /\ fd \in Open!Fd
    BY OpenFacts DEF Open!Used
  <2>3. a \in U \cup {NOFILE} /\ a \in Nat
    <3> HIDE DEF U
    <3>1. U \cup {NOFILE} \in SUBSET Nat /\ U \cup {NOFILE} # {}
      BY <2>2
    <3>2. QED BY <3>1, LeastOf
  <2> HIDE DEF U, a
  <2>4. b \in B \cup {NOFILE}
    <3>1. B \cup {NOFILE} \in SUBSET Nat /\ B \cup {NOFILE} # {}
      BY <2>2
    <3>2. QED BY <3>1, LeastOf
  <2>a. B \subseteq U /\ \A k \in B : k > a
    OBVIOUS
  <2> HIDE DEF b, B
  <2>5. b \in U /\ b > a
    BY <1>3, <2>a, <2>2, <2>4
  <2>6. a \in U /\ a # b
    BY <2>2, <2>3, <2>5
  <2>7. a \in Open!Fd /\ b \in Open!Fd /\ open_file_table[p][a] # NoFile /\ open_file_table[p][b] # NoFile
    BY <2>2, <2>5, <2>6 DEF U, Open!Used, Open!Table
  <2>8. open_file_table[p][b] \in OpenFiles
    BY <1>2, <2>7 DEF Entries
  <2>9. \A g, h \in Entries :
          /\ [[open_file_table[p] EXCEPT ![a] = g] EXCEPT ![b] = h] \in [Open!Fd -> Entries]
          /\ [open_file_table EXCEPT ![p][a] = g, ![p][b] = h]
               = [open_file_table EXCEPT ![p] = [[open_file_table[p] EXCEPT ![a] = g] EXCEPT ![b] = h]]
    <3> SUFFICES ASSUME NEW g \in Entries, NEW h \in Entries
                 PROVE  /\ [[open_file_table[p] EXCEPT ![a] = g] EXCEPT ![b] = h] \in [Open!Fd -> Entries]
                        /\ [open_file_table EXCEPT ![p][a] = g, ![p][b] = h]
                             = [open_file_table EXCEPT ![p] = [[open_file_table[p] EXCEPT ![a] = g] EXCEPT ![b] = h]]
      OBVIOUS
    <3>1. [[open_file_table[p] EXCEPT ![a] = g] EXCEPT ![b] = h] \in [Open!Fd -> Entries]
      BY <1>2, <2>7
    <3>2. [open_file_table EXCEPT ![p][a] = g, ![p][b] = h]
            = [open_file_table EXCEPT ![p] = [[open_file_table[p] EXCEPT ![a] = g] EXCEPT ![b] = h]]
      BY <1>2, <2>7 DEF Descs
    <3>3. QED BY <3>1, <3>2
  <2> DEFINE f1 == Open!Allocated(ft)
             t1 == Open!file_alloc(ft)
             f2 == Open!Allocated(t1)
             t2 == Open!file_alloc(t1)
             Two(g, h) == [open_file_table EXCEPT ![p][a] = g, ![p][b] = h]
  <2>10. NoFile \in Entries /\ open_file_table[p][b] \in Entries
    BY <2>8 DEF Entries
  <2>11. CASE ft.n = Open!NFILE
    <3>1. ft' = Open!CloseEntry(ft, open_file_table[p][b]) /\ open_file_table' = Two(NoFile, open_file_table[p][b])
      <4>0. ft.n # Open!NFILE - 1
        BY <2>11, OpenFacts
      <4>1. Open!Table(p) = open_file_table[p]
        BY DEF Open!Table
      <4>2. ft' = Open!CloseEntry(ft, Open!Table(p)[b])
        BY <2>1, <2>11, <4>0, Zenon DEF Open!pipe_alloc
      <4>4. open_file_table' = [open_file_table EXCEPT ![p][a] = NoFile, ![p][b] = Open!Table(p)[b]]
        BY <2>1, <2>11, <4>0, Zenon DEF Open!pipe_alloc
      <4>3. QED BY <4>1, <4>2, <4>4, Zenon
    <3>2. ft' = Open!file_close(ft, open_file_table[p][b])
      BY <2>7, <3>1 DEF Open!CloseEntry
    <3>3. ft.ref[open_file_table[p][b]] > 0
      BY <1>2, <2>7, <2>8, NamedIsHeld
    <3>4. TableOK(ft')
      BY <1>2, <2>8, <3>2, <3>3, CloseOK
    <3>5. spoiled' = spoiled \cup {"failed"}
      BY <2>1, <2>11, OpenFacts
    <3> DEFINE T == [[open_file_table[p] EXCEPT ![a] = NoFile] EXCEPT ![b] = open_file_table[p][b]]
    <3>6. T \in [Open!Fd -> Entries] /\ open_file_table' = [open_file_table EXCEPT ![p] = T]
      BY <2>9, <2>10, <3>1, Zenon
    <3> HIDE DEF T
    <3>7. QED BY <1>1, <3>4, <3>5, <3>6, PipeFails
  <2>12. CASE ft.n # Open!NFILE
    <3>1. /\ TableOK(t1) /\ t1.n = ft.n + 1 /\ f1 \in OpenFiles
          /\ ft.ref[f1] = 0 /\ t1.ref = [ft.ref EXCEPT ![f1] = ft.ref[f1] + 1]
      BY <1>2, <2>12, AllocOK
    <3>2. t1.ref \in [OpenFiles -> Nat] /\ t1.ref[f1] = 1 /\ f1 \in Entries /\ ft.n \in Int /\ Open!NFILE \in Nat
      BY <1>2, <3>1, OpenFacts DEF TableOK, Entries
    <3>3. CASE ft.n = Open!NFILE - 1
      <4>1. ft' = Open!file_close(t1, f1) /\ open_file_table' = Two(f1, NoFile)
        BY <2>1, <2>12, <3>3, Zenon DEF Open!pipe_alloc
      <4> HIDE DEF t1, f1
      <4>2. TableOK(ft')
        BY <3>1, <3>2, <4>1, CloseOK
      <4>3. spoiled' = spoiled \cup {"failed"}
        BY <2>1, <3>2, <3>3
      <4> DEFINE T == [[open_file_table[p] EXCEPT ![a] = f1] EXCEPT ![b] = NoFile]
      <4>4. T \in [Open!Fd -> Entries] /\ open_file_table' = [open_file_table EXCEPT ![p] = T]
        BY <2>9, <2>10, <3>2, <4>1, Zenon
      <4> HIDE DEF T
      <4>5. QED BY <1>1, <4>2, <4>3, <4>4, PipeFails
    <3>4. CASE ft.n # Open!NFILE - 1
      <4>1. /\ ft' = IF mem THEN t2 ELSE Open!file_close(Open!file_close(t2, f1), f2)
            /\ open_file_table' = Two(f1, f2)
        BY <2>1, <2>12, <3>4, Zenon DEF Open!pipe_alloc
      <4>2. t1.n # Open!NFILE
        <5> HIDE DEF t1
        <5>1. QED BY <3>1, <3>2, <3>4
      <4>3. /\ TableOK(t2) /\ f2 \in OpenFiles
            /\ t1.ref[f2] = 0 /\ t2.ref = [t1.ref EXCEPT ![f2] = t1.ref[f2] + 1]
        BY <3>1, <4>2, AllocOK
      <4> HIDE DEF t1, t2, f1, f2
      <4>4. t2.ref \in [OpenFiles -> Nat] /\ f2 # f1 /\ t2.ref[f1] = 1 /\ t2.ref[f2] = 1 /\ f2 \in Entries
        <5>1. f2 # f1
          BY <3>2, <4>3
        <5>2. t2.ref \in [OpenFiles -> Nat] /\ f2 \in Entries
          BY <4>3 DEF TableOK, Entries
        <5>3. t2.ref[f2] = 1 /\ t2.ref[f1] = t1.ref[f1]
          BY <3>1, <3>2, <4>3, <5>1
        <5>4. QED BY <3>2, <5>1, <5>2, <5>3
      <4> DEFINE T1 == [open_file_table[p] EXCEPT ![a] = f1]
                 T == [T1 EXCEPT ![b] = f2]
                 tab1 == [open_file_table EXCEPT ![p][a] = f1]
      <4>5. T \in [Open!Fd -> Entries] /\ open_file_table' = [open_file_table EXCEPT ![p] = T]
        BY <2>9, <3>2, <4>1, <4>4, Zenon
      <4>6. CASE mem /\ ft.n < Open!NFILE - 1
        <5>1. ft' = t2 /\ spoiled' = spoiled
          BY <2>1, <4>1, <4>6
        <5>2. tab1 \in Descs
          BY <1>2, <2>7, <3>2, OneEntry, Zenon
        <5>3. HeldIn(tab1, loop, t1.ref)
          <6>1. HeldIn([open_file_table EXCEPT ![p][a] = f1], loop, [ft.ref EXCEPT ![f1] = ft.ref[f1] + 1])
            BY <1>2, <2>7, <3>1, HeldFill, Zenon
          <6>2. QED BY <3>1, <6>1, Zenon
        <5>4. [tab1 EXCEPT ![p][b] = f2] = open_file_table'
          BY <1>2, <2>6, <2>7, <4>1 DEF Descs
        <5> HIDE DEF tab1
        <5>5. HeldIn(open_file_table', loop, ft'.ref)
          <6>1. HeldIn([tab1 EXCEPT ![p][b] = f2], loop, [t1.ref EXCEPT ![f2] = t1.ref[f2] + 1])
            BY <2>7, <3>2, <4>3, <5>2, <5>3, HeldFill, Zenon
          <6>2. QED BY <4>3, <5>1, <5>4, <6>1, Zenon
        <5>6. Cardinality(UsedIn(T)) = n_opfiles[p]
          <6>1. T1 \in [Open!Fd -> Entries] /\ T1[b] = open_file_table[p][b]
            BY <1>2, <2>6, <2>7, <3>2
          <6>2. /\ Cardinality(UsedIn(open_file_table[p])) \in Nat
                /\ Cardinality(UsedIn(T1)) = Cardinality(UsedIn(open_file_table[p]))
                                               - Open!Entry(open_file_table[p][a]) + Open!Entry(f1)
            BY <1>2, <2>7, UsedEntry
          <6> HIDE DEF T1
          <6>3. /\ Cardinality(UsedIn(T1)) \in Nat
                /\ Cardinality(UsedIn(T)) = Cardinality(UsedIn(T1)) - Open!Entry(T1[b]) + Open!Entry(f2)
            BY <2>7, <6>1, UsedEntry
          <6> HIDE DEF T
          <6>4. /\ Open!Entry(open_file_table[p][a]) = 1 /\ Open!Entry(T1[b]) = 1
                /\ Open!Entry(f1) = 1 /\ Open!Entry(f2) = 1
            BY <2>7, <3>1, <4>3, <6>1, OpenFacts DEF Open!Entry
          <6>5. QED BY <1>2, <6>2, <6>3, <6>4
        <5> HIDE DEF T
        <5>7. n_opfiles' = [n_opfiles EXCEPT ![p] = Cardinality(UsedIn(T))]
          BY <1>1, <5>6 DEF OpenInv, Shapes
        <5>8. TableOK(ft') /\ UNCHANGED <<alive, loop, spoiled>>
          BY <1>1, <4>3, <5>1
        <5>9. QED BY <1>1, <4>5, <5>5, <5>7, <5>8, CallStep
      <4>7. CASE ~(mem /\ ft.n < Open!NFILE - 1)
        <5>1. spoiled' = spoiled \cup {"failed"}
          BY <2>1, <4>7
        <5>2. TableOK(ft')
          <6>1. CASE mem
            BY <4>1, <4>3, <6>1
          <6>2. CASE ~mem
            <7>1. /\ TableOK(Open!file_close(t2, f1))
                  /\ Open!file_close(t2, f1).ref = [t2.ref EXCEPT ![f1] = t2.ref[f1] - 1]
              BY <3>1, <4>3, <4>4, CloseOK
            <7>2. Open!file_close(t2, f1).ref[f2] > 0
              BY <4>3, <4>4, <7>1
            <7>3. QED BY <4>1, <4>3, <6>2, <7>1, <7>2, CloseOK
          <6>3. QED BY <6>1, <6>2
        <5> HIDE DEF T
        <5>3. QED BY <1>1, <4>5, <5>1, <5>2, PipeFails
      <4>8. QED BY <4>6, <4>7
    <3>5. QED BY <3>3, <3>4
  <2>13. QED BY <2>11, <2>12
<1>4. CASE ~(b < NOFILE)
  <2>1. spoiled' = spoiled \cup {"overrun"} /\ UNCHANGED <<ft, open_file_table>>
    BY <1>4 DEF Open!pipe
  <2>2. spoiled' = {"overrun"}
    BY <1>2, <2>1
  <2>3. TableOK(ft)' /\ HeldIn(open_file_table, loop, ft.ref)'
    BY <1>1, <1>2, <2>1
  <2>4. Shapes'
    BY <1>1, <2>1, <2>2 DEF OpenInv, Shapes
  <2>5. Loops' /\ IdleEmpty'
    BY <1>1, <2>1 DEF OpenInv, Loops, IdleEmpty, Open!Idle
  <2>6. QED BY <2>2, <2>3, <2>4, <2>5 DEF OpenInv
<1>5. QED BY <1>3, <1>4

\* A loop that goes on leaves the descriptors it has not closed.
LEMMA HeldOn ==
  ASSUME NEW tab, NEW lp, NEW lp2, NEW rf \in [OpenFiles -> Nat], HeldIn(tab, lp, rf),
         \A p \in OpenProcs, fd \in Open!Fd : Shut(lp, p, fd) => Shut(lp2, p, fd)
  PROVE  HeldIn(tab, lp2, rf)
<1>1. \A f \in OpenFiles : NamingIn(tab, lp2, f) \subseteq NamingIn(tab, lp, f)
  BY DEF NamingIn
<1>2. QED BY <1>1, HeldFewer

LEMMA ForkStep ==
  ASSUME OpenInv, NEW p \in OpenProcs, NEW q \in OpenProcs, Open!fork(p, q)
  PROVE  OpenInv'
<1>1. /\ Open!Runs(p) /\ Open!Idle(q) /\ loop' = [loop EXCEPT ![p] = {<<q, 0>>}]
      /\ UNCHANGED <<ft, open_file_table, n_opfiles, alive, spoiled>>
  BY DEF Open!fork, Open!Visits
<1>2. /\ TableOK(ft) /\ ft.ref \in [OpenFiles -> Nat] /\ HeldIn(open_file_table, loop, ft.ref)
      /\ p \in alive /\ loop[p] = {} /\ spoiled = {}
  BY <1>1, RunsMeans
<1>3. Shapes /\ Loops /\ IdleEmpty /\ Counts
  BY <1>2 DEF OpenInv
<1>4. /\ q \notin alive /\ p # q /\ loop[q] = {} /\ \A r \in OpenProcs : \A v \in loop[r] : v[1] # q
      /\ \A fd \in Open!Fd : open_file_table[q][fd] = NoFile
  BY <1>1, <1>2, <1>3 DEF Open!Idle, IdleEmpty
<1>5. /\ loop \in [OpenProcs -> SUBSET (OpenProcs \X Nat)] /\ loop'[p] = {<<q, 0>>}
      /\ \A r \in OpenProcs : r # p => loop'[r] = loop[r]
  BY <1>1, <1>3 DEF Loops
<1>6. loop' \in [OpenProcs -> SUBSET (OpenProcs \X Nat)]
  BY <1>1, <1>5
<1>7. \A r \in OpenProcs, fd \in Open!Fd : Shut(loop, r, fd) => Shut(loop', r, fd)
  BY <1>2, <1>5 DEF Shut
<1>8. HeldIn(open_file_table, loop', ft.ref)
  BY <1>2, <1>7, HeldOn
<1>9. Loops'
  <2>1. \A r \in OpenProcs : \A v, w \in loop'[r] : v = w
    BY <1>3, <1>5 DEF Loops
  <2>2. \A r, s \in OpenProcs : \A v \in loop'[r], w \in loop'[s] : v[1] = w[1] => r = s
    BY <1>3, <1>4, <1>5 DEF Loops
  <2>3. \A fd \in Open!Fd : ~(fd < 0)
    BY OpenFacts
  <2>4. ASSUME NEW r \in OpenProcs, NEW v \in loop'[r]
        PROVE  /\ v[1] \notin alive
               /\ v[1] # r => /\ r \in alive /\ loop'[v[1]] = {}
                              /\ \A fd \in Open!Fd : open_file_table[v[1]][fd]
                                                       = IF fd < v[2] THEN open_file_table[r][fd] ELSE NoFile
    <3>1. CASE r = p
      <4>1. v = <<q, 0>>
        BY <1>5, <2>4, <3>1
      <4>2. QED BY <1>2, <1>4, <1>5, <2>3, <3>1, <4>1
    <3>2. CASE r # p
      <4>1. v \in loop[r] /\ v[1] \in OpenProcs /\ v[1] # p
        BY <1>2, <1>3, <1>5, <2>4, <3>2 DEF Loops
      <4>2. QED BY <1>3, <1>5, <4>1 DEF Loops
    <3>3. QED BY <3>1, <3>2
  <2>5. QED BY <1>1, <1>6, <2>1, <2>2, <2>4 DEF Loops
<1>10. IdleEmpty'
  <2>1. \A r \in OpenProcs : Open!Idle(r)' => Open!Idle(r)
    BY <1>1, <1>2, <1>5 DEF Open!Idle
  <2>2. QED BY <1>1, <1>3, <2>1 DEF IdleEmpty
<1>11. Shapes' /\ Counts'
  BY <1>1, <1>3 DEF Shapes, Counts
<1>12. TableOK(ft') /\ HeldIn(open_file_table', loop', ft'.ref)
  BY <1>1, <1>2, <1>8
<1>13. QED BY <1>9, <1>10, <1>11, <1>12 DEF OpenInv

\* The entry that a loop of p, which is next at i, comes to.
LEMMA NextEntry ==
  ASSUME NEW p, NEW i \in Nat, Open!Left(p, i) # {}
  PROVE  /\ Open!Min(Open!Left(p, i)) \in Open!Fd /\ Open!Min(Open!Left(p, i)) >= i
         /\ open_file_table[p][Open!Min(Open!Left(p, i))] # NoFile
         /\ \A k \in Open!Fd : k >= i /\ k < Open!Min(Open!Left(p, i)) => open_file_table[p][k] = NoFile
<1> DEFINE S == Open!Left(p, i)
           m == Open!Min(S)
<1>1. S = {fd \in Open!Fd : open_file_table[p][fd] # NoFile /\ fd >= i}
  BY DEF Open!Left, Open!Used, Open!Table
<1> HIDE DEF S
<1>2. S \in SUBSET Nat /\ S # {}
  BY <1>1, OpenFacts DEF S
<1>3. m \in S /\ \A k \in S : m <= k
  BY <1>2, LeastOf
<1> HIDE DEF m
<1>4. m \in Open!Fd /\ m >= i /\ open_file_table[p][m] # NoFile
  BY <1>1, <1>3
<1>5. \A k \in Open!Fd : k \in Nat
  BY OpenFacts
<1>6. \A k \in Open!Fd : k >= i /\ k < m => open_file_table[p][k] = NoFile
  BY <1>1, <1>3, <1>4, <1>5
<1>7. QED BY <1>4, <1>6 DEF m, S

LEMMA ForkDupStep ==
  ASSUME OpenInv, NEW p \in OpenProcs, Open!fork_dup(p)
  PROVE  OpenInv'
<1>1. Open!Up /\ UNCHANGED <<n_opfiles, alive, spoiled>>
  BY DEF Open!fork_dup
<1>2. PICK v \in loop[p] :
        /\ v[1] # p /\ Open!Left(p, v[2]) # {}
        /\ ft' = Open!file_dup(ft, open_file_table[p][Open!Min(Open!Left(p, v[2]))])
        /\ open_file_table' = [open_file_table EXCEPT ![v[1]][Open!Min(Open!Left(p, v[2]))]
                                                        = open_file_table[p][Open!Min(Open!Left(p, v[2]))]]
        /\ loop' = [loop EXCEPT ![p] = {<<v[1], Open!Min(Open!Left(p, v[2])) + 1>>}]
  BY DEF Open!fork_dup, Open!SetFd, Open!Visits, Open!Table
<1> DEFINE fd == Open!Min(Open!Left(p, v[2]))
           f == open_file_table[p][fd]
           q == v[1]
<1>3. /\ spoiled = {} /\ HeldIn(open_file_table, loop, ft.ref) /\ Counts /\ ft.ref \in [OpenFiles -> Nat]
      /\ Shapes /\ Loops /\ IdleEmpty /\ TableOK(ft)
  BY <1>1, UpMeans DEF OpenInv
<1>4. v \in OpenProcs \X Nat /\ q \in OpenProcs /\ v[2] \in Nat
  BY <1>3 DEF Loops
<1>5. /\ fd \in Open!Fd /\ fd >= v[2] /\ f # NoFile
      /\ \A k \in Open!Fd : k >= v[2] /\ k < fd => open_file_table[p][k] = NoFile
  BY <1>2, <1>4, NextEntry
<1>6. /\ ft' = Open!file_dup(ft, f) /\ open_file_table' = [open_file_table EXCEPT ![q][fd] = f]
      /\ loop' = [loop EXCEPT ![p] = {<<q, fd + 1>>}] /\ q # p
  BY <1>2
<1> HIDE DEF fd, q
<1>7. /\ q \notin alive /\ p \in alive /\ loop[q] = {}
      /\ \A k \in Open!Fd : open_file_table[q][k] = IF k < v[2] THEN open_file_table[p][k] ELSE NoFile
  BY <1>3, <1>6 DEF Loops, q
<1>8. f \in OpenFiles /\ f \in Entries
  BY <1>3, <1>5 DEF Shapes, Descs, Entries
<1>9. \A w \in loop[p] : w[1] # p
  BY <1>2, <1>3 DEF Loops
<1>10. ft.ref[f] > 0
  <2>1. ~Shut(loop, p, fd)
    BY <1>9 DEF Shut
  <2>2. QED BY <1>3, <1>5, <1>8, <2>1, NamedIsHeld
<1> HIDE DEF f
<1>11. TableOK(ft') /\ ft'.ref = [ft.ref EXCEPT ![f] = ft.ref[f] + 1]
  BY <1>3, <1>6, <1>8, <1>10, DupOK
<1>12. HeldIn(open_file_table', loop, ft'.ref)
  <2>1. HeldIn([open_file_table EXCEPT ![q][fd] = f], loop, [ft.ref EXCEPT ![f] = ft.ref[f] + 1])
    BY <1>3, <1>4, <1>5, <1>8, HeldFill, Zenon DEF Shapes
  <2>2. QED BY <1>6, <1>11, <2>1, Zenon
<1>13. /\ loop \in [OpenProcs -> SUBSET (OpenProcs \X Nat)] /\ loop'[p] = {<<q, fd + 1>>}
       /\ \A r \in OpenProcs : r # p => loop'[r] = loop[r]
  BY <1>3, <1>6 DEF Loops
<1>14. fd \in Nat /\ \A k \in Open!Fd : k \in Nat
  BY <1>5, OpenFacts
<1>15. HeldIn(open_file_table', loop', ft'.ref)
  <2>1. \A r \in OpenProcs, k \in Open!Fd : Shut(loop, r, k) => Shut(loop', r, k)
    BY <1>9, <1>13 DEF Shut
  <2>2. ft'.ref \in [OpenFiles -> Nat]
    BY <1>11 DEF TableOK
  <2>3. QED BY <1>12, <2>1, <2>2, HeldOn
<1>16. /\ open_file_table' \in Descs /\ \A r \in OpenProcs : r # q => open_file_table'[r] = open_file_table[r]
       /\ \A k \in Open!Fd : open_file_table'[q][k] = IF k = fd THEN f ELSE open_file_table[q][k]
  <2>1. open_file_table \in Descs
    BY <1>3 DEF Shapes
  <2>2. open_file_table' \in Descs
    BY <1>4, <1>5, <1>6, <1>8, <2>1, OneEntry
  <2>3. \A r \in OpenProcs : r # q => open_file_table'[r] = open_file_table[r]
    BY <1>6, <2>1 DEF Descs
  <2>4. \A k \in Open!Fd : open_file_table'[q][k] = IF k = fd THEN f ELSE open_file_table[q][k]
    BY <1>4, <1>6, <2>1 DEF Descs
  <2>5. QED BY <2>2, <2>3, <2>4
<1>17. \A k \in Open!Fd : open_file_table'[q][k] = IF k < fd + 1 THEN open_file_table'[p][k] ELSE NoFile
  <2> SUFFICES ASSUME NEW k \in Open!Fd
               PROVE  open_file_table'[q][k] = IF k < fd + 1 THEN open_file_table'[p][k] ELSE NoFile
    OBVIOUS
  <2>1. k \in Nat /\ fd \in Nat /\ v[2] \in Nat /\ v[2] <= fd /\ open_file_table'[p][k] = open_file_table[p][k]
    BY <1>4, <1>5, <1>6, <1>14, <1>16
  <2>2. CASE k = fd
    BY <1>16, <2>1, <2>2 DEF f
  <2>3. CASE k < fd
    <3>1. open_file_table'[q][k] = open_file_table[q][k] /\ k < fd + 1
      BY <1>16, <2>1, <2>3
    <3>2. open_file_table[q][k] = open_file_table[p][k]
      BY <1>5, <1>7, <2>1, <2>3
    <3>3. QED BY <2>1, <3>1, <3>2
  <2>4. CASE k > fd
    <3>1. open_file_table'[q][k] = open_file_table[q][k] /\ ~(k < fd + 1) /\ ~(k < v[2])
      BY <1>16, <2>1, <2>4
    <3>2. QED BY <1>7, <3>1
  <2>5. QED BY <2>1, <2>2, <2>3, <2>4
<1>18. Loops'
  <2>1. \A r \in OpenProcs : \A u, w \in loop'[r] : u = w
    BY <1>3, <1>13 DEF Loops
  <2>2. \A r \in OpenProcs : r # p => \A w \in loop[r] : w[1] # q /\ w[1] \in OpenProcs
    BY <1>3 DEF Loops, q
  <2>3. \A r, s \in OpenProcs : \A u \in loop'[r], w \in loop'[s] : u[1] = w[1] => r = s
    BY <1>3, <1>13, <2>2 DEF Loops
  <2>4. ASSUME NEW r \in OpenProcs, NEW w \in loop'[r]
        PROVE  /\ w[1] \notin alive
               /\ w[1] # r => /\ r \in alive /\ loop'[w[1]] = {}
                              /\ \A k \in Open!Fd : open_file_table'[w[1]][k]
                                                      = IF k < w[2] THEN open_file_table'[r][k] ELSE NoFile
    <3>1. CASE r = p
      <4>1. w = <<q, fd + 1>> /\ w[1] = q /\ w[2] = fd + 1
        BY <1>13, <2>4, <3>1
      <4>2. loop'[q] = {}
        BY <1>4, <1>6, <1>7, <1>13
      <4>3. QED BY <1>7, <1>17, <3>1, <4>1, <4>2
    <3>2. CASE r # p
      <4>1. w \in loop[r] /\ w[1] \in OpenProcs /\ w[1] # q /\ r # q
        BY <1>7, <1>13, <2>2, <2>4, <3>2
      <4>2. w[1] \notin alive /\ w[1] # p
        BY <1>3, <1>7, <4>1 DEF Loops
      <4>3. open_file_table'[r] = open_file_table[r] /\ open_file_table'[w[1]] = open_file_table[w[1]]
        BY <1>16, <4>1
      <4>4. loop'[w[1]] = loop[w[1]]
        BY <1>13, <4>1, <4>2
      <4>5. QED BY <1>3, <4>1, <4>2, <4>3, <4>4 DEF Loops
    <3>3. QED BY <3>1, <3>2
  <2>5. loop' \in [OpenProcs -> SUBSET (OpenProcs \X Nat)]
    <3>1. {<<q, fd + 1>>} \in SUBSET (OpenProcs \X Nat)
      BY <1>4, <1>14
    <3>2. QED BY <1>6, <1>13, <3>1
  <2>6. QED BY <1>1, <2>1, <2>3, <2>4, <2>5 DEF Loops
<1>19. IdleEmpty'
  <2>1. \A r \in OpenProcs : Open!Idle(r)' => r # q /\ Open!Idle(r)
    <3> SUFFICES ASSUME NEW r \in OpenProcs, Open!Idle(r)' PROVE r # q /\ Open!Idle(r)
      OBVIOUS
    <3>1. r \notin alive /\ loop'[r] = {} /\ \A s \in OpenProcs : \A w \in loop'[s] : w[1] # r
      BY <1>1 DEF Open!Idle
    <3>2. r # q /\ r # p
      <4>1. <<q, fd + 1>> \in loop'[p] /\ <<q, fd + 1>>[1] = q
        BY <1>13
      <4>2. QED BY <1>7, <3>1, <4>1
    <3>3. loop[r] = {}
      BY <1>13, <3>1, <3>2
    <3>4. \A w \in loop[p] : w = v
      BY <1>2, <1>3 DEF Loops
    <3>5. ASSUME NEW s \in OpenProcs, NEW w \in loop[s] PROVE w[1] # r
      <4>1. CASE s = p
        BY <3>2, <3>4, <3>5, <4>1 DEF q
      <4>2. CASE s # p
        BY <1>13, <3>1, <3>5, <4>2
      <4>3. QED BY <4>1, <4>2
    <3>6. QED BY <3>1, <3>2, <3>3, <3>5 DEF Open!Idle
  <2>2. QED BY <1>3, <1>16, <2>1 DEF IdleEmpty
<1>20. Shapes'
  BY <1>1, <1>3, <1>16 DEF Shapes
<1>21. Counts'
  <2>1. \A r \in alive : r \in OpenProcs /\ r # q
    BY <1>3, <1>7 DEF Shapes
  <2>2. QED BY <1>1, <1>3, <1>16, <2>1 DEF Counts
<1>22. QED BY <1>11, <1>15, <1>18, <1>19, <1>20, <1>21 DEF OpenInv

LEMMA ForkEndStep ==
  ASSUME OpenInv, NEW p \in OpenProcs, Open!fork_end(p)
  PROVE  OpenInv'
<1>1. Open!Up /\ UNCHANGED <<ft, open_file_table, spoiled>> /\ loop' = [loop EXCEPT ![p] = {}]
  BY DEF Open!fork_end, Open!Ends
<1>2. PICK v \in loop[p] :
        /\ v[1] # p /\ Open!Left(p, v[2]) = {}
        /\ n_opfiles' = [n_opfiles EXCEPT ![v[1]] = n_opfiles[p]] /\ alive' = alive \cup {v[1]}
  BY DEF Open!fork_end, Open!Count
<1> DEFINE q == v[1]
<1>3. /\ spoiled = {} /\ HeldIn(open_file_table, loop, ft.ref) /\ Counts /\ ft.ref \in [OpenFiles -> Nat]
      /\ Shapes /\ Loops /\ IdleEmpty /\ TableOK(ft)
  BY <1>1, UpMeans DEF OpenInv
<1>4. q \in OpenProcs /\ v[2] \in Nat /\ \A w \in loop[p] : w = v
  BY <1>3 DEF Loops
<1>5. /\ q \notin alive /\ p \in alive /\ loop[q] = {} /\ q # p
      /\ \A k \in Open!Fd : open_file_table[q][k] = IF k < v[2] THEN open_file_table[p][k] ELSE NoFile
  BY <1>2, <1>3 DEF Loops
<1>6. \A k \in Open!Fd : k \in Nat
  BY OpenFacts
<1>7. \A k \in Open!Fd : ~(k < v[2]) => open_file_table[p][k] = NoFile
  BY <1>2, <1>4, <1>6 DEF Open!Left, Open!Used, Open!Table
<1>8. \A k \in Open!Fd : open_file_table[q][k] = open_file_table[p][k]
  BY <1>5, <1>7
<1>9. /\ n_opfiles' = [n_opfiles EXCEPT ![q] = n_opfiles[p]] /\ alive' = alive \cup {q}
      /\ \A w \in loop[p] : w[1] = q
      /\ \A r \in OpenProcs : r # p => \A w \in loop[r] : w[1] # q /\ w[1] \in OpenProcs
  BY <1>2, <1>3, <1>4 DEF Loops
<1> HIDE DEF q
<1>10. /\ loop' \in [OpenProcs -> SUBSET (OpenProcs \X Nat)] /\ loop'[p] = {}
       /\ \A r \in OpenProcs : r # p => loop'[r] = loop[r]
  BY <1>1, <1>3 DEF Loops
<1>11. UsedIn(open_file_table[q]) = UsedIn(open_file_table[p])
  BY <1>8 DEF UsedIn
<1>12. Counts'
  <2>1. n_opfiles'[q] = n_opfiles[p] /\ \A r \in OpenProcs : r # q => n_opfiles'[r] = n_opfiles[r]
    BY <1>3, <1>4, <1>9 DEF Shapes
  <2>2. \A r \in alive : r \in OpenProcs /\ r # q
    BY <1>3, <1>5 DEF Shapes
  <2>3. ASSUME NEW r \in alive' PROVE n_opfiles'[r] = Cardinality(UsedIn(open_file_table[r]))
    <3>1. CASE r = q
      BY <1>3, <1>5, <1>11, <2>1, <3>1 DEF Counts
    <3>2. CASE r # q
      BY <1>3, <1>9, <2>1, <2>2, <2>3, <3>2 DEF Counts
    <3>3. QED BY <3>1, <3>2
  <2>4. QED BY <1>1, <2>3 DEF Counts
<1>13. Shapes'
  <2>1. n_opfiles' \in [OpenProcs -> Int]
    BY <1>3, <1>9 DEF Shapes
  <2>2. QED BY <1>1, <1>3, <1>4, <1>9, <2>1 DEF Shapes
<1>14. Loops'
  <2>1. \A r \in OpenProcs : \A u, w \in loop'[r] : u = w
    BY <1>3, <1>10 DEF Loops
  <2>2. \A r, s \in OpenProcs : \A u \in loop'[r], w \in loop'[s] : u[1] = w[1] => r = s
    BY <1>3, <1>10 DEF Loops
  <2>3. ASSUME NEW r \in OpenProcs, NEW w \in loop'[r]
        PROVE  /\ w[1] \notin alive'
               /\ w[1] # r => /\ r \in alive' /\ loop'[w[1]] = {}
                              /\ \A k \in Open!Fd : open_file_table'[w[1]][k]
                                                      = IF k < w[2] THEN open_file_table'[r][k] ELSE NoFile
    <3>1. r # p /\ w \in loop[r]
      BY <1>10, <2>3
    <3>2. w[1] \in OpenProcs /\ w[1] # q /\ w[1] \notin alive
      BY <1>3, <1>9, <3>1 DEF Loops
    <3>3. w[1] # p /\ loop'[w[1]] = loop[w[1]]
      BY <1>5, <1>10, <3>2
    <3>4. QED BY <1>1, <1>3, <1>9, <3>1, <3>2, <3>3 DEF Loops
  <2>4. QED BY <1>10, <2>1, <2>2, <2>3 DEF Loops
<1>15. IdleEmpty'
  <2>1. \A r \in OpenProcs : Open!Idle(r)' => Open!Idle(r)
    <3> SUFFICES ASSUME NEW r \in OpenProcs, Open!Idle(r)' PROVE Open!Idle(r)
      OBVIOUS
    <3>1. r \notin alive' /\ loop'[r] = {} /\ \A s \in OpenProcs : \A w \in loop'[s] : w[1] # r
      BY DEF Open!Idle
    <3>2. r \notin alive /\ r # q /\ r # p
      BY <1>5, <1>9, <3>1
    <3>3. loop[r] = {}
      BY <1>10, <3>1, <3>2
    <3>4. ASSUME NEW s \in OpenProcs, NEW w \in loop[s] PROVE w[1] # r
      <4>1. CASE s = p
        BY <1>9, <3>2, <3>4, <4>1
      <4>2. CASE s # p
        BY <1>10, <3>1, <3>4, <4>2
      <4>3. QED BY <4>1, <4>2
    <3>5. QED BY <3>2, <3>3, <3>4 DEF Open!Idle
  <2>2. QED BY <1>1, <1>3, <2>1 DEF IdleEmpty
<1>16. HeldIn(open_file_table', loop', ft'.ref)
  <2>1. \A r \in OpenProcs, k \in Open!Fd : Shut(loop, r, k) => Shut(loop', r, k)
    BY <1>5, <1>9, <1>10 DEF Shut
  <2>2. HeldIn(open_file_table, loop', ft.ref)
    BY <1>3, <2>1, HeldOn
  <2>3. QED BY <1>1, <2>2
<1>17. TableOK(ft')
  BY <1>1, <1>3
<1>18. QED BY <1>12, <1>13, <1>14, <1>15, <1>16, <1>17 DEF OpenInv

LEMMA ExitStep ==
  ASSUME OpenInv, NEW p \in OpenProcs, Open!exit(p)
  PROVE  OpenInv'
<1>1. /\ Open!Runs(p) /\ loop' = [loop EXCEPT ![p] = {<<p, 0>>}] /\ alive' = alive \ {p}
      /\ UNCHANGED <<ft, open_file_table, n_opfiles, spoiled>>
  BY DEF Open!exit, Open!Visits
<1>2. /\ TableOK(ft) /\ ft.ref \in [OpenFiles -> Nat] /\ HeldIn(open_file_table, loop, ft.ref)
      /\ p \in alive /\ loop[p] = {} /\ spoiled = {}
  BY <1>1, RunsMeans
<1>3. Shapes /\ Loops /\ IdleEmpty /\ Counts
  BY <1>2 DEF OpenInv
<1>4. /\ loop \in [OpenProcs -> SUBSET (OpenProcs \X Nat)] /\ loop'[p] = {<<p, 0>>}
      /\ \A r \in OpenProcs : r # p => loop'[r] = loop[r]
  BY <1>1, <1>3 DEF Loops
<1>5. \A r \in OpenProcs : \A w \in loop[r] : w[1] # p /\ w[1] \in OpenProcs /\ r # p
  BY <1>2, <1>3 DEF Loops
<1>6. Loops'
  <2>1. \A r \in OpenProcs : \A u, w \in loop'[r] : u = w
    BY <1>3, <1>4 DEF Loops
  <2>2. \A r, s \in OpenProcs : \A u \in loop'[r], w \in loop'[s] : u[1] = w[1] => r = s
    BY <1>3, <1>4, <1>5 DEF Loops
  <2>3. ASSUME NEW r \in OpenProcs, NEW w \in loop'[r]
        PROVE  /\ w[1] \notin alive'
               /\ w[1] # r => /\ r \in alive' /\ loop'[w[1]] = {}
                              /\ \A k \in Open!Fd : open_file_table'[w[1]][k]
                                                      = IF k < w[2] THEN open_file_table'[r][k] ELSE NoFile
    <3>1. CASE r = p
      <4>1. w = <<p, 0>>
        BY <1>4, <2>3, <3>1
      <4>2. QED BY <1>1, <3>1, <4>1
    <3>2. CASE r # p
      <4>1. w \in loop[r] /\ w[1] # p /\ w[1] \in OpenProcs
        BY <1>4, <1>5, <2>3, <3>2
      <4>2. loop'[w[1]] = loop[w[1]]
        BY <1>4, <4>1
      <4>3. QED BY <1>1, <1>3, <3>2, <4>1, <4>2 DEF Loops
    <3>3. QED BY <3>1, <3>2
  <2>4. loop' \in [OpenProcs -> SUBSET (OpenProcs \X Nat)]
    BY <1>1, <1>4
  <2>5. QED BY <2>1, <2>2, <2>3, <2>4 DEF Loops
<1>7. IdleEmpty'
  <2>1. \A r \in OpenProcs : Open!Idle(r)' => Open!Idle(r)
    <3> SUFFICES ASSUME NEW r \in OpenProcs, Open!Idle(r)' PROVE Open!Idle(r)
      OBVIOUS
    <3>1. r \notin alive' /\ loop'[r] = {} /\ \A s \in OpenProcs : \A w \in loop'[s] : w[1] # r
      BY DEF Open!Idle
    <3>2. r # p
      BY <1>4, <3>1
    <3>3. r \notin alive /\ loop[r] = {}
      BY <1>1, <1>4, <3>1, <3>2
    <3>4. \A s \in OpenProcs : \A w \in loop[s] : w[1] # r
      BY <1>4, <1>5, <3>1
    <3>5. QED BY <3>3, <3>4 DEF Open!Idle
  <2>2. QED BY <1>1, <1>3, <2>1 DEF IdleEmpty
<1>8. Shapes' /\ Counts'
  BY <1>1, <1>3 DEF Shapes, Counts
<1>9. HeldIn(open_file_table', loop', ft'.ref)
  <2>1. \A r \in OpenProcs, k \in Open!Fd : Shut(loop, r, k) => Shut(loop', r, k)
    BY <1>2, <1>4 DEF Shut
  <2>2. HeldIn(open_file_table, loop', ft.ref)
    BY <1>2, <2>1, HeldOn
  <2>3. QED BY <1>1, <2>2
<1>10. TableOK(ft')
  BY <1>1, <1>2
<1>11. QED BY <1>6, <1>7, <1>8, <1>9, <1>10 DEF OpenInv

LEMMA ExitCloseStep ==
  ASSUME OpenInv, NEW p \in OpenProcs, Open!exit_close(p)
  PROVE  OpenInv'
<1>1. Open!Up /\ UNCHANGED <<open_file_table, n_opfiles, alive, spoiled>>
  BY DEF Open!exit_close
<1>2. PICK v \in loop[p] :
        /\ v[1] = p /\ Open!Left(p, v[2]) # {}
        /\ ft' = Open!file_close(ft, open_file_table[p][Open!Min(Open!Left(p, v[2]))])
        /\ loop' = [loop EXCEPT ![p] = {<<p, Open!Min(Open!Left(p, v[2])) + 1>>}]
  BY DEF Open!exit_close, Open!Visits, Open!Table
<1> DEFINE fd == Open!Min(Open!Left(p, v[2]))
           f == open_file_table[p][fd]
<1>3. /\ spoiled = {} /\ HeldIn(open_file_table, loop, ft.ref) /\ Counts /\ ft.ref \in [OpenFiles -> Nat]
      /\ Shapes /\ Loops /\ IdleEmpty /\ TableOK(ft)
  BY <1>1, UpMeans DEF OpenInv
<1>4. v[2] \in Nat /\ p \notin alive /\ \A w \in loop[p] : w = v
  BY <1>2, <1>3 DEF Loops
<1>5. fd \in Open!Fd /\ fd >= v[2] /\ f # NoFile
  BY <1>2, <1>4, NextEntry
<1>6. ft' = Open!file_close(ft, f) /\ loop' = [loop EXCEPT ![p] = {<<p, fd + 1>>}]
  BY <1>2
<1> HIDE DEF fd
<1>7. fd \in Nat /\ \A k \in Open!Fd : k \in Nat
  BY <1>5, OpenFacts
<1>8. f \in OpenFiles /\ open_file_table \in Descs
  BY <1>3, <1>5 DEF Shapes, Descs, Entries
<1>9. ~Shut(loop, p, fd)
  BY <1>4, <1>5, <1>7 DEF Shut
<1>10. ft.ref[f] > 0
  BY <1>3, <1>5, <1>8, <1>9, NamedIsHeld
<1>11. TableOK(ft') /\ ft'.ref = [ft.ref EXCEPT ![f] = ft.ref[f] - 1]
  BY <1>3, <1>6, <1>8, <1>10, CloseOK
<1> DEFINE tab == [open_file_table EXCEPT ![p][fd] = NoFile]
<1>12. HeldIn(tab, loop, ft'.ref)
  <2>1. HeldIn([open_file_table EXCEPT ![p][fd] = NoFile], loop, [ft.ref EXCEPT ![f] = ft.ref[f] - 1])
    BY <1>3, <1>5, <1>8, <1>9, HeldClose, Zenon
  <2>2. QED BY <1>11, <2>1, Zenon
<1>13. \A e \in OpenProcs \X Open!Fd : e # <<p, fd>> => tab[e[1]][e[2]] = open_file_table[e[1]][e[2]]
  BY <1>8 DEF Descs
<1> HIDE DEF f, tab
<1>14. /\ loop \in [OpenProcs -> SUBSET (OpenProcs \X Nat)] /\ loop'[p] = {<<p, fd + 1>>}
       /\ \A r \in OpenProcs : r # p => loop'[r] = loop[r]
  BY <1>3, <1>6 DEF Loops
<1>15. HeldIn(open_file_table', loop', ft'.ref)
  <2>1. Shut(loop', p, fd)
    BY <1>7, <1>14 DEF Shut
  <2>2. \A r \in OpenProcs, k \in Open!Fd : Shut(loop, r, k) => Shut(loop', r, k)
    <3> SUFFICES ASSUME NEW r \in OpenProcs, NEW k \in Open!Fd, Shut(loop, r, k) PROVE Shut(loop', r, k)
      OBVIOUS
    <3>1. CASE r # p
      BY <1>14, <3>1 DEF Shut
    <3>2. CASE r = p
      <4>1. k < v[2]
        BY <1>4, <3>2 DEF Shut
      <4>2. k < fd + 1
        BY <1>4, <1>5, <1>7, <4>1
      <4>3. <<p, fd + 1>> \in loop'[p] /\ <<p, fd + 1>>[1] = p /\ <<p, fd + 1>>[2] = fd + 1
        BY <1>14
      <4>4. QED BY <3>2, <4>2, <4>3 DEF Shut
    <3>3. QED BY <3>1, <3>2
  <2>3. \A g \in OpenFiles : NamingIn(open_file_table, loop', g) \subseteq NamingIn(tab, loop, g)
    <3> SUFFICES ASSUME NEW g \in OpenFiles, NEW e \in NamingIn(open_file_table, loop', g)
                 PROVE  e \in NamingIn(tab, loop, g)
      OBVIOUS
    <3>1. /\ e \in OpenProcs \X Open!Fd /\ open_file_table[e[1]][e[2]] = g /\ ~Shut(loop', e[1], e[2])
          /\ e[1] \in OpenProcs /\ e[2] \in Open!Fd
      BY DEF NamingIn
    <3>2. e # <<p, fd>>
      BY <2>1, <3>1
    <3>3. QED BY <1>13, <2>2, <3>1, <3>2 DEF NamingIn
  <2>4. ft'.ref \in [OpenFiles -> Nat]
    BY <1>11 DEF TableOK
  <2>5. HeldIn(open_file_table, loop', ft'.ref)
    BY <1>12, <2>3, <2>4, HeldFewer
  <2>6. QED BY <1>1, <2>5
<1>16. \A w \in loop[p] : w[1] = p
  BY <1>2, <1>4
<1>17. Loops'
  <2>1. \A r \in OpenProcs : \A u, w \in loop'[r] : u = w
    BY <1>3, <1>14 DEF Loops
  <2>2. \A r \in OpenProcs : r # p => \A w \in loop[r] : w[1] # p /\ w[1] \in OpenProcs
    BY <1>2, <1>3 DEF Loops
  <2>3. \A r, s \in OpenProcs : \A u \in loop'[r], w \in loop'[s] : u[1] = w[1] => r = s
    BY <1>3, <1>14, <2>2 DEF Loops
  <2>4. ASSUME NEW r \in OpenProcs, NEW w \in loop'[r]
        PROVE  /\ w[1] \notin alive'
               /\ w[1] # r => /\ r \in alive' /\ loop'[w[1]] = {}
                              /\ \A k \in Open!Fd : open_file_table'[w[1]][k]
                                                      = IF k < w[2] THEN open_file_table'[r][k] ELSE NoFile
    <3>1. CASE r = p
      <4>1. w = <<p, fd + 1>>
        BY <1>14, <2>4, <3>1
      <4>2. QED BY <1>1, <1>4, <3>1, <4>1
    <3>2. CASE r # p
      <4>1. w \in loop[r] /\ w[1] # p /\ w[1] \in OpenProcs
        BY <1>14, <2>2, <2>4, <3>2
      <4>2. loop'[w[1]] = loop[w[1]]
        BY <1>14, <4>1
      <4>3. QED BY <1>1, <1>3, <4>1, <4>2 DEF Loops
    <3>3. QED BY <3>1, <3>2
  <2>5. loop' \in [OpenProcs -> SUBSET (OpenProcs \X Nat)]
    <3>1. {<<p, fd + 1>>} \in SUBSET (OpenProcs \X Nat)
      BY <1>7
    <3>2. QED BY <1>6, <1>14, <3>1
  <2>6. QED BY <2>1, <2>3, <2>4, <2>5 DEF Loops
<1>18. IdleEmpty'
  <2>1. \A r \in OpenProcs : Open!Idle(r)' => Open!Idle(r)
    <3> SUFFICES ASSUME NEW r \in OpenProcs, Open!Idle(r)' PROVE Open!Idle(r)
      OBVIOUS
    <3>1. r \notin alive /\ loop'[r] = {} /\ \A s \in OpenProcs : \A w \in loop'[s] : w[1] # r
      BY <1>1 DEF Open!Idle
    <3>2. r # p
      BY <1>14, <3>1
    <3>3. loop[r] = {}
      BY <1>14, <3>1, <3>2
    <3>4. \A s \in OpenProcs : \A w \in loop[s] : w[1] # r
      BY <1>14, <1>16, <3>1, <3>2
    <3>5. QED BY <3>1, <3>3, <3>4 DEF Open!Idle
  <2>2. QED BY <1>1, <1>3, <2>1 DEF IdleEmpty
<1>19. Shapes' /\ Counts'
  BY <1>1, <1>3 DEF Shapes, Counts
<1>20. QED BY <1>11, <1>15, <1>17, <1>18, <1>19 DEF OpenInv

LEMMA ExitEndStep ==
  ASSUME OpenInv, NEW p \in OpenProcs, Open!exit_end(p)
  PROVE  OpenInv'
<1> DEFINE None == [fd \in Open!Fd |-> NoFile]
<1>1. /\ Open!Up /\ UNCHANGED <<ft, alive, spoiled>> /\ loop' = [loop EXCEPT ![p] = {}]
      /\ open_file_table' = [open_file_table EXCEPT ![p] = None] /\ n_opfiles' = [n_opfiles EXCEPT ![p] = 0]
  BY DEF Open!exit_end, Open!Ends, Open!Count
<1>2. PICK v \in loop[p] : v[1] = p
  BY DEF Open!exit_end
<1>3. /\ spoiled = {} /\ HeldIn(open_file_table, loop, ft.ref) /\ Counts /\ ft.ref \in [OpenFiles -> Nat]
      /\ Shapes /\ Loops /\ IdleEmpty /\ TableOK(ft)
  BY <1>1, UpMeans DEF OpenInv
<1>4. p \notin alive /\ \A w \in loop[p] : w[1] = p
  BY <1>2, <1>3 DEF Loops
<1>5. /\ loop' \in [OpenProcs -> SUBSET (OpenProcs \X Nat)] /\ loop'[p] = {}
      /\ \A r \in OpenProcs : r # p => loop'[r] = loop[r]
  BY <1>1, <1>3 DEF Loops
<1>6. None \in [Open!Fd -> Entries] /\ \A k \in Open!Fd : None[k] = NoFile
  BY DEF Entries
<1> HIDE DEF None
<1>7. /\ open_file_table' \in Descs /\ \A r \in OpenProcs : r # p => open_file_table'[r] = open_file_table[r]
      /\ \A k \in Open!Fd : open_file_table'[p][k] = NoFile
  BY <1>1, <1>3, <1>6 DEF Shapes, Descs
<1>8. \A r \in OpenProcs : r # p => \A w \in loop[r] : w[1] # p /\ w[1] \in OpenProcs
  BY <1>2, <1>3 DEF Loops
<1>9. Shapes'
  BY <1>1, <1>3, <1>7 DEF Shapes
<1>10. Counts'
  <2>1. \A r \in alive : r \in OpenProcs /\ r # p
    BY <1>3, <1>4 DEF Shapes
  <2>2. \A r \in OpenProcs : r # p => n_opfiles'[r] = n_opfiles[r]
    BY <1>1, <1>3 DEF Shapes
  <2>3. QED BY <1>1, <1>3, <1>7, <2>1, <2>2 DEF Counts
<1>11. Loops'
  <2>1. \A r \in OpenProcs : \A u, w \in loop'[r] : u = w
    BY <1>3, <1>5 DEF Loops
  <2>2. \A r, s \in OpenProcs : \A u \in loop'[r], w \in loop'[s] : u[1] = w[1] => r = s
    BY <1>3, <1>5 DEF Loops
  <2>3. ASSUME NEW r \in OpenProcs, NEW w \in loop'[r]
        PROVE  /\ w[1] \notin alive'
               /\ w[1] # r => /\ r \in alive' /\ loop'[w[1]] = {}
                              /\ \A k \in Open!Fd : open_file_table'[w[1]][k]
                                                      = IF k < w[2] THEN open_file_table'[r][k] ELSE NoFile
    <3>1. r # p /\ w \in loop[r]
      BY <1>5, <2>3
    <3>2. w[1] \in OpenProcs /\ w[1] # p
      BY <1>8, <3>1
    <3>3. /\ loop'[w[1]] = loop[w[1]] /\ open_file_table'[w[1]] = open_file_table[w[1]]
          /\ open_file_table'[r] = open_file_table[r]
      BY <1>5, <1>7, <3>1, <3>2
    <3>4. QED BY <1>1, <1>3, <3>1, <3>2, <3>3 DEF Loops
  <2>4. QED BY <1>5, <2>1, <2>2, <2>3 DEF Loops
<1>12. IdleEmpty'
  <2>1. \A r \in OpenProcs : r # p /\ Open!Idle(r)' => Open!Idle(r)
    <3> SUFFICES ASSUME NEW r \in OpenProcs, r # p, Open!Idle(r)' PROVE Open!Idle(r)
      OBVIOUS
    <3>1. r \notin alive /\ loop'[r] = {} /\ \A s \in OpenProcs : \A w \in loop'[s] : w[1] # r
      BY <1>1 DEF Open!Idle
    <3>2. loop[r] = {}
      BY <1>5, <3>1
    <3>3. \A s \in OpenProcs : \A w \in loop[s] : w[1] # r
      BY <1>4, <1>5, <3>1
    <3>4. QED BY <3>1, <3>2, <3>3 DEF Open!Idle
  <2>2. QED BY <1>3, <1>7, <2>1 DEF IdleEmpty
<1>13. HeldIn(open_file_table', loop', ft'.ref)
  <2>1. \A f \in OpenFiles : NamingIn(open_file_table', loop', f) \subseteq NamingIn(open_file_table, loop, f)
    <3> SUFFICES ASSUME NEW f \in OpenFiles, NEW e \in NamingIn(open_file_table', loop', f)
                 PROVE  e \in NamingIn(open_file_table, loop, f)
      OBVIOUS
    <3>1. /\ e \in OpenProcs \X Open!Fd /\ open_file_table'[e[1]][e[2]] = f /\ ~Shut(loop', e[1], e[2])
          /\ e[1] \in OpenProcs /\ e[2] \in Open!Fd
      BY DEF NamingIn
    <3>2. e[1] # p
      BY <1>7, <3>1, OpenFacts
    <3>3. open_file_table[e[1]][e[2]] = f /\ ~Shut(loop, e[1], e[2])
      BY <1>5, <1>7, <3>1, <3>2 DEF Shut
    <3>4. QED BY <3>1, <3>3 DEF NamingIn
  <2>2. HeldIn(open_file_table', loop', ft.ref)
    BY <1>3, <2>1, HeldFewer
  <2>3. QED BY <1>1, <2>2
<1>14. TableOK(ft')
  BY <1>1, <1>3
<1>15. QED BY <1>9, <1>10, <1>11, <1>12, <1>13, <1>14 DEF OpenInv

LEMMA InitOpen == Open!ftable_init => OpenInv
<1> SUFFICES ASSUME Open!ftable_init PROVE OpenInv
  OBVIOUS
<1> DEFINE zero == [f \in OpenFiles |-> 0]
           all == SetToSeq(OpenFiles)
<1>1. /\ ft = [ref |-> zero, flist |-> all, n |-> 0, corrupt |-> FALSE]
      /\ open_file_table = [p \in OpenProcs |-> [fd \in Open!Fd |-> NoFile]]
      /\ n_opfiles = [p \in OpenProcs |-> 0] /\ alive = {root_proc}
      /\ loop = [p \in OpenProcs |-> {}] /\ spoiled = {}
  BY SameSets DEF Open!ftable_init
<1>2. ListIn(OpenFiles, all, OpenFiles)
  BY OpenFacts, AllListed
<1>3. Len(all) = Cardinality(OpenFiles) /\ Cardinality(OpenFiles) \in Nat /\ all \in Seq(OpenFiles)
  <2>1. Cardinality(OpenFiles) \in Nat
    BY OpenFacts, FS_CardinalityType
  <2>2. DOMAIN all = 1 .. Len(all) /\ Len(all) \in Nat /\ all \in Seq(OpenFiles)
    BY <1>2, LenProperties DEF ListIn
  <2> HIDE DEF all
  <2>3. all \in Bijection(1 .. Len(all), OpenFiles)
    <3>1. all \in [1 .. Len(all) -> OpenFiles]
      BY <2>2
    <3>2. all \in Injection(1 .. Len(all), OpenFiles)
      BY <1>2, <2>2, <3>1 DEF ListIn, IsInjective, Injection
    <3>3. all \in Surjection(1 .. Len(all), OpenFiles)
      BY <1>2, <2>2, <3>1 DEF ListIn, ToSet, Surjection
    <3>4. QED BY <3>2, <3>3 DEF Bijection
  <2>4. Cardinality(OpenFiles) = Len(all)
    <3>1. IsFiniteSet(1 .. Len(all)) /\ Cardinality(1 .. Len(all)) = Len(all)
      BY <2>2, FS_Interval
    <3>2. ExistsBijection(1 .. Len(all), OpenFiles)
      BY <2>3 DEF ExistsBijection
    <3>3. QED BY <3>1, <3>2, FS_Bijection
  <2>5. QED BY <2>1, <2>2, <2>4
<1> HIDE DEF all
<1>4. TableOK(ft)
  <2>1. ft.ref = zero /\ ft.flist = all /\ ft.n = 0 /\ ft.corrupt = FALSE
    BY <1>1
  <2>2. {f \in OpenFiles : zero[f] = 0} = OpenFiles /\ zero \in [OpenFiles -> Nat]
    OBVIOUS
  <2> HIDE DEF zero
  <2>3. ft \in [ref : [OpenFiles -> Nat], flist : Seq(OpenFiles), n : Int, corrupt : BOOLEAN]
    BY <1>1, <1>3, <2>2
  <2>4. ft.n = Open!NFILE - Len(ft.flist)
    BY <1>3, <2>1, SameSets DEF Open!NFILE
  <2>5. QED BY <1>2, <2>1, <2>2, <2>3, <2>4 DEF TableOK
<1>5. \A p \in OpenProcs : loop[p] = {} /\ \A fd \in Open!Fd : open_file_table[p][fd] = NoFile
  BY <1>1
<1>6. Shapes
  BY <1>1, OpenFacts DEF Shapes, Descs, Entries
<1>7. Loops
  <2>1. loop \in [OpenProcs -> SUBSET (OpenProcs \X Nat)]
    BY <1>1
  <2>2. QED BY <1>5, <2>1 DEF Loops
<1>8. IdleEmpty
  BY <1>5 DEF IdleEmpty
<1>9. HeldIn(open_file_table, loop, ft.ref)
  <2>1. \A f \in OpenFiles : NamingIn(open_file_table, loop, f) = {}
    <3> SUFFICES ASSUME NEW f \in OpenFiles, NEW e \in NamingIn(open_file_table, loop, f) PROVE FALSE
      OBVIOUS
    <3>1. e[1] \in OpenProcs /\ e[2] \in Open!Fd /\ open_file_table[e[1]][e[2]] = f
      BY DEF NamingIn
    <3>2. QED BY <1>5, <3>1, OpenFacts
  <2>2. \A f \in OpenFiles : ft.ref[f] = 0
    BY <1>1
  <2>3. QED BY <2>1, <2>2, FS_EmptySet DEF HeldIn
<1>10. Counts
  <2>1. \A p \in OpenProcs : UsedIn(open_file_table[p]) = {}
    BY <1>5 DEF UsedIn
  <2>2. \A p \in OpenProcs : n_opfiles[p] = 0
    BY <1>1
  <2>3. QED BY <1>1, <2>1, <2>2, OpenFacts, FS_EmptySet DEF Counts
<1>11. QED BY <1>4, <1>6, <1>7, <1>8, <1>9, <1>10 DEF OpenInv

LEMMA StepOpen == OpenInv /\ [Open!Next]_tableVars => OpenInv'
<1> SUFFICES ASSUME OpenInv, [Open!Next]_tableVars PROVE OpenInv'
  OBVIOUS
<1>1. CASE UNCHANGED tableVars
  <2>1. /\ ft' = ft /\ open_file_table' = open_file_table /\ n_opfiles' = n_opfiles
        /\ alive' = alive /\ loop' = loop /\ spoiled' = spoiled
    BY <1>1 DEF tableVars
  <2>2. Loops' /\ Shapes' /\ (spoiled = {} => Counts')
    BY <2>1 DEF OpenInv, Loops, Shapes, Counts
  <2>3. IdleEmpty'
    BY <2>1 DEF OpenInv, IdleEmpty, Open!Idle
  <2>4. TableOK(ft') /\ ("failed" \notin spoiled => HeldIn(open_file_table', loop', ft'.ref))
    BY <2>1 DEF OpenInv
  <2>5. QED BY <2>1, <2>2, <2>3, <2>4 DEF OpenInv
<1>2. ASSUME NEW p \in OpenProcs, Open!open(p) PROVE OpenInv'
  BY <1>2, OpenStep
<1>3. ASSUME NEW p \in OpenProcs, NEW fd \in Open!Fd, Open!dup(p, fd) PROVE OpenInv'
  BY <1>3, DupStep
<1>4. ASSUME NEW p \in OpenProcs, NEW oldfd \in Open!Fd, NEW newfd \in Open!Fd, Open!dup2(p, oldfd, newfd)
      PROVE  OpenInv'
  BY <1>4, Dup2Step
<1>5. ASSUME NEW p \in OpenProcs, NEW fd \in Open!Fd, Open!close(p, fd) PROVE OpenInv'
  BY <1>5, CloseStep
<1>6. ASSUME NEW p \in OpenProcs, NEW mem \in BOOLEAN, Open!pipe(p, mem) PROVE OpenInv'
  BY <1>6, PipeStep
<1>7. ASSUME NEW p \in OpenProcs, NEW q \in OpenProcs, Open!fork(p, q) PROVE OpenInv'
  BY <1>7, ForkStep
<1>8. ASSUME NEW p \in OpenProcs, Open!fork_dup(p) PROVE OpenInv'
  BY <1>8, ForkDupStep
<1>9. ASSUME NEW p \in OpenProcs, Open!fork_end(p) PROVE OpenInv'
  BY <1>9, ForkEndStep
<1>10. ASSUME NEW p \in OpenProcs, Open!exit(p) PROVE OpenInv'
  BY <1>10, ExitStep
<1>11. ASSUME NEW p \in OpenProcs, Open!exit_close(p) PROVE OpenInv'
  BY <1>11, ExitCloseStep
<1>12. ASSUME NEW p \in OpenProcs, Open!exit_end(p) PROVE OpenInv'
  BY <1>12, ExitEndStep
<1>13. QED
  BY <1>1, <1>2, <1>3, <1>4, <1>5, <1>6, <1>7, <1>8, <1>9, <1>10, <1>11, <1>12 DEF Open!Next

\* What the invariant says of the open files.
LEMMA OpenInvMeans == OpenInv => Open!NoDangling /\ Open!OpenFilesCounted /\ Open!OpfilesCounted
<1> SUFFICES ASSUME OpenInv PROVE Open!NoDangling /\ Open!OpenFilesCounted /\ Open!OpfilesCounted
  OBVIOUS
<1>1. Open!OpenFilesCounted
  BY DEF OpenInv, TableOK, Open!OpenFilesCounted
<1>2. \A f \in OpenFiles : Open!Contains(ft.flist, f) <=> ft.ref[f] = 0
  <2>1. ft.flist \in Seq(OpenFiles) /\ ToSet(ft.flist) = {f \in OpenFiles : ft.ref[f] = 0}
    BY DEF OpenInv, TableOK, ListIn
  <2>2. DOMAIN ft.flist = 1 .. Len(ft.flist)
    BY <2>1, LenProperties
  <2>3. \A f \in OpenFiles : Contains(ft.flist, f) <=> f \in ToSet(ft.flist)
    BY <2>2 DEF Contains, ToSet
  <2>4. QED BY <2>1, <2>3, SameSets
<1>3. \A f : Open!Naming(f) = NamingIn(open_file_table, loop, f)
  BY DEF Open!Naming, NamingIn, Open!Closed, Shut, Open!Table
<1>4. \A f \in OpenFiles : "failed" \notin spoiled => ft.ref[f] >= Open!Cardinality(Open!Naming(f))
  BY <1>3, SameSets DEF OpenInv, HeldIn
<1>5. Open!NoDangling
  BY <1>2, <1>4 DEF Open!NoDangling
<1>6. \A p : Open!Used(p) = UsedIn(open_file_table[p])
  BY DEF Open!Used, Open!Table, UsedIn
<1>7. Open!OpfilesCounted
  BY <1>6, SameSets DEF OpenInv, Counts, Open!OpfilesCounted
<1>8. QED BY <1>1, <1>5, <1>7

\* Open files are counted: no struct file is freed while a descriptor names
\* it, and n_openfiles and n_opfiles are exact (file.c:32-77,
\* sysfile.c:42-118), with any number of processes, files and descriptors and
\* any limit to the references that leak.
THEOREM OpenFilesAreCounted == MCSpec => []FilesCounted
<1> DEFINE Inv == part = "open" => OpenInv
<1>1. MCInit => Inv
  BY InitOpen DEF MCInit
<1>2. Inv /\ [MCNext]_<<part, vars, dataVars, dirVars, tableVars>> => Inv'
  <2> SUFFICES ASSUME Inv, [MCNext]_<<part, vars, dataVars, dirVars, tableVars>>, part' = "open" PROVE OpenInv'
    OBVIOUS
  <2>1. part' = part
    BY DEF MCNext
  <2>2. OpenInv
    BY <2>1
  <2>3. [Open!Next]_tableVars
    BY <2>1 DEF MCNext
  <2>4. QED BY <2>2, <2>3, StepOpen
<1>3. Inv => FilesCounted
  BY OpenInvMeans DEF FilesCounted
<1>4. QED BY <1>1, <1>2, <1>3, PTL DEF MCSpec

\* Until a pipe() has failed, no file is closed more often than it was opened:
\* the panics of file.c:55 and 67 are out of reach of every order of the other
\* calls.
THEOREM NoCorruptionBefore == MCSpec => [](part = "open" => Open!NoCorruption)
<1> DEFINE Inv == part = "open" => OpenInv
<1>1. MCInit => Inv
  BY InitOpen DEF MCInit
<1>2. Inv /\ [MCNext]_<<part, vars, dataVars, dirVars, tableVars>> => Inv'
  <2> SUFFICES ASSUME Inv, [MCNext]_<<part, vars, dataVars, dirVars, tableVars>>, part' = "open" PROVE OpenInv'
    OBVIOUS
  <2>1. part' = part
    BY DEF MCNext
  <2>2. OpenInv
    BY <2>1
  <2>3. [Open!Next]_tableVars
    BY <2>1 DEF MCNext
  <2>4. QED BY <2>2, <2>3, StepOpen
<1>3. Inv => (part = "open" => Open!NoCorruption)
  BY DEF OpenInv, TableOK, Open!NoCorruption
<1>4. QED BY <1>1, <1>2, <1>3, PTL DEF MCSpec

=============================================================================
