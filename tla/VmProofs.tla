------------------------------ MODULE VmProofs ------------------------------
(***************************************************************************)
(* Proofs about Vm, for any number of processes and frames, every layout   *)
(* of the address space and every size of a page table: the types, the     *)
(* references, that what one process may write is in no other address      *)
(* space, and that Vm implements Memory.                                   *)
(*                                                                         *)
(* The operators of pmap.c change a memory t step by step, and what holds  *)
(* of the machine between two actions holds, but for the rights to write,  *)
(* after each of those steps as well.  So the invariant is one of a memory *)
(* (Ok), and the lemmas say what each operator does with it.               *)
(***************************************************************************)
EXTENDS Vm, FiniteSetTheorems, FunctionTheorems, WellFoundedInduction, TLAPS

-----------------------------------------------------------------------------
(* The invariant of a memory.                                               *)

\* Processes, and the directory that exec makes.
Spaces == Procs \cup {New}

Mem == [space : [Spaces -> Space \cup {None}], ref : [Frames -> 0 .. REFS - 1],
        data : [Frames -> Vals], free : SUBSET Frames]

\* What a frame is used for, by whom, and where.
Uses_ == [kind : {"free", "dir", "table", "ktable", "stack", "page"}, of : Spaces, at : Nat]
Role(kind, s, x) == [kind |-> kind, of |-> s, at |-> x]
Roles == [Frames -> Uses_]

Pt(t, s, va) == IF t.space[s] = None THEN None ELSE t.space[s].pt[va]

\* The entries that name a frame, and the kernel stacks it is.
PagesOf(t, f) == {u \in Spaces \X Vas : Pt(t, u[1], u[2]) # None /\ Pt(t, u[1], u[2]).frame = f}
StacksOf(t, f) == {s \in Spaces : t.space[s] # None /\ t.space[s].kstack = f}

\* Directories and page tables have one owner and one use; a page is at the
\* same address in all address spaces that have it, and its page table is
\* there.
Owns(t, r, s) ==
    /\ r[t.space[s].dir] = Role("dir", s, 0)
    /\ t.space[s].ktable # None => r[t.space[s].ktable] = Role("ktable", s, 0)
    /\ t.space[s].kstack # None => r[t.space[s].kstack] = Role("stack", New, 0)
    /\ \A x \in Tables : t.space[s].table[x] # None => r[t.space[s].table[x]] = Role("table", s, x)
    /\ \A va \in Vas : t.space[s].pt[va] # None =>
          /\ r[t.space[s].pt[va].frame] = Role("page", New, va)
          /\ t.space[s].table[va \div PDENTRIES] # None

Placed(t, r) ==
    /\ t \in Mem /\ r \in Roles
    /\ \A f \in t.free : r[f].kind = "free"
    /\ \A s \in Spaces : t.space[s] # None => Owns(t, r, s)

\* p_ref of pages and kernel stacks counts who has them; that of page tables
\* is 1, and that of a directory 0.
Counted(t) ==
    /\ \A f \in Frames : PagesOf(t, f) # {} => t.ref[f] = Cardinality(PagesOf(t, f))
    /\ \A f \in Frames : StacksOf(t, f) # {} => t.ref[f] = Cardinality(StacksOf(t, f))
    /\ \A s \in Spaces : t.space[s] # None =>
          /\ t.ref[t.space[s].dir] = 0
          /\ t.space[s].ktable # None => t.ref[t.space[s].ktable] = 1
          /\ \A x \in Tables : t.space[s].table[x] # None => t.ref[t.space[s].table[x]] = 1

Ok(t, r) == Placed(t, r) /\ Counted(t)

-----------------------------------------------------------------------------
(* The layout.                                                              *)

LEMMA Layout ==
  ASSUME VmAssumption
  PROVE  /\ NFrames \in Nat /\ REFS \in Nat /\ NFrames < REFS /\ UTEXT \in Nat /\ TextPages \in Nat
         /\ HEAPTOP \in Nat /\ UTOP \in Nat /\ ADDRESSES \in Nat /\ PDENTRIES \in Nat /\ PDENTRIES > 0
         /\ 1 < UTEXT /\ UTEXT + TextPages <= HEAPTOP /\ HEAPTOP < UTOP /\ UTOP < ADDRESSES
         /\ MaxGrow \in Nat
         /\ None \notin Vals /\ None \notin Frames /\ None \notin Entries /\ None \notin Space
         /\ None \notin Procs /\ New \notin Procs /\ Root \in Procs /\ Zero \in Vals
BY DEF VmAssumption

LEMMA TableOf ==
  ASSUME VmAssumption, NEW va \in Vas
  PROVE  va \in Nat /\ va \div PDENTRIES \in Tables
<1>1. va \in Nat
  BY Layout DEF Vas
<1>2. QED BY <1>1 DEF Tables

LEMMA TablesNat == ASSUME VmAssumption PROVE Tables \subseteq Nat /\ IsFiniteSet(Tables)
<1>1. \A va \in Vas : va \in Nat /\ va \div PDENTRIES \in Nat
  BY Layout DEF Vas
<1>2. IsFiniteSet(Vas)
  BY Layout, FS_Interval DEF Vas
<1>3. IsFiniteSet(Tables)
  <2> DEFINE d == [va \in Vas |-> va \div PDENTRIES]
  <2>1. d \in Surjection(Vas, Tables)
    BY DEF Surjection, Tables
  <2>2. QED BY <1>2, <2>1, FS_Surjection
<1>4. QED BY <1>1, <1>3 DEF Tables

LEMMA Finite ==
  ASSUME VmAssumption
  PROVE  /\ IsFiniteSet(Frames) /\ Cardinality(Frames) = NFrames /\ IsFiniteSet(Spaces) /\ IsFiniteSet(Vas)
         /\ IsFiniteSet(Spaces \X Vas)
<1>1. IsFiniteSet(Frames) /\ Cardinality(Frames) = NFrames
  <2>1. NFrames \in Nat /\ NFrames \in Int /\ 1 \in Int
    BY Layout
  <2>2. /\ IsFiniteSet(1 .. NFrames)
        /\ Cardinality(1 .. NFrames) = IF 1 > NFrames THEN 0 ELSE NFrames - 1 + 1
    BY <2>1, FS_Interval
  <2>3. QED BY <2>1, <2>2 DEF Frames
<1>a. IsFiniteSet(Procs)
  BY DEF VmAssumption
<1>b. IsFiniteSet(Procs \cup {New})
  BY <1>a, FS_AddElement
<1>2. IsFiniteSet(Spaces)
  BY <1>b DEF Spaces
<1>3. IsFiniteSet(Vas)
  BY Layout, FS_Interval DEF Vas
<1>4. IsFiniteSet(Spaces \X Vas)
  BY <1>2, <1>3, FS_Product
<1>5. QED BY <1>1, <1>2, <1>3, <1>4

LEMMA Within == Procs \subseteq Spaces /\ New \in Spaces
BY DEF Spaces

LEMMA Temporary == ASSUME VmAssumption PROVE PFTEMP \in Vas
BY Layout DEF Vas, PFTEMP

\* A frame has few enough users for p_ref: each of them has a directory.
LEMMA PagesFit ==
  ASSUME VmAssumption, NEW t, NEW r, Placed(t, r), NEW f \in Frames
  PROVE  /\ IsFiniteSet(PagesOf(t, f)) /\ Cardinality(PagesOf(t, f)) \in Nat
         /\ Cardinality(PagesOf(t, f)) <= NFrames /\ Cardinality(PagesOf(t, f)) < REFS
<1> DEFINE P == PagesOf(t, f)
           d == [u \in P |-> t.space[u[1]].dir]
<1>1. IsFiniteSet(P)
  BY Finite, FS_Subset DEF PagesOf
<1>2. \A u \in P : u \in Spaces \X Vas /\ t.space[u[1]] # None /\ t.space[u[1]].pt[u[2]] # None
                   /\ t.space[u[1]].pt[u[2]].frame = f
  BY DEF PagesOf, Pt
<1>3. \A u \in P : t.space[u[1]] \in Space /\ Owns(t, r, u[1])
  BY <1>2 DEF Placed, Mem
<1>4. d \in [P -> Frames]
  BY <1>3 DEF Space
<1>5. \A u, w \in P : d[u] = d[w] => u = w
  <2> SUFFICES ASSUME NEW u \in P, NEW w \in P, d[u] = d[w] PROVE u = w
    OBVIOUS
  <2>1. u[1] = w[1]
    <3>1. d[u] = t.space[u[1]].dir /\ d[w] = t.space[w[1]].dir
      OBVIOUS
    <3>2. r[t.space[u[1]].dir] = Role("dir", u[1], 0) /\ r[t.space[w[1]].dir] = Role("dir", w[1], 0)
      BY <1>3 DEF Owns
    <3>3. QED BY <3>1, <3>2 DEF Role
  <2>2. u[2] = w[2]
    <3>1. r[f] = Role("page", New, u[2]) /\ r[f] = Role("page", New, w[2])
      BY <1>2, <1>3 DEF Owns
    <3>2. QED BY <3>1 DEF Role
  <2>3. QED BY <1>2, <2>1, <2>2
<1>6. d \in Injection(P, Frames)
  BY <1>4, <1>5 DEF Injection, IsInjective
<1>7. Cardinality(P) <= NFrames
  BY <1>1, <1>6, Finite, FS_Injection
<1>8. Cardinality(P) \in Nat
  BY <1>1, FS_CardinalityType
<1>9. QED BY <1>1, <1>7, <1>8, Layout

LEMMA StacksFit ==
  ASSUME VmAssumption, NEW t, NEW r, Placed(t, r), NEW f
  PROVE  /\ IsFiniteSet(StacksOf(t, f)) /\ Cardinality(StacksOf(t, f)) \in Nat
         /\ Cardinality(StacksOf(t, f)) <= NFrames /\ Cardinality(StacksOf(t, f)) < REFS
<1> DEFINE P == StacksOf(t, f)
           d == [u \in P |-> t.space[u].dir]
<1>1. IsFiniteSet(P)
  BY Finite, FS_Subset DEF StacksOf
<1>3. \A u \in P : u \in Spaces /\ t.space[u] \in Space /\ Owns(t, r, u)
  BY DEF Placed, Mem, StacksOf
<1>4. d \in [P -> Frames]
  BY <1>3 DEF Space
<1>5. \A u, w \in P : d[u] = d[w] => u = w
  <2> SUFFICES ASSUME NEW u \in P, NEW w \in P, d[u] = d[w] PROVE u = w
    OBVIOUS
  <2>1. d[u] = t.space[u].dir /\ d[w] = t.space[w].dir
    OBVIOUS
  <2>2. r[t.space[u].dir] = Role("dir", u, 0) /\ r[t.space[w].dir] = Role("dir", w, 0)
    BY <1>3 DEF Owns
  <2>3. QED BY <2>1, <2>2 DEF Role
<1>6. d \in Injection(P, Frames)
  BY <1>4, <1>5 DEF Injection, IsInjective
<1>7. Cardinality(P) <= NFrames
  BY <1>1, <1>6, Finite, FS_Injection
<1>8. Cardinality(P) \in Nat
  BY <1>1, FS_CardinalityType
<1>9. QED BY <1>1, <1>7, <1>8, Layout

-----------------------------------------------------------------------------
(* page_alloc and the page tables.                                          *)

LEMMA FreshIsFree ==
  ASSUME VmAssumption, NEW t \in Mem, t.free # {}
  PROVE  Fresh(t) \in t.free /\ Fresh(t) \in Frames
<1>1. t.free \subseteq Frames /\ t.free \subseteq Nat
  BY Layout DEF Mem, Frames
<1>2. PICK x \in t.free : \A y \in t.free : ~(<<y, x>> \in OpToRel(<, Nat))
  BY <1>1, WFMin, NatLessThanWellFounded
<1>3. \A y \in t.free : ~(y < x)
  BY <1>1, <1>2 DEF OpToRel
<1>4. \A y \in t.free : x <= y
  BY <1>1, <1>3
<1>5. QED BY <1>1, <1>4 DEF Fresh, Min

LEMMA MemFields ==
  ASSUME NEW t \in Mem
  PROVE  /\ t.space \in [Spaces -> Space \cup {None}] /\ t.ref \in [Frames -> 0 .. REFS - 1]
         /\ t.data \in [Frames -> Vals] /\ t.free \subseteq Frames
         /\ t = [space |-> t.space, ref |-> t.ref, data |-> t.data, free |-> t.free]
BY DEF Mem

LEMMA SpaceFields ==
  ASSUME NEW t \in Mem, NEW s \in Spaces, t.space[s] # None
  PROVE  /\ t.space[s] \in Space /\ t.space[s].dir \in Frames
         /\ t.space[s].ktable \in Frames \cup {None} /\ t.space[s].kstack \in Frames \cup {None}
         /\ t.space[s].table \in [Tables -> Frames \cup {None}]
         /\ t.space[s].pt \in [Vas -> Entries \cup {None}]
BY DEF Mem, Space

\* The frame of page_alloc and the memory after it.
LEMMA AllocIs ==
  ASSUME VmAssumption, NEW t \in Mem, t.free # {}
  PROVE  /\ page_alloc(t) \in Mem /\ page_alloc(t).space = t.space
         /\ page_alloc(t).ref = [t.ref EXCEPT ![Fresh(t)] = 0]
         /\ page_alloc(t).data = [t.data EXCEPT ![Fresh(t)] = Zero]
         /\ page_alloc(t).free = t.free \ {Fresh(t)}
<1> SUFFICES ASSUME NEW u, u = page_alloc(t)
             PROVE  /\ u \in Mem /\ u.space = t.space /\ u.ref = [t.ref EXCEPT ![Fresh(t)] = 0]
                    /\ u.data = [t.data EXCEPT ![Fresh(t)] = Zero] /\ u.free = t.free \ {Fresh(t)}
  OBVIOUS
<1>1. Fresh(t) \in Frames
  BY FreshIsFree
<1>2. /\ u.space = t.space /\ u.ref = [t.ref EXCEPT ![Fresh(t)] = 0]
      /\ u.data = [t.data EXCEPT ![Fresh(t)] = Zero] /\ u.free = t.free \ {Fresh(t)}
  BY DEF page_alloc, Mem
<1>3. u = [space |-> u.space, ref |-> u.ref, data |-> u.data, free |-> u.free]
  BY DEF page_alloc, Mem
<1>4. 0 \in 0 .. REFS - 1 /\ Zero \in Vals
  BY Layout
<1>5. /\ u.space \in [Spaces -> Space \cup {None}] /\ u.ref \in [Frames -> 0 .. REFS - 1]
      /\ u.data \in [Frames -> Vals] /\ u.free \subseteq Frames
  BY <1>1, <1>2, <1>4, MemFields
<1>6. u \in Mem
  BY <1>3, <1>5 DEF Mem
<1>7. QED BY <1>2, <1>6

\* A free frame is nowhere.
LEMMA FreeNowhere ==
  ASSUME VmAssumption, NEW t, NEW r, Placed(t, r), NEW f \in t.free
  PROVE  /\ PagesOf(t, f) = {} /\ StacksOf(t, f) = {}
         /\ \A s \in Spaces : t.space[s] # None =>
               /\ t.space[s].dir # f /\ t.space[s].ktable # f /\ t.space[s].kstack # f
               /\ \A x \in Tables : t.space[s].table[x] # f
               /\ \A va \in Vas : t.space[s].pt[va] # None => t.space[s].pt[va].frame # f
<1>1. r[f].kind = "free" /\ f \in Frames /\ f # None
  BY Layout DEF Placed, Mem
<1>2. ASSUME NEW s \in Spaces, t.space[s] # None
      PROVE  /\ t.space[s].dir # f /\ t.space[s].ktable # f /\ t.space[s].kstack # f
             /\ \A x \in Tables : t.space[s].table[x] # f
             /\ \A va \in Vas : t.space[s].pt[va] # None => t.space[s].pt[va].frame # f
  <2>1. Owns(t, r, s)
    BY <1>2 DEF Placed
  <2>2. \A k, q, x : Role(k, q, x).kind = k
    BY DEF Role
  <2>3. t.space[s].dir # f /\ t.space[s].ktable # f /\ t.space[s].kstack # f
    BY <1>1, <2>1, <2>2 DEF Owns
  <2>4. \A x \in Tables : t.space[s].table[x] # f
    BY <1>1, <2>1, <2>2 DEF Owns
  <2>5. \A va \in Vas : t.space[s].pt[va] # None => t.space[s].pt[va].frame # f
    BY <1>1, <2>1, <2>2 DEF Owns
  <2>6. QED BY <2>3, <2>4, <2>5
<1>3. PagesOf(t, f) = {}
  BY <1>2 DEF PagesOf, Pt
<1>4. StacksOf(t, f) = {}
  BY <1>2 DEF StacksOf
<1>5. QED BY <1>2, <1>3, <1>4

\* page_alloc takes a frame that nobody has; it may get any role.
LEMMA AllocOk ==
  ASSUME VmAssumption, NEW t, NEW r, Ok(t, r), t.free # {}, NEW use \in Uses_
  PROVE  /\ Ok(page_alloc(t), [r EXCEPT ![Fresh(t)] = use])
         /\ PagesOf(page_alloc(t), Fresh(t)) = {} /\ StacksOf(page_alloc(t), Fresh(t)) = {}
<1> DEFINE g == Fresh(t)
           u == page_alloc(t)
           q == [r EXCEPT ![g] = use]
<1>1. t \in Mem /\ r \in Roles /\ g \in t.free /\ g \in Frames
  BY FreshIsFree DEF Ok, Placed
<1>2. /\ u \in Mem /\ u.space = t.space /\ u.ref = [t.ref EXCEPT ![g] = 0] /\ u.free = t.free \ {g}
  BY <1>1, AllocIs
<1>3. /\ PagesOf(t, g) = {} /\ StacksOf(t, g) = {}
      /\ \A s \in Spaces : t.space[s] # None =>
            /\ t.space[s].dir # g /\ t.space[s].ktable # g /\ t.space[s].kstack # g
            /\ \A x \in Tables : t.space[s].table[x] # g
            /\ \A va \in Vas : t.space[s].pt[va] # None => t.space[s].pt[va].frame # g
  BY <1>1, FreeNowhere DEF Ok
<1>4. /\ \A f : PagesOf(u, f) = PagesOf(t, f) /\ StacksOf(u, f) = StacksOf(t, f)
  BY <1>2 DEF PagesOf, StacksOf, Pt
<1> HIDE DEF g, u
<1>5. q \in Roles /\ \A f \in Frames : f # g => q[f] = r[f]
  BY <1>1 DEF Roles
<1>6. \A f \in u.free : q[f].kind = "free"
  BY <1>1, <1>2, <1>5, MemFields DEF Ok, Placed
<1>7. ASSUME NEW s \in Spaces, u.space[s] # None PROVE Owns(u, q, s)
  <2>1. Owns(t, r, s) /\ t.space[s] # None
    BY <1>2, <1>7 DEF Ok, Placed
  <2>2. QED BY <1>1, <1>2, <1>3, <1>5, <2>1, SpaceFields DEF Owns, Entries
<1>8. Placed(u, q)
  BY <1>2, <1>5, <1>6, <1>7 DEF Placed
<1>9. \A f \in Frames : f # g => u.ref[f] = t.ref[f]
  BY <1>1, <1>2, MemFields
<1>10. Counted(u)
  <2>1. \A f \in Frames : PagesOf(u, f) # {} => u.ref[f] = Cardinality(PagesOf(u, f))
    BY <1>3, <1>4, <1>9 DEF Ok, Counted
  <2>2. \A f \in Frames : StacksOf(u, f) # {} => u.ref[f] = Cardinality(StacksOf(u, f))
    BY <1>3, <1>4, <1>9 DEF Ok, Counted
  <2>3. ASSUME NEW s \in Spaces, u.space[s] # None
        PROVE  /\ u.ref[u.space[s].dir] = 0
               /\ u.space[s].ktable # None => u.ref[u.space[s].ktable] = 1
               /\ \A x \in Tables : u.space[s].table[x] # None => u.ref[u.space[s].table[x]] = 1
    BY <1>1, <1>2, <1>3, <1>9, <2>3, SpaceFields DEF Ok, Counted
  <2>4. QED BY <2>1, <2>2, <2>3 DEF Counted
<1>11. QED BY <1>3, <1>4, <1>8, <1>10 DEF Ok, g, u

-----------------------------------------------------------------------------
(* What one step may change.                                                *)

Read(t, s, va) == IF Pt(t, s, va) = None THEN None ELSE t.data[Pt(t, s, va).frame]

\* The contents of a frame change only when it is taken or given back.
DataKept(t, u) == \A f \in Frames : f \notin t.free /\ f \notin u.free => u.data[f] = t.data[f]

\* Only the user part of the address space s changes, as far as anybody sees.
Changes(t, u, s) ==
    /\ \A q \in Spaces \ {s} : u.space[q] = t.space[q] /\ \A va \in Vas : Read(u, q, va) = Read(t, q, va)
    /\ u.space[s] # None /\ u.space[s].dir = t.space[s].dir
    /\ u.space[s].ktable = t.space[s].ktable /\ u.space[s].kstack = t.space[s].kstack

\* Frames keep their roles while they are in use.
Still(t, r, u) == \E r2 : Ok(u, r2) /\ \A f \in Frames : f \notin t.free /\ f \notin u.free => r2[f] = r[f]

\* The entry of va is e, or those of K are empty; there are no other changes.
PtIs(t, u, s, va, e) == \A q \in Spaces, w \in Vas : Pt(u, q, w) = IF q = s /\ w = va THEN e ELSE Pt(t, q, w)
PtGone(t, u, s, K) == \A q \in Spaces, w \in Vas : Pt(u, q, w) = IF q = s /\ w \in K THEN None ELSE Pt(t, q, w)

LEMMA InPages ==
  ASSUME NEW t, NEW f, NEW s \in Spaces, NEW va \in Vas
  PROVE  <<s, va>> \in PagesOf(t, f) <=> Pt(t, s, va) # None /\ Pt(t, s, va).frame = f
BY DEF PagesOf

LEMMA SameCells ==
  ASSUME NEW A \in SUBSET (Spaces \X Vas), NEW B \in SUBSET (Spaces \X Vas),
         \A s \in Spaces, va \in Vas : <<s, va>> \in A <=> <<s, va>> \in B
  PROVE  A = B
<1>1. \A w \in Spaces \X Vas : w = <<w[1], w[2]>> /\ w[1] \in Spaces /\ w[2] \in Vas
  OBVIOUS
<1>2. \A w \in Spaces \X Vas : w \in A <=> w \in B
  BY <1>1
<1>3. QED BY <1>2

LEMMA PagesAre == ASSUME NEW t, NEW f PROVE PagesOf(t, f) \in SUBSET (Spaces \X Vas)
BY DEF PagesOf

LEMMA ChangesCompose ==
  ASSUME NEW t, NEW u, NEW v, NEW s, Changes(t, u, s), Changes(u, v, s)
  PROVE  Changes(t, v, s)
BY DEF Changes

LEMMA PtFrame ==
  ASSUME VmAssumption, NEW t, NEW r, Placed(t, r), NEW s \in Spaces, NEW va \in Vas, Pt(t, s, va) # None
  PROVE  /\ t.space[s] # None /\ t.space[s].pt[va] = Pt(t, s, va) /\ Pt(t, s, va) \in Entries
         /\ Pt(t, s, va).frame \in Frames /\ Pt(t, s, va).frame \notin t.free
         /\ r[Pt(t, s, va).frame] = Role("page", New, va)
<1>1. t.space[s] # None /\ t.space[s].pt[va] = Pt(t, s, va)
  BY DEF Pt
<1>2. t \in Mem /\ Owns(t, r, s)
  BY <1>1 DEF Placed
<1>3. Pt(t, s, va) \in Entries /\ Pt(t, s, va).frame \in Frames
  BY <1>1, <1>2, SpaceFields DEF Entries
<1>4. r[Pt(t, s, va).frame] = Role("page", New, va)
  BY <1>1, <1>2 DEF Owns
<1>5. Pt(t, s, va).frame \notin t.free
  BY <1>1, FreeNowhere
<1>6. QED BY <1>1, <1>3, <1>4, <1>5

LEMMA ReadKept ==
  ASSUME VmAssumption, NEW t, NEW r, Placed(t, r), NEW u, NEW r2, Placed(u, r2), DataKept(t, u),
         NEW s \in Spaces, NEW va \in Vas, Pt(u, s, va) = Pt(t, s, va)
  PROVE  Read(u, s, va) = Read(t, s, va)
<1>1. CASE Pt(t, s, va) = None
  BY <1>1 DEF Read
<1>2. CASE Pt(t, s, va) # None
  BY <1>2, PtFrame DEF Read, DataKept
<1>3. QED BY <1>1, <1>2

LEMMA ChangesBy ==
  ASSUME VmAssumption, NEW t, NEW r, Placed(t, r), NEW u, NEW r2, Placed(u, r2), DataKept(t, u),
         NEW s \in Spaces, \A q \in Spaces \ {s} : u.space[q] = t.space[q],
         u.space[s] # None, u.space[s].dir = t.space[s].dir,
         u.space[s].ktable = t.space[s].ktable, u.space[s].kstack = t.space[s].kstack
  PROVE  Changes(t, u, s)
<1>1. ASSUME NEW q \in Spaces \ {s}, NEW va \in Vas PROVE Read(u, q, va) = Read(t, q, va)
  <2>1. Pt(u, q, va) = Pt(t, q, va)
    BY DEF Pt
  <2>2. QED BY <2>1, ReadKept
<1>2. QED BY <1>1 DEF Changes

LEMMA IsMem ==
  ASSUME NEW u, u = [space |-> u.space, ref |-> u.ref, data |-> u.data, free |-> u.free],
         u.space \in [Spaces -> Space \cup {None}], u.ref \in [Frames -> 0 .. REFS - 1],
         u.data \in [Frames -> Vals], u.free \subseteq Frames
  PROVE  u \in Mem
BY DEF Mem

\* A page table that nobody else has.
TableMade(t, u, s, x, g) ==
    /\ u.space = [t.space EXCEPT ![s].table[x] = g]
    /\ u.ref = [t.ref EXCEPT ![g] = 1] /\ u.data = t.data /\ u.free = t.free

LEMMA TableOk ==
  ASSUME VmAssumption, NEW t, NEW r, Ok(t, r), NEW s \in Spaces, t.space[s] # None, NEW x \in Tables,
         t.space[s].table[x] = None, NEW g \in Frames, r[g] = Role("table", s, x),
         PagesOf(t, g) = {}, StacksOf(t, g) = {}, g \notin t.free,
         NEW u, u = WithTable(t, g, s, x)
  PROVE  Ok(u, r) /\ TableMade(t, u, s, x, g)
<1>1. t \in Mem /\ r \in Roles /\ Owns(t, r, s)
  BY DEF Ok, Placed
<1>2. /\ u.space = [t.space EXCEPT ![s].table[x] = g]
      /\ u.ref = [t.ref EXCEPT ![g] = 1] /\ u.data = t.data /\ u.free = t.free
  BY <1>1 DEF WithTable, Mem
<1>3. u = [space |-> u.space, ref |-> u.ref, data |-> u.data, free |-> u.free]
  BY <1>1 DEF WithTable, Mem
<1>4. \A q \in Spaces \ {s} : u.space[q] = t.space[q]
  BY <1>1, <1>2, MemFields
<1> DEFINE a == t.space[s]
           b == u.space[s]
<1>5. b = [a EXCEPT !.table[x] = g]
  BY <1>1, <1>2, MemFields
<1>6. a \in Space /\ a # None
  BY <1>1, SpaceFields
<1> HIDE DEF a, b
<1>7. b \in Space /\ b.dir = a.dir /\ b.ktable = a.ktable /\ b.kstack = a.kstack /\ b.pt = a.pt
      /\ b.table = [a.table EXCEPT ![x] = g]
  BY <1>5, <1>6 DEF Space
<1>8. b # None
  BY <1>7, Layout
<1>9. 1 \in 0 .. REFS - 1
  <2>1. NFrames >= 1
    BY Layout DEF Frames
  <2>2. QED BY <2>1, Layout
<1>10. u \in Mem
  <2>1. u.space \in [Spaces -> Space \cup {None}]
    BY <1>1, <1>2, <1>4, <1>7, MemFields DEF b
  <2>2. u.ref \in [Frames -> 0 .. REFS - 1]
    BY <1>1, <1>2, <1>9, MemFields
  <2>3. QED BY <1>1, <1>2, <1>3, <2>1, <2>2, MemFields, IsMem
<1>11. \A q \in Spaces, va \in Vas : Pt(u, q, va) = Pt(t, q, va)
  BY <1>4, <1>6, <1>7, <1>8 DEF Pt, a, b
<1>12. \A f : PagesOf(u, f) = PagesOf(t, f)
  BY <1>11 DEF PagesOf
<1>13. \A f : StacksOf(u, f) = StacksOf(t, f)
  BY <1>4, <1>6, <1>7, <1>8 DEF StacksOf, a, b
<1>14. Placed(u, r)
  <2>1. \A f \in u.free : r[f].kind = "free"
    BY <1>2 DEF Ok, Placed
  <2>2. ASSUME NEW q \in Spaces, u.space[q] # None, q # s PROVE Owns(u, r, q)
    <3>1. u.space[q] = t.space[q] /\ Owns(t, r, q)
      BY <1>4, <2>2 DEF Ok, Placed
    <3>2. QED BY <3>1 DEF Owns
  <2>3. Owns(u, r, s)
    <3>1. \A y \in Tables : b.table[y] # None => r[b.table[y]] = Role("table", s, y)
      BY <1>1, <1>6, <1>7 DEF Owns, Space, a
    <3>2. \A va \in Vas : b.pt[va] # None =>
             r[b.pt[va].frame] = Role("page", New, va) /\ b.table[va \div PDENTRIES] # None
      BY <1>1, <1>6, <1>7, Layout DEF Owns, Space, a
    <3>3. QED BY <1>1, <1>7, <3>1, <3>2 DEF Owns, a, b
  <2>4. QED BY <1>1, <1>10, <2>1, <2>2, <2>3 DEF Placed
<1>15. \A f \in Frames : f # g => u.ref[f] = t.ref[f]
  BY <1>1, <1>2, MemFields
<1>16. u.ref[g] = 1
  BY <1>1, <1>2, MemFields
<1>17. Counted(u)
  <2>1. \A f \in Frames : PagesOf(u, f) # {} => u.ref[f] = Cardinality(PagesOf(u, f))
    BY <1>12, <1>15 DEF Ok, Counted
  <2>2. \A f \in Frames : StacksOf(u, f) # {} => u.ref[f] = Cardinality(StacksOf(u, f))
    BY <1>13, <1>15 DEF Ok, Counted
  <2>3. ASSUME NEW q \in Spaces, u.space[q] # None
        PROVE  /\ u.ref[u.space[q].dir] = 0
               /\ u.space[q].ktable # None => u.ref[u.space[q].ktable] = 1
               /\ \A y \in Tables : u.space[q].table[y] # None => u.ref[u.space[q].table[y]] = 1
    <3>1. t.space[q] # None /\ u.space[q].dir = t.space[q].dir /\ u.space[q].ktable = t.space[q].ktable
      BY <1>4, <1>6, <1>7, <2>3 DEF a, b
    <3>2. Owns(t, r, q) /\ t.space[q] \in Space
      BY <1>1, <3>1, SpaceFields DEF Ok, Placed
    <3>3. t.space[q].dir # g /\ t.space[q].ktable # g
      BY <3>2, Layout DEF Owns, Role
    <3>4. u.ref[u.space[q].dir] = 0 /\ (u.space[q].ktable # None => u.ref[u.space[q].ktable] = 1)
      BY <1>15, <3>1, <3>2, <3>3 DEF Ok, Counted, Space
    <3>5. ASSUME NEW y \in Tables, u.space[q].table[y] # None PROVE u.ref[u.space[q].table[y]] = 1
      <4>1. CASE u.space[q].table[y] = g
        BY <1>16, <4>1
      <4>2. CASE u.space[q].table[y] # g
        <5>1. u.space[q].table[y] = t.space[q].table[y] /\ t.space[q].table[y] \in Frames
          BY <1>4, <1>6, <1>7, <3>2, <3>5, <4>2 DEF Space, a, b
        <5>2. QED BY <1>15, <3>1, <3>5, <4>2, <5>1 DEF Ok, Counted
      <4>3. QED BY <4>1, <4>2
    <3>6. QED BY <3>4, <3>5
  <2>4. QED BY <2>1, <2>2, <2>3 DEF Counted
<1>18. QED BY <1>2, <1>14, <1>17 DEF Ok, TableMade

\* pgdir_walk: the page table of va is there afterwards.
WalkedBy(t, r, u, r2, s, va) ==
    /\ Ok(u, r2) /\ Changes(t, u, s) /\ DataKept(t, u)
    /\ \A f \in Frames \ t.free : r2[f] = r[f] /\ u.ref[f] = t.ref[f] /\ f \notin u.free
    /\ \A q \in Spaces, w \in Vas : Pt(u, q, w) = Pt(t, q, w)
    /\ u.space[s].table[va \div PDENTRIES] # None
    /\ t.space[s].table[va \div PDENTRIES] # None => u = t
    /\ t.space[s].table[va \div PDENTRIES] = None =>
          /\ u.free = t.free \ {Fresh(t)}
          /\ u.space[s].table = [t.space[s].table EXCEPT ![va \div PDENTRIES] = Fresh(t)]

LEMMA WalkOk ==
  ASSUME VmAssumption, NEW t, NEW r, Ok(t, r), NEW s \in Spaces, t.space[s] # None, NEW va \in Vas,
         t.space[s].table[va \div PDENTRIES] # None \/ t.free # {},
         NEW u, u = pgdir_walk(t, s, va)
  PROVE  \E r2 : WalkedBy(t, r, u, r2, s, va)
<1> DEFINE x == va \div PDENTRIES
<1>1. t \in Mem /\ r \in Roles /\ x \in Tables /\ x \in Nat /\ Placed(t, r)
  BY TableOf, TablesNat DEF Ok, Placed
<1>2. CASE t.space[s].table[x] # None
  <2>1. u = t
    BY <1>2 DEF pgdir_walk
  <2>2. DataKept(t, u) /\ Changes(t, u, s)
    BY <2>1 DEF DataKept, Changes
  <2>3. WalkedBy(t, r, u, r, s, va)
    BY <1>1, <1>2, <2>1, <2>2, MemFields DEF WalkedBy
  <2>4. QED BY <2>3
<1>3. CASE t.space[s].table[x] = None
  <2> DEFINE g == Fresh(t)
             v == page_alloc(t)
             r2 == [r EXCEPT ![g] = Role("table", s, x)]
  <2>1. u = WithTable(v, g, s, x)
    BY <1>3, Zenon DEF pgdir_walk, On
  <2>2. t.free # {} /\ g \in t.free /\ g \in Frames /\ Role("table", s, x) \in Uses_
    BY <1>1, <1>3, FreshIsFree DEF Role, Uses_
  <2>3. Ok(v, r2) /\ PagesOf(v, g) = {} /\ StacksOf(v, g) = {}
    BY <2>2, AllocOk
  <2>4. /\ v.space = t.space /\ v.ref = [t.ref EXCEPT ![g] = 0]
        /\ v.data = [t.data EXCEPT ![g] = Zero] /\ v.free = t.free \ {g}
    BY <1>1, <2>2, AllocIs
  <2>5. r2[g] = Role("table", s, x) /\ \A f \in Frames \ {g} : r2[f] = r[f]
    BY <1>1, <2>2 DEF Roles
  <2> HIDE DEF g, v, r2, x
  <2>6. v.space[s] # None /\ v.space[s].table[x] = None /\ g \notin v.free
    BY <1>3, <2>4
  <2>7. /\ Ok(u, r2) /\ u.space = [t.space EXCEPT ![s].table[x] = g] /\ u.ref = [v.ref EXCEPT ![g] = 1]
        /\ u.data = v.data /\ u.free = v.free
    <3>1. x \in Tables /\ r2[g] = Role("table", s, x)
      BY <1>1, <2>5
    <3>2. Ok(u, r2) /\ TableMade(v, u, s, x, g)
      BY <2>1, <2>2, <2>3, <2>6, <3>1, TableOk
    <3>3. QED BY <2>4, <3>2 DEF TableMade
  <2>8. DataKept(t, u) /\ \A f \in Frames \ t.free : u.ref[f] = t.ref[f] /\ r2[f] = r[f] /\ f \notin u.free
    BY <1>1, <2>2, <2>4, <2>5, <2>7, MemFields DEF DataKept
  <2>9. \A q \in Spaces \ {s} : u.space[q] = t.space[q]
    BY <1>1, <2>7, MemFields
  <2>10. u.space[s] = [t.space[s] EXCEPT !.table[x] = g]
    BY <1>1, <2>7, MemFields
  <2>11. /\ u.space[s] # None /\ u.space[s].dir = t.space[s].dir /\ u.space[s].ktable = t.space[s].ktable
         /\ u.space[s].kstack = t.space[s].kstack /\ u.space[s].pt = t.space[s].pt
         /\ u.space[s].table = [t.space[s].table EXCEPT ![x] = g]
    <3>1. t.space[s] \in Space
      BY <1>1, SpaceFields
    <3>2. u.space[s] \in Space
      BY <1>1, <2>2, <2>10, <3>1 DEF Space
    <3>3. QED BY <2>10, <3>1, <3>2, Layout DEF Space
  <2>12. Changes(t, u, s)
    BY <1>1, <2>7, <2>8, <2>9, <2>11, ChangesBy DEF Ok
  <2>13. \A q \in Spaces, w \in Vas : Pt(u, q, w) = Pt(t, q, w)
    BY <2>9, <2>11 DEF Pt
  <2>14. u.space[s].table[x] = g /\ g # None
    BY <1>1, <2>2, <2>11, SpaceFields, Layout
  <2>15. WalkedBy(t, r, u, r2, s, va)
    BY <1>3, <2>4, <2>7, <2>8, <2>11, <2>12, <2>13, <2>14 DEF x, g, WalkedBy
  <2>16. QED BY <2>15
<1>4. QED BY <1>2, <1>3

-----------------------------------------------------------------------------
(* Entries.                                                                 *)

SetPage(t, s, va, f, perm) == [t EXCEPT !.space[s].pt[va] = Entry(f, perm)]
WithPage(t, s, va, f, perm) == [t EXCEPT !.space[s].pt[va] = Entry(f, perm), !.ref[f] = (@ + 1) % REFS]

\* p_ref counts one more.
LEMMA AddPageOk ==
  ASSUME VmAssumption, NEW t, NEW r, Ok(t, r), NEW s \in Spaces, t.space[s] # None, NEW va \in Vas,
         t.space[s].pt[va] = None, t.space[s].table[va \div PDENTRIES] # None,
         NEW f \in Frames, f \notin t.free, r[f] = Role("page", New, va), t.ref[f] = Cardinality(PagesOf(t, f)),
         NEW perm \in SUBSET PTE_SYSCALL,
         NEW u, u = WithPage(t, s, va, f, perm)
  PROVE  /\ Ok(u, r) /\ Changes(t, u, s) /\ u.data = t.data /\ u.free = t.free
         /\ u.ref = [t.ref EXCEPT ![f] = @ + 1] /\ u.space[s].table = t.space[s].table
         /\ PtIs(t, u, s, va, Entry(f, perm))
<1>1. t \in Mem /\ r \in Roles /\ Owns(t, r, s) /\ Placed(t, r)
  BY DEF Ok, Placed
<1>2. /\ u.space = [t.space EXCEPT ![s].pt[va] = Entry(f, perm)]
      /\ u.ref = [t.ref EXCEPT ![f] = (@ + 1) % REFS] /\ u.data = t.data /\ u.free = t.free
  BY <1>1 DEF Mem, WithPage
<1>3. u = [space |-> u.space, ref |-> u.ref, data |-> u.data, free |-> u.free]
  BY <1>1 DEF Mem, WithPage
<1>4. \A q \in Spaces \ {s} : u.space[q] = t.space[q]
  BY <1>1, <1>2, MemFields
<1> DEFINE a == t.space[s]
           b == u.space[s]
           e == Entry(f, perm)
<1>5. b = [a EXCEPT !.pt[va] = e]
  BY <1>1, <1>2, MemFields
<1>6. a \in Space /\ a # None
  BY <1>1, SpaceFields
<1>e. e \in Entries /\ e # None /\ e.frame = f
  BY Layout DEF Entries, Entry
<1> HIDE DEF a, b, e
<1>7. b \in Space /\ b.dir = a.dir /\ b.ktable = a.ktable /\ b.kstack = a.kstack /\ b.table = a.table
      /\ b.pt = [a.pt EXCEPT ![va] = e]
  BY <1>5, <1>6, <1>e DEF Space
<1>8. b # None
  BY <1>7, Layout
<1>10. ASSUME NEW q \in Spaces, NEW w \in Vas PROVE Pt(u, q, w) = IF q = s /\ w = va THEN e ELSE Pt(t, q, w)
  <2>1. CASE q # s
    BY <1>4, <2>1 DEF Pt
  <2>2. CASE q = s
    BY <1>6, <1>7, <1>8, <2>2 DEF Pt, a, b, Space
  <2>3. QED BY <2>1, <2>2
<1>11. Pt(t, s, va) = None
  BY DEF Pt
<1>12. PagesOf(u, f) = PagesOf(t, f) \cup {<<s, va>>} /\ <<s, va>> \notin PagesOf(t, f)
  <2> DEFINE P == PagesOf(t, f) \cup {<<s, va>>}
  <2>1. ASSUME NEW q \in Spaces, NEW w \in Vas PROVE <<q, w>> \in PagesOf(u, f) <=> <<q, w>> \in P
    <3>1. <<q, w>> \in PagesOf(u, f) <=> Pt(u, q, w) # None /\ Pt(u, q, w).frame = f
      BY InPages
    <3>2. <<q, w>> \in PagesOf(t, f) <=> Pt(t, q, w) # None /\ Pt(t, q, w).frame = f
      BY InPages
    <3>3. <<q, w>> = <<s, va>> <=> q = s /\ w = va
      OBVIOUS
    <3>4. QED BY <1>10, <1>e, <3>1, <3>2, <3>3
  <2>2. P \in SUBSET (Spaces \X Vas)
    BY PagesAre
  <2>3. <<s, va>> \notin PagesOf(t, f)
    BY <1>11, InPages
  <2>4. QED BY <2>1, <2>2, <2>3, PagesAre, SameCells
<1>13. ASSUME NEW g, g # f PROVE PagesOf(u, g) = PagesOf(t, g)
  <2>1. ASSUME NEW q \in Spaces, NEW w \in Vas PROVE <<q, w>> \in PagesOf(u, g) <=> <<q, w>> \in PagesOf(t, g)
    <3>1. <<q, w>> \in PagesOf(u, g) <=> Pt(u, q, w) # None /\ Pt(u, q, w).frame = g
      BY InPages
    <3>2. <<q, w>> \in PagesOf(t, g) <=> Pt(t, q, w) # None /\ Pt(t, q, w).frame = g
      BY InPages
    <3>3. QED BY <1>10, <1>11, <1>13, <1>e, <3>1, <3>2
  <2>2. PagesOf(u, g) \in SUBSET (Spaces \X Vas) /\ PagesOf(t, g) \in SUBSET (Spaces \X Vas)
    BY PagesAre
  <2>3. QED BY <2>1, <2>2, SameCells, Zenon
<1>14. \A g : StacksOf(u, g) = StacksOf(t, g)
  BY <1>4, <1>6, <1>7, <1>8 DEF StacksOf, a, b
<1>15. \A q \in Spaces : u.space[q] # None => Owns(u, r, q)
  <2>1. ASSUME NEW q \in Spaces, u.space[q] # None, q # s PROVE Owns(u, r, q)
    <3>1. u.space[q] = t.space[q] /\ Owns(t, r, q)
      BY <1>4, <2>1 DEF Ok, Placed
    <3>2. QED BY <3>1 DEF Owns
  <2>2. Owns(u, r, s)
    <3>1. \A w \in Vas : b.pt[w] # None =>
             r[b.pt[w].frame] = Role("page", New, w) /\ b.table[w \div PDENTRIES] # None
      BY <1>1, <1>6, <1>7, <1>e DEF Owns, Space, a
    <3>3. QED BY <1>1, <1>7, <3>1 DEF Owns, a, b
  <2>3. QED BY <2>1, <2>2
<1>16. u.space \in [Spaces -> Space \cup {None}]
  BY <1>1, <1>2, <1>4, <1>7, MemFields DEF b
<1>17. Cardinality(PagesOf(u, f)) = t.ref[f] + 1 /\ t.ref[f] + 1 \in 0 .. REFS - 1
  <2> DEFINE v == [u EXCEPT !.ref = t.ref]
  <2>1. v \in Mem /\ v.space = u.space /\ v.free = u.free
    BY <1>1, <1>2, <1>3, <1>16, MemFields DEF Mem
  <2>2. Placed(v, r)
    <3>1. \A q \in Spaces : v.space[q] # None => Owns(v, r, q)
      BY <1>15, <2>1 DEF Owns
    <3>2. QED BY <1>1, <1>2, <2>1, <3>1 DEF Placed
  <2>3. PagesOf(v, f) = PagesOf(u, f)
    BY <2>1 DEF PagesOf, Pt
  <2>4. Cardinality(PagesOf(u, f)) \in Nat /\ Cardinality(PagesOf(u, f)) < REFS
    BY <2>2, <2>3, PagesFit
  <2>5. IsFiniteSet(PagesOf(t, f))
    BY <1>1, PagesFit
  <2>6. Cardinality(PagesOf(u, f)) = Cardinality(PagesOf(t, f)) + 1
    <3> DEFINE P == PagesOf(t, f)
               c == <<s, va>>
    <3>1. PagesOf(u, f) = P \cup {c} /\ c \notin P
      BY <1>12
    <3> HIDE DEF P, c
    <3>2. IsFiniteSet(P)
      BY <2>5 DEF P
    <3>3. Cardinality(P \cup {c}) = Cardinality(P) + 1
      BY <3>1, <3>2, FS_AddElement
    <3>4. QED BY <3>1, <3>3 DEF P
  <2>7. QED BY <2>4, <2>6, Layout
<1>18. u.ref = [t.ref EXCEPT ![f] = @ + 1]
  <2>1. (t.ref[f] + 1) % REFS = t.ref[f] + 1
    BY <1>17, Layout
  <2>2. QED BY <1>2, <2>1
<1>19. u \in Mem
  <2>1. u.ref \in [Frames -> 0 .. REFS - 1]
    BY <1>1, <1>17, <1>18, MemFields
  <2>2. QED BY <1>1, <1>2, <1>3, <1>16, <2>1, MemFields, IsMem
<1>20. Placed(u, r)
  BY <1>1, <1>2, <1>15, <1>19 DEF Placed
<1>21. u.ref[f] = t.ref[f] + 1 /\ \A g \in Frames \ {f} : u.ref[g] = t.ref[g]
  BY <1>1, <1>18, MemFields
<1>22. Counted(u)
  <2>1. \A g \in Frames : PagesOf(u, g) # {} => u.ref[g] = Cardinality(PagesOf(u, g))
    BY <1>13, <1>17, <1>21 DEF Ok, Counted
  <2>2. StacksOf(t, f) = {}
    <3>1. \A q \in Spaces : t.space[q] # None => t.space[q].kstack # f
      <4> SUFFICES ASSUME NEW q \in Spaces, t.space[q] # None, t.space[q].kstack = f PROVE FALSE
        OBVIOUS
      <4>1. r[f] = Role("stack", New, 0)
        BY Layout DEF Ok, Placed, Owns
      <4>2. QED BY <4>1 DEF Role
    <3>2. QED BY <3>1 DEF StacksOf
  <2>3. \A g \in Frames : StacksOf(u, g) # {} => u.ref[g] = Cardinality(StacksOf(u, g))
    BY <1>14, <1>21, <2>2 DEF Ok, Counted
  <2>4. ASSUME NEW q \in Spaces, u.space[q] # None
        PROVE  /\ u.ref[u.space[q].dir] = 0
               /\ u.space[q].ktable # None => u.ref[u.space[q].ktable] = 1
               /\ \A y \in Tables : u.space[q].table[y] # None => u.ref[u.space[q].table[y]] = 1
    <3>1. /\ t.space[q] # None /\ u.space[q].dir = t.space[q].dir /\ u.space[q].ktable = t.space[q].ktable
          /\ u.space[q].table = t.space[q].table
      BY <1>4, <1>6, <1>7, <2>4 DEF a, b
    <3>2. Owns(t, r, q) /\ t.space[q] \in Space
      BY <1>1, <3>1, SpaceFields DEF Ok, Placed
    <3>3. \A k, z, x : Role(k, z, x).kind = k
      BY DEF Role
    <3>4. t.space[q].dir # f /\ t.space[q].ktable # f /\ \A y \in Tables : t.space[q].table[y] # f
      BY <3>2, <3>3, Layout DEF Owns
    <3>5. QED BY <1>21, <3>1, <3>2, <3>4 DEF Ok, Counted, Space
  <2>5. QED BY <2>1, <2>3, <2>4 DEF Counted
<1>23. Changes(t, u, s)
  <2>1. DataKept(t, u)
    BY <1>2 DEF DataKept
  <2>2. QED BY <1>1, <1>4, <1>7, <1>8, <1>20, <2>1, ChangesBy DEF a, b
<1>24. QED BY <1>2, <1>7, <1>10, <1>18, <1>20, <1>22, <1>23 DEF Ok, PtIs, a, b, e

\* The same frame with other rights.
LEMMA SetPermOk ==
  ASSUME VmAssumption, NEW t, NEW r, Ok(t, r), NEW s \in Spaces, t.space[s] # None, NEW va \in Vas,
         t.space[s].pt[va] # None, NEW perm \in SUBSET PTE_SYSCALL,
         NEW u, u = SetPage(t, s, va, t.space[s].pt[va].frame, perm)
  PROVE  /\ Ok(u, r) /\ Changes(t, u, s) /\ u.data = t.data /\ u.free = t.free /\ u.ref = t.ref
         /\ u.space[s].table = t.space[s].table
         /\ PtIs(t, u, s, va, Entry(t.space[s].pt[va].frame, perm))
<1>1. t \in Mem /\ r \in Roles /\ Owns(t, r, s) /\ Placed(t, r)
  BY DEF Ok, Placed
<1> DEFINE a == t.space[s]
           b == u.space[s]
           f == a.pt[va].frame
           e == Entry(f, perm)
<1>2. /\ u.space = [t.space EXCEPT ![s].pt[va] = e] /\ u.ref = t.ref /\ u.data = t.data /\ u.free = t.free
  BY <1>1 DEF Mem, SetPage
<1>3. u = [space |-> u.space, ref |-> u.ref, data |-> u.data, free |-> u.free]
  BY <1>1 DEF Mem, SetPage
<1>4. \A q \in Spaces \ {s} : u.space[q] = t.space[q]
  BY <1>1, <1>2, MemFields
<1>5. b = [a EXCEPT !.pt[va] = e]
  BY <1>1, <1>2, MemFields
<1>6. a \in Space /\ a # None /\ a.pt[va] \in Entries
  BY <1>1, SpaceFields
<1>e. e \in Entries /\ e # None /\ e.frame = f
  BY <1>6, Layout DEF Entries, Entry
<1> HIDE DEF a, b, e, f
<1>7. b \in Space /\ b.dir = a.dir /\ b.ktable = a.ktable /\ b.kstack = a.kstack /\ b.table = a.table
      /\ b.pt = [a.pt EXCEPT ![va] = e]
  BY <1>5, <1>6, <1>e DEF Space
<1>8. b # None
  BY <1>7, Layout
<1>10. ASSUME NEW q \in Spaces, NEW w \in Vas PROVE Pt(u, q, w) = IF q = s /\ w = va THEN e ELSE Pt(t, q, w)
  <2>1. CASE q # s
    BY <1>4, <2>1 DEF Pt
  <2>2. CASE q = s
    BY <1>6, <1>7, <1>8, <2>2 DEF Pt, a, b, Space
  <2>3. QED BY <2>1, <2>2
<1>11. Pt(t, s, va) # None /\ Pt(t, s, va).frame = f
  BY DEF Pt, f, a
<1>12. ASSUME NEW g PROVE PagesOf(u, g) = PagesOf(t, g)
  <2>1. ASSUME NEW q \in Spaces, NEW w \in Vas PROVE <<q, w>> \in PagesOf(u, g) <=> <<q, w>> \in PagesOf(t, g)
    <3>1. <<q, w>> \in PagesOf(u, g) <=> Pt(u, q, w) # None /\ Pt(u, q, w).frame = g
      BY InPages
    <3>2. <<q, w>> \in PagesOf(t, g) <=> Pt(t, q, w) # None /\ Pt(t, q, w).frame = g
      BY InPages
    <3>3. QED BY <1>10, <1>11, <1>e, <3>1, <3>2
  <2>2. PagesOf(u, g) \in SUBSET (Spaces \X Vas) /\ PagesOf(t, g) \in SUBSET (Spaces \X Vas)
    BY PagesAre
  <2>3. QED BY <2>1, <2>2, SameCells, Zenon
<1>14. \A g : StacksOf(u, g) = StacksOf(t, g)
  BY <1>4, <1>6, <1>7, <1>8, ZenonT(30) DEF StacksOf, a, b
<1>15. \A q \in Spaces : u.space[q] # None => Owns(u, r, q)
  <2>1. ASSUME NEW q \in Spaces, u.space[q] # None, q # s PROVE Owns(u, r, q)
    <3>1. u.space[q] = t.space[q] /\ Owns(t, r, q)
      BY <1>4, <2>1 DEF Ok, Placed
    <3>2. QED BY <3>1 DEF Owns
  <2>2. Owns(u, r, s)
    <3>1. ASSUME NEW w \in Vas, b.pt[w] # None
          PROVE  r[b.pt[w].frame] = Role("page", New, w) /\ b.table[w \div PDENTRIES] # None
      <4>1. \A z \in Vas : a.pt[z] # None => r[a.pt[z].frame] = Role("page", New, z) /\ a.table[z \div PDENTRIES] # None
        BY <1>1 DEF Owns, a
      <4>2. CASE w = va
        <5>1. a.pt[va] # None /\ a.pt[va].frame = f
          BY DEF a, f
        <5>2. b.pt[va] = e
          BY <1>6, <1>7 DEF Space
        <5>3. QED BY <1>7, <1>e, <4>1, <4>2, <5>1, <5>2
      <4>3. CASE w # va
        <5>1. b.pt[w] = a.pt[w]
          BY <1>6, <1>7, <4>3 DEF Space
        <5>2. QED BY <1>7, <3>1, <4>1, <5>1
      <4>4. QED BY <4>2, <4>3
    <3>3. QED BY <1>1, <1>7, <3>1 DEF Owns, a, b
  <2>3. QED BY <2>1, <2>2
<1>16. u \in Mem
  <2>1. u.space \in [Spaces -> Space \cup {None}]
    BY <1>1, <1>2, <1>4, <1>7, MemFields, SMTT(30) DEF b
  <2>2. QED BY <1>1, <1>2, <1>3, <2>1, MemFields, IsMem
<1>20. Placed(u, r)
  BY <1>1, <1>2, <1>15, <1>16 DEF Placed
<1>22. Counted(u)
  <2>1. ASSUME NEW q \in Spaces, u.space[q] # None
        PROVE  /\ u.ref[u.space[q].dir] = 0
               /\ u.space[q].ktable # None => u.ref[u.space[q].ktable] = 1
               /\ \A y \in Tables : u.space[q].table[y] # None => u.ref[u.space[q].table[y]] = 1
    <3>1. /\ t.space[q] # None /\ u.space[q].dir = t.space[q].dir /\ u.space[q].ktable = t.space[q].ktable
          /\ u.space[q].table = t.space[q].table
      BY <1>4, <1>6, <1>7, <2>1 DEF a, b
    <3>2. Counted(t)
      BY DEF Ok
    <3>3. /\ t.ref[t.space[q].dir] = 0
          /\ t.space[q].ktable # None => t.ref[t.space[q].ktable] = 1
          /\ \A y \in Tables : t.space[q].table[y] # None => t.ref[t.space[q].table[y]] = 1
      BY <3>1, <3>2 DEF Counted
    <3>4. QED BY <1>2, <3>1, <3>3
  <2>2. QED BY <1>2, <1>12, <1>14, <2>1 DEF Ok, Counted
<1>23. Changes(t, u, s)
  <2>1. DataKept(t, u)
    BY <1>2 DEF DataKept
  <2>2. QED BY <1>1, <1>4, <1>7, <1>8, <1>20, <2>1, ChangesBy DEF a, b
<1>24. QED BY <1>2, <1>7, <1>10, <1>20, <1>22, <1>23 DEF Ok, PtIs, a, b, e, f

-----------------------------------------------------------------------------
(* Giving pages back.                                                       *)

\* The frames of the pages K and the page tables L of s.
Held(t, s, K, L) ==
    {f \in Frames : \/ \E va \in K : t.space[s].pt[va] # None /\ t.space[s].pt[va].frame = f
                    \/ \E x \in L : t.space[s].table[x] = f}

\* Each of them loses a reference, and is free when it was the last one.
IsRelease(t, u, s, K, L) ==
    /\ u \in Mem
    /\ \A q \in Spaces \ {s} : u.space[q] = t.space[q]
    /\ u.space[s] # None /\ u.space[s].dir = t.space[s].dir
    /\ u.space[s].ktable = t.space[s].ktable /\ u.space[s].kstack = t.space[s].kstack
    /\ \A x \in Tables : u.space[s].table[x] = IF x \in L THEN None ELSE t.space[s].table[x]
    /\ \A va \in Vas : u.space[s].pt[va] = IF va \in K THEN None ELSE t.space[s].pt[va]
    /\ \A f \in Frames \ Held(t, s, K, L) :
          u.ref[f] = t.ref[f] /\ u.data[f] = t.data[f] /\ (f \in u.free <=> f \in t.free)
    /\ \A f \in Held(t, s, K, L) :
          u.ref[f] = t.ref[f] - 1 /\ (f \in u.free <=> t.ref[f] = 1) /\ (t.ref[f] # 1 => u.data[f] = t.data[f])

HeldPage(t, r, s, K, f) ==
    \E va \in K : /\ t.space[s].pt[va] # None /\ t.space[s].pt[va].frame = f
                  /\ r[f] = Role("page", New, va) /\ <<s, va>> \in PagesOf(t, f)

HeldTable(t, r, s, L, f) ==
    \E x \in L : t.space[s].table[x] = f /\ r[f] = Role("table", s, x) /\ t.ref[f] = 1

LEMMA HeldIs ==
  ASSUME VmAssumption, NEW t, NEW r, Ok(t, r), NEW s \in Spaces, t.space[s] # None,
         NEW K \in SUBSET Vas, NEW L \in SUBSET Tables, NEW f \in Held(t, s, K, L)
  PROVE  /\ f \in Frames /\ f \notin t.free /\ t.ref[f] \in Nat /\ t.ref[f] >= 1
         /\ HeldPage(t, r, s, K, f) \/ HeldTable(t, r, s, L, f)
<1>1. t \in Mem /\ Owns(t, r, s) /\ Placed(t, r) /\ f \in Frames /\ f # None
  BY Layout DEF Ok, Placed, Held
<1>2. CASE \E va \in K : t.space[s].pt[va] # None /\ t.space[s].pt[va].frame = f
  <2>1. PICK va \in K : t.space[s].pt[va] # None /\ t.space[s].pt[va].frame = f
    BY <1>2
  <2>2. Pt(t, s, va) = t.space[s].pt[va] /\ va \in Vas
    BY DEF Pt
  <2>3. <<s, va>> \in PagesOf(t, f)
    BY <2>1, <2>2, InPages
  <2>4. r[f] = Role("page", New, va) /\ f \notin t.free
    BY <1>1, <2>1, <2>2, PtFrame
  <2>5. t.ref[f] = Cardinality(PagesOf(t, f))
    BY <1>1, <2>3 DEF Ok, Counted
  <2>6. Cardinality(PagesOf(t, f)) \in Nat /\ Cardinality(PagesOf(t, f)) # 0
    BY <1>1, <2>3, PagesFit, FS_EmptySet
  <2>7. HeldPage(t, r, s, K, f)
    BY <2>1, <2>3, <2>4 DEF HeldPage
  <2>8. QED BY <1>1, <2>4, <2>5, <2>6, <2>7
<1>3. CASE \E x \in L : t.space[s].table[x] = f
  <2>1. PICK x \in L : t.space[s].table[x] = f
    BY <1>3
  <2>2. r[f] = Role("table", s, x) /\ t.ref[f] = 1
    BY <1>1, <2>1 DEF Owns, Ok, Counted
  <2>3. f \notin t.free
    BY <1>1, <2>1, FreeNowhere
  <2>4. HeldTable(t, r, s, L, f)
    BY <2>1, <2>2 DEF HeldTable
  <2>5. QED BY <1>1, <2>2, <2>3, <2>4
<1>4. QED BY <1>2, <1>3 DEF Held

\* A page table is given back with the pages it maps.
LEMMA ReleaseOk ==
  ASSUME VmAssumption, NEW t, NEW r, Ok(t, r), NEW s \in Spaces, t.space[s] # None,
         NEW K \in SUBSET Vas, NEW L \in SUBSET Tables, L # {} => K = Vas,
         NEW u, IsRelease(t, u, s, K, L)
  PROVE  /\ Still(t, r, u)
         /\ Changes(t, u, s) /\ DataKept(t, u) /\ t.free \subseteq u.free
         /\ PtGone(t, u, s, K)
<1> DEFINE H == Held(t, s, K, L)
           lost == {f \in H : t.ref[f] = 1}
           r2 == [f \in Frames |-> IF f \in lost THEN Role("free", New, 0) ELSE r[f]]
<1>1. t \in Mem /\ r \in Roles /\ Owns(t, r, s) /\ Placed(t, r) /\ Counted(t)
  BY DEF Ok, Placed
<1>2. u \in Mem
  BY DEF IsRelease
<1>3. \A q \in Spaces \ {s} : u.space[q] = t.space[q]
  BY DEF IsRelease
<1>4. /\ u.space[s] # None /\ u.space[s].dir = t.space[s].dir
      /\ u.space[s].ktable = t.space[s].ktable /\ u.space[s].kstack = t.space[s].kstack
  BY DEF IsRelease
<1>5. \A x \in Tables : u.space[s].table[x] = IF x \in L THEN None ELSE t.space[s].table[x]
  BY DEF IsRelease
<1>6. \A va \in Vas : u.space[s].pt[va] = IF va \in K THEN None ELSE t.space[s].pt[va]
  BY DEF IsRelease
<1>7. \A f \in Frames \ H : u.ref[f] = t.ref[f] /\ u.data[f] = t.data[f] /\ (f \in u.free <=> f \in t.free)
  BY DEF IsRelease
<1>8. \A f \in H : u.ref[f] = t.ref[f] - 1 /\ (f \in u.free <=> t.ref[f] = 1) /\ (t.ref[f] # 1 => u.data[f] = t.data[f])
  BY DEF IsRelease
<1>9. \A f \in H : f \in Frames /\ f \notin t.free /\ t.ref[f] \in Nat /\ t.ref[f] >= 1
  BY HeldIs
<1>a. \A f \in H : HeldPage(t, r, s, K, f) \/ HeldTable(t, r, s, L, f)
  BY HeldIs
<1>b. \A k, z, x : Role(k, z, x).kind = k
  BY DEF Role
<1>c. ASSUME NEW f \in H
      PROVE  (r[f].kind = "page" \/ r[f].kind = "table") /\ (r[f].kind = "table" => t.ref[f] = 1)
  <2>1. (\E va : r[f] = Role("page", New, va)) \/ (\E x : r[f] = Role("table", s, x) /\ t.ref[f] = 1)
    BY <1>a, Zenon DEF HeldPage, HeldTable
  <2>2. QED BY <1>b, <2>1
<1> HIDE DEF H
<1>10. u.free = t.free \cup lost
  BY <1>1, <1>2, <1>7, <1>8, <1>9, MemFields
<1>11. DataKept(t, u)
  BY <1>7, <1>8, <1>10 DEF DataKept
<1>12. ASSUME NEW q \in Spaces, NEW w \in Vas
       PROVE  Pt(u, q, w) = IF q = s /\ w \in K THEN None ELSE Pt(t, q, w)
  BY <1>3, <1>4, <1>6 DEF Pt
<1>13. ASSUME NEW f PROVE PagesOf(u, f) = PagesOf(t, f) \ ({s} \X K)
  <2> DEFINE P == PagesOf(t, f) \ ({s} \X K)
  <2>1. ASSUME NEW q \in Spaces, NEW w \in Vas PROVE <<q, w>> \in PagesOf(u, f) <=> <<q, w>> \in P
    <3>1. <<q, w>> \in PagesOf(u, f) <=> Pt(u, q, w) # None /\ Pt(u, q, w).frame = f
      BY InPages
    <3>2. <<q, w>> \in PagesOf(t, f) <=> Pt(t, q, w) # None /\ Pt(t, q, w).frame = f
      BY InPages
    <3>3. <<q, w>> \in {s} \X K <=> q = s /\ w \in K
      OBVIOUS
    <3>4. QED BY <1>12, <3>1, <3>2, <3>3
  <2>2. PagesOf(u, f) \in SUBSET (Spaces \X Vas) /\ P \in SUBSET (Spaces \X Vas)
    BY PagesAre
  <2> HIDE DEF P
  <2>3. PagesOf(u, f) = P
    BY <2>1, <2>2, SameCells, Zenon
  <2>4. QED BY <2>3 DEF P
<1>14. ASSUME NEW f \in Frames \ H PROVE PagesOf(u, f) = PagesOf(t, f)
  <2>1. ASSUME NEW va \in K PROVE <<s, va>> \notin PagesOf(t, f)
    <3>1. Pt(t, s, va) = t.space[s].pt[va] /\ va \in Vas
      BY DEF Pt
    <3>2. QED BY <3>1, InPages DEF H, Held
  <2>2. PagesOf(t, f) \cap ({s} \X K) = {}
    BY <2>1
  <2>3. QED BY <1>13, <2>2
<1>15. ASSUME NEW f \in H, NEW va \in K, r[f] = Role("page", New, va), <<s, va>> \in PagesOf(t, f)
       PROVE  PagesOf(u, f) = PagesOf(t, f) \ {<<s, va>>}
  <2>1. ASSUME NEW w \in K, <<s, w>> \in PagesOf(t, f) PROVE w = va
    <3>1. Pt(t, s, w) # None /\ Pt(t, s, w).frame = f
      BY <2>1, InPages
    <3>2. r[f] = Role("page", New, w)
      BY <1>1, <3>1, PtFrame
    <3>3. QED BY <1>15, <3>2 DEF Role
  <2>2. PagesOf(t, f) \ ({s} \X K) = PagesOf(t, f) \ {<<s, va>>}
    BY <2>1
  <2>3. QED BY <1>13, <2>2
<1>16. \A f : StacksOf(u, f) = StacksOf(t, f)
  BY <1>3, <1>4 DEF StacksOf
\* Nobody names a frame that is given back.
<1>17. ASSUME NEW f \in lost
       PROVE  PagesOf(u, f) = {} /\ (\A q \in Spaces : u.space[q] # None =>
                 /\ u.space[q].dir # f /\ u.space[q].ktable # f /\ u.space[q].kstack # f
                 /\ \A x \in Tables : u.space[q].table[x] # f)
  <2>1. f \in H /\ t.ref[f] = 1 /\ f \in Frames /\ f # None
    BY <1>9, Layout
  <2>2. \A k, z, x : Role(k, z, x).kind = k /\ Role(k, z, x).of = z /\ Role(k, z, x).at = x
    BY DEF Role
  <2>3. CASE HeldPage(t, r, s, K, f)
    <3>1. PICK va \in K : r[f] = Role("page", New, va) /\ <<s, va>> \in PagesOf(t, f)
      BY <2>3 DEF HeldPage
    <3>2. PagesOf(u, f) = PagesOf(t, f) \ {<<s, va>>}
      BY <1>15, <2>1, <3>1
    <3>3. IsFiniteSet(PagesOf(t, f)) /\ Cardinality(PagesOf(t, f)) = 1
      BY <1>1, <2>1, <3>1, PagesFit DEF Counted
    <3>4. PagesOf(u, f) = {}
      BY <3>1, <3>2, <3>3, FS_Singleton
    <3>5. ASSUME NEW q \in Spaces, u.space[q] # None
          PROVE  /\ u.space[q].dir # f /\ u.space[q].ktable # f /\ u.space[q].kstack # f
                 /\ \A x \in Tables : u.space[q].table[x] # f
      <4>1. t.space[q] # None /\ Owns(t, r, q)
        BY <1>1, <1>3, <3>5 DEF Placed
      <4>2. t.space[q].dir # f /\ t.space[q].ktable # f /\ t.space[q].kstack # f
        BY <2>1, <2>2, <3>1, <4>1 DEF Owns
      <4>3. \A x \in Tables : t.space[q].table[x] # f
        BY <2>1, <2>2, <3>1, <4>1 DEF Owns
      <4>4. QED BY <1>3, <1>4, <1>5, <2>1, <4>2, <4>3
    <3>6. QED BY <3>4, <3>5
  <2>4. CASE HeldTable(t, r, s, L, f)
    <3>1. PICK x \in L : t.space[s].table[x] = f /\ r[f] = Role("table", s, x)
      BY <2>4 DEF HeldTable
    <3>2. PagesOf(u, f) = {}
      <4> SUFFICES ASSUME NEW q \in Spaces, NEW w \in Vas, <<q, w>> \in PagesOf(u, f) PROVE FALSE
        BY PagesAre
      <4>1. Pt(t, q, w) # None /\ Pt(t, q, w).frame = f
        BY <1>13, InPages
      <4>2. QED BY <1>1, <2>2, <3>1, <4>1, PtFrame
    <3>3. ASSUME NEW q \in Spaces, u.space[q] # None
          PROVE  /\ u.space[q].dir # f /\ u.space[q].ktable # f /\ u.space[q].kstack # f
                 /\ \A y \in Tables : u.space[q].table[y] # f
      <4>1. t.space[q] # None /\ Owns(t, r, q)
        BY <1>1, <1>3, <3>3 DEF Placed
      <4>2. t.space[q].dir # f /\ t.space[q].ktable # f /\ t.space[q].kstack # f
        BY <2>1, <2>2, <3>1, <4>1 DEF Owns
      <4>3. \A y \in Tables : t.space[q].table[y] = f => q = s /\ y = x
        BY <2>1, <2>2, <3>1, <4>1 DEF Owns
      <4>4. QED BY <1>3, <1>4, <1>5, <2>1, <3>1, <4>2, <4>3
    <3>4. QED BY <3>2, <3>3
  <2>5. QED BY <1>a, <2>1, <2>3, <2>4
<1>18. r2 \in Roles
  BY <1>1 DEF Roles, Role, Uses_, Spaces
<1>19. \A f \in Frames : (f \notin lost => r2[f] = r[f]) /\ (f \in lost => r2[f].kind = "free")
  BY DEF Role
<1> HIDE DEF r2, lost
<1>20. \A f \in u.free : r2[f].kind = "free"
  BY <1>1, <1>2, <1>10, <1>19, MemFields DEF Placed
<1>21. ASSUME NEW q \in Spaces, u.space[q] # None PROVE Owns(u, r2, q)
  <2>1. /\ t.space[q] # None /\ Owns(t, r, q) /\ u.space[q].dir = t.space[q].dir
        /\ u.space[q].ktable = t.space[q].ktable /\ u.space[q].kstack = t.space[q].kstack
    BY <1>1, <1>3, <1>4, <1>21 DEF Placed
  <2>2. \A x \in Tables : u.space[q].table[x] # None => u.space[q].table[x] = t.space[q].table[x]
    BY <1>3, <1>5
  <2>3. /\ u.space[q].dir \in Frames /\ u.space[q].ktable \in Frames \cup {None}
        /\ u.space[q].kstack \in Frames \cup {None} /\ \A x \in Tables : u.space[q].table[x] \in Frames \cup {None}
    BY <1>2, <1>21, SpaceFields
  <2>4. /\ u.space[q].dir \notin lost /\ u.space[q].ktable \notin lost /\ u.space[q].kstack \notin lost
        /\ \A x \in Tables : u.space[q].table[x] \notin lost
    BY <1>17, <1>21
  <2>5. ASSUME NEW va \in Vas, u.space[q].pt[va] # None
        PROVE  /\ r2[u.space[q].pt[va].frame] = Role("page", New, va)
               /\ u.space[q].table[va \div PDENTRIES] # None
    <3>1. u.space[q].pt[va] = t.space[q].pt[va] /\ ~(q = s /\ va \in K)
      BY <1>3, <1>6, <2>5
    <3>2. r[u.space[q].pt[va].frame] = Role("page", New, va) /\ t.space[q].table[va \div PDENTRIES] # None
      BY <2>1, <2>5, <3>1 DEF Owns
    <3>3. u.space[q].table[va \div PDENTRIES] # None
      BY <1>3, <1>5, <3>1, <3>2, TableOf
    <3>4. Pt(u, q, va) = u.space[q].pt[va]
      BY <1>21 DEF Pt
    <3>5. <<q, va>> \in PagesOf(u, u.space[q].pt[va].frame)
      BY <2>5, <3>4, InPages
    <3>6. u.space[q].pt[va].frame \in Frames
      BY <1>2, <1>21, <2>5, SpaceFields DEF Entries
    <3>7. u.space[q].pt[va].frame \notin lost
      BY <1>17, <3>5
    <3>8. QED BY <1>19, <3>2, <3>3, <3>6, <3>7
  <2>6. QED BY <1>19, <2>1, <2>2, <2>3, <2>4, <2>5 DEF Owns
<1>22. Placed(u, r2)
  BY <1>2, <1>18, <1>20, <1>21 DEF Placed
<1>23. Counted(u)
  <2>1. ASSUME NEW f \in Frames, PagesOf(u, f) # {} PROVE u.ref[f] = Cardinality(PagesOf(u, f))
    <3>1. CASE f \notin H
      BY <1>1, <1>7, <1>14, <2>1, <3>1 DEF Counted
    <3>2. CASE f \in H
      <4>1. CASE HeldPage(t, r, s, K, f)
        <5>1. PICK va \in K : r[f] = Role("page", New, va) /\ <<s, va>> \in PagesOf(t, f)
          BY <4>1 DEF HeldPage
        <5>2. PagesOf(u, f) = PagesOf(t, f) \ {<<s, va>>}
          BY <1>15, <3>2, <5>1
        <5>3. IsFiniteSet(PagesOf(t, f)) /\ t.ref[f] = Cardinality(PagesOf(t, f))
          BY <1>1, <5>1, PagesFit DEF Counted
        <5>4. Cardinality(PagesOf(u, f)) = Cardinality(PagesOf(t, f)) - 1
          <6> DEFINE P == PagesOf(t, f)
          <6>1. Cardinality(P \ {<<s, va>>}) = IF <<s, va>> \in P THEN Cardinality(P) - 1 ELSE Cardinality(P)
            BY <5>3, FS_RemoveElement
          <6>2. QED BY <5>1, <5>2, <6>1
        <5>5. QED BY <1>8, <3>2, <5>3, <5>4
      <4>2. CASE HeldTable(t, r, s, L, f)
        <5>1. f \in lost
          BY <3>2, <4>2 DEF lost, HeldTable
        <5>2. QED BY <1>17, <2>1, <5>1
      <4>3. QED BY <1>a, <3>2, <4>1, <4>2
    <3>3. QED BY <3>1, <3>2
  <2>2. ASSUME NEW f \in H PROVE StacksOf(t, f) = {}
    <3> SUFFICES ASSUME NEW q \in Spaces, t.space[q] # None, t.space[q].kstack = f PROVE FALSE
      BY DEF StacksOf
    <3>1. r[f] = Role("stack", New, 0)
      BY <1>1, <1>9, Layout DEF Placed, Owns
    <3>2. QED BY <1>b, <1>c, <3>1
  <2>3. \A f \in Frames : StacksOf(u, f) # {} => u.ref[f] = Cardinality(StacksOf(u, f))
    BY <1>1, <1>7, <1>16, <2>2 DEF Counted
  <2>4. ASSUME NEW q \in Spaces, u.space[q] # None
        PROVE  /\ u.ref[u.space[q].dir] = 0
               /\ u.space[q].ktable # None => u.ref[u.space[q].ktable] = 1
               /\ \A y \in Tables : u.space[q].table[y] # None => u.ref[u.space[q].table[y]] = 1
    <3>1. /\ t.space[q] # None /\ Owns(t, r, q) /\ u.space[q].dir = t.space[q].dir
          /\ u.space[q].ktable = t.space[q].ktable
      BY <1>1, <1>3, <1>4, <2>4 DEF Placed
    <3>2. /\ t.space[q].dir \in Frames /\ t.space[q].ktable \in Frames \cup {None}
          /\ \A y \in Tables : t.space[q].table[y] \in Frames \cup {None}
      BY <1>1, <3>1, SpaceFields
    <3>4. t.space[q].dir \notin H /\ t.space[q].ktable \notin H
      BY <1>9, <1>b, <1>c, <3>1, Layout DEF Owns
    <3>5. u.ref[u.space[q].dir] = 0 /\ (u.space[q].ktable # None => u.ref[u.space[q].ktable] = 1)
      BY <1>1, <1>7, <3>1, <3>2, <3>4 DEF Counted
    <3>6. ASSUME NEW y \in Tables, u.space[q].table[y] # None PROVE u.ref[u.space[q].table[y]] = 1
      <4> DEFINE f == u.space[q].table[y]
      <4>1. f = t.space[q].table[y] /\ f \in Frames
        BY <1>3, <1>5, <3>2, <3>6
      <4>2. r[f].kind = "table" /\ t.ref[f] = 1
        BY <1>1, <1>b, <3>1, <3>6, <4>1 DEF Owns, Counted
      <4>3. f \notin H
        <5> SUFFICES ASSUME f \in H PROVE FALSE
          OBVIOUS
        <5>1. f \in lost
          BY <4>2 DEF lost
        <5>2. QED BY <1>17, <2>4, <5>1
      <4>4. QED BY <1>7, <4>1, <4>2, <4>3
    <3>7. QED BY <3>5, <3>6
  <2>5. QED BY <2>1, <2>3, <2>4 DEF Counted
<1>24. Changes(t, u, s)
  BY <1>1, <1>3, <1>4, <1>11, <1>22, ChangesBy
<1>25. Ok(u, r2) /\ \A f \in Frames : f \notin u.free => r2[f] = r[f]
  BY <1>10, <1>19, <1>22, <1>23 DEF Ok
<1>26. QED BY <1>10, <1>11, <1>12, <1>24, <1>25 DEF Still, PtGone

\* p_ref after page_decrease_ref.
LEMMA Less ==
  ASSUME VmAssumption, NEW n \in 0 .. REFS - 1
  PROVE  /\ (n + REFS - 0) % REFS = n
         /\ n >= 1 => (n + REFS - 1) % REFS = n - 1
         /\ (0 + REFS - 1) % REFS = REFS - 1
<1>1. REFS \in Nat /\ REFS > 0 /\ n \in Int /\ n >= 0 /\ n < REFS
  BY Layout
<1>2. (n + REFS) % REFS = n
  BY <1>1
<1>3. ASSUME n >= 1 PROVE (n + REFS - 1) % REFS = n - 1
  BY <1>1, <1>3
<1>4. (REFS - 1) % REFS = REFS - 1
  BY <1>1
<1>5. QED BY <1>1, <1>2, <1>3, <1>4

\* Frames in H lose a reference.
Dropped(t, u, H) ==
    /\ u.space = t.space /\ u = [space |-> u.space, ref |-> u.ref, data |-> u.data, free |-> u.free]
    /\ u.ref \in [Frames -> 0 .. REFS - 1] /\ u.data \in [Frames -> Vals] /\ u.free \subseteq Frames
    /\ \A f \in Frames \ H : u.ref[f] = t.ref[f] /\ u.data[f] = t.data[f] /\ (f \in u.free <=> f \in t.free)
    /\ \A f \in H : /\ u.ref[f] = (t.ref[f] + REFS - 1) % REFS /\ (f \in u.free <=> f \in t.free \/ t.ref[f] = 1)
                    /\ t.ref[f] # 1 => u.data[f] = t.data[f]

LEMMA DroppedBy ==
  ASSUME VmAssumption, NEW t \in Mem, NEW H \in SUBSET Frames, NEW k,
         \A f \in Frames : k[f] = IF f \in H THEN 1 ELSE 0,
         NEW u, u.space = t.space, u = [space |-> u.space, ref |-> u.ref, data |-> u.data, free |-> u.free],
         u.ref = [f \in Frames |-> (t.ref[f] + REFS - k[f]) % REFS],
         u.free = t.free \cup {f \in Frames : k[f] > 0 /\ t.ref[f] = k[f]},
         u.data = [f \in Frames |-> IF f \in {g \in Frames : k[g] > 0 /\ t.ref[g] = k[g]} THEN Zero ELSE t.data[f]]
  PROVE  Dropped(t, u, H)
<1>1. t.ref \in [Frames -> 0 .. REFS - 1] /\ t.data \in [Frames -> Vals] /\ t.free \subseteq Frames
  BY MemFields
<1>2. \A f \in Frames : k[f] = 0 \/ k[f] = 1
  OBVIOUS
<1>3. u.ref \in [Frames -> 0 .. REFS - 1]
  <2>1. ASSUME NEW f \in Frames PROVE (t.ref[f] + REFS - k[f]) % REFS \in 0 .. REFS - 1
    <3>1. t.ref[f] + REFS - k[f] \in Int
      BY <1>1, <1>2, Layout
    <3>2. QED BY <3>1, Layout
  <2>2. QED BY <2>1
<1>4. u.data \in [Frames -> Vals] /\ u.free \subseteq Frames
  BY <1>1, Layout
<1>5. \A f \in Frames \ H : u.ref[f] = t.ref[f] /\ u.data[f] = t.data[f] /\ (f \in u.free <=> f \in t.free)
  BY <1>1, <1>2, Less
<1>6. \A f \in H : u.ref[f] = (t.ref[f] + REFS - 1) % REFS /\ (f \in u.free <=> f \in t.free \/ t.ref[f] = 1)
                   /\ (t.ref[f] # 1 => u.data[f] = t.data[f])
  BY <1>1, <1>2
<1>7. QED BY <1>3, <1>4, <1>5, <1>6 DEF Dropped

LEMMA DecreaseIs ==
  ASSUME VmAssumption, NEW t \in Mem, NEW f \in Frames, NEW u, u = page_decrease_ref(t, f)
  PROVE  Dropped(t, u, {f})
<1> DEFINE k == [g \in Frames |-> IF g = f THEN 1 ELSE 0]
<1>1. /\ u.space = t.space
      /\ u.ref = [g \in Frames |-> (t.ref[g] + REFS - k[g]) % REFS]
      /\ u.free = t.free \cup {g \in Frames : k[g] > 0 /\ t.ref[g] = k[g]}
      /\ u.data = [h \in Frames |-> IF h \in {g \in Frames : k[g] > 0 /\ t.ref[g] = k[g]} THEN Zero ELSE t.data[h]]
  BY DEF page_decrease_ref, Drop, Mem
<1>2. u = [space |-> u.space, ref |-> u.ref, data |-> u.data, free |-> u.free]
  BY DEF page_decrease_ref, Drop, Mem
<1>3. \A g \in Frames : k[g] = IF g \in {f} THEN 1 ELSE 0
  OBVIOUS
<1> HIDE DEF k
<1>4. QED BY <1>1, <1>2, <1>3, DroppedBy

LEMMA ReleaseBy ==
  ASSUME VmAssumption, NEW t, NEW r, Ok(t, r), NEW s \in Spaces, t.space[s] # None,
         NEW K \in SUBSET Vas, NEW L \in SUBSET Tables, NEW v, Dropped(t, v, Held(t, s, K, L)),
         NEW b \in Space, b.dir = t.space[s].dir, b.ktable = t.space[s].ktable, b.kstack = t.space[s].kstack,
         \A x \in Tables : b.table[x] = IF x \in L THEN None ELSE t.space[s].table[x],
         \A va \in Vas : b.pt[va] = IF va \in K THEN None ELSE t.space[s].pt[va],
         NEW u, u = [space |-> [t.space EXCEPT ![s] = b], ref |-> v.ref, data |-> v.data, free |-> v.free]
  PROVE  IsRelease(t, u, s, K, L)
<1>1. t \in Mem
  BY DEF Ok, Placed
<1>2. u.ref = v.ref /\ u.data = v.data /\ u.free = v.free /\ u.space = [t.space EXCEPT ![s] = b]
  OBVIOUS
<1>3. u.space[s] = b /\ b # None /\ \A q \in Spaces \ {s} : u.space[q] = t.space[q]
  BY <1>1, <1>2, MemFields, Layout
<1>4. u \in Mem
  <2>1. u.space \in [Spaces -> Space \cup {None}]
    BY <1>1, <1>2, MemFields
  <2>2. QED BY <1>2, <2>1, IsMem DEF Dropped
<1>5. \A f \in Held(t, s, K, L) : f \in Frames /\ f \notin t.free /\ t.ref[f] \in 0 .. REFS - 1 /\ t.ref[f] >= 1
  BY <1>1, HeldIs, MemFields
<1>6. \A f \in Held(t, s, K, L) : u.ref[f] = t.ref[f] - 1
  BY <1>2, <1>5, Less DEF Dropped
<1>7. \A f \in Held(t, s, K, L) : (f \in u.free <=> t.ref[f] = 1) /\ (t.ref[f] # 1 => u.data[f] = t.data[f])
  BY <1>2, <1>5 DEF Dropped
<1>8. \A f \in Frames \ Held(t, s, K, L) :
         u.ref[f] = t.ref[f] /\ u.data[f] = t.data[f] /\ (f \in u.free <=> f \in t.free)
  BY <1>2 DEF Dropped
<1>9. QED BY <1>3, <1>4, <1>6, <1>7, <1>8 DEF IsRelease

\* page_remove, whether there is a page or not.
LEMMA RemoveIs ==
  ASSUME VmAssumption, NEW t, NEW r, Ok(t, r), NEW s \in Spaces, t.space[s] # None, NEW va \in Vas,
         NEW u, u = page_remove(t, s, va)
  PROVE  IsRelease(t, u, s, {va}, {})
<1> DEFINE e == t.space[s].pt[va]
<1>1. t \in Mem /\ t.space[s] \in Space
  BY SpaceFields DEF Ok, Placed
<1>2. CASE e = None
  <2>1. u = t
    BY <1>2 DEF page_remove
  <2>2. Held(t, s, {va}, {}) = {}
    BY <1>2 DEF Held
  <2>3. QED BY <1>1, <1>2, <2>1, <2>2 DEF IsRelease
<1>3. CASE e # None
  <2> DEFINE v == page_decrease_ref(t, e.frame)
             b == [t.space[s] EXCEPT !.pt[va] = None]
  <2>1. e.frame \in Frames
    BY <1>1, <1>3, SpaceFields DEF Entries
  <2>2. Held(t, s, {va}, {}) = {e.frame}
    BY <1>3, <2>1 DEF Held
  <2>3. Dropped(t, v, {e.frame})
    BY <1>1, <2>1, DecreaseIs
  <2>4. /\ b \in Space /\ b.dir = t.space[s].dir /\ b.ktable = t.space[s].ktable
        /\ b.kstack = t.space[s].kstack /\ b.table = t.space[s].table
        /\ b.pt = [t.space[s].pt EXCEPT ![va] = None]
    BY <1>1 DEF Space
  <2>5. u = [v EXCEPT !.space[s].pt[va] = None]
    BY <1>3 DEF page_remove
  <2> HIDE DEF v, b, e
  <2>6. v = [space |-> t.space, ref |-> v.ref, data |-> v.data, free |-> v.free]
    BY <2>3 DEF Dropped
  <2>7. u = [space |-> [t.space EXCEPT ![s].pt[va] = None], ref |-> v.ref, data |-> v.data, free |-> v.free]
    BY <2>5, <2>6
  <2>8. [t.space EXCEPT ![s].pt[va] = None] = [t.space EXCEPT ![s] = b]
    BY DEF b
  <2>9. \A w \in Vas : b.pt[w] = IF w \in {va} THEN None ELSE t.space[s].pt[w]
    BY <1>1, <2>4 DEF Space
  <2>10. \A x \in Tables : b.table[x] = IF x \in {} THEN None ELSE t.space[s].table[x]
    BY <2>4
  <2>11. {va} \in SUBSET Vas /\ {} \in SUBSET Tables
    OBVIOUS
  <2>12. u = [space |-> [t.space EXCEPT ![s] = b], ref |-> v.ref, data |-> v.data, free |-> v.free]
    BY <2>7, <2>8
  <2>13. Dropped(t, v, Held(t, s, {va}, {}))
    BY <2>2, <2>3
  <2>14. b \in Space /\ b.dir = t.space[s].dir /\ b.ktable = t.space[s].ktable /\ b.kstack = t.space[s].kstack
    BY <2>4
  <2>15. QED BY <2>9, <2>10, <2>11, <2>12, <2>13, <2>14, ReleaseBy
<1>4. QED BY <1>2, <1>3

\* How often a frame is among the pages K and the page tables L: at most once.
LEMMA TimesAre ==
  ASSUME VmAssumption, NEW t, NEW r, Ok(t, r), NEW s \in Spaces, t.space[s] # None,
         NEW K \in SUBSET Vas, NEW L \in SUBSET Tables, NEW f \in Frames
  PROVE  Cardinality({va \in K : t.space[s].pt[va] # None /\ t.space[s].pt[va].frame = f})
            + Cardinality({x \in L : t.space[s].table[x] = f}) = IF f \in Held(t, s, K, L) THEN 1 ELSE 0
<1> DEFINE P == {va \in K : t.space[s].pt[va] # None /\ t.space[s].pt[va].frame = f}
           Q == {x \in L : t.space[s].table[x] = f}
<1>1. Owns(t, r, s) /\ f # None
  BY Layout DEF Ok, Placed
<1>2. \A k, z, x : Role(k, z, x).kind = k /\ Role(k, z, x).at = x
  BY DEF Role
<1>3. \A va \in P : r[f] = Role("page", New, va)
  BY <1>1 DEF Owns
<1>4. \A x \in Q : r[f] = Role("table", s, x)
  BY <1>1 DEF Owns
<1>5. P = {} \/ Q = {}
  BY <1>2, <1>3, <1>4
<1>6. \A v, w \in P : v = w
  BY <1>2, <1>3
<1>7. \A v, w \in Q : v = w
  BY <1>2, <1>4
<1>8. f \in Held(t, s, K, L) <=> P # {} \/ Q # {}
  BY DEF Held
<1> HIDE DEF P, Q
<1>9. Cardinality(P) = IF P = {} THEN 0 ELSE 1
  <2>1. CASE P = {}
    BY <2>1, FS_EmptySet
  <2>2. CASE P # {}
    <3>1. PICK v : P = {v}
      BY <1>6, <2>2
    <3>2. QED BY <2>2, <3>1, FS_Singleton
  <2>3. QED BY <2>1, <2>2
<1>10. Cardinality(Q) = IF Q = {} THEN 0 ELSE 1
  <2>1. CASE Q = {}
    BY <2>1, FS_EmptySet
  <2>2. CASE Q # {}
    <3>1. PICK v : Q = {v}
      BY <1>7, <2>2
    <3>2. QED BY <2>2, <3>1, FS_Singleton
  <2>3. QED BY <2>1, <2>2
<1>11. Cardinality(P) + Cardinality(Q) = IF f \in Held(t, s, K, L) THEN 1 ELSE 0
  BY <1>5, <1>8, <1>9, <1>10
<1>12. QED BY <1>11 DEF P, Q

\* pgdir_free gives back all pages and page tables.
LEMMA PgdirFreeIs ==
  ASSUME VmAssumption, NEW t, NEW r, Ok(t, r), NEW s \in Spaces, t.space[s] # None, NEW u, u = pgdir_free(t, s)
  PROVE  IsRelease(t, u, s, Vas, Tables)
<1> DEFINE k == [f \in Frames |-> Cardinality({va \in Vas : t.space[s].pt[va] # None /\ t.space[s].pt[va].frame = f})
                                  + Cardinality({x \in Tables : t.space[s].table[x] = f})]
           H == Held(t, s, Vas, Tables)
           gone == {f \in Frames : k[f] > 0 /\ t.ref[f] = k[f]}
           v == [space |-> t.space, ref |-> [f \in Frames |-> (t.ref[f] + REFS - k[f]) % REFS],
                 data |-> [f \in Frames |-> IF f \in gone THEN Zero ELSE t.data[f]], free |-> t.free \cup gone]
           b == [t.space[s] EXCEPT !.table = [x \in Tables |-> None], !.pt = [va \in Vas |-> None]]
<1>1. t \in Mem /\ t.space[s] \in Space
  BY SpaceFields DEF Ok, Placed
<1>2. \A f \in Frames : k[f] = IF f \in H THEN 1 ELSE 0
  BY TimesAre
<1>3. H \in SUBSET Frames
  BY DEF Held
<1>4. /\ b \in Space /\ b.dir = t.space[s].dir /\ b.ktable = t.space[s].ktable
      /\ b.kstack = t.space[s].kstack /\ b.table = [x \in Tables |-> None] /\ b.pt = [va \in Vas |-> None]
  BY <1>1 DEF Space
<1>5. /\ u.ref = v.ref /\ u.data = v.data /\ u.free = v.free
      /\ u = [space |-> u.space, ref |-> u.ref, data |-> u.data, free |-> u.free]
  BY <1>1, ZenonT(30) DEF pgdir_free, Drop, Mem
<1>6. u.space = [t.space EXCEPT ![s] = b]
  BY <1>1 DEF pgdir_free, Drop, Mem
<1> HIDE DEF k, H, b
<1>7. Dropped(t, v, H)
  <2>1. /\ v.space = t.space /\ v = [space |-> v.space, ref |-> v.ref, data |-> v.data, free |-> v.free]
        /\ v.ref = [f \in Frames |-> (t.ref[f] + REFS - k[f]) % REFS] /\ v.free = t.free \cup gone
        /\ v.data = [f \in Frames |-> IF f \in gone THEN Zero ELSE t.data[f]]
    OBVIOUS
  <2> HIDE DEF v
  <2>2. QED BY <1>1, <1>2, <1>3, <2>1, DroppedBy
<1>8. \A x \in Tables : b.table[x] = IF x \in Tables THEN None ELSE t.space[s].table[x]
  BY <1>4
<1>9. \A va \in Vas : b.pt[va] = IF va \in Vas THEN None ELSE t.space[s].pt[va]
  BY <1>4
<1> HIDE DEF v
<1>10. u = [space |-> [t.space EXCEPT ![s] = b], ref |-> v.ref, data |-> v.data, free |-> v.free]
  BY <1>5, <1>6
<1>11. QED BY <1>4, <1>7, <1>8, <1>9, <1>10, ReleaseBy DEF H

\* brk and sbrk give back the pages from low to high - 1.
LEMMA RemovedIs ==
  ASSUME VmAssumption, NEW t, NEW r, Ok(t, r), NEW s \in Spaces, t.space[s] # None,
         NEW low \in Int, NEW high \in Int, NEW u, u = Removed(t, s, low, high)
  PROVE  IsRelease(t, u, s, (low .. high - 1) \cap Vas, {})
<1> DEFINE K == (low .. high - 1) \cap Vas
           k == [f \in Frames |-> Cardinality({va \in low .. high - 1 : va \in Vas /\ t.space[s].pt[va] # None
                                                                        /\ t.space[s].pt[va].frame = f})]
           H == Held(t, s, K, {})
           gone == {f \in Frames : k[f] > 0 /\ t.ref[f] = k[f]}
           v == [space |-> t.space, ref |-> [f \in Frames |-> (t.ref[f] + REFS - k[f]) % REFS],
                 data |-> [f \in Frames |-> IF f \in gone THEN Zero ELSE t.data[f]], free |-> t.free \cup gone]
           c == [va \in Vas |-> IF va \in low .. high - 1 THEN None ELSE t.space[s].pt[va]]
           b == [t.space[s] EXCEPT !.pt = c]
<1>1. t \in Mem /\ t.space[s] \in Space /\ K \in SUBSET Vas /\ {} \in SUBSET Tables
  BY SpaceFields DEF Ok, Placed
<1>2. ASSUME NEW f \in Frames PROVE k[f] = IF f \in H THEN 1 ELSE 0
  <2> DEFINE P == {va \in K : t.space[s].pt[va] # None /\ t.space[s].pt[va].frame = f}
             Q == {x \in {} : t.space[s].table[x] = f}
  <2>1. P = {va \in low .. high - 1 : va \in Vas /\ t.space[s].pt[va] # None /\ t.space[s].pt[va].frame = f}
    OBVIOUS
  <2>2. Q = {}
    OBVIOUS
  <2>3. k[f] = Cardinality(P)
    BY <2>1
  <2>4. Cardinality(P) + Cardinality(Q) = IF f \in Held(t, s, K, {}) THEN 1 ELSE 0
    BY <1>1, TimesAre
  <2>5. Cardinality(Q) = 0
    BY <2>2, FS_EmptySet
  <2>6. IsFiniteSet(P)
    BY Finite, FS_Subset
  <2>7. Cardinality(P) \in Nat
    BY <2>6, FS_CardinalityType
  <2> HIDE DEF P, Q, K, k
  <2>8. QED BY <2>3, <2>4, <2>5, <2>7
<1>3. H \in SUBSET Frames
  BY DEF Held
<1>4. c \in [Vas -> Entries \cup {None}]
  BY <1>1, SpaceFields
<1>5. /\ u.ref = v.ref /\ u.data = v.data /\ u.free = v.free
      /\ u = [space |-> u.space, ref |-> u.ref, data |-> u.data, free |-> u.free]
  BY <1>1 DEF Removed, Drop, Mem
<1>6. u.space = [t.space EXCEPT ![s] = b]
  BY <1>1 DEF Removed, Drop, Mem
<1>7. \A va \in Vas : c[va] = IF va \in K THEN None ELSE t.space[s].pt[va]
  OBVIOUS
<1> HIDE DEF k, H, c, K
<1>8. /\ b \in Space /\ b.dir = t.space[s].dir /\ b.ktable = t.space[s].ktable
      /\ b.kstack = t.space[s].kstack /\ b.table = t.space[s].table /\ b.pt = c
  BY <1>1, <1>4 DEF Space
<1> HIDE DEF b
<1>9. Dropped(t, v, H)
  <2>1. /\ v.space = t.space /\ v = [space |-> v.space, ref |-> v.ref, data |-> v.data, free |-> v.free]
        /\ v.ref = [f \in Frames |-> (t.ref[f] + REFS - k[f]) % REFS] /\ v.free = t.free \cup gone
        /\ v.data = [f \in Frames |-> IF f \in gone THEN Zero ELSE t.data[f]]
    OBVIOUS
  <2> HIDE DEF v
  <2>2. QED BY <1>1, <1>2, <1>3, <2>1, DroppedBy
<1>10. \A x \in Tables : b.table[x] = IF x \in {} THEN None ELSE t.space[s].table[x]
  BY <1>8
<1>11. \A va \in Vas : b.pt[va] = IF va \in K THEN None ELSE t.space[s].pt[va]
  BY <1>7, <1>8
<1> HIDE DEF v
<1>12. u = [space |-> [t.space EXCEPT ![s] = b], ref |-> v.ref, data |-> v.data, free |-> v.free]
  BY <1>5, <1>6
<1>13. QED BY <1>1, <1>8, <1>9, <1>10, <1>11, <1>12, ReleaseBy DEF H, K

-----------------------------------------------------------------------------
(* page_insert.                                                             *)

\* The page table of va is there afterwards, and no other has changed.
Walked(t, u, s, va) ==
    /\ t.space[s].table[va \div PDENTRIES] # None =>
          u.space[s].table = t.space[s].table /\ t.free \subseteq u.free
    /\ t.space[s].table[va \div PDENTRIES] = None =>
          \E g \in t.free : /\ u.space[s].table = [t.space[s].table EXCEPT ![va \div PDENTRIES] = g]
                            /\ t.free \ {g} \subseteq u.free

LEMMA SamePages ==
  ASSUME NEW t, NEW u, NEW f,
         \A q \in Spaces, w \in Vas : \/ Pt(u, q, w) = Pt(t, q, w)
                                      \/ /\ ~(Pt(u, q, w) # None /\ Pt(u, q, w).frame = f)
                                         /\ ~(Pt(t, q, w) # None /\ Pt(t, q, w).frame = f)
  PROVE  PagesOf(u, f) = PagesOf(t, f)
<1>1. ASSUME NEW q \in Spaces, NEW w \in Vas PROVE <<q, w>> \in PagesOf(u, f) <=> <<q, w>> \in PagesOf(t, f)
  BY InPages
<1>2. PagesOf(u, f) \in SUBSET (Spaces \X Vas) /\ PagesOf(t, f) \in SUBSET (Spaces \X Vas)
  BY PagesAre
<1>3. QED BY <1>1, <1>2, SameCells, Zenon

\* page_remove.
LEMMA RemoveOk ==
  ASSUME VmAssumption, NEW t, NEW r, Ok(t, r), NEW s \in Spaces, t.space[s] # None, NEW va \in Vas,
         NEW u, u = page_remove(t, s, va)
  PROVE  /\ Still(t, r, u)
         /\ Changes(t, u, s) /\ DataKept(t, u) /\ t.free \subseteq u.free /\ u.space[s].table = t.space[s].table
         /\ PtIs(t, u, s, va, None)
         /\ \A f \in Frames : ~(t.space[s].pt[va] # None /\ t.space[s].pt[va].frame = f) =>
               u.ref[f] = t.ref[f] /\ u.data[f] = t.data[f] /\ (f \in u.free <=> f \in t.free)
<1> DEFINE K == {va}
           L == {}
<1>1. IsRelease(t, u, s, K, L)
  BY RemoveIs
<1>2. L = {} /\ \A w : w \in K <=> w = va
  OBVIOUS
<1>a. K \in SUBSET Vas
  OBVIOUS
<1>b. L \in SUBSET Tables
  OBVIOUS
<1>c. L # {} => K = Vas
  OBVIOUS
<1> HIDE DEF K, L
<1>3. /\ Still(t, r, u)
      /\ Changes(t, u, s) /\ DataKept(t, u) /\ t.free \subseteq u.free
      /\ PtGone(t, u, s, K)
  BY <1>1, <1>a, <1>b, <1>c, ReleaseOk
<1>4. u.space[s].table = t.space[s].table
  <2>1. \A z \in Tables : u.space[s].table[z] = t.space[s].table[z]
    BY <1>1, <1>2 DEF IsRelease
  <2>2. u.space[s].table \in [Tables -> Frames \cup {None}] /\ t.space[s].table \in [Tables -> Frames \cup {None}]
    <3>1. u \in Mem /\ t \in Mem /\ u.space[s] # None
      BY <1>1 DEF Ok, Placed, IsRelease
    <3>2. QED BY <3>1, SpaceFields
  <2>3. QED BY <2>1, <2>2
<1>5. ASSUME NEW f \in Frames, ~(t.space[s].pt[va] # None /\ t.space[s].pt[va].frame = f)
      PROVE  u.ref[f] = t.ref[f] /\ u.data[f] = t.data[f] /\ (f \in u.free <=> f \in t.free)
  <2>1. f \notin Held(t, s, K, L)
    BY <1>2, <1>5 DEF Held
  <2>2. QED BY <1>1, <2>1 DEF IsRelease
<1>6. PtIs(t, u, s, va, None)
  BY <1>2, <1>3 DEF PtIs, PtGone
<1>7. QED BY <1>3, <1>4, <1>5, <1>6

\* The two cases of page_insert.
LEMMA InsertIs ==
  ASSUME NEW t, NEW s, NEW va, NEW f, NEW perm, NEW u, u = page_insert(t, s, f, va, perm),
         NEW v, v = pgdir_walk(t, s, va), NEW y, y = page_remove(v, s, va)
  PROVE  u = IF v.space[s].pt[va] # None /\ v.space[s].pt[va].frame = f
             THEN SetPage(v, s, va, f, perm)
             ELSE WithPage(y, s, va, f, perm)
<1> DEFINE Set(z) == [z EXCEPT !.space[s].pt[va] = Entry(f, perm)]
           Count(z) == [Set(z) EXCEPT !.ref[f] = (@ + 1) % REFS]
           Wd(z) == IF z.space[s].pt[va] # None /\ z.space[s].pt[va].frame = f THEN Set(z)
                    ELSE On(page_remove(z, s, va), Count)
<1>1. u = On(v, Wd)
  BY DEF page_insert
<1>2. u = Wd(v)
  <2> HIDE DEF Wd
  <2> QED BY <1>1, Zenon DEF On
<1>3. On(y, Count) = Count(y)
  <2> HIDE DEF Count
  <2> QED BY Zenon DEF On
<1>4. CASE v.space[s].pt[va] # None /\ v.space[s].pt[va].frame = f
  BY <1>2, <1>4 DEF SetPage
<1>5. CASE ~(v.space[s].pt[va] # None /\ v.space[s].pt[va].frame = f)
  <2>1. u = On(y, Count)
    BY <1>2, <1>5
  <2>2. u = Count(y)
    BY <1>3, <2>1, Zenon
  <2>3. QED BY <1>5, <2>2 DEF WithPage
<1>6. QED BY <1>4, <1>5

\* An entry for a page of va, whatever was there before.
LEMMA InsertOk ==
  ASSUME VmAssumption, NEW t, NEW r, Ok(t, r), NEW s \in Spaces, t.space[s] # None, NEW va \in Vas,
         t.space[s].table[va \div PDENTRIES] # None \/ t.free # {},
         NEW f \in Frames, f \notin t.free, r[f] = Role("page", New, va), t.ref[f] = Cardinality(PagesOf(t, f)),
         NEW perm \in SUBSET PTE_SYSCALL, NEW u, u = page_insert(t, s, f, va, perm)
  PROVE  /\ Still(t, r, u)
         /\ Changes(t, u, s) /\ DataKept(t, u) /\ Walked(t, u, s, va)
         /\ PtIs(t, u, s, va, Entry(f, perm))
<1> DEFINE v == pgdir_walk(t, s, va)
           x == va \div PDENTRIES
           y == page_remove(v, s, va)
<1>0. PICK r1 : WalkedBy(t, r, v, r1, s, va)
  BY WalkOk
<1>1. /\ Ok(v, r1) /\ Changes(t, v, s) /\ DataKept(t, v)
      /\ \A g \in Frames \ t.free : r1[g] = r[g] /\ v.ref[g] = t.ref[g] /\ g \notin v.free
      /\ \A q \in Spaces, w \in Vas : Pt(v, q, w) = Pt(t, q, w)
      /\ v.space[s].table[x] # None
      /\ t.space[s].table[x] # None => v = t
      /\ t.space[s].table[x] = None =>
            /\ v.free = t.free \ {Fresh(t)}
            /\ v.space[s].table = [t.space[s].table EXCEPT ![x] = Fresh(t)]
  BY <1>0, Zenon DEF WalkedBy
<1>2. u = IF v.space[s].pt[va] # None /\ v.space[s].pt[va].frame = f
          THEN SetPage(v, s, va, f, perm)
          ELSE WithPage(y, s, va, f, perm)
  BY InsertIs
<1>a. Ok(v, r1)
  BY <1>1
<1>3. v.space[s] # None /\ v.space[s].pt[va] = Pt(v, s, va)
  BY <1>1 DEF Changes, Pt
<1>4. PagesOf(v, f) = PagesOf(t, f)
  BY <1>1 DEF PagesOf
<1>5. Fresh(t) \in t.free \/ t.space[s].table[x] # None
  BY FreshIsFree DEF Ok, Placed
<1>6. ASSUME v.free \subseteq u.free, u.space[s].table = v.space[s].table PROVE Walked(t, u, s, va)
  BY <1>1, <1>5, <1>6 DEF Walked
<1> HIDE DEF v, x, y
<1>7. CASE v.space[s].pt[va] # None /\ v.space[s].pt[va].frame = f
  <2>1. u = SetPage(v, s, va, v.space[s].pt[va].frame, perm)
    BY <1>2, <1>7
  <2>2. /\ Ok(u, r1) /\ Changes(v, u, s) /\ u.data = v.data /\ u.free = v.free /\ u.ref = v.ref
        /\ u.space[s].table = v.space[s].table
        /\ PtIs(v, u, s, va, Entry(v.space[s].pt[va].frame, perm))
    BY <1>a, <1>3, <1>7, <2>1, SetPermOk
  <2>3. Changes(t, u, s)
    BY <1>1, <2>2, ChangesCompose
  <2>4. DataKept(t, u)
    BY <1>1, <2>2 DEF DataKept
  <2>5. Walked(t, u, s, va)
    BY <1>6, <2>2
  <2>6. PtIs(t, u, s, va, Entry(f, perm))
    BY <1>1, <1>7, <2>2 DEF PtIs
  <2>7. \A g \in Frames : g \notin t.free /\ g \notin u.free => r1[g] = r[g]
    BY <1>1
  <2>8. QED BY <2>2, <2>3, <2>4, <2>5, <2>6, <2>7 DEF Still
<1>8. CASE ~(v.space[s].pt[va] # None /\ v.space[s].pt[va].frame = f)
  <2>4. /\ Still(v, r1, y)
        /\ Changes(v, y, s) /\ DataKept(v, y) /\ v.free \subseteq y.free /\ y.space[s].table = v.space[s].table
        /\ PtIs(v, y, s, va, None)
        /\ \A g \in Frames : ~(v.space[s].pt[va] # None /\ v.space[s].pt[va].frame = g) =>
              y.ref[g] = v.ref[g] /\ y.data[g] = v.data[g] /\ (g \in y.free <=> g \in v.free)
    BY <1>a, <1>3, RemoveOk DEF y
  <2>5. PICK r2 : Ok(y, r2) /\ \A g \in Frames : g \notin y.free => r2[g] = r1[g]
    BY <2>4 DEF Still
  <2>7. y.ref[f] = v.ref[f] /\ (f \in y.free <=> f \in v.free)
    BY <1>8, <2>4
  <2>8. f \notin y.free /\ y.ref[f] = t.ref[f] /\ r2[f] = Role("page", New, va)
    BY <1>1, <2>5, <2>7
  <2>9. y.space[s] # None /\ y.space[s].pt[va] = None /\ y.space[s].pt[va] = Pt(y, s, va)
    <3>1. Pt(y, s, va) = None /\ y.space[s] # None
      BY <2>4 DEF Changes, PtIs
    <3>2. QED BY <3>1 DEF Pt
  <2>10. PagesOf(y, f) = PagesOf(v, f)
    <3>1. ASSUME NEW q \in Spaces, NEW w \in Vas
          PROVE \/ Pt(y, q, w) = Pt(v, q, w)
                \/ /\ ~(Pt(y, q, w) # None /\ Pt(y, q, w).frame = f)
                   /\ ~(Pt(v, q, w) # None /\ Pt(v, q, w).frame = f)
      BY <1>3, <1>8, <2>4 DEF PtIs
    <3>2. QED BY <3>1, SamePages
  <2>11. y.ref[f] = Cardinality(PagesOf(y, f))
    BY <1>4, <2>8, <2>10
  <2>12. y.space[s].table = v.space[s].table
    BY <2>4
  <2>13. u = WithPage(y, s, va, f, perm)
    BY <1>2, <1>8
  <2>14. y.space[s].table[va \div PDENTRIES] # None
    BY <1>1, <2>12 DEF x
  <2>15. /\ Ok(u, r2) /\ Changes(y, u, s) /\ u.data = y.data /\ u.free = y.free
         /\ u.space[s].table = y.space[s].table
         /\ PtIs(y, u, s, va, Entry(f, perm))
    <3>1. Ok(y, r2)
      BY <2>5
    <3>2. y.space[s] # None /\ y.space[s].pt[va] = None
      BY <2>9
    <3>3. f \notin y.free /\ r2[f] = Role("page", New, va)
      BY <2>8
    <3> HIDE DEF y
    <3>4. /\ Ok(u, r2) /\ Changes(y, u, s) /\ u.data = y.data /\ u.free = y.free
          /\ u.ref = [y.ref EXCEPT ![f] = @ + 1] /\ u.space[s].table = y.space[s].table
          /\ PtIs(y, u, s, va, Entry(f, perm))
      BY <2>11, <2>13, <2>14, <3>1, <3>2, <3>3, AddPageOk
    <3>5. QED BY <3>4
  <2>16. Changes(t, u, s)
    BY <1>1, <2>4, <2>15, ChangesCompose
  <2>17. DataKept(t, u)
    BY <1>1, <2>4, <2>15 DEF DataKept
  <2>18. Walked(t, u, s, va)
    BY <1>6, <2>4, <2>12, <2>15
  <2>19. PtIs(t, u, s, va, Entry(f, perm))
    BY <1>1, <2>4, <2>15 DEF PtIs
  <2>20. \A g \in Frames : g \notin t.free /\ g \notin u.free => r2[g] = r[g]
    BY <1>1, <2>5, <2>15
  <2>21. QED BY <2>15, <2>16, <2>17, <2>18, <2>19, <2>20 DEF Still
<1>9. QED BY <1>7, <1>8

\* The memory without the frame that page_alloc takes, and the only entry for
\* a frame.
Took(t) == [t EXCEPT !.free = @ \ {Fresh(t)}]
Only(t, g, s, va) == PagesOf(t, g) = {<<s, va>>}

\* A new page of zeros at va.
LEMMA NewOk ==
  ASSUME VmAssumption, NEW t, NEW r, Ok(t, r), NEW s \in Spaces, t.space[s] # None, NEW va \in Vas,
         t.free # {}, t.space[s].table[va \div PDENTRIES] # None \/ t.free # {Fresh(t)},
         NEW perm \in SUBSET PTE_SYSCALL, NEW u, u = page_new(t, s, va, perm)
  PROVE  /\ Still(t, r, u)
         /\ Changes(t, u, s) /\ DataKept(t, u) /\ u.data[Fresh(t)] = Zero
         /\ Fresh(t) \in t.free /\ Fresh(t) \in Frames /\ Only(u, Fresh(t), s, va)
         /\ Walked(Took(t), u, s, va)
         /\ PtIs(t, u, s, va, Entry(Fresh(t), perm))
<1> DEFINE g == Fresh(t)
           v == page_alloc(t)
           use == Role("page", New, va)
           r1 == [r EXCEPT ![g] = use]
<1>1. t \in Mem /\ r \in Roles /\ g \in t.free /\ g \in Frames /\ t.free \subseteq Frames /\ Placed(t, r)
  BY FreshIsFree, MemFields DEF Ok, Placed
<1>2. use \in Uses_
  BY TableOf DEF Uses_, Role, Spaces
<1>3. Ok(v, r1) /\ PagesOf(v, g) = {} /\ StacksOf(v, g) = {}
  BY <1>2, AllocOk
<1>4. /\ v.space = t.space /\ v.ref = [t.ref EXCEPT ![g] = 0]
      /\ v.data = [t.data EXCEPT ![g] = Zero] /\ v.free = t.free \ {g}
  BY <1>1, AllocIs
<1>5. u = page_insert(v, s, g, va, perm)
  BY Zenon DEF page_new, On
<1>6. r1[g] = use /\ \A f \in Frames \ {g} : r1[f] = r[f]
  BY <1>1 DEF Roles
<1>7. v.ref[g] = Cardinality(PagesOf(v, g)) /\ g \notin v.free /\ v.data[g] = Zero
  BY <1>1, <1>3, <1>4, MemFields, FS_EmptySet
<1>8. /\ v.space[s] # None
      /\ v.space[s].table[va \div PDENTRIES] # None \/ v.free # {}
  BY <1>4
<1>9. Walked(Took(t), u, s, va) <=> Walked(v, u, s, va)
  <2>1. /\ [t EXCEPT !.free = @ \ {g}].space = v.space /\ [t EXCEPT !.free = @ \ {g}].free = v.free
    BY <1>1, <1>4 DEF Mem
  <2> HIDE DEF v, g
  <2> DEFINE y == [t EXCEPT !.free = @ \ {g}]
  <2>2. y.space = v.space /\ y.free = v.free
    BY <2>1 DEF y
  <2>3. Walked(y, u, s, va) <=> Walked(v, u, s, va)
    BY <2>2 DEF Walked
  <2>4. y = Took(t)
    BY DEF y, Took, g
  <2>5. QED BY <2>3, <2>4
<1> HIDE DEF v, g, r1
<1>10. /\ Still(v, r1, u)
       /\ Changes(v, u, s) /\ DataKept(v, u) /\ Walked(v, u, s, va)
       /\ PtIs(v, u, s, va, Entry(g, perm))
  <2>1. Ok(v, r1) /\ g \in Frames /\ r1[g] = Role("page", New, va)
    BY <1>1, <1>3, <1>6
  <2>2. QED BY <1>5, <1>7, <1>8, <2>1, InsertOk
<1>11. PICK r2 : Ok(u, r2) /\ \A f \in Frames : f \notin v.free /\ f \notin u.free => r2[f] = r1[f]
  BY <1>10 DEF Still
<1>12. \A q \in Spaces, w \in Vas : Pt(v, q, w) = Pt(t, q, w)
  BY <1>4 DEF Pt
<1>13. PtIs(t, u, s, va, Entry(g, perm))
  BY <1>10, <1>12 DEF PtIs
<1>14. \A f \in Frames : f \notin t.free /\ f \notin u.free => r2[f] = r[f]
  BY <1>1, <1>4, <1>6, <1>11
<1>15. DataKept(t, u)
  BY <1>1, <1>4, <1>10, MemFields DEF DataKept
<1>16. Entry(g, perm) # None /\ Entry(g, perm).frame = g
  <2>1. Entry(g, perm) \in Entries
    BY <1>1 DEF Entry, Entries
  <2>2. QED BY <2>1, Layout DEF Entry
<1>17. g \notin u.free
  <2>1. Pt(u, s, va) = Entry(g, perm)
    BY <1>13 DEF PtIs
  <2>2. QED BY <1>11, <1>16, <2>1, PtFrame DEF Ok
<1>18. u.data[g] = Zero
  BY <1>1, <1>7, <1>10, <1>17 DEF DataKept
<1>19. PagesOf(u, g) = {<<s, va>>}
  <2>1. ASSUME NEW q \in Spaces, NEW w \in Vas PROVE <<q, w>> \in PagesOf(u, g) <=> <<q, w>> \in {<<s, va>>}
    <3>1. <<q, w>> \in PagesOf(u, g) <=> Pt(u, q, w) # None /\ Pt(u, q, w).frame = g
      BY InPages
    <3>2. ~(Pt(v, q, w) # None /\ Pt(v, q, w).frame = g)
      BY <1>3, InPages
    <3>3. <<q, w>> \in {<<s, va>>} <=> q = s /\ w = va
      OBVIOUS
    <3>4. QED BY <1>10, <1>16, <3>1, <3>2, <3>3 DEF PtIs
  <2>2. PagesOf(u, g) \in SUBSET (Spaces \X Vas) /\ {<<s, va>>} \in SUBSET (Spaces \X Vas)
    BY PagesAre
  <2> DEFINE C == {<<s, va>>}
  <2> HIDE DEF C
  <2>3. C \in SUBSET (Spaces \X Vas) /\ \A q \in Spaces, w \in Vas : <<q, w>> \in PagesOf(u, g) <=> <<q, w>> \in C
    BY <2>1, <2>2 DEF C
  <2>4. PagesOf(u, g) = C
    BY <2>2, <2>3, SameCells, Zenon
  <2>5. QED BY <2>4 DEF C
<1>20. Changes(t, u, s)
  <2>1. /\ \A q \in Spaces \ {s} : u.space[q] = t.space[q]
        /\ u.space[s] # None /\ u.space[s].dir = t.space[s].dir
        /\ u.space[s].ktable = t.space[s].ktable /\ u.space[s].kstack = t.space[s].kstack
    BY <1>4, <1>10 DEF Changes
  <2>2. QED BY <1>1, <1>11, <1>15, <2>1, ChangesBy DEF Ok
<1>21. Still(t, r, u)
  BY <1>11, <1>14 DEF Still
<1>22. Walked(Took(t), u, s, va)
  BY <1>9, <1>10
<1>23. QED BY <1>1, <1>13, <1>15, <1>18, <1>19, <1>20, <1>21, <1>22 DEF g, Only

-----------------------------------------------------------------------------
(* duppage and cow_pgfault.                                                 *)

\* Every address space stays, and so do its directory and kernel stack.
Lives(t, u) ==
    \A q \in Spaces : /\ u.space[q] = None <=> t.space[q] = None
                      /\ u.space[q] # None => /\ u.space[q].dir = t.space[q].dir /\ u.space[q].kstack = t.space[q].kstack
                                              /\ u.space[q].ktable = t.space[q].ktable

Holds(t) == \E r : Ok(t, r)

LEMMA LivesBy ==
  ASSUME NEW t, NEW u, NEW s \in Spaces, t.space[s] # None, Changes(t, u, s)
  PROVE  Lives(t, u)
BY DEF Changes, Lives

LEMMA Rights == ASSUME NEW perm \in SUBSET {"W", "COW"} PROVE perm \in SUBSET PTE_SYSCALL
BY DEF PTE_SYSCALL

LEMMA EntryIs ==
  ASSUME VmAssumption, NEW f \in Frames, NEW perm \in SUBSET PTE_SYSCALL
  PROVE  Entry(f, perm) \in Entries /\ Entry(f, perm) # None /\ Entry(f, perm).frame = f /\ Entry(f, perm).perm = perm
<1>1. Entry(f, perm) \in Entries
  BY DEF Entry, Entries
<1>2. QED BY <1>1, Layout DEF Entry

\* The rights of both copies.
Copied(perm) == IF "SHARE" \in perm THEN perm ELSE IF perm \cap {"W", "COW"} # {} THEN {"COW"} ELSE {}

\* duppage shares the frame.
LEMMA DupOk ==
  ASSUME VmAssumption, NEW t, NEW r, Ok(t, r), NEW p \in Spaces, t.space[p] # None,
         NEW c \in Spaces, t.space[c] # None, p # c,
         NEW va \in Vas, t.space[p].pt[va] # None, t.free # {}, NEW u, u = duppage(t, p, c, va)
  PROVE  /\ Holds(u) /\ Lives(t, u) /\ DataKept(t, u)
         /\ \A q \in Spaces, w \in Vas :
               Pt(u, q, w) = IF q \in {p, c} /\ w = va THEN Entry(Pt(t, p, va).frame, Copied(Pt(t, p, va).perm))
                             ELSE Pt(t, q, w)
<1> DEFINE e == t.space[p].pt[va]
           f == e.frame
           perm == IF e.perm \cap {"W", "COW"} # {} THEN {"COW"} ELSE {}
           v == page_insert(t, c, f, va, IF "SHARE" \in e.perm THEN e.perm ELSE perm)
           h == IF "SHARE" \in e.perm THEN e.perm ELSE perm
           Mine(z) == IF perm = {} THEN z ELSE user_page_map(z, p, va, p, va, perm)
<1>1. t \in Mem /\ Placed(t, r) /\ Owns(t, r, p)
  BY DEF Ok, Placed
<1>2. Pt(t, p, va) = e
  BY DEF Pt
<1>3. e \in Entries /\ f \in Frames /\ f \notin t.free /\ r[f] = Role("page", New, va) /\ e.perm \in SUBSET PTE_SYSCALL
  BY <1>1, <1>2, PtFrame DEF Entries
<1>4. h \in SUBSET PTE_SYSCALL /\ perm \in SUBSET PTE_SYSCALL /\ h = Copied(e.perm)
  BY <1>3 DEF Copied, PTE_SYSCALL
<1>5. t.ref[f] = Cardinality(PagesOf(t, f))
  <2>1. <<p, va>> \in PagesOf(t, f)
    BY <1>2, InPages
  <2>2. QED BY <1>3, <2>1 DEF Ok, Counted
<1>6. v = page_insert(t, c, f, va, h)
  OBVIOUS
<1>7. u = IF "SHARE" \in e.perm THEN v ELSE Mine(v)
  <2>1. CASE "SHARE" \in e.perm
    BY <2>1 DEF duppage, user_page_map
  <2>2. CASE "SHARE" \notin e.perm
    <3>1. u = On(v, Mine)
      BY <2>2 DEF duppage, user_page_map
    <3>2. On(v, Mine) = Mine(v)
      <4> HIDE DEF Mine, v
      <4> QED BY Zenon DEF On
    <3>3. QED BY <2>2, <3>1, <3>2, Zenon
  <2>3. QED BY <2>1, <2>2
<1> HIDE DEF v, e, f, perm, h
<1>8. /\ Still(t, r, v) /\ Changes(t, v, c) /\ DataKept(t, v) /\ Walked(t, v, c, va)
      /\ PtIs(t, v, c, va, Entry(f, h))
  BY <1>3, <1>4, <1>5, <1>6, InsertOk
<1>9. PICK r2 : Ok(v, r2)
  BY <1>8 DEF Still
<1>10. /\ v.space[p] = t.space[p] /\ v.space[p] # None /\ v.space[p].pt[va] = e /\ v.space[p].table[va \div PDENTRIES] # None
       /\ Pt(v, p, va) = e
  BY <1>1, <1>2, <1>8 DEF Changes, Owns, e, Pt
<1>11. Lives(t, v) /\ Holds(v)
  BY <1>8, <1>9, LivesBy DEF Holds
<1>12. CASE "SHARE" \in e.perm \/ perm = {}
  <2>1. u = v
    BY <1>7, <1>12
  <2>2. e = Entry(f, h)
    <3>1. h = e.perm
      BY <1>3, <1>12 DEF h, perm, PTE_SYSCALL
    <3>2. QED BY <1>3, <3>1 DEF Entry, Entries, f
  <2>3. QED BY <1>2, <1>4, <1>8, <1>11, <2>1, <2>2 DEF PtIs, f
<1>13. CASE "SHARE" \notin e.perm /\ perm # {}
  <2>1. h = perm
    BY <1>13 DEF h
  <2>2. u = page_insert(v, p, f, va, h)
    BY <1>7, <1>10, <1>13, <2>1 DEF user_page_map, f
  <2>3. PtIs(v, u, p, va, Entry(f, h)) /\ Changes(v, u, p) /\ Still(v, r2, u) /\ u.data = v.data /\ u.free = v.free
    <3> DEFINE y == pgdir_walk(v, p, va)
               z == page_remove(y, p, va)
    <3>1. y = v
      BY <1>10 DEF pgdir_walk
    <3>2. u = IF y.space[p].pt[va] # None /\ y.space[p].pt[va].frame = f THEN SetPage(y, p, va, f, h)
              ELSE WithPage(z, p, va, f, h)
      BY <2>2, InsertIs
    <3> HIDE DEF y, z
    <3>3. e # None /\ e.frame = f
      BY DEF e, f
    <3>4. u = SetPage(v, p, va, v.space[p].pt[va].frame, h)
      BY <1>10, <3>1, <3>2, <3>3
    <3>5. /\ Ok(u, r2) /\ Changes(v, u, p) /\ u.data = v.data /\ u.free = v.free /\ u.ref = v.ref
          /\ u.space[p].table = v.space[p].table
          /\ PtIs(v, u, p, va, Entry(v.space[p].pt[va].frame, h))
      <4>1. v.space[p].pt[va] # None
        BY <1>10, <3>3
      <4>2. QED BY <1>4, <1>9, <1>10, <3>4, <4>1, SetPermOk
    <3>6. QED BY <1>10, <3>3, <3>5 DEF Still
  <2>4. Lives(v, u)
    BY <1>10, <2>3, LivesBy
  <2>5. Lives(t, u)
    BY <1>11, <2>4 DEF Lives
  <2>6. DataKept(t, u)
    BY <1>8, <2>3 DEF DataKept
  <2>7. \A q \in Spaces, w \in Vas : Pt(u, q, w) = IF q \in {p, c} /\ w = va THEN Entry(f, h) ELSE Pt(t, q, w)
    BY <1>8, <2>3 DEF PtIs
  <2>8. Holds(u)
    BY <2>3 DEF Still, Holds
  <2>9. QED BY <1>2, <1>4, <2>5, <2>6, <2>7, <2>8 DEF f
<1>14. QED BY <1>12, <1>13

\* A page moves from one address to another.
MovePage(t, s, from, va, e) == [t EXCEPT !.space[s].pt = [@ EXCEPT ![va] = e, ![from] = None]]

PtMoved(t, u, s, from, va, e) ==
    \A q \in Spaces, w \in Vas :
       Pt(u, q, w) = IF q = s /\ w = va THEN e ELSE IF q = s /\ w = from THEN None ELSE Pt(t, q, w)

LEMMA MoveOk ==
  ASSUME VmAssumption, NEW t, NEW r, Ok(t, r), NEW s \in Spaces, t.space[s] # None, NEW va \in Vas, NEW from \in Vas,
         va # from, t.space[s].pt[va] = None, t.space[s].table[va \div PDENTRIES] # None,
         NEW g \in Frames, NEW perm \in SUBSET PTE_SYSCALL, t.space[s].pt[from] = Entry(g, perm),
         Only(t, g, s, from),
         NEW u, u = MovePage(t, s, from, va, Entry(g, perm))
  PROVE  /\ Holds(u) /\ Changes(t, u, s) /\ u.data = t.data /\ u.free = t.free
         /\ PtMoved(t, u, s, from, va, Entry(g, perm))
<1> DEFINE a == t.space[s]
           b == u.space[s]
           e == Entry(g, perm)
           use == Role("page", New, va)
           r2 == [r EXCEPT ![g] = use]
<1>1. t \in Mem /\ r \in Roles /\ Owns(t, r, s) /\ Placed(t, r) /\ Counted(t)
  BY DEF Ok, Placed
<1>2. /\ u.space = [t.space EXCEPT ![s].pt = [@ EXCEPT ![va] = e, ![from] = None]]
      /\ u.ref = t.ref /\ u.data = t.data /\ u.free = t.free
  BY <1>1 DEF Mem, MovePage
<1>3. u = [space |-> u.space, ref |-> u.ref, data |-> u.data, free |-> u.free]
  BY <1>1 DEF Mem, MovePage
<1>4. \A q \in Spaces \ {s} : u.space[q] = t.space[q]
  BY <1>1, <1>2, MemFields
<1>5. b = [a EXCEPT !.pt = [@ EXCEPT ![va] = e, ![from] = None]]
  BY <1>1, <1>2, MemFields
<1>6. a \in Space /\ a # None /\ a.pt[va] = None /\ a.pt[from] = e
  BY <1>1, SpaceFields
<1>e. e \in Entries /\ e # None /\ e.frame = g
  BY EntryIs
<1>u. use \in Uses_ /\ \A k, z, x : Role(k, z, x).kind = k
  BY TableOf DEF Uses_, Role, Spaces
<1>r. r2 \in Roles /\ r2[g] = use /\ \A f \in Frames \ {g} : r2[f] = r[f]
  BY <1>1, <1>u DEF Roles
<1>t. a.table[va \div PDENTRIES] # None
  OBVIOUS
<1>p. r[g] = Role("page", New, from) /\ g \notin t.free
  <2>1. Pt(t, s, from) = e
    BY <1>6 DEF Pt, a
  <2>2. QED BY <1>1, <1>e, <2>1, PtFrame
<1> HIDE DEF a, b, e, use, r2
<1>7. b \in Space /\ b.dir = a.dir /\ b.ktable = a.ktable /\ b.kstack = a.kstack /\ b.table = a.table
      /\ b.pt = [a.pt EXCEPT ![va] = e, ![from] = None]
  BY <1>5, <1>6, <1>e DEF Space
<1>8. b # None
  BY <1>7, Layout
<1>9. \A w \in Vas : b.pt[w] = IF w = va THEN e ELSE IF w = from THEN None ELSE a.pt[w]
  BY <1>6, <1>7 DEF Space
<1>10. ASSUME NEW q \in Spaces, NEW w \in Vas
       PROVE Pt(u, q, w) = IF q = s /\ w = va THEN e ELSE IF q = s /\ w = from THEN None ELSE Pt(t, q, w)
  <2>1. CASE q # s
    BY <1>4, <2>1 DEF Pt
  <2>2. CASE q = s
    BY <1>6, <1>8, <1>9, <2>2 DEF Pt, a, b
  <2>3. QED BY <2>1, <2>2
<1>11. Pt(t, s, va) = None /\ Pt(t, s, from) = e
  BY <1>6 DEF Pt, a
<1>12. ASSUME NEW f, f # g PROVE PagesOf(u, f) = PagesOf(t, f)
  <2>1. ASSUME NEW q \in Spaces, NEW w \in Vas
        PROVE \/ Pt(u, q, w) = Pt(t, q, w)
              \/ /\ ~(Pt(u, q, w) # None /\ Pt(u, q, w).frame = f)
                 /\ ~(Pt(t, q, w) # None /\ Pt(t, q, w).frame = f)
    BY <1>10, <1>11, <1>12, <1>e
  <2>2. QED BY <2>1, SamePages
<1>i. \A f, q, w : q \in Spaces /\ w \in Vas => (<<q, w>> \in PagesOf(t, f) <=> Pt(t, q, w) # None /\ Pt(t, q, w).frame = f)
  BY InPages
<1>13. PagesOf(u, g) = {<<s, va>>}
  <2> DEFINE C == {<<s, va>>}
  <2>1. ASSUME NEW q \in Spaces, NEW w \in Vas PROVE <<q, w>> \in PagesOf(u, g) <=> <<q, w>> \in C
    <3>1. <<q, w>> \in PagesOf(u, g) <=> Pt(u, q, w) # None /\ Pt(u, q, w).frame = g
      BY InPages
    <3>2. <<q, w>> \in PagesOf(t, g) <=> Pt(t, q, w) # None /\ Pt(t, q, w).frame = g
      BY <1>i
    <3>3. <<q, w>> \in {<<s, from>>} <=> q = s /\ w = from
      OBVIOUS
    <3>4. <<q, w>> \in C <=> q = s /\ w = va
      OBVIOUS
    <3>5. QED BY <1>10, <1>e, <3>1, <3>2, <3>3, <3>4 DEF Only
  <2>2. PagesOf(u, g) \in SUBSET (Spaces \X Vas) /\ C \in SUBSET (Spaces \X Vas)
    BY PagesAre
  <2> HIDE DEF C
  <2>3. PagesOf(u, g) = C
    BY <2>1, <2>2, SameCells, Zenon
  <2>4. QED BY <2>3 DEF C
<1>14. \A f : StacksOf(u, f) = StacksOf(t, f)
  BY <1>4, <1>6, <1>7, <1>8 DEF StacksOf, a, b
<1>15. ASSUME NEW q \in Spaces, u.space[q] # None PROVE Owns(u, r2, q)
  <2>1. /\ t.space[q] # None /\ t.space[q] \in Space /\ Owns(t, r, q) /\ u.space[q].dir = t.space[q].dir
        /\ u.space[q].ktable = t.space[q].ktable
        /\ u.space[q].kstack = t.space[q].kstack /\ u.space[q].table = t.space[q].table
    BY <1>1, <1>4, <1>6, <1>7, <1>15, SpaceFields DEF a, b, Placed
  <2>2. \A f : r[f] # Role("page", New, from) => f # g
    BY <1>p
  <2>3. /\ r2[t.space[q].dir] = Role("dir", q, 0)
        /\ t.space[q].ktable # None => r2[t.space[q].ktable] = Role("ktable", q, 0)
        /\ t.space[q].kstack # None => r2[t.space[q].kstack] = Role("stack", New, 0)
        /\ \A x \in Tables : t.space[q].table[x] # None => r2[t.space[q].table[x]] = Role("table", q, x)
    <3>1. \A f \in Frames : r[f].kind # "page" => r2[f] = r[f]
      BY <1>p, <1>r, <1>u
    <3>2. QED BY <1>u, <2>1, <3>1 DEF Owns, Space
  <2>4. ASSUME NEW w \in Vas, u.space[q].pt[w] # None
        PROVE  r2[u.space[q].pt[w].frame] = Role("page", New, w) /\ u.space[q].table[w \div PDENTRIES] # None
    <3>1. Pt(u, q, w) = u.space[q].pt[w] /\ Pt(t, q, w) = t.space[q].pt[w]
      BY <1>15, <2>1 DEF Pt
    <3>2. CASE q = s /\ w = va
      <4>1. u.space[q].pt[w] = e
        BY <1>10, <3>1, <3>2
      <4>2. r2[u.space[q].pt[w].frame] = Role("page", New, w)
        BY <1>e, <1>r, <3>2, <4>1 DEF use
      <4>3. u.space[q].table = a.table
        BY <1>7, <3>2 DEF b
      <4>4. QED BY <1>t, <3>2, <4>2, <4>3
    <3>3. CASE ~(q = s /\ w = va)
      <4>1. u.space[q].pt[w] = t.space[q].pt[w] /\ t.space[q].pt[w] # None
        BY <1>10, <2>4, <3>1, <3>3
      <4>2. r[t.space[q].pt[w].frame] = Role("page", New, w) /\ t.space[q].table[w \div PDENTRIES] # None
        BY <2>1, <4>1 DEF Owns
      <4>3. t.space[q].pt[w].frame \in Frames
        BY <1>1, <3>1, <4>1, PtFrame
      <4>4. t.space[q].pt[w].frame # g
        <5>1. SUFFICES ASSUME t.space[q].pt[w].frame = g PROVE FALSE
          OBVIOUS
        <5>2. <<q, w>> \in PagesOf(t, g)
          BY <3>1, <4>1, <5>1, InPages
        <5>3. q = s /\ w = from
          BY <5>2 DEF Only
        <5>4. QED BY <1>10, <2>4, <3>1, <5>3
      <4>5. QED BY <1>r, <2>1, <4>1, <4>2, <4>3, <4>4
    <3>4. QED BY <3>2, <3>3
  <2>5. QED BY <2>1, <2>3, <2>4 DEF Owns
<1>16. u \in Mem
  <2>1. u.space \in [Spaces -> Space \cup {None}]
    BY <1>1, <1>2, <1>4, <1>7, MemFields DEF b
  <2>2. QED BY <1>1, <1>2, <1>3, <2>1, MemFields, IsMem
<1>17. Placed(u, r2)
  <2>1. \A f \in u.free : r2[f].kind = "free"
    <3>1. \A f \in t.free : r[f].kind = "free" /\ f \in Frames /\ f # g
      BY <1>1, <1>p, MemFields DEF Placed
    <3>2. QED BY <1>2, <1>r, <3>1
  <2>2. QED BY <1>15, <1>16, <1>r, <2>1 DEF Placed
<1>18. Counted(u)
  <2>1. ASSUME NEW q \in Spaces, u.space[q] # None
        PROVE  /\ u.ref[u.space[q].dir] = 0
               /\ u.space[q].ktable # None => u.ref[u.space[q].ktable] = 1
               /\ \A y \in Tables : u.space[q].table[y] # None => u.ref[u.space[q].table[y]] = 1
    <3>1. /\ t.space[q] # None /\ u.space[q].dir = t.space[q].dir /\ u.space[q].ktable = t.space[q].ktable
          /\ u.space[q].table = t.space[q].table
      BY <1>4, <1>6, <1>7, <2>1 DEF a, b
    <3>2. /\ t.ref[t.space[q].dir] = 0
          /\ t.space[q].ktable # None => t.ref[t.space[q].ktable] = 1
          /\ \A y \in Tables : t.space[q].table[y] # None => t.ref[t.space[q].table[y]] = 1
      BY <1>1, <3>1 DEF Counted
    <3>3. QED BY <1>2, <3>1, <3>2
  <2>2. ASSUME NEW f \in Frames, PagesOf(u, f) # {} PROVE u.ref[f] = Cardinality(PagesOf(u, f))
    <3>1. CASE f = g
      <4>1. t.ref[g] = Cardinality(PagesOf(t, g))
        BY <1>1 DEF Counted, Only
      <4>2. Cardinality({<<s, from>>}) = 1 /\ Cardinality({<<s, va>>}) = 1
        BY FS_Singleton
      <4>3. QED BY <1>2, <1>13, <3>1, <4>1, <4>2 DEF Only
    <3>2. CASE f # g
      BY <1>1, <1>2, <1>12, <2>2, <3>2 DEF Counted
    <3>3. QED BY <3>1, <3>2
  <2>3. \A f \in Frames : StacksOf(u, f) # {} => u.ref[f] = Cardinality(StacksOf(u, f))
    BY <1>1, <1>2, <1>14 DEF Counted
  <2>4. QED BY <2>1, <2>2, <2>3 DEF Counted
<1>19. Changes(t, u, s)
  <2>1. DataKept(t, u)
    BY <1>2 DEF DataKept
  <2>2. QED BY <1>1, <1>4, <1>7, <1>8, <1>17, <2>1, ChangesBy DEF a, b
<1>20. Holds(u)
  BY <1>17, <1>18 DEF Holds, Ok
<1>21. QED BY <1>2, <1>10, <1>19, <1>20 DEF e, PtMoved

FillPage(t, g, x) == [t EXCEPT !.data[g] = x]

\* The steps of cow_pgfault.
LEMMA CowIs ==
  ASSUME NEW t, NEW p, NEW va
  PROVE  \E a, b, c, d :
            /\ a = page_new(t, p, PFTEMP, PTE_USTK)
            /\ b = FillPage(a, a.space[p].pt[PFTEMP].frame, a.data[a.space[p].pt[va].frame])
            /\ c = page_remove(b, p, va)
            /\ d = page_insert(c, p, c.space[p].pt[PFTEMP].frame, va, PTE_USTK)
            /\ cow_pgfault(t, p, va) = page_remove(d, p, PFTEMP)
<1> DEFINE u == cow_pgfault(t, p, va)
           a == page_new(t, p, PFTEMP, PTE_USTK)
           b == FillPage(a, a.space[p].pt[PFTEMP].frame, a.data[a.space[p].pt[va].frame])
           c == page_remove(b, p, va)
           d == page_insert(c, p, c.space[p].pt[PFTEMP].frame, va, PTE_USTK)
<1>0. /\ a = page_new(t, p, PFTEMP, PTE_USTK)
      /\ b = FillPage(a, a.space[p].pt[PFTEMP].frame, a.data[a.space[p].pt[va].frame])
      /\ c = page_remove(b, p, va)
      /\ d = page_insert(c, p, c.space[p].pt[PFTEMP].frame, va, PTE_USTK)
  OBVIOUS
<1> HIDE DEF a, b, c, d, u
<1> DEFINE Fill(z) == [z EXCEPT !.data[z.space[p].pt[PFTEMP].frame] = z.data[z.space[p].pt[va].frame]]
           Moved(z) == user_page_map(z, p, PFTEMP, p, va, PTE_USTK)
           Clear(z) == page_remove(z, p, PFTEMP)
           Map(z) == On(Moved(z), Clear)
           Unmap(z) == On(page_remove(z, p, va), Map)
           Copy(z) == On(Fill(z), Unmap)
<1>1. u = On(a, Copy)
  BY <1>0 DEF cow_pgfault, u
<1>2. On(a, Copy) = Copy(a)
  <2> HIDE DEF Copy
  <2> QED BY Zenon DEF On
<1>3. Fill(a) = b
  BY <1>0 DEF FillPage
<1>4. Copy(a) = On(b, Unmap)
  <2> HIDE DEF Fill, Unmap
  <2> QED BY <1>3
<1>5. On(b, Unmap) = Unmap(b)
  <2> HIDE DEF Unmap
  <2> QED BY Zenon DEF On
<1>6. Unmap(b) = On(c, Map)
  <2> HIDE DEF Map
  <2> QED BY <1>0
<1>7. On(c, Map) = Map(c)
  <2> HIDE DEF Map
  <2> QED BY Zenon DEF On
<1>8. Moved(c) = d
  BY <1>0 DEF user_page_map
<1>9. Map(c) = On(d, Clear)
  <2> HIDE DEF Moved, Clear
  <2> QED BY <1>8
<1>10. On(d, Clear) = Clear(d)
  <2> HIDE DEF Clear
  <2> QED BY Zenon DEF On
<1> HIDE DEF Copy, Unmap, Map
<1>11. u = Clear(d)
  BY <1>1, <1>2, <1>4, <1>5, <1>6, <1>7, <1>9, <1>10
<1>12. QED BY <1>0, <1>11, Zenon DEF u

\* The contents of a page that nobody else has.
LEMMA FillOk ==
  ASSUME VmAssumption, NEW t, NEW r, Ok(t, r), NEW g \in Frames, NEW x \in Vals, NEW u, u = FillPage(t, g, x)
  PROVE  /\ Ok(u, r) /\ u.space = t.space /\ u.ref = t.ref /\ u.free = t.free /\ u.data = [t.data EXCEPT ![g] = x]
         /\ \A q \in Spaces, w \in Vas : Pt(u, q, w) = Pt(t, q, w)
<1>1. t \in Mem
  BY DEF Ok, Placed
<1>2. u.space = t.space /\ u.ref = t.ref /\ u.free = t.free /\ u.data = [t.data EXCEPT ![g] = x]
  BY <1>1 DEF Mem, FillPage
<1>3. u = [space |-> u.space, ref |-> u.ref, data |-> u.data, free |-> u.free]
  BY <1>1 DEF Mem, FillPage
<1>4. u.data \in [Frames -> Vals]
  BY <1>1, <1>2, MemFields
<1>5. u \in Mem
  BY <1>1, <1>2, <1>3, <1>4, MemFields, IsMem
<1>6. \A q \in Spaces, w \in Vas : Pt(u, q, w) = Pt(t, q, w)
  BY <1>2 DEF Pt
<1>7. \A f : PagesOf(u, f) = PagesOf(t, f) /\ StacksOf(u, f) = StacksOf(t, f)
  BY <1>2 DEF PagesOf, StacksOf, Pt
<1>8. Placed(u, r)
  <2>1. \A s \in Spaces : u.space[s] # None => Owns(u, r, s)
    BY <1>2 DEF Ok, Placed, Owns
  <2>2. QED BY <1>2, <1>5, <2>1 DEF Ok, Placed
<1>9. Counted(u)
  BY <1>2, <1>7 DEF Ok, Counted
<1>10. QED BY <1>2, <1>6, <1>8, <1>9 DEF Ok

\* A page is mapped a second time and unmapped where it was.
LEMMA MappedTwice ==
  ASSUME VmAssumption, NEW t, NEW r, Ok(t, r), NEW s \in Spaces, t.space[s] # None, NEW va \in Vas, NEW from \in Vas,
         va # from, t.space[s].pt[va] = None, t.space[s].table[va \div PDENTRIES] # None,
         NEW g \in Frames, NEW perm \in SUBSET PTE_SYSCALL, t.space[s].pt[from] = Entry(g, perm),
         Only(t, g, s, from),
         NEW d, d = page_insert(t, s, g, va, perm), NEW u, u = page_remove(d, s, from)
  PROVE  u = MovePage(t, s, from, va, Entry(g, perm))
<1> DEFINE e == Entry(g, perm)
           b == [t.space[s] EXCEPT !.pt[va] = e]
           c == [t.space[s] EXCEPT !.pt = [@ EXCEPT ![va] = e, ![from] = None]]
<1>1. t \in Mem /\ t.space[s] \in Space /\ t.ref \in [Frames -> 0 .. REFS - 1] /\ t.space \in [Spaces -> Space \cup {None}]
      /\ t.data \in [Frames -> Vals] /\ t.free \subseteq Frames
  BY SpaceFields, MemFields DEF Ok, Placed
<1>2. e \in Entries /\ e # None /\ e.frame = g
  BY EntryIs
<1>3. t.ref[g] = 1 /\ REFS \in Nat /\ REFS > 2
  <2>1. Cardinality({<<s, from>>}) = 1
    BY FS_Singleton
  <2>2. t.ref[g] = Cardinality(PagesOf(t, g))
    BY DEF Ok, Counted, Only
  <2>3. Cardinality(Tables) \in Nat
    BY TablesNat, FS_CardinalityType
  <2>4. NFrames >= TextPages + 3 + Cardinality(Tables) /\ TextPages \in Nat /\ NFrames \in Nat /\ NFrames < REFS /\ REFS \in Nat
    BY DEF VmAssumption
  <2>5. QED BY <2>1, <2>2, <2>3, <2>4 DEF Only
<1>4. d = WithPage(t, s, va, g, perm)
  <2> DEFINE v == pgdir_walk(t, s, va)
             y == page_remove(v, s, va)
  <2>1. v = t
    BY DEF pgdir_walk
  <2>2. y = t
    BY <2>1 DEF page_remove
  <2>3. d = IF v.space[s].pt[va] # None /\ v.space[s].pt[va].frame = g THEN SetPage(v, s, va, g, perm)
            ELSE WithPage(y, s, va, g, perm)
    BY InsertIs
  <2> HIDE DEF v, y
  <2>4. QED BY <2>1, <2>2, <2>3
<1>5. /\ d.space = [t.space EXCEPT ![s] = b] /\ d.ref = [t.ref EXCEPT ![g] = 2]
      /\ d.data = t.data /\ d.free = t.free
      /\ d = [space |-> d.space, ref |-> d.ref, data |-> d.data, free |-> d.free]
  <2>1. /\ d.space = [t.space EXCEPT ![s].pt[va] = e] /\ d.ref = [t.ref EXCEPT ![g] = (@ + 1) % REFS]
        /\ d.data = t.data /\ d.free = t.free
        /\ d = [space |-> d.space, ref |-> d.ref, data |-> d.data, free |-> d.free]
    BY <1>1, <1>4 DEF Mem, WithPage
  <2>2. (t.ref[g] + 1) % REFS = 2
    BY <1>3
  <2>3. [t.space EXCEPT ![s].pt[va] = e] = [t.space EXCEPT ![s] = b]
    OBVIOUS
  <2>4. [t.ref EXCEPT ![g] = (@ + 1) % REFS] = [t.ref EXCEPT ![g] = 2]
    BY <2>2
  <2>5. QED BY <2>1, <2>3, <2>4, Zenon
<1>6. d.space[s] = b /\ b \in Space /\ b.pt = [t.space[s].pt EXCEPT ![va] = e] /\ d \in Mem
  <2>1. b \in Space /\ b.pt = [t.space[s].pt EXCEPT ![va] = e]
    BY <1>1, <1>2 DEF Space
  <2> HIDE DEF b
  <2>2. d.space \in [Spaces -> Space \cup {None}] /\ d.space[s] = b
    BY <1>1, <1>5, <2>1
  <2>3. d.ref \in [Frames -> 0 .. REFS - 1]
    BY <1>1, <1>3, <1>5
  <2>4. QED BY <1>1, <1>5, <2>1, <2>2, <2>3, IsMem
<1>7. d.space[s].pt[from] = e
  BY <1>1, <1>6 DEF Space
<1> DEFINE y == page_decrease_ref(d, g)
<1>8. u = [y EXCEPT !.space[s].pt[from] = None]
  BY <1>2, <1>7 DEF page_remove
<1>9. Dropped(d, y, {g})
  BY <1>6, DecreaseIs
<1> HIDE DEF y, e, b, c
<1>10. y.space = d.space /\ y = [space |-> y.space, ref |-> y.ref, data |-> y.data, free |-> y.free]
       /\ y.ref \in [Frames -> 0 .. REFS - 1] /\ y.data \in [Frames -> Vals] /\ y.free \subseteq Frames
  BY <1>9 DEF Dropped
<1>11. y.ref = t.ref
  <2>1. d.ref[g] = 2
    BY <1>1, <1>5
  <2>2. y.ref[g] = (2 + REFS - 1) % REFS
    BY <1>9, <2>1 DEF Dropped
  <2>3. (2 + REFS - 1) % REFS = 1
    BY <1>3
  <2>4. \A f \in Frames \ {g} : y.ref[f] = t.ref[f]
    BY <1>1, <1>5, <1>9 DEF Dropped
  <2>5. QED BY <1>1, <1>3, <1>10, <2>2, <2>3, <2>4
<1>12. y.data = t.data /\ y.free = t.free
  <2>1. d.ref[g] = 2
    BY <1>1, <1>5
  <2>2. \A f \in Frames : y.data[f] = t.data[f] /\ (f \in y.free <=> f \in t.free)
    BY <1>1, <1>5, <1>9, <2>1 DEF Dropped
  <2>3. QED BY <1>1, <1>10, <2>2
<1>13. [y.space EXCEPT ![s].pt[from] = None] = [t.space EXCEPT ![s] = c]
  <2>1. y.space = [t.space EXCEPT ![s] = b]
    BY <1>5, <1>10
  <2>2. [b EXCEPT !.pt[from] = None] = c
    BY <1>1 DEF b, c, Space
  <2>3. [[t.space EXCEPT ![s] = b] EXCEPT ![s].pt[from] = None] = [t.space EXCEPT ![s] = [b EXCEPT !.pt[from] = None]]
    BY <1>1
  <2>4. QED BY <2>1, <2>2, <2>3
<1>14. u = [space |-> [t.space EXCEPT ![s] = c], ref |-> t.ref, data |-> t.data, free |-> t.free]
  <2>1. u = [space |-> [y.space EXCEPT ![s].pt[from] = None], ref |-> y.ref, data |-> y.data, free |-> y.free]
    BY <1>8, <1>10
  <2>2. QED BY <1>11, <1>12, <1>13, <2>1
<1>15. MovePage(t, s, from, va, e) = [space |-> [t.space EXCEPT ![s] = c], ref |-> t.ref, data |-> t.data, free |-> t.free]
  BY <1>1, MemFields DEF MovePage, c, Mem
<1>16. QED BY <1>14, <1>15 DEF e

\* cow_pgfault gives p a copy of the page.
LEMMA CowOk ==
  ASSUME VmAssumption, NEW t, NEW r, Ok(t, r), NEW p \in Spaces, t.space[p] # None,
         NEW va \in Vas, va # PFTEMP, t.space[p].pt[va] # None, t.free # {},
         t.space[p].table[PFTEMP \div PDENTRIES] # None \/ t.free # {Fresh(t)},
         NEW u, u = cow_pgfault(t, p, va)
  PROVE  /\ Holds(u) /\ Lives(t, u) /\ DataKept(t, u)
         /\ Fresh(t) \in t.free /\ Fresh(t) \in Frames /\ u.data[Fresh(t)] = Read(t, p, va)
         /\ \A q \in Spaces, w \in Vas :
               Pt(u, q, w) = IF q = p /\ w = va THEN Entry(Fresh(t), PTE_USTK)
                             ELSE IF q = p /\ w = PFTEMP THEN None ELSE Pt(t, q, w)
<1> DEFINE g == Fresh(t)
           e == t.space[p].pt[va]
           E == Entry(g, PTE_USTK)
<1>0. PICK a, b, c, d :
         /\ a = page_new(t, p, PFTEMP, PTE_USTK)
         /\ b = FillPage(a, a.space[p].pt[PFTEMP].frame, a.data[a.space[p].pt[va].frame])
         /\ c = page_remove(b, p, va)
         /\ d = page_insert(c, p, c.space[p].pt[PFTEMP].frame, va, PTE_USTK)
         /\ cow_pgfault(t, p, va) = page_remove(d, p, PFTEMP)
  BY CowIs
<1>1. u = page_remove(d, p, PFTEMP)
  BY <1>0
<1>2. t \in Mem /\ Placed(t, r) /\ Owns(t, r, p) /\ PFTEMP \in Vas /\ Pt(t, p, va) = e
  BY Temporary DEF Ok, Placed, Pt
<1>3. e \in Entries /\ e.frame \in Frames /\ e.frame \notin t.free
  BY <1>2, PtFrame
<1>4. PTE_USTK \in SUBSET PTE_SYSCALL
  BY DEF PTE_USTK, PTE_SYSCALL
<1>5. /\ Still(t, r, a) /\ Changes(t, a, p) /\ DataKept(t, a) /\ g \in t.free /\ g \in Frames
      /\ Only(a, g, p, PFTEMP) /\ PtIs(t, a, p, PFTEMP, E)
  <2>1. PFTEMP \in Vas /\ a = page_new(t, p, PFTEMP, PTE_USTK)
    BY <1>0, <1>2
  <2>2. QED BY <1>4, <2>1, NewOk
<1>6. PICK ra : Ok(a, ra)
  BY <1>5 DEF Still
<1>7. E \in Entries /\ E # None /\ E.frame = g
  BY <1>4, <1>5, EntryIs
<1> HIDE DEF E, g, e
<1>8. Pt(a, p, PFTEMP) = E /\ Pt(a, p, va) = e /\ a.space[p] # None
  BY <1>2, <1>5 DEF PtIs, Changes
<1>9. a.space[p].pt[PFTEMP] = E /\ a.space[p].pt[va] = e
  BY <1>8 DEF Pt
<1>10. e # None /\ e.frame \notin a.free /\ ra[e.frame] = Role("page", New, va) /\ ra[g] = Role("page", New, PFTEMP)
  <2>1. e # None
    BY <1>3, Layout
  <2>2. Placed(a, ra)
    BY <1>6 DEF Ok
  <2>3. e.frame \notin a.free /\ ra[e.frame] = Role("page", New, va)
    BY <1>2, <1>8, <2>1, <2>2, PtFrame
  <2>4. ra[g] = Role("page", New, PFTEMP)
    BY <1>2, <1>7, <1>8, <2>2, PtFrame
  <2>5. QED BY <2>1, <2>3, <2>4
<1>11. e.frame # g
  BY <1>3, <1>5
<1>12. b = FillPage(a, g, a.data[e.frame]) /\ a.data[e.frame] \in Vals
  <2>1. a \in Mem
    BY <1>6 DEF Ok, Placed
  <2>2. QED BY <1>0, <1>3, <1>7, <1>9, <2>1, MemFields
<1>13. /\ Ok(b, ra) /\ b.space = a.space /\ b.ref = a.ref /\ b.free = a.free
       /\ b.data = [a.data EXCEPT ![g] = a.data[e.frame]]
       /\ \A q \in Spaces, w \in Vas : Pt(b, q, w) = Pt(a, q, w)
  BY <1>5, <1>6, <1>12, FillOk
<1>14. b.space[p] # None /\ b.space[p].pt[va] = e
  BY <1>8, <1>9, <1>13
<1>15. Ok(b, ra)
  BY <1>13
<1>16. /\ Still(b, ra, c) /\ Changes(b, c, p) /\ DataKept(b, c) /\ b.free \subseteq c.free
       /\ c.space[p].table = b.space[p].table /\ PtIs(b, c, p, va, None)
       /\ \A f \in Frames : ~(b.space[p].pt[va] # None /\ b.space[p].pt[va].frame = f) =>
             c.ref[f] = b.ref[f] /\ c.data[f] = b.data[f] /\ (f \in c.free <=> f \in b.free)
  <2>1. c = page_remove(b, p, va)
    BY <1>0
  <2>2. QED BY <1>14, <1>15, <2>1, RemoveOk
<1>17. PICK rc : Ok(c, rc)
  BY <1>16 DEF Still
<1>18. Pt(c, p, PFTEMP) = E /\ Pt(c, p, va) = None /\ c.space[p] # None
  BY <1>2, <1>8, <1>13, <1>16 DEF PtIs, Changes
<1>19. c.space[p].pt[PFTEMP] = E /\ c.space[p].pt[va] = None
  BY <1>18 DEF Pt
<1>20. c.space[p].table[va \div PDENTRIES] # None
  <2>1. Owns(a, ra, p)
    BY <1>6, <1>8 DEF Ok, Placed
  <2>2. a.space[p].table[va \div PDENTRIES] # None
    BY <1>9, <1>10, <2>1 DEF Owns
  <2>3. QED BY <1>13, <1>16, <2>2
<1>21. Only(c, g, p, PFTEMP)
  <2>1. ASSUME NEW q \in Spaces, NEW w \in Vas
        PROVE \/ Pt(c, q, w) = Pt(a, q, w)
              \/ /\ ~(Pt(c, q, w) # None /\ Pt(c, q, w).frame = g)
                 /\ ~(Pt(a, q, w) # None /\ Pt(a, q, w).frame = g)
    BY <1>8, <1>11, <1>13, <1>16, <1>18 DEF PtIs
  <2>2. PagesOf(c, g) = PagesOf(a, g)
    BY <2>1, SamePages
  <2>3. QED BY <1>5, <2>2 DEF Only
<1>22. d = page_insert(c, p, g, va, PTE_USTK)
  BY <1>0, <1>7, <1>19
<1>23. c.space[p].pt[PFTEMP] = Entry(g, PTE_USTK)
  BY <1>19 DEF E
<1>24. u = MovePage(c, p, PFTEMP, va, E)
  <2>1. PFTEMP \in Vas /\ g \in Frames
    BY <1>2, <1>5
  <2>2. c.space[p] # None /\ c.space[p].pt[va] = None
    BY <1>18, <1>19
  <2>3. u = MovePage(c, p, PFTEMP, va, Entry(g, PTE_USTK))
    BY <1>1, <1>4, <1>17, <1>20, <1>21, <1>22, <1>23, <2>1, <2>2, MappedTwice
  <2>4. QED BY <2>3 DEF E
<1>25. /\ Holds(u) /\ Changes(c, u, p) /\ u.data = c.data /\ u.free = c.free
       /\ PtMoved(c, u, p, PFTEMP, va, E)
  <2>1. u = MovePage(c, p, PFTEMP, va, Entry(g, PTE_USTK))
    BY <1>24 DEF E
  <2>2. PFTEMP \in Vas /\ g \in Frames
    BY <1>2, <1>5
  <2>3. c.space[p] # None /\ c.space[p].pt[va] = None
    BY <1>18, <1>19
  <2>4. QED BY <1>4, <1>17, <1>20, <1>21, <1>23, <2>1, <2>2, <2>3, MoveOk DEF E
<1>26. \A q \in Spaces, w \in Vas :
          Pt(u, q, w) = IF q = p /\ w = va THEN E ELSE IF q = p /\ w = PFTEMP THEN None ELSE Pt(t, q, w)
  BY <1>5, <1>13, <1>16, <1>25 DEF PtIs, PtMoved
<1>27. Lives(t, u)
  <2>1. Lives(t, a)
    BY <1>5, LivesBy
  <2>2. Lives(b, c)
    BY <1>14, <1>16, LivesBy
  <2>3. Lives(c, u)
    BY <1>18, <1>25, LivesBy
  <2>4. QED BY <1>13, <2>1, <2>2, <2>3 DEF Lives
<1>28. DataKept(t, u)
  <2>1. SUFFICES ASSUME NEW f \in Frames, f \notin t.free, f \notin u.free PROVE u.data[f] = t.data[f]
    BY DEF DataKept
  <2>2. f # g /\ f \notin c.free /\ f \notin b.free /\ f \notin a.free
    BY <1>5, <1>13, <1>16, <1>25, <2>1
  <2>3. c.data[f] = b.data[f] /\ a.data[f] = t.data[f]
    BY <1>5, <1>16, <2>1, <2>2 DEF DataKept
  <2>4. b.data[f] = a.data[f]
    <3>1. a \in Mem
      BY <1>6 DEF Ok, Placed
    <3>2. QED BY <1>13, <2>2, <3>1, MemFields
  <2>5. QED BY <1>25, <2>3, <2>4
<1>29. u.data[g] = Read(t, p, va)
  <2>1. c.data[g] = b.data[g]
    BY <1>5, <1>11, <1>14, <1>16
  <2>2. b.data[g] = a.data[e.frame]
    <3>1. a \in Mem
      BY <1>6 DEF Ok, Placed
    <3>2. QED BY <1>5, <1>13, <3>1, MemFields
  <2>3. a.data[e.frame] = t.data[e.frame]
    BY <1>3, <1>5, <1>10 DEF DataKept
  <2>4. Read(t, p, va) = t.data[e.frame]
    BY <1>2, <1>10 DEF Read
  <2>5. QED BY <1>25, <2>1, <2>2, <2>3, <2>4
<1>30. QED BY <1>5, <1>25, <1>26, <1>27, <1>28, <1>29 DEF g, E

-----------------------------------------------------------------------------
(* Directories and kernel stacks.                                           *)

PtSame(t, u) == \A q \in Spaces, w \in Vas : Pt(u, q, w) = Pt(t, q, w)

\* The address spaces other than s are the same.
Beside(t, u, s) == \A q \in Spaces \ {s} : u.space[q] = t.space[q]

NewSpace(g) == [dir |-> g, ktable |-> None, kstack |-> None,
                table |-> [x \in Tables |-> None], pt |-> [va \in Vas |-> None]]

\* An empty directory.
LEMMA SetupOk ==
  ASSUME VmAssumption, NEW t, NEW r, Ok(t, r), NEW s \in Spaces, t.space[s] = None, t.free # {},
         NEW u, u = setup_vm(t, s)
  PROVE  /\ Holds(u) /\ DataKept(t, u) /\ PtSame(t, u) /\ Beside(t, u, s)
         /\ u.free = t.free \ {Fresh(t)} /\ Fresh(t) \in t.free /\ u.space[s] = NewSpace(Fresh(t)) /\ u.space[s] # None
<1> DEFINE g == Fresh(t)
           v == page_alloc(t)
           r2 == [r EXCEPT ![g] = Role("dir", s, 0)]
           b == NewSpace(g)
<1>1. t \in Mem /\ r \in Roles /\ g \in t.free /\ g \in Frames /\ Placed(t, r)
  BY FreshIsFree DEF Ok, Placed
<1>2. Role("dir", s, 0) \in Uses_ /\ \A k, z, x : Role(k, z, x).kind = k
  BY DEF Uses_, Role
<1>3. Ok(v, r2) /\ PagesOf(v, g) = {} /\ StacksOf(v, g) = {}
  BY <1>2, AllocOk
<1>4. /\ v \in Mem /\ v.space = t.space /\ v.ref = [t.ref EXCEPT ![g] = 0]
      /\ v.data = [t.data EXCEPT ![g] = Zero] /\ v.free = t.free \ {g}
  BY <1>1, AllocIs
<1>5. u = [v EXCEPT !.space[s] = b]
  BY Zenon DEF setup_vm, On, NewSpace
<1>6. r2[g] = Role("dir", s, 0)
  BY <1>1 DEF Roles
<1>7. /\ b \in Space /\ b.dir = g /\ b.ktable = None /\ b.kstack = None
      /\ \A x \in Tables : b.table[x] = None
      /\ \A va \in Vas : b.pt[va] = None
  BY <1>1 DEF NewSpace, Space
<1> HIDE DEF g, v, r2, b
<1>8. u.space = [t.space EXCEPT ![s] = b] /\ u.ref = v.ref /\ u.data = v.data /\ u.free = v.free
  BY <1>4, <1>5 DEF Mem
<1>9. u = [space |-> u.space, ref |-> u.ref, data |-> u.data, free |-> u.free]
  BY <1>4, <1>5 DEF Mem
<1>10. u.space[s] = b /\ b # None /\ \A q \in Spaces \ {s} : u.space[q] = t.space[q]
  BY <1>1, <1>7, <1>8, MemFields, Layout
<1>11. u \in Mem
  <2>1. u.space \in [Spaces -> Space \cup {None}]
    BY <1>1, <1>7, <1>8, MemFields
  <2>2. QED BY <1>4, <1>8, <1>9, <2>1, MemFields, IsMem
<1>12. PtSame(t, u)
  <2>1. ASSUME NEW q \in Spaces, NEW w \in Vas PROVE Pt(u, q, w) = Pt(t, q, w)
    BY <1>7, <1>10 DEF Pt
  <2>2. QED BY <2>1 DEF PtSame
<1>13. \A f : PagesOf(u, f) = PagesOf(v, f)
  BY <1>4, <1>12 DEF PagesOf, PtSame, Pt
<1>14. \A f \in Frames : StacksOf(u, f) = StacksOf(v, f)
  BY <1>4, <1>7, <1>10, Layout DEF StacksOf
<1>15. Placed(u, r2)
  <2>1. ASSUME NEW q \in Spaces, u.space[q] # None PROVE Owns(u, r2, q)
    <3>1. CASE q = s
      BY <1>6, <1>7, <1>10, <3>1 DEF Owns
    <3>2. CASE q # s
      <4>1. u.space[q] = v.space[q] /\ Owns(v, r2, q)
        BY <1>3, <1>4, <1>10, <2>1, <3>2 DEF Ok, Placed
      <4>2. QED BY <4>1 DEF Owns
    <3>3. QED BY <3>1, <3>2
  <2>2. QED BY <1>3, <1>8, <1>11, <2>1 DEF Ok, Placed
<1>16. Counted(u)
  <2>1. Counted(v)
    BY <1>3 DEF Ok
  <2>2. v.ref[g] = 0
    BY <1>1, <1>4, MemFields
  <2>3. ASSUME NEW q \in Spaces, u.space[q] # None
        PROVE  /\ u.ref[u.space[q].dir] = 0
               /\ u.space[q].ktable # None => u.ref[u.space[q].ktable] = 1
               /\ \A x \in Tables : u.space[q].table[x] # None => u.ref[u.space[q].table[x]] = 1
    <3>1. CASE q = s
      BY <1>7, <1>8, <1>10, <2>2, <3>1
    <3>2. CASE q # s
      <4>1. u.space[q] = v.space[q] /\ v.space[q] # None
        BY <1>4, <1>10, <2>3, <3>2
      <4>2. QED BY <1>8, <2>1, <4>1 DEF Counted
    <3>3. QED BY <3>1, <3>2
  <2>4. QED BY <1>8, <1>13, <1>14, <2>1, <2>3 DEF Counted
<1>17. DataKept(t, u)
  BY <1>1, <1>4, <1>8, MemFields DEF DataKept
<1>18. QED BY <1>1, <1>4, <1>8, <1>10, <1>12, <1>15, <1>16, <1>17 DEF Holds, Ok, Beside, b, g

\* A kernel stack f, and the page table above UTOP.
LEMMA StackOk ==
  ASSUME VmAssumption, NEW t, NEW r, Ok(t, r), NEW s \in Spaces, t.space[s] # None, t.free # {},
         t.space[s].ktable = None, t.space[s].kstack = None,
         NEW f \in Frames, f \notin t.free, r[f] = Role("stack", New, 0), t.ref[f] = Cardinality(StacksOf(t, f)),
         NEW u, u = kstack_insert(t, s, f)
  PROVE  /\ Holds(u) /\ DataKept(t, u) /\ PtSame(t, u) /\ Beside(t, u, s)
         /\ u.free = t.free \ {Fresh(t)} /\ Fresh(t) \in t.free
         /\ u.space[s] # None /\ u.space[s].dir = t.space[s].dir /\ u.space[s].kstack = f
         /\ u.space[s].table = t.space[s].table /\ u.space[s].pt = t.space[s].pt
<1> DEFINE g == Fresh(t)
           v == page_alloc(t)
           r2 == [r EXCEPT ![g] = Role("ktable", s, 0)]
           a == t.space[s]
           b == [a EXCEPT !.ktable = g, !.kstack = f]
<1>1. t \in Mem /\ r \in Roles /\ g \in t.free /\ g \in Frames /\ Placed(t, r) /\ f # g
  BY FreshIsFree DEF Ok, Placed
<1>2. Role("ktable", s, 0) \in Uses_ /\ \A k, z, x : Role(k, z, x).kind = k
  BY DEF Uses_, Role
<1>3. Ok(v, r2) /\ PagesOf(v, g) = {} /\ StacksOf(v, g) = {}
  BY <1>2, AllocOk
<1>4. /\ v \in Mem /\ v.space = t.space /\ v.ref = [t.ref EXCEPT ![g] = 0]
      /\ v.data = [t.data EXCEPT ![g] = Zero] /\ v.free = t.free \ {g}
  BY <1>1, AllocIs
<1>5. u = [v EXCEPT !.ref[f] = @ + 1, !.ref[g] = 1, !.space[s].ktable = g, !.space[s].kstack = f]
  BY Zenon DEF kstack_insert, On
<1>6. r2[g] = Role("ktable", s, 0) /\ \A h \in Frames \ {g} : r2[h] = r[h]
  BY <1>1 DEF Roles
<1>a. a \in Space /\ a # None
  BY <1>1, SpaceFields
<1>7. /\ b \in Space /\ b.dir = a.dir /\ b.ktable = g /\ b.kstack = f /\ b.table = a.table /\ b.pt = a.pt
  BY <1>1, <1>a DEF Space
<1> HIDE DEF g, v, r2
<1>8. /\ u.space = [v.space EXCEPT ![s].ktable = g, ![s].kstack = f]
      /\ u.ref = [v.ref EXCEPT ![f] = @ + 1, ![g] = 1] /\ u.data = v.data /\ u.free = v.free
  BY <1>4, <1>5 DEF Mem
<1>9. u = [space |-> u.space, ref |-> u.ref, data |-> u.data, free |-> u.free]
  BY <1>4, <1>5 DEF Mem
<1>10. u.space[s] = b /\ b # None /\ \A q \in Spaces \ {s} : u.space[q] = t.space[q]
  <2>1. [v.space EXCEPT ![s].ktable = g, ![s].kstack = f] = [t.space EXCEPT ![s] = b]
    BY <1>1, <1>4, MemFields
  <2>2. QED BY <1>1, <1>7, <1>8, <2>1, MemFields, Layout
<1>b. a.ktable = None /\ a.kstack = None
  OBVIOUS
<1> HIDE DEF a, b
<1>11. PtSame(t, u)
  <2>1. ASSUME NEW q \in Spaces, NEW w \in Vas PROVE Pt(u, q, w) = Pt(t, q, w)
    BY <1>7, <1>10, <1>a DEF Pt, a
  <2>2. QED BY <2>1 DEF PtSame
<1>12. \A h : PagesOf(u, h) = PagesOf(t, h)
  BY <1>11 DEF PagesOf, PtSame
<1>13. \A h \in Frames \ {f} : StacksOf(u, h) = StacksOf(t, h)
  BY <1>7, <1>10, <1>a, <1>b, Layout DEF StacksOf, a
<1>14. StacksOf(u, f) = StacksOf(t, f) \cup {s} /\ s \notin StacksOf(t, f)
  BY <1>7, <1>10, <1>a, <1>b, Layout DEF StacksOf, a
<1>15. ASSUME NEW q \in Spaces, u.space[q] # None PROVE Owns(u, r2, q)
  <2>1. r2[f] = Role("stack", New, 0)
    BY <1>1, <1>6
  <2>2. CASE q = s
    <3>1. Owns(v, r2, s)
      BY <1>3, <1>4 DEF Ok, Placed
    <3>2. QED BY <1>4, <1>6, <1>7, <1>10, <2>1, <2>2, <3>1 DEF Owns, a
  <2>3. CASE q # s
    <3>1. u.space[q] = v.space[q] /\ Owns(v, r2, q)
      BY <1>3, <1>4, <1>10, <1>15, <2>3 DEF Ok, Placed
    <3>2. QED BY <3>1 DEF Owns
  <2>4. QED BY <2>2, <2>3
<1>16. u.space \in [Spaces -> Space \cup {None}] /\ u.data \in [Frames -> Vals] /\ u.free \subseteq Frames
  <2>1. u.space = [t.space EXCEPT ![s] = b]
    BY <1>1, <1>4, <1>8, MemFields DEF b, a
  <2>2. QED BY <1>1, <1>4, <1>7, <1>8, <2>1, MemFields
<1>17. Cardinality(StacksOf(u, f)) = t.ref[f] + 1 /\ t.ref[f] + 1 \in 0 .. REFS - 1
  <2> DEFINE y == [space |-> u.space, ref |-> t.ref, data |-> u.data, free |-> u.free]
  <2>1. y \in Mem /\ y.space = u.space /\ y.free = u.free
    BY <1>1, <1>16, MemFields DEF Mem
  <2>2. Placed(y, r2)
    <3> HIDE DEF y
    <3>1. \A q \in Spaces : y.space[q] # None => Owns(y, r2, q)
      BY <1>15, <2>1 DEF Owns
    <3>2. QED BY <1>3, <1>8, <2>1, <3>1 DEF Ok, Placed
  <2>3. StacksOf(y, f) = StacksOf(u, f)
    BY <2>1 DEF StacksOf
  <2> HIDE DEF y
  <2>4. Cardinality(StacksOf(u, f)) \in Nat /\ Cardinality(StacksOf(u, f)) < REFS
    BY <2>2, <2>3, StacksFit
  <2>5. IsFiniteSet(StacksOf(t, f))
    BY <1>1, StacksFit
  <2>6. Cardinality(StacksOf(u, f)) = Cardinality(StacksOf(t, f)) + 1
    <3> DEFINE P == StacksOf(t, f)
    <3>1. StacksOf(u, f) = P \cup {s} /\ s \notin P
      BY <1>14
    <3> HIDE DEF P
    <3>2. IsFiniteSet(P)
      BY <2>5 DEF P
    <3>3. Cardinality(P \cup {s}) = Cardinality(P) + 1
      BY <3>1, <3>2, FS_AddElement
    <3>4. QED BY <3>1, <3>3 DEF P
  <2>7. QED BY <2>4, <2>6, Layout
<1>18. /\ u.ref \in [Frames -> 0 .. REFS - 1] /\ u.ref[f] = t.ref[f] + 1 /\ u.ref[g] = 1
       /\ \A h \in Frames \ {f, g} : u.ref[h] = t.ref[h]
  <2>1. v.ref[f] = t.ref[f] /\ v.ref \in [Frames -> 0 .. REFS - 1] /\ t.ref \in [Frames -> 0 .. REFS - 1]
    BY <1>1, <1>4, MemFields
  <2>2. 1 \in 0 .. REFS - 1
    BY <1>1, Layout DEF Frames
  <2>3. QED BY <1>1, <1>4, <1>8, <1>17, <2>1, <2>2
<1>19. Placed(u, r2)
  <2>1. u \in Mem
    BY <1>9, <1>16, <1>18, IsMem
  <2>2. QED BY <1>3, <1>8, <1>15, <2>1 DEF Ok, Placed
<1>20. Counted(u)
  <2>1. Counted(t)
    BY DEF Ok
  <2>2. ASSUME NEW q \in Spaces, u.space[q] # None
        PROVE  /\ u.ref[u.space[q].dir] = 0
               /\ u.space[q].ktable # None => u.ref[u.space[q].ktable] = 1
               /\ \A x \in Tables : u.space[q].table[x] # None => u.ref[u.space[q].table[x]] = 1
    <3>1. t.space[q] # None /\ u.space[q].dir = t.space[q].dir /\ u.space[q].table = t.space[q].table
          /\ (u.space[q].ktable = t.space[q].ktable \/ u.space[q].ktable = g)
      BY <1>7, <1>10, <1>a, <2>2 DEF a
    <3>2. t.space[q] \in Space /\ Owns(t, r, q)
      BY <1>1, <3>1, SpaceFields DEF Placed
    <3>3. /\ t.space[q].dir \in Frames \ {f, g}
          /\ t.space[q].ktable # None => t.space[q].ktable \in Frames \ {f, g}
          /\ \A x \in Tables : t.space[q].table[x] # None => t.space[q].table[x] \in Frames \ {f, g}
      <4>1. r[f].kind = "stack" /\ r[g].kind = "free"
        BY <1>1, <1>2 DEF Placed
      <4>2. QED BY <1>2, <3>2, <4>1 DEF Owns, Space
    <3>4. /\ t.ref[t.space[q].dir] = 0
          /\ t.space[q].ktable # None => t.ref[t.space[q].ktable] = 1
          /\ \A x \in Tables : t.space[q].table[x] # None => t.ref[t.space[q].table[x]] = 1
      BY <2>1, <3>1 DEF Counted
    <3>5. QED BY <1>18, <3>1, <3>3, <3>4
  <2>3. ASSUME NEW h \in Frames, PagesOf(u, h) # {} PROVE u.ref[h] = Cardinality(PagesOf(u, h))
    <3>1. PagesOf(t, g) = {}
      BY <1>1, FreeNowhere
    <3>2. PICK c \in PagesOf(t, h) : TRUE
      BY <1>12, <2>3
    <3>3. r[h].kind = "page"
      <4>1. c[1] \in Spaces /\ c[2] \in Vas /\ Pt(t, c[1], c[2]) # None /\ Pt(t, c[1], c[2]).frame = h
        BY <3>2 DEF PagesOf
      <4>2. r[h] = Role("page", New, c[2])
        BY <1>1, <4>1, PtFrame
      <4>3. QED BY <1>2, <4>2
    <3>4. h # f /\ h # g
      BY <1>2, <3>1, <3>2, <3>3
    <3>5. t.ref[h] = Cardinality(PagesOf(t, h))
      BY <2>1, <3>2 DEF Counted
    <3>6. QED BY <1>12, <1>18, <3>4, <3>5
  <2>4. ASSUME NEW h \in Frames, StacksOf(u, h) # {} PROVE u.ref[h] = Cardinality(StacksOf(u, h))
    <3>1. CASE h = f
      BY <1>17, <1>18, <3>1
    <3>2. CASE h # f
      <4>1. StacksOf(t, g) = {}
        BY <1>1, FreeNowhere
      <4>2. StacksOf(u, h) = StacksOf(t, h) /\ h # g
        BY <1>13, <2>4, <3>2, <4>1
      <4>3. t.ref[h] = Cardinality(StacksOf(t, h))
        BY <2>1, <2>4, <4>2 DEF Counted
      <4>4. QED BY <1>18, <3>2, <4>2, <4>3
    <3>3. QED BY <3>1, <3>2
  <2>5. QED BY <2>2, <2>3, <2>4 DEF Counted
<1>21. DataKept(t, u)
  BY <1>1, <1>4, <1>8, MemFields DEF DataKept
<1>22. QED BY <1>1, <1>4, <1>7, <1>8, <1>10, <1>11, <1>19, <1>20, <1>21 DEF Holds, Ok, Beside, a, g

LEMMA Fewer ==
  ASSUME NEW S, IsFiniteSet(S), NEW x
  PROVE  /\ IsFiniteSet(S \ {x}) /\ Cardinality(S) \in Nat /\ Cardinality(S \ {x}) \in Nat
         /\ Cardinality(S \ {x}) >= Cardinality(S) - 1 /\ (Cardinality(S) >= 1 => S # {})
<1>1. Cardinality(S) \in Nat
  BY FS_CardinalityType
<1>2. IsFiniteSet(S \ {x})
  BY FS_Subset
<1>3. Cardinality(S \ {x}) \in Nat
  BY <1>2, FS_CardinalityType
<1>4. Cardinality(S \ {x}) = IF x \in S THEN Cardinality(S) - 1 ELSE Cardinality(S)
  BY FS_RemoveElement
<1>5. Cardinality(S) >= 1 => S # {}
  BY FS_EmptySet
<1>6. QED BY <1>1, <1>2, <1>3, <1>4, <1>5

LEMMA FreeFinite == ASSUME VmAssumption, NEW t \in Mem PROVE IsFiniteSet(t.free) /\ Cardinality(t.free) \in Nat
<1>1. IsFiniteSet(t.free)
  BY Finite, MemFields, FS_Subset
<1>2. QED BY <1>1, FS_CardinalityType

\* proc_setup_vm takes three frames.
LEMMA ProcSetupOk ==
  ASSUME VmAssumption, NEW t, NEW r, Ok(t, r), NEW s \in Spaces, t.space[s] = None, Cardinality(t.free) >= 3,
         NEW u, u = proc_setup_vm(t, s)
  PROVE  /\ Holds(u) /\ DataKept(t, u) /\ PtSame(t, u) /\ Beside(t, u, s)
         /\ Cardinality(u.free) >= Cardinality(t.free) - 3
         /\ u.space[s] # None /\ u.space[s].kstack # None
         /\ \A x \in Tables : u.space[s].table[x] = None
<1> DEFINE a == setup_vm(t, s)
           f == Fresh(a)
           b == page_alloc(a)
           Put(z) == kstack_insert(z, s, Fresh(a))
           Stack(z) == LET P(y) == kstack_insert(y, s, Fresh(z)) IN On(page_alloc(z), P)
<1>0. t \in Mem /\ IsFiniteSet(t.free) /\ Cardinality(t.free) \in Nat
  BY FreeFinite DEF Ok, Placed
<1>1. u = On(a, Stack)
  BY DEF proc_setup_vm
<1>2. On(a, Stack) = Stack(a)
  <2> HIDE DEF Stack
  <2> QED BY Zenon DEF On
<1>3. Stack(a) = On(b, Put)
  OBVIOUS
<1>4. On(b, Put) = Put(b)
  <2> HIDE DEF Put
  <2> QED BY Zenon DEF On
<1>5. u = kstack_insert(b, s, f)
  <2>1. u = Put(b)
    <3> HIDE DEF Put, Stack, a, b
    <3> QED BY <1>1, <1>2, <1>3, <1>4
  <2>2. QED BY <2>1
<1>6. t.free # {} /\ Cardinality(t.free \ {Fresh(t)}) >= 2 /\ IsFiniteSet(t.free \ {Fresh(t)})
      /\ Cardinality(t.free \ {Fresh(t)}) \in Nat /\ Cardinality(t.free \ {Fresh(t)}) >= Cardinality(t.free) - 1
  <2> DEFINE S == t.free
             x == Fresh(t)
  <2> HIDE DEF S, x
  <2>1. IsFiniteSet(S) /\ Cardinality(S) >= 3
    BY <1>0 DEF S
  <2>2. /\ IsFiniteSet(S \ {x}) /\ Cardinality(S) \in Nat /\ Cardinality(S \ {x}) \in Nat
        /\ Cardinality(S \ {x}) >= Cardinality(S) - 1 /\ (Cardinality(S) >= 1 => S # {})
    BY <2>1, Fewer, Zenon
  <2>3. S # {} /\ Cardinality(S \ {x}) >= 2
    BY <2>1, <2>2
  <2>4. QED BY <2>2, <2>3 DEF S, x
<1>7. /\ Holds(a) /\ DataKept(t, a) /\ PtSame(t, a) /\ Beside(t, a, s)
      /\ a.free = t.free \ {Fresh(t)} /\ Fresh(t) \in t.free /\ a.space[s] = NewSpace(Fresh(t)) /\ a.space[s] # None
  BY <1>6, SetupOk
<1>8. PICK ra : Ok(a, ra)
  BY <1>7 DEF Holds
<1> HIDE DEF a
<1>9. a \in Mem /\ ra \in Roles /\ a.free # {} /\ Cardinality(a.free \ {f}) >= 1 /\ IsFiniteSet(a.free \ {f})
      /\ a.free \ {f} # {} /\ Cardinality(a.free \ {f}) \in Nat /\ Cardinality(a.free \ {f}) >= Cardinality(t.free) - 2
  <2> DEFINE S == a.free
             T == a.free \ {f}
  <2>1. a \in Mem /\ ra \in Roles
    BY <1>8 DEF Ok, Placed
  <2>2. IsFiniteSet(S) /\ Cardinality(S) >= 2 /\ Cardinality(S) \in Nat /\ Cardinality(S) >= Cardinality(t.free) - 1
    BY <1>6, <1>7
  <2> HIDE DEF S, f
  <2>3. S # {} /\ IsFiniteSet(S \ {f}) /\ Cardinality(S \ {f}) \in Nat /\ Cardinality(S \ {f}) >= Cardinality(S) - 1
    <3>1. /\ IsFiniteSet(S \ {f}) /\ Cardinality(S) \in Nat /\ Cardinality(S \ {f}) \in Nat
          /\ Cardinality(S \ {f}) >= Cardinality(S) - 1 /\ (Cardinality(S) >= 1 => S # {})
      BY <2>2, Fewer, Zenon
    <3>2. QED BY <2>2, <3>1
  <2>4. T = S \ {f}
    BY DEF S
  <2> HIDE DEF T
  <2>5. Cardinality(T) >= 1 /\ IsFiniteSet(T) /\ Cardinality(T) \in Nat /\ Cardinality(T) >= Cardinality(t.free) - 2
    BY <1>0, <2>2, <2>3, <2>4
  <2>6. T # {}
    BY <2>5, Fewer
  <2>7. QED BY <2>1, <2>3, <2>5, <2>6 DEF S, T
<1>10. f \in a.free /\ f \in Frames
  BY <1>9, FreshIsFree
<1> DEFINE use == Role("stack", New, 0)
           rb == [ra EXCEPT ![f] = use]
<1>11. use \in Uses_
  BY DEF Uses_, Role, Spaces
<1>12. Ok(b, rb) /\ PagesOf(b, f) = {} /\ StacksOf(b, f) = {}
  BY <1>8, <1>9, <1>11, AllocOk
<1>13. /\ b.space = a.space /\ b.ref = [a.ref EXCEPT ![f] = 0]
       /\ b.data = [a.data EXCEPT ![f] = Zero] /\ b.free = a.free \ {f}
  BY <1>9, AllocIs
<1>14. rb[f] = Role("stack", New, 0)
  BY <1>9, <1>10 DEF Roles
<1> HIDE DEF b, f, rb
<1>15. b.free # {} /\ f \notin b.free /\ b.ref[f] = Cardinality(StacksOf(b, f)) /\ b.space[s] # None
  BY <1>7, <1>9, <1>10, <1>12, <1>13, MemFields, FS_EmptySet
<1>16. b.space[s].ktable = None /\ b.space[s].kstack = None /\ \A x \in Tables : b.space[s].table[x] = None
  BY <1>7, <1>13 DEF NewSpace
<1>17. Ok(b, rb)
  BY <1>12
<1>18. /\ Holds(u) /\ DataKept(b, u) /\ PtSame(b, u) /\ Beside(b, u, s)
       /\ u.free = b.free \ {Fresh(b)} /\ Fresh(b) \in b.free
       /\ u.space[s] # None /\ u.space[s].dir = b.space[s].dir /\ u.space[s].kstack = f
       /\ u.space[s].table = b.space[s].table /\ u.space[s].pt = b.space[s].pt
  BY <1>5, <1>10, <1>14, <1>15, <1>16, <1>17, StackOk
<1>19. PtSame(t, u)
  BY <1>7, <1>13, <1>18 DEF PtSame, Pt
<1>20. Beside(t, u, s)
  BY <1>7, <1>13, <1>18 DEF Beside
<1>21. DataKept(t, u)
  <2>1. SUFFICES ASSUME NEW h \in Frames, h \notin t.free, h \notin u.free PROVE u.data[h] = t.data[h]
    BY DEF DataKept
  <2>2. h \notin a.free /\ h \notin b.free /\ h # f
    BY <1>7, <1>10, <1>13, <2>1
  <2>3. u.data[h] = b.data[h] /\ a.data[h] = t.data[h]
    BY <1>7, <1>18, <2>1, <2>2 DEF DataKept
  <2>4. b.data[h] = a.data[h]
    BY <1>9, <1>13, <2>2, MemFields
  <2>5. QED BY <2>3, <2>4
<1>22. Cardinality(u.free) >= Cardinality(t.free) - 3
  <2> DEFINE T == a.free \ {f}
             x == Fresh(b)
  <2>1. u.free = T \ {x}
    BY <1>13, <1>18
  <2>2. IsFiniteSet(T) /\ Cardinality(T) \in Nat /\ Cardinality(T) >= Cardinality(t.free) - 2
    BY <1>9
  <2> HIDE DEF T, x
  <2>3. Cardinality(T \ {x}) \in Nat /\ Cardinality(T \ {x}) >= Cardinality(T) - 1
    BY <2>2, Fewer
  <2>4. QED BY <1>0, <2>1, <2>2, <2>3
<1>23. f # None
  BY <1>10, Layout
<1>24. QED BY <1>16, <1>18, <1>19, <1>20, <1>21, <1>22, <1>23

-----------------------------------------------------------------------------
(* Giving a directory back: its p_ref goes below 0, so that it is lost, and  *)
(* with it the page table of the kernel stack.                              *)

Unhooked(t, v, s) ==
    /\ v \in Mem /\ v.space = t.space
    /\ \A f \in Frames : f # t.space[s].dir /\ f # t.space[s].kstack =>
          v.ref[f] = t.ref[f] /\ v.data[f] = t.data[f] /\ (f \in v.free <=> f \in t.free)
    /\ t.space[s].dir \notin v.free /\ v.data[t.space[s].dir] = t.data[t.space[s].dir]
    /\ t.space[s].kstack # None =>
          /\ v.ref[t.space[s].kstack] = t.ref[t.space[s].kstack] - 1
          /\ t.space[s].kstack \in v.free <=> t.ref[t.space[s].kstack] = 1
          /\ t.ref[t.space[s].kstack] # 1 => v.data[t.space[s].kstack] = t.data[t.space[s].kstack]

NoDir(v, s) == [v EXCEPT !.space[s] = None]

\* Nothing is mapped.
NoPages(t, s) == \A va \in Vas : t.space[s].pt[va] = None
Empty(t, s) == NoPages(t, s) /\ \A x \in Tables : t.space[s].table[x] = None

LEMMA GoneOk ==
  ASSUME VmAssumption, NEW t, NEW r, Ok(t, r), NEW s \in Spaces, t.space[s] # None, NoPages(t, s),
         NEW v, Unhooked(t, v, s), NEW u, u = NoDir(v, s)
  PROVE  /\ Holds(u) /\ DataKept(t, u) /\ PtSame(t, u) /\ Beside(t, u, s) /\ u.space[s] = None /\ t.free \subseteq u.free
<1> DEFINE a == t.space[s]
           d == a.dir
           k == a.kstack
           r2 == [f \in Frames |-> IF f \in u.free THEN Role("free", New, 0) ELSE r[f]]
<1>1. t \in Mem /\ r \in Roles /\ Placed(t, r) /\ Counted(t) /\ Owns(t, r, s) /\ a \in Space
  BY SpaceFields DEF Ok, Placed
<1>2. v \in Mem /\ v.space = t.space
  BY DEF Unhooked
<1>3. u.space = [t.space EXCEPT ![s] = None] /\ u.ref = v.ref /\ u.data = v.data /\ u.free = v.free
  BY <1>2 DEF Mem, NoDir
<1>4. u = [space |-> u.space, ref |-> u.ref, data |-> u.data, free |-> u.free]
  BY <1>2 DEF Mem, NoDir
<1>5. u.space[s] = None /\ \A q \in Spaces \ {s} : u.space[q] = t.space[q]
  BY <1>1, <1>3, MemFields
<1>6. u \in Mem
  <2>1. u.space \in [Spaces -> Space \cup {None}]
    BY <1>1, <1>3, MemFields
  <2>2. QED BY <1>2, <1>3, <1>4, <2>1, MemFields, IsMem
<1>7. \A f \in Frames : f # d /\ f # k => u.ref[f] = t.ref[f] /\ u.data[f] = t.data[f] /\ (f \in u.free <=> f \in t.free)
  BY <1>3 DEF Unhooked
<1>8. d \notin u.free /\ u.data[d] = t.data[d] /\ d \in Frames /\ d \notin t.free
  BY <1>1, <1>3, FreeNowhere DEF Unhooked, Space
<1>9. k # None => /\ u.ref[k] = t.ref[k] - 1 /\ (k \in u.free <=> t.ref[k] = 1) /\ (t.ref[k] # 1 => u.data[k] = t.data[k])
                  /\ k \in Frames /\ k \notin t.free /\ s \in StacksOf(t, k)
  <2>1. k # None => k \in Frames /\ k \notin t.free
    BY <1>1, FreeNowhere DEF Space
  <2>2. k # None => s \in StacksOf(t, k)
    BY DEF StacksOf
  <2>3. QED BY <1>3, <2>1, <2>2 DEF Unhooked
<1>10. PtSame(t, u)
  <2>1. ASSUME NEW q \in Spaces, NEW w \in Vas PROVE Pt(u, q, w) = Pt(t, q, w)
    BY <1>5 DEF Pt, NoPages
  <2>2. QED BY <2>1 DEF PtSame
<1>11. \A f : PagesOf(u, f) = PagesOf(t, f)
  BY <1>10 DEF PagesOf, PtSame
<1>12. \A f \in Frames : StacksOf(u, f) = StacksOf(t, f) \ {s}
  BY <1>5 DEF StacksOf
<1>13. \A f \in Frames : f # k => StacksOf(u, f) = StacksOf(t, f)
  BY <1>12 DEF StacksOf
<1>r. /\ Role("free", New, 0) \in Uses_ /\ \A x, y, z : Role(x, y, z).kind = x
  BY DEF Uses_, Role, Spaces
<1>14. r2 \in Roles /\ (\A f \in u.free : r2[f].kind = "free") /\ \A f \in Frames : f \notin u.free => r2[f] = r[f]
  BY <1>1, <1>6, <1>r, MemFields DEF Roles
<1> HIDE DEF a, d, k, r2
<1>15. \A f \in Frames : f \in u.free /\ f \notin t.free => f = k /\ k # None /\ t.ref[k] = 1
  BY <1>7, <1>8, <1>9, Layout
<1>16. k # None => t.ref[k] = Cardinality(StacksOf(t, k)) /\ IsFiniteSet(StacksOf(t, k)) /\ r[k] = Role("stack", New, 0)
  <2>1. k # None => t.ref[k] = Cardinality(StacksOf(t, k))
    BY <1>1, <1>9 DEF Counted
  <2>2. IsFiniteSet(StacksOf(t, k))
    BY <1>1, StacksFit
  <2>3. k # None => r[k] = Role("stack", New, 0)
    BY <1>1 DEF Owns, k, a
  <2>4. QED BY <2>1, <2>2, <2>3
<1>17. k # None => Cardinality(StacksOf(u, k)) = t.ref[k] - 1 /\ (t.ref[k] = 1 => StacksOf(u, k) = {})
  <2>1. SUFFICES ASSUME k # None PROVE Cardinality(StacksOf(u, k)) = t.ref[k] - 1 /\ (t.ref[k] = 1 => StacksOf(u, k) = {})
    OBVIOUS
  <2> DEFINE P == StacksOf(t, k)
             Q == StacksOf(u, k)
  <2>2. Q = P \ {s} /\ s \in P /\ IsFiniteSet(P) /\ t.ref[k] = Cardinality(P)
    BY <1>9, <1>12, <1>16, <2>1
  <2> HIDE DEF P, Q
  <2>3. Cardinality(P \ {s}) = Cardinality(P) - 1
    BY <2>2, FS_RemoveElement
  <2>4. IsFiniteSet(Q)
    BY <2>2, FS_Subset
  <2>5. Cardinality(Q) = 0 => Q = {}
    BY <2>4, FS_EmptySet
  <2>6. Cardinality(Q) = t.ref[k] - 1 /\ (t.ref[k] = 1 => Q = {})
    BY <2>2, <2>3, <2>5
  <2>7. QED BY <2>6 DEF Q
<1>18. ASSUME NEW q \in Spaces, u.space[q] # None PROVE Owns(u, r2, q)
  <2>1. q # s /\ u.space[q] = t.space[q] /\ t.space[q] # None
    BY <1>5, <1>18
  <2>2. Owns(t, r, q) /\ t.space[q] \in Space
    BY <1>1, <2>1, SpaceFields DEF Placed
  <2>3. ASSUME NEW f \in Frames, f \notin t.free, r[f].kind # "stack" \/ q \in StacksOf(t, f) PROVE r2[f] = r[f]
    <3>1. SUFFICES ASSUME f \in u.free PROVE FALSE
      BY <1>14
    <3>2. f = k /\ k # None /\ t.ref[k] = 1
      BY <1>15, <2>3, <3>1
    <3>3. q \in StacksOf(t, k)
      BY <1>16, <1>r, <2>3, <3>2
    <3>4. q \in StacksOf(u, k)
      BY <1>12, <2>1, <2>3, <3>2, <3>3
    <3>5. QED BY <1>17, <3>2, <3>4
  <2>4. /\ t.space[q].dir \notin t.free /\ t.space[q].ktable \notin t.free /\ t.space[q].kstack \notin t.free
        /\ \A x \in Tables : t.space[q].table[x] \notin t.free
        /\ \A va \in Vas : t.space[q].pt[va] # None => t.space[q].pt[va].frame \notin t.free
    BY <1>1, <2>1, FreeNowhere
  <2>5. r2[t.space[q].dir] = Role("dir", q, 0)
    BY <1>r, <2>2, <2>3, <2>4 DEF Owns, Space
  <2>6. t.space[q].ktable # None => r2[t.space[q].ktable] = Role("ktable", q, 0)
    BY <1>r, <2>2, <2>3, <2>4 DEF Owns, Space
  <2>7. t.space[q].kstack # None => r2[t.space[q].kstack] = Role("stack", New, 0)
    <3>1. t.space[q].kstack # None => q \in StacksOf(t, t.space[q].kstack)
      BY <2>1 DEF StacksOf
    <3>2. QED BY <2>2, <2>3, <2>4, <3>1 DEF Owns, Space
  <2>8. \A x \in Tables : t.space[q].table[x] # None => r2[t.space[q].table[x]] = Role("table", q, x)
    BY <1>r, <2>2, <2>3, <2>4 DEF Owns, Space
  <2>9. ASSUME NEW va \in Vas, t.space[q].pt[va] # None
        PROVE  r2[t.space[q].pt[va].frame] = Role("page", New, va) /\ t.space[q].table[va \div PDENTRIES] # None
    <3>1. t.space[q].pt[va].frame \in Frames
      BY <1>1, <2>1, <2>9, SpaceFields DEF Entries
    <3>2. r[t.space[q].pt[va].frame] = Role("page", New, va) /\ t.space[q].table[va \div PDENTRIES] # None
      BY <2>2, <2>9 DEF Owns
    <3>3. QED BY <1>r, <2>3, <2>4, <2>9, <3>1, <3>2
  <2>10. QED BY <2>1, <2>5, <2>6, <2>7, <2>8, <2>9 DEF Owns
<1>19. Placed(u, r2)
  BY <1>6, <1>14, <1>18 DEF Placed
<1>20. Counted(u)
  <2>1. ASSUME NEW f \in Frames, PagesOf(u, f) # {} PROVE u.ref[f] = Cardinality(PagesOf(u, f))
    <3>1. PICK c \in PagesOf(t, f) : TRUE
      BY <1>11, <2>1
    <3>2. c[1] \in Spaces /\ c[2] \in Vas /\ Pt(t, c[1], c[2]) # None /\ Pt(t, c[1], c[2]).frame = f
      BY <3>1 DEF PagesOf
    <3>3. r[f] = Role("page", New, c[2])
      BY <1>1, <3>2, PtFrame
    <3>4. f # d /\ f # k
      <4>1. r[d] = Role("dir", s, 0)
        BY <1>1 DEF Owns, d, a
      <4>2. f # None
        BY Layout
      <4>3. QED BY <1>16, <1>r, <3>3, <4>1, <4>2
    <3>5. QED BY <1>1, <1>7, <1>11, <2>1, <3>4 DEF Counted
  <2>2. ASSUME NEW f \in Frames, StacksOf(u, f) # {} PROVE u.ref[f] = Cardinality(StacksOf(u, f))
    <3>1. CASE f = k
      <4>1. k # None
        BY <3>1, Layout
      <4>2. QED BY <1>9, <1>17, <3>1, <4>1
    <3>2. CASE f # k
      <4>1. StacksOf(u, f) = StacksOf(t, f)
        BY <1>13, <3>2
      <4>2. PICK q \in StacksOf(t, f) : TRUE
        BY <2>2, <4>1
      <4>3. t.space[q] # None /\ t.space[q].kstack = f /\ q \in Spaces /\ f # None
        BY <4>2, Layout DEF StacksOf
      <4>4. r[f] = Role("stack", New, 0)
        BY <1>1, <4>3 DEF Placed, Owns
      <4>5. r[d] = Role("dir", s, 0)
        BY <1>1 DEF Owns, d, a
      <4>6. f # d
        BY <1>r, <4>4, <4>5
      <4>7. QED BY <1>1, <1>7, <2>2, <3>2, <4>1, <4>6 DEF Counted
    <3>3. QED BY <3>1, <3>2
  <2>3. ASSUME NEW q \in Spaces, u.space[q] # None
        PROVE  /\ u.ref[u.space[q].dir] = 0
               /\ u.space[q].ktable # None => u.ref[u.space[q].ktable] = 1
               /\ \A x \in Tables : u.space[q].table[x] # None => u.ref[u.space[q].table[x]] = 1
    <3>1. q # s /\ u.space[q] = t.space[q] /\ t.space[q] # None
      BY <1>5, <2>3
    <3>2. Owns(t, r, q) /\ t.space[q] \in Space
      BY <1>1, <3>1, SpaceFields DEF Placed
    <3>3. r[d] = Role("dir", s, 0)
      BY <1>1 DEF Owns, d, a
    <3>4. \A f \in Frames : f = k => r[f] = Role("stack", New, 0)
      BY <1>16, Layout
    <3>5. t.space[q].dir # d /\ t.space[q].dir # k
      <4>1. r[t.space[q].dir] = Role("dir", q, 0) /\ t.space[q].dir \in Frames
        BY <3>2 DEF Owns, Space
      <4>2. Role("dir", q, 0) # Role("dir", s, 0)
        BY <3>1 DEF Role
      <4>3. QED BY <1>r, <3>3, <3>4, <4>1, <4>2
    <3>6. t.space[q].ktable # None => t.space[q].ktable # d /\ t.space[q].ktable # k
      BY <1>r, <3>2, <3>3, <3>4 DEF Owns, Space
    <3>7. \A x \in Tables : t.space[q].table[x] # None => t.space[q].table[x] # d /\ t.space[q].table[x] # k
      BY <1>r, <3>2, <3>3, <3>4 DEF Owns, Space
    <3>8. /\ t.ref[t.space[q].dir] = 0
          /\ t.space[q].ktable # None => t.ref[t.space[q].ktable] = 1
          /\ \A x \in Tables : t.space[q].table[x] # None => t.ref[t.space[q].table[x]] = 1
      BY <1>1, <3>1 DEF Counted
    <3>9. QED BY <1>7, <3>1, <3>2, <3>5, <3>6, <3>7, <3>8 DEF Space
  <2>4. QED BY <2>1, <2>2, <2>3 DEF Counted
<1>21. DataKept(t, u)
  BY <1>7, <1>8, <1>9, Layout DEF DataKept
<1>22. t.free \subseteq u.free
  BY <1>1, <1>7, <1>8, <1>9, Layout, MemFields
<1>23. Beside(t, u, s)
  BY <1>5 DEF Beside
<1>24. QED BY <1>5, <1>10, <1>19, <1>20, <1>21, <1>22, <1>23 DEF Holds, Ok

\* wait, and exec for its old directory.
LEMMA KernelFreeOk ==
  ASSUME VmAssumption, NEW t, NEW r, Ok(t, r), NEW s \in Spaces, t.space[s] # None, NoPages(t, s), t.space[s].kstack # None,
         NEW u, u = kernel_free(t, s)
  PROVE  /\ Holds(u) /\ DataKept(t, u) /\ PtSame(t, u) /\ Beside(t, u, s) /\ u.space[s] = None /\ t.free \subseteq u.free
<1> DEFINE d == t.space[s].dir
           k == t.space[s].kstack
           y == page_decrease_ref(t, k)
           v == page_decrease_ref(y, d)
           Dir(z) == [page_decrease_ref(z, t.space[s].dir) EXCEPT !.space[s] = None]
<1>1. u = Dir(y)
  <2>1. u = On(y, Dir)
    BY DEF kernel_free
  <2>2. On(y, Dir) = Dir(y)
    <3> HIDE DEF Dir, y
    <3> QED BY Zenon DEF On
  <2>3. QED BY <2>1, <2>2, Zenon
<1>2. u = NoDir(v, s)
  BY <1>1 DEF NoDir
<1>3. t \in Mem /\ d \in Frames /\ k \in Frames /\ Owns(t, r, s) /\ Counted(t) /\ Placed(t, r)
  BY SpaceFields DEF Ok, Placed
<1>4. d # k
  BY <1>3 DEF Owns, Role
<1>5. Dropped(t, y, {k})
  BY <1>3, DecreaseIs
<1> HIDE DEF v, y
<1>6. y \in Mem
  BY <1>3, <1>5, MemFields, IsMem DEF Dropped
<1>7. Dropped(y, v, {d})
  BY <1>3, <1>6, DecreaseIs DEF v
<1>8. v \in Mem
  BY <1>6, <1>7, MemFields, IsMem DEF Dropped
<1>9. t.ref[d] = 0 /\ t.ref[k] \in 0 .. REFS - 1 /\ t.ref[k] >= 1
  <2>1. s \in StacksOf(t, k)
    BY DEF StacksOf
  <2>2. t.ref[k] = Cardinality(StacksOf(t, k)) /\ IsFiniteSet(StacksOf(t, k)) /\ Cardinality(StacksOf(t, k)) \in Nat
    BY <1>3, <2>1, StacksFit DEF Counted
  <2>3. Cardinality(StacksOf(t, k)) # 0
    BY <2>1, <2>2, FS_EmptySet
  <2>4. QED BY <1>3, <2>2, <2>3, MemFields DEF Counted
<1>10. /\ y.ref[k] = t.ref[k] - 1 /\ (k \in y.free <=> k \in t.free \/ t.ref[k] = 1)
       /\ (t.ref[k] # 1 => y.data[k] = t.data[k])
  BY <1>5, <1>9, Less DEF Dropped
<1>11. k \notin t.free /\ d \notin t.free
  BY <1>3, FreeNowhere
<1>12. y.ref[d] = 0 /\ y.data[d] = t.data[d] /\ d \notin y.free
  BY <1>3, <1>4, <1>5, <1>9, <1>11 DEF Dropped
<1>13. v.data[d] = t.data[d] /\ d \notin v.free
  BY <1>7, <1>12 DEF Dropped
<1>14. v.ref[k] = y.ref[k] /\ v.data[k] = y.data[k] /\ (k \in v.free <=> k \in y.free)
  BY <1>3, <1>4, <1>7 DEF Dropped
<1>15. \A f \in Frames : f # d /\ f # k => v.ref[f] = t.ref[f] /\ v.data[f] = t.data[f] /\ (f \in v.free <=> f \in t.free)
  BY <1>5, <1>7 DEF Dropped
<1>16. v.space = t.space
  BY <1>5, <1>7 DEF Dropped
<1>17. Unhooked(t, v, s)
  BY <1>8, <1>10, <1>11, <1>13, <1>14, <1>15, <1>16 DEF Unhooked
<1>18. QED BY <1>2, <1>17, GoneOk

\* exec_failure: the new directory has no kernel stack yet.
LEMMA DirFreeOk ==
  ASSUME VmAssumption, NEW t, NEW r, Ok(t, r), NEW s \in Spaces, t.space[s] # None, NoPages(t, s), t.space[s].kstack = None,
         NEW u, u = NoDir(page_decrease_ref(t, t.space[s].dir), s)
  PROVE  /\ Holds(u) /\ DataKept(t, u) /\ PtSame(t, u) /\ Beside(t, u, s) /\ u.space[s] = None /\ t.free \subseteq u.free
<1> DEFINE d == t.space[s].dir
           v == page_decrease_ref(t, d)
<1>1. t \in Mem /\ d \in Frames /\ Owns(t, r, s) /\ Counted(t) /\ Placed(t, r)
  BY SpaceFields DEF Ok, Placed
<1>2. Dropped(t, v, {d}) /\ u = NoDir(v, s)
  BY <1>1, DecreaseIs
<1> HIDE DEF v
<1>3. v \in Mem /\ v.space = t.space
  BY <1>1, <1>2, MemFields, IsMem DEF Dropped
<1>4. t.ref[d] = 0 /\ d \notin t.free
  BY <1>1, FreeNowhere DEF Counted
<1>5. v.data[d] = t.data[d] /\ d \notin v.free
  BY <1>2, <1>4 DEF Dropped
<1>6. \A f \in Frames : f # d => v.ref[f] = t.ref[f] /\ v.data[f] = t.data[f] /\ (f \in v.free <=> f \in t.free)
  BY <1>2 DEF Dropped
<1>7. Unhooked(t, v, s)
  BY <1>3, <1>5, <1>6 DEF Unhooked
<1>8. QED BY <1>2, <1>7, GoneOk

\* pgdir_free.
LEMMA PgdirFreeOk ==
  ASSUME VmAssumption, NEW t, NEW r, Ok(t, r), NEW s \in Spaces, t.space[s] # None, NEW u, u = pgdir_free(t, s)
  PROVE  /\ Holds(u) /\ Changes(t, u, s) /\ DataKept(t, u) /\ t.free \subseteq u.free /\ PtGone(t, u, s, Vas) /\ Empty(u, s)
<1>1. IsRelease(t, u, s, Vas, Tables)
  BY PgdirFreeIs
<1>2. Vas \in SUBSET Vas
  OBVIOUS
<1>3. Tables \in SUBSET Tables
  OBVIOUS
<1>4. Tables # {} => Vas = Vas
  OBVIOUS
<1>5. Still(t, r, u) /\ Changes(t, u, s) /\ DataKept(t, u) /\ t.free \subseteq u.free /\ PtGone(t, u, s, Vas)
  BY <1>1, <1>2, <1>3, <1>4, ReleaseOk
<1>6. Empty(u, s)
  BY <1>1 DEF IsRelease, Empty, NoPages
<1>7. QED BY <1>5, <1>6 DEF Still, Holds

\* exec puts the new directory in place.
Rename(t, p) == [t EXCEPT !.space[p] = t.space[New], !.space[New] = None]

LEMMA RenameOk ==
  ASSUME VmAssumption, NEW t, NEW r, Ok(t, r), NEW p \in Procs, t.space[p] = None, t.space[New] # None,
         NEW u, u = Rename(t, p)
  PROVE  /\ Holds(u) /\ u.data = t.data /\ u.free = t.free /\ u.space[p] = t.space[New] /\ u.space[New] = None
         /\ \A q \in Procs \ {p} : u.space[q] = t.space[q]
<1> DEFINE b == t.space[New]
           Of(z) == IF z = New THEN p ELSE z
           own == {"dir", "table", "ktable"}
           r2 == [f \in Frames |-> IF r[f].kind \in own /\ r[f].of = New THEN Role(r[f].kind, p, r[f].at) ELSE r[f]]
<1>1. t \in Mem /\ r \in Roles /\ Placed(t, r) /\ Counted(t) /\ Owns(t, r, New) /\ b \in Space /\ b # None
      /\ New \in Spaces /\ p \in Spaces /\ p # New
  BY SpaceFields, Layout DEF Ok, Placed, Spaces
<1>2. u.space = [t.space EXCEPT ![p] = b, ![New] = None] /\ u.ref = t.ref /\ u.data = t.data /\ u.free = t.free
  BY <1>1 DEF Mem, Rename
<1>3. u = [space |-> u.space, ref |-> u.ref, data |-> u.data, free |-> u.free]
  BY <1>1 DEF Mem, Rename
<1>4. u.space[p] = b /\ u.space[New] = None /\ \A q \in Spaces : q # p /\ q # New => u.space[q] = t.space[q]
  BY <1>1, <1>2, MemFields
<1>5. u \in Mem
  <2>1. u.space \in [Spaces -> Space \cup {None}]
    BY <1>1, <1>2, MemFields
  <2>2. QED BY <1>1, <1>2, <1>3, <2>1, MemFields, IsMem
<1>6. \A k, z, x : Role(k, z, x).kind = k /\ Role(k, z, x).of = z /\ Role(k, z, x).at = x
  BY DEF Role
<1>7. r2 \in Roles /\ \A f \in Frames : r2[f] = IF r[f].kind \in own /\ r[f].of = New THEN Role(r[f].kind, p, r[f].at) ELSE r[f]
  <2>1. ASSUME NEW f \in Frames PROVE Role(r[f].kind, p, r[f].at) \in Uses_ /\ r[f] \in Uses_
    BY <1>1 DEF Roles, Uses_, Role
  <2>2. QED BY <2>1 DEF Roles
<1> HIDE DEF b, r2
<1>8. ASSUME NEW q \in Spaces, u.space[q] # None PROVE Owns(u, r2, q)
  <2>1. CASE q = p
    <3>1. u.space[q] = b /\ Owns(t, r, New) /\ t.space[New] = b
      BY <1>1, <1>4, <2>1 DEF b
    <3>2. r2[b.dir] = Role("dir", p, 0)
      BY <1>1, <1>6, <1>7, <3>1 DEF Owns, Space
    <3>3. b.ktable # None => r2[b.ktable] = Role("ktable", p, 0)
      BY <1>1, <1>6, <1>7, <3>1 DEF Owns, Space
    <3>4. b.kstack # None => r2[b.kstack] = Role("stack", New, 0)
      BY <1>1, <1>6, <1>7, <3>1 DEF Owns, Space
    <3>5. \A x \in Tables : b.table[x] # None => r2[b.table[x]] = Role("table", p, x)
      BY <1>1, <1>6, <1>7, <3>1 DEF Owns, Space
    <3>6. ASSUME NEW va \in Vas, b.pt[va] # None
          PROVE  r2[b.pt[va].frame] = Role("page", New, va) /\ b.table[va \div PDENTRIES] # None
      <4>1. b.pt[va].frame \in Frames
        BY <1>1, <3>6 DEF Space, Entries
      <4>2. r[b.pt[va].frame] = Role("page", New, va) /\ b.table[va \div PDENTRIES] # None
        BY <3>1, <3>6 DEF Owns
      <4>3. QED BY <1>6, <1>7, <4>1, <4>2
    <3>7. QED BY <2>1, <3>1, <3>2, <3>3, <3>4, <3>5, <3>6 DEF Owns
  <2>2. CASE q # p
    <3>1. q # New /\ u.space[q] = t.space[q] /\ t.space[q] # None
      BY <1>4, <1>8, <2>2
    <3> DEFINE a == t.space[q]
    <3>2. Owns(t, r, q) /\ a \in Space
      BY <1>1, <3>1, SpaceFields DEF Placed
    <3>3. r2[a.dir] = Role("dir", q, 0)
      BY <1>6, <1>7, <3>1, <3>2 DEF Owns, Space
    <3>4. a.ktable # None => r2[a.ktable] = Role("ktable", q, 0)
      BY <1>6, <1>7, <3>1, <3>2 DEF Owns, Space
    <3>5. a.kstack # None => r2[a.kstack] = Role("stack", New, 0)
      BY <1>6, <1>7, <3>2 DEF Owns, Space
    <3>6. \A x \in Tables : a.table[x] # None => r2[a.table[x]] = Role("table", q, x)
      BY <1>6, <1>7, <3>1, <3>2 DEF Owns, Space
    <3>7. ASSUME NEW va \in Vas, a.pt[va] # None
          PROVE  r2[a.pt[va].frame] = Role("page", New, va) /\ a.table[va \div PDENTRIES] # None
      <4>1. a.pt[va].frame \in Frames
        BY <3>2, <3>7 DEF Space, Entries
      <4>2. r[a.pt[va].frame] = Role("page", New, va) /\ a.table[va \div PDENTRIES] # None
        BY <3>2, <3>7 DEF Owns
      <4>3. QED BY <1>6, <1>7, <4>1, <4>2
    <3>8. QED BY <3>1, <3>3, <3>4, <3>5, <3>6, <3>7 DEF Owns
  <2>3. QED BY <2>1, <2>2
<1>9. Placed(u, r2)
  <2>1. \A f \in u.free : r2[f].kind = "free"
    <3>1. \A f \in t.free : f \in Frames /\ r[f].kind = "free"
      BY <1>1, MemFields DEF Placed
    <3>2. QED BY <1>2, <1>7, <3>1
  <2>2. QED BY <1>5, <1>7, <1>8, <2>1 DEF Placed
<1>10. \A q \in Spaces, w \in Vas : Pt(u, q, w) = IF q = New THEN None ELSE IF q = p THEN Pt(t, New, w) ELSE Pt(t, q, w)
  BY <1>1, <1>4 DEF Pt, b
<1>11. ASSUME NEW f \in Frames
       PROVE  /\ PagesOf(u, f) # {} => PagesOf(t, f) # {}
              /\ Cardinality(PagesOf(u, f)) = Cardinality(PagesOf(t, f))
  <2> DEFINE A == PagesOf(t, f)
             B == PagesOf(u, f)
             h == [c \in A |-> <<Of(c[1]), c[2]>>]
  <2>1. A \in SUBSET (Spaces \X Vas) /\ B \in SUBSET (Spaces \X Vas)
    BY PagesAre
  <2>2. \A q \in Spaces, w \in Vas : /\ <<q, w>> \in A <=> Pt(t, q, w) # None /\ Pt(t, q, w).frame = f
                                     /\ <<q, w>> \in B <=> Pt(u, q, w) # None /\ Pt(u, q, w).frame = f
    <3>1. ASSUME NEW q \in Spaces, NEW w \in Vas PROVE <<q, w>> \in A <=> Pt(t, q, w) # None /\ Pt(t, q, w).frame = f
      BY InPages
    <3>2. ASSUME NEW q \in Spaces, NEW w \in Vas PROVE <<q, w>> \in B <=> Pt(u, q, w) # None /\ Pt(u, q, w).frame = f
      BY InPages
    <3>3. QED BY <3>1, <3>2
  <2>3. \A w \in Vas : Pt(t, p, w) = None
    BY DEF Pt
  <2> HIDE DEF A, B
  <2>4. \A c \in A : c = <<c[1], c[2]>> /\ c[1] \in Spaces /\ c[2] \in Vas /\ c[1] # p
    <3>1. \A c \in A : c = <<c[1], c[2]>> /\ c[1] \in Spaces /\ c[2] \in Vas
      BY <2>1
    <3>2. QED BY <2>2, <2>3, <3>1
  <2>5. \A q \in Spaces, w \in Vas : <<q, w>> \in A => <<Of(q), w>> \in B
    BY <1>1, <1>10, <2>2, <2>3
  <2>6. h \in [A -> B]
    BY <2>4, <2>5
  <2>7. \A c, e \in A : h[c] = h[e] => c = e
    <3>1. SUFFICES ASSUME NEW c \in A, NEW e \in A, h[c] = h[e] PROVE c = e
      OBVIOUS
    <3>2. Of(c[1]) = Of(e[1]) /\ c[2] = e[2]
      BY <3>1
    <3>3. c[1] = e[1]
      BY <2>4, <3>2
    <3>4. QED BY <2>4, <3>2, <3>3
  <2>8. \A e \in B : \E c \in A : h[c] = e
    <3>1. SUFFICES ASSUME NEW e \in B PROVE \E c \in A : h[c] = e
      OBVIOUS
    <3>2. e = <<e[1], e[2]>> /\ e[1] \in Spaces /\ e[2] \in Vas
      BY <2>1
    <3>3. Pt(u, e[1], e[2]) # None /\ Pt(u, e[1], e[2]).frame = f
      BY <2>2, <3>2
    <3>4. CASE e[1] = p
      <4>1. <<New, e[2]>> \in A
        BY <1>1, <1>10, <2>2, <3>2, <3>3, <3>4
      <4>2. h[<<New, e[2]>>] = <<p, e[2]>>
        BY <4>1
      <4>3. QED BY <3>2, <3>4, <4>1, <4>2
    <3>5. CASE e[1] # p
      <4>1. e[1] # New /\ <<e[1], e[2]>> \in A
        BY <1>10, <2>2, <3>2, <3>3, <3>5
      <4>2. h[<<e[1], e[2]>>] = <<e[1], e[2]>>
        BY <4>1
      <4>3. QED BY <3>2, <4>1, <4>2
    <3>6. QED BY <3>4, <3>5
  <2> HIDE DEF h
  <2>9. h \in Bijection(A, B)
    BY <2>6, <2>7, <2>8 DEF Bijection, Injection, Surjection, IsInjective
  <2>10. IsFiniteSet(A)
    BY <1>1, PagesFit DEF A
  <2>11. Cardinality(A) = Cardinality(B)
    BY <2>9, <2>10, FS_Bijection DEF ExistsBijection
  <2>12. B # {} => A # {}
    BY <2>8
  <2>13. QED BY <2>11, <2>12 DEF A, B
<1>12. ASSUME NEW f \in Frames
       PROVE  /\ StacksOf(u, f) # {} => StacksOf(t, f) # {}
              /\ Cardinality(StacksOf(u, f)) = Cardinality(StacksOf(t, f))
  <2> DEFINE A == StacksOf(t, f)
             B == StacksOf(u, f)
             h == [c \in A |-> Of(c)]
  <2>1. p \notin A /\ New \notin B /\ (New \in A <=> p \in B)
    BY <1>1, <1>4 DEF StacksOf, b
  <2>2. \A q : q # p /\ q # New => (q \in A <=> q \in B)
    BY <1>4 DEF StacksOf
  <2>3. IsFiniteSet(A)
    BY <1>1, StacksFit
  <2> HIDE DEF A, B
  <2>4. h \in [A -> B]
    BY <2>1, <2>2
  <2>5. \A c, e \in A : h[c] = h[e] => c = e
    BY <2>1
  <2>6. \A e \in B : \E c \in A : h[c] = e
    BY <2>1, <2>2
  <2> HIDE DEF h
  <2>7. h \in Bijection(A, B)
    BY <2>4, <2>5, <2>6 DEF Bijection, Injection, Surjection, IsInjective
  <2>8. Cardinality(A) = Cardinality(B)
    BY <2>3, <2>7, FS_Bijection DEF ExistsBijection
  <2>9. B # {} => A # {}
    BY <2>6
  <2>10. QED BY <2>8, <2>9 DEF A, B
<1>13. Counted(u)
  <2>1. \A f \in Frames : PagesOf(u, f) # {} => u.ref[f] = Cardinality(PagesOf(u, f))
    BY <1>1, <1>2, <1>11 DEF Counted
  <2>2. \A f \in Frames : StacksOf(u, f) # {} => u.ref[f] = Cardinality(StacksOf(u, f))
    BY <1>1, <1>2, <1>12 DEF Counted
  <2>3. ASSUME NEW q \in Spaces, u.space[q] # None
        PROVE  /\ u.ref[u.space[q].dir] = 0
               /\ u.space[q].ktable # None => u.ref[u.space[q].ktable] = 1
               /\ \A x \in Tables : u.space[q].table[x] # None => u.ref[u.space[q].table[x]] = 1
    <3>1. PICK z \in Spaces : u.space[q] = t.space[z] /\ t.space[z] # None
      BY <1>1, <1>4, <2>3 DEF b
    <3>2. /\ t.ref[t.space[z].dir] = 0
          /\ t.space[z].ktable # None => t.ref[t.space[z].ktable] = 1
          /\ \A x \in Tables : t.space[z].table[x] # None => t.ref[t.space[z].table[x]] = 1
      BY <1>1, <3>1 DEF Counted
    <3>3. QED BY <1>2, <3>1, <3>2
  <2>4. QED BY <2>1, <2>2, <2>3 DEF Counted
<1>14. Holds(u)
  BY <1>9, <1>13 DEF Holds, Ok
<1>15. \A q \in Procs \ {p} : u.space[q] = t.space[q]
  BY <1>4, Layout DEF Spaces
<1>16. QED BY <1>2, <1>4, <1>14, <1>15 DEF b

-----------------------------------------------------------------------------
(* Programs.                                                                *)

\* The program's pages are filled, and grow_vm adds one after the other.
Loaded(g, s, v) == [g EXCEPT !.data = [f \in Frames |-> IF \E x \in Vas : g.space[s].pt[x] = Entry(f, PTE_USTK)
                                                        THEN v ELSE g.data[f]]]

IsGrow(g, t, s) == g = [i \in 0 .. TextPages |-> IF i = 0 THEN t ELSE page_new(g[i - 1], s, UTEXT + i - 1, PTE_USTK)]

LEMMA ImageIs ==
  ASSUME NEW t, NEW s, NEW n, NEW v, \E g : IsGrow(g, t, s)
  PROVE  \E g : IsGrow(g, t, s) /\ Image(t, s, n, v) = Loaded(g[n], s, v)
<1> DEFINE Load(u) == [u EXCEPT !.data = [f \in Frames |-> IF \E x \in Vas : u.space[s].pt[x] = Entry(f, PTE_USTK)
                                                        THEN v ELSE u.data[f]]]
           Grow[i \in 0 .. TextPages] ==
            IF i = 0 THEN t ELSE LET Put(u) == page_new(u, s, UTEXT + i - 1, PTE_USTK) IN On(Grow[i - 1], Put)
<1>1. Image(t, s, n, v) = On(Grow[n], Load)
  BY DEF Image
<1>2. On(Grow[n], Load) = Load(Grow[n])
  <2> HIDE DEF Load, Grow
  <2> QED BY Zenon DEF On
<1>3. \A g, i : (LET Put(u) == page_new(u, s, UTEXT + i - 1, PTE_USTK) IN On(g[i - 1], Put)) = page_new(g[i - 1], s, UTEXT + i - 1, PTE_USTK)
  BY Zenon DEF On
<1>4. IsGrow(Grow, t, s)
  <2>1. ASSUME NEW g
        PROVE  IsGrow(g, t, s) <=> g = [i \in 0 .. TextPages |-> 
            IF i = 0 THEN t ELSE LET Put(u) == page_new(u, s, UTEXT + i - 1, PTE_USTK) IN On(g[i - 1], Put)]
    <3> DEFINE A(i) == IF i = 0 THEN t ELSE page_new(g[i - 1], s, UTEXT + i - 1, PTE_USTK)
               B(i) == IF i = 0 THEN t ELSE LET Put(u) == page_new(u, s, UTEXT + i - 1, PTE_USTK) IN On(g[i - 1], Put)
    <3>1. \A i : (LET Put(u) == page_new(u, s, UTEXT + i - 1, PTE_USTK) IN On(g[i - 1], Put)) = page_new(g[i - 1], s, UTEXT + i - 1, PTE_USTK)
      BY Zenon DEF On
    <3>2. \A i : A(i) = B(i)
      BY <3>1, Zenon
    <3> HIDE DEF A, B
    <3>3. [i \in 0 .. TextPages |-> A(i)] = [i \in 0 .. TextPages |-> B(i)]
      BY <3>2, Zenon
    <3>4. g = [i \in 0 .. TextPages |-> A(i)] <=> g = [i \in 0 .. TextPages |-> B(i)]
      BY <3>3, Zenon
    <3>5. QED BY <3>4, Zenon DEF IsGrow, A, B
  <2> DEFINE Is(g) == g = [i \in 0 .. TextPages |-> 
            IF i = 0 THEN t ELSE LET Put(u) == page_new(u, s, UTEXT + i - 1, PTE_USTK) IN On(g[i - 1], Put)]
  <2>2. \E g : Is(g)
    BY <2>1, Zenon
  <2>3. Grow = CHOOSE g : Is(g)
    OBVIOUS
  <2>4. Is(CHOOSE g : Is(g))
    <3> HIDE DEF Is
    <3> QED BY <2>2, Zenon
  <2>5. Is(Grow)
    <3> HIDE DEF Is, Grow
    <3> QED BY <2>3, <2>4, Zenon
  <2>6. QED BY <2>1, <2>5, Zenon
<1>5. QED BY <1>1, <1>2, <1>4 DEF Loaded

\* The pages are made one after the other.
LEMMA GrowExists == ASSUME VmAssumption, NEW t, NEW s PROVE \E g : IsGrow(g, t, s)
<1> DEFINE Step(y, i) == page_new(y, s, UTEXT + i - 1, PTE_USTK)
           Part(g, n) == g = [i \in 0 .. n |-> IF i = 0 THEN t ELSE Step(g[i - 1], i)]
           Bad == {n \in Nat : ~\E g : Part(g, n)}
<1> HIDE DEF Step
<1>1. TextPages \in Nat
  BY Layout
<1>2. Bad = {}
  <2> SUFFICES ASSUME Bad # {} PROVE FALSE
    OBVIOUS
  <2>1. PICK n \in Bad : \A k \in Bad : ~(<<k, n>> \in OpToRel(<, Nat))
    BY NatLessThanWellFounded, WFMin
  <2>2. n \in Nat /\ \A k \in Bad : ~(k < n)
    BY <2>1 DEF OpToRel
  <2>3. n # 0
    <3>1. Part([i \in 0 .. 0 |-> t], 0)
      OBVIOUS
    <3>2. QED BY <3>1
  <2>4. PICK g : Part(g, n - 1)
    <3>1. n - 1 \in Nat /\ n - 1 < n
      BY <2>2, <2>3
    <3> HIDE DEF Part
    <3>2. n - 1 \notin Bad
      BY <2>2, <3>1, Zenon
    <3>3. QED BY <3>1, <3>2
  <2> DEFINE h == [i \in 0 .. n |-> IF i = n THEN Step(g[n - 1], n) ELSE g[i]]
  <2>5. Part(h, n)
    <3>1. ASSUME NEW i \in 0 .. n PROVE h[i] = IF i = 0 THEN t ELSE Step(h[i - 1], i)
      <4>1. CASE i = n
        BY <2>2, <2>3, <4>1
      <4>2. CASE i # n /\ i # 0
        <5>1. i \in 0 .. n - 1 /\ i - 1 \in 0 .. n /\ i - 1 # n
          BY <2>2, <4>2
        <5>2. h[i] = g[i] /\ h[i - 1] = g[i - 1]
          BY <4>2, <5>1
        <5>3. QED BY <2>4, <4>2, <5>1, <5>2
      <4>3. CASE i # n /\ i = 0
        <5>1. i \in 0 .. n - 1
          BY <2>2, <4>3
        <5>2. QED BY <2>4, <4>3, <5>1
      <4>4. QED BY <4>1, <4>2, <4>3
    <3>2. h = [i \in 0 .. n |-> h[i]]
      OBVIOUS
    <3> HIDE DEF h
    <3>3. QED BY <3>1, <3>2
  <2>6. QED BY <2>2, <2>5
<1>3. PICK g : Part(g, TextPages)
  BY <1>1, <1>2
<1>4. IsGrow(g, t, s)
  BY <1>3 DEF Step, IsGrow
<1>5. QED BY <1>4

\* The pages of a program of n pages, and the page tables an address space has.
Text(n) == UTEXT .. UTEXT + n - 1
Tabled(t, s) == {x \in Tables : t.space[s].table[x] # None}

\* s has the pages K, which are its own and which it may write.
Image_(g, s, K) ==
    /\ \A w \in Vas \ K : Pt(g, s, w) = None
    /\ \A w \in K : Pt(g, s, w) # None /\ Pt(g, s, w).perm = PTE_USTK /\ Only(g, Pt(g, s, w).frame, s, w)

\* After the first n pages, each of which may have taken two frames.
Grown(t, g, s, n) ==
    /\ Holds(g) /\ Changes(t, g, s) /\ Image_(g, s, Text(n))
    /\ Cardinality(g.free) + n + Cardinality(Tabled(g, s)) >= Cardinality(t.free)

LEMMA TabledFew ==
  ASSUME VmAssumption, NEW t, NEW s
  PROVE  /\ IsFiniteSet(Tabled(t, s)) /\ Cardinality(Tabled(t, s)) \in Nat /\ Cardinality(Tables) \in Nat
         /\ Cardinality(Tabled(t, s)) <= Cardinality(Tables)
         /\ \A x \in Tables : t.space[s].table[x] = None => Cardinality(Tabled(t, s)) <= Cardinality(Tables) - 1
<1>1. IsFiniteSet(Tables) /\ Tabled(t, s) \subseteq Tables
  BY TablesNat DEF Tabled
<1> DEFINE T == Tables
           D == Tabled(t, s)
<1>2. \A x \in Tables : t.space[s].table[x] = None => D \subseteq T \ {x}
  BY DEF Tabled
<1> HIDE DEF T, D
<1>3. IsFiniteSet(T) /\ D \subseteq T
  BY <1>1 DEF T, D
<1>4. IsFiniteSet(D) /\ Cardinality(D) \in Nat /\ Cardinality(T) \in Nat /\ Cardinality(D) <= Cardinality(T)
  BY <1>3, FS_Subset, FS_CardinalityType
<1>5. ASSUME NEW x \in T, D \subseteq T \ {x} PROVE Cardinality(D) <= Cardinality(T) - 1
  <2>1. IsFiniteSet(T \ {x}) /\ Cardinality(T \ {x}) = Cardinality(T) - 1
    BY <1>3, FS_RemoveElement
  <2> DEFINE R == T \ {x}
  <2> HIDE DEF R
  <2>2. IsFiniteSet(R) /\ D \subseteq R /\ Cardinality(R) = Cardinality(T) - 1
    BY <1>5, <2>1 DEF R
  <2>3. Cardinality(D) <= Cardinality(R)
    BY <2>2, FS_Subset
  <2>4. QED BY <2>2, <2>3
<1>6. QED BY <1>2, <1>4, <1>5 DEF T, D

\* The other pages of s stay its own when it gets one at va.
LEMMA ImageGrows ==
  ASSUME VmAssumption, NEW t, NEW r, Ok(t, r), NEW s \in Spaces, NEW K \in SUBSET Vas, Image_(t, s, K),
         NEW va \in Vas, va \notin K, NEW f \in t.free, NEW u, PtIs(t, u, s, va, Entry(f, PTE_USTK)), Only(u, f, s, va)
  PROVE  Image_(u, s, K \cup {va})
<1>1. f \in Frames /\ Placed(t, r) /\ t \in Mem
  BY MemFields DEF Ok, Placed
<1> DEFINE e == Entry(f, PTE_USTK)
<1>2. e # None /\ e.frame = f /\ e.perm = PTE_USTK
  BY <1>1, EntryIs, Rights DEF PTE_USTK
<1>3. Pt(u, s, va) = e /\ \A q \in Spaces, w \in Vas : ~(q = s /\ w = va) => Pt(u, q, w) = Pt(t, q, w)
  BY DEF PtIs
<1> HIDE DEF e
<1>4. ASSUME NEW w \in Vas \ (K \cup {va}) PROVE Pt(u, s, w) = None
  BY <1>3 DEF Image_
<1>5. ASSUME NEW w \in K PROVE Pt(u, s, w) # None /\ Pt(u, s, w).perm = PTE_USTK /\ Only(u, Pt(u, s, w).frame, s, w)
  <2>1. w \in Vas /\ w # va /\ Pt(u, s, w) = Pt(t, s, w) /\ Pt(t, s, w) # None /\ Pt(t, s, w).perm = PTE_USTK
        /\ Only(t, Pt(t, s, w).frame, s, w)
    BY <1>3 DEF Image_
  <2>2. Pt(t, s, w).frame \notin t.free
    BY <1>1, <2>1, PtFrame
  <2> DEFINE h == Pt(t, s, w).frame
  <2>3. h # f
    BY <2>2
  <2> HIDE DEF h
  <2>4. ~(Pt(t, s, va) # None /\ Pt(t, s, va).frame = h)
    BY DEF Image_
  <2>5. \A q \in Spaces, z \in Vas : \/ Pt(u, q, z) = Pt(t, q, z)
                                     \/ /\ ~(Pt(u, q, z) # None /\ Pt(u, q, z).frame = h)
                                        /\ ~(Pt(t, q, z) # None /\ Pt(t, q, z).frame = h)
    BY <1>2, <1>3, <2>3, <2>4
  <2>6. PagesOf(u, h) = PagesOf(t, h)
    BY <2>5, SamePages
  <2>7. QED BY <2>1, <2>6 DEF Only, h
<1>6. QED BY <1>2, <1>3, <1>4, <1>5 DEF Image_, e

LEMMA GrownStep ==
  ASSUME VmAssumption, NEW t \in Mem, NEW s \in Spaces, Cardinality(t.free) >= TextPages + Cardinality(Tables),
         NEW n \in Nat, n < TextPages, NEW g, Grown(t, g, s, n),
         NEW u, u = page_new(g, s, UTEXT + n, PTE_USTK)
  PROVE  Grown(t, u, s, n + 1)
<1> DEFINE va == UTEXT + n
           x == va \div PDENTRIES
           f == Fresh(g)
<1>1. PICK r : Ok(g, r)
  BY DEF Grown, Holds
<1>2. g \in Mem /\ g.space[s] # None
  BY <1>1 DEF Ok, Placed, Grown, Changes
<1>3. va \in Vas /\ x \in Tables /\ PTE_USTK \in SUBSET PTE_SYSCALL
  <2>1. va \in Vas
    BY Layout DEF Vas
  <2>2. QED BY <2>1, TableOf, Rights DEF PTE_USTK
<1> HIDE DEF va, x, f
<1>4. /\ IsFiniteSet(g.free) /\ Cardinality(g.free) \in Nat /\ Cardinality(t.free) \in Nat
      /\ Cardinality(Tabled(g, s)) \in Nat /\ Cardinality(Tables) \in Nat /\ IsFiniteSet(Tabled(g, s))
      /\ Cardinality(Tabled(g, s)) <= Cardinality(Tables)
      /\ g.space[s].table[x] = None => Cardinality(Tabled(g, s)) <= Cardinality(Tables) - 1
  BY <1>2, <1>3, FreeFinite, TabledFew
<1>5. Cardinality(g.free) + n + Cardinality(Tabled(g, s)) >= Cardinality(t.free)
  BY DEF Grown
<1>6. Cardinality(g.free) >= 1 /\ (g.space[s].table[x] = None => Cardinality(g.free) >= 2)
  BY <1>4, <1>5, Layout
<1> DEFINE G == g.free
           G1 == g.free \ {f}
<1>7. /\ IsFiniteSet(G1) /\ Cardinality(G1) \in Nat /\ Cardinality(G1) >= Cardinality(G) - 1
      /\ G # {} /\ (Cardinality(G1) >= 1 => G1 # {})
  <2> HIDE DEF G
  <2>1. IsFiniteSet(G) /\ Cardinality(G) >= 1
    BY <1>4, <1>6 DEF G
  <2>2. /\ IsFiniteSet(G \ {f}) /\ Cardinality(G) \in Nat /\ Cardinality(G \ {f}) \in Nat
         /\ Cardinality(G \ {f}) >= Cardinality(G) - 1 /\ (Cardinality(G) >= 1 => G # {})
    BY <2>1, Fewer, Zenon
  <2> DEFINE H == G \ {f}
  <2> HIDE DEF H
  <2>3. Cardinality(H) >= 1 => H # {}
    BY FS_EmptySet
  <2>4. QED BY <2>1, <2>2, <2>3 DEF G, H
<1>8. g.free # {} /\ (g.space[s].table[x] # None \/ g.free # {f})
  <2>1. g.space[s].table[x] = None => G1 # {}
    <3> HIDE DEF G1
    <3> QED BY <1>4, <1>6, <1>7
  <2>2. QED BY <1>7, <2>1
<1>9. /\ Still(g, r, u)
      /\ Changes(g, u, s) /\ DataKept(g, u) /\ u.data[f] = Zero
      /\ f \in g.free /\ f \in Frames /\ Only(u, f, s, va)
      /\ Walked(Took(g), u, s, va)
      /\ PtIs(g, u, s, va, Entry(f, PTE_USTK))
  <2>1. u = page_new(g, s, va, PTE_USTK)
    BY DEF va
  <2>2. g.space[s].table[va \div PDENTRIES] # None \/ g.free # {Fresh(g)}
    BY <1>8 DEF f, x
  <2> DEFINE perm == PTE_USTK
  <2>3. perm \in SUBSET PTE_SYSCALL /\ u = page_new(g, s, va, perm)
    BY <1>3, <2>1
  <2> HIDE DEF perm
  <2>4. /\ Still(g, r, u)
        /\ Changes(g, u, s) /\ DataKept(g, u) /\ u.data[Fresh(g)] = Zero
        /\ Fresh(g) \in g.free /\ Fresh(g) \in Frames /\ Only(u, Fresh(g), s, va)
        /\ Walked(Took(g), u, s, va)
        /\ PtIs(g, u, s, va, Entry(Fresh(g), perm))
    BY <1>1, <1>2, <1>3, <1>8, <2>2, <2>3, NewOk
  <2>5. QED BY <2>4 DEF f, perm
<1>10. Holds(u) /\ Changes(t, u, s)
  BY <1>9, ChangesCompose DEF Grown, Still, Holds
<1>11. Image_(u, s, Text(n + 1))
  <2>1. Text(n) \in SUBSET Vas /\ va \notin Text(n) /\ Text(n) \cup {va} = Text(n + 1)
    BY Layout DEF Text, Vas, va
  <2>2. Image_(g, s, Text(n))
    BY DEF Grown
  <2> DEFINE K == Text(n)
  <2> HIDE DEF K
  <2>3. Image_(u, s, K \cup {va})
    BY <1>1, <1>3, <1>9, <2>1, <2>2, ImageGrows DEF K
  <2>4. QED BY <2>1, <2>3 DEF K
<1>12. u \in Mem
  BY <1>10 DEF Holds, Ok, Placed
<1>13. Took(g).free = G1 /\ Took(g).space = g.space
  BY <1>2 DEF Took, Mem, f
<1>14. IsFiniteSet(u.free) /\ Cardinality(u.free) \in Nat /\ u.free \subseteq Frames /\ g.free \subseteq Frames
  BY <1>2, <1>12, FreeFinite, MemFields
<1>15. CASE g.space[s].table[x] # None
  <2>1. u.space[s].table = g.space[s].table /\ G1 \subseteq u.free
    BY <1>9, <1>13, <1>15 DEF Walked, x
  <2>2. Tabled(u, s) = Tabled(g, s)
    BY <2>1 DEF Tabled
  <2>3. Cardinality(G1) <= Cardinality(u.free)
    <3> HIDE DEF G1
    <3> QED BY <1>14, <2>1, FS_Subset
  <2>4. Cardinality(u.free) + (n + 1) + Cardinality(Tabled(u, s)) >= Cardinality(t.free)
    <3> HIDE DEF G1
    <3> QED BY <1>4, <1>5, <1>7, <1>14, <2>2, <2>3 DEF G
  <2>5. QED BY <1>10, <1>11, <2>4 DEF Grown
<1>16. CASE g.space[s].table[x] = None
  <2>1. PICK h \in G1 : u.space[s].table = [g.space[s].table EXCEPT ![x] = h] /\ G1 \ {h} \subseteq u.free
    BY <1>9, <1>13, <1>16 DEF Walked, x
  <2>2. h # None
    BY <1>14, Layout
  <2>3. g.space[s].table \in [Tables -> Frames \cup {None}]
    BY <1>2, SpaceFields
  <2>4. Tabled(u, s) = Tabled(g, s) \cup {x} /\ x \notin Tabled(g, s)
    BY <1>3, <1>16, <2>1, <2>2, <2>3 DEF Tabled
  <2>5. Cardinality(Tabled(u, s)) = Cardinality(Tabled(g, s)) + 1
    <3> DEFINE D == Tabled(g, s)
    <3> HIDE DEF D
    <3>1. IsFiniteSet(D) /\ x \notin D
      BY <1>4, <2>4 DEF D
    <3>2. Cardinality(D \cup {x}) = Cardinality(D) + 1
      BY <3>1, FS_AddElement
    <3>3. QED BY <2>4, <3>2 DEF D
  <2> HIDE DEF G1
  <2>6. /\ IsFiniteSet(G1 \ {h}) /\ Cardinality(G1 \ {h}) \in Nat /\ Cardinality(G1 \ {h}) >= Cardinality(G1) - 1
    BY <1>7, Fewer, Zenon
  <2> DEFINE H == G1 \ {h}
  <2> HIDE DEF H
  <2>7. Cardinality(H) <= Cardinality(u.free)
    <3>1. H \subseteq u.free
      BY <2>1 DEF H
    <3>2. QED BY <1>14, <3>1, FS_Subset
  <2>8. Cardinality(u.free) + (n + 1) + Cardinality(Tabled(u, s)) >= Cardinality(t.free)
    BY <1>4, <1>5, <1>7, <1>14, <2>5, <2>6, <2>7 DEF G, H
  <2>9. QED BY <1>10, <1>11, <2>8 DEF Grown
<1>17. QED BY <1>15, <1>16

LEMMA GrownAll ==
  ASSUME VmAssumption, NEW t, NEW r, Ok(t, r), NEW s \in Spaces, t.space[s] # None, Empty(t, s),
         Cardinality(t.free) >= TextPages + Cardinality(Tables), NEW n \in 0 .. TextPages,
         NEW g, IsGrow(g, t, s)
  PROVE  Grown(t, g[n], s, n)
<1> DEFINE Bad == {i \in 0 .. TextPages : ~Grown(t, g[i], s, i)}
<1>1. t \in Mem /\ TextPages \in Nat
  BY Layout DEF Ok, Placed
<1>2. Bad = {}
  <2> SUFFICES ASSUME Bad # {} PROVE FALSE
    OBVIOUS
  <2>1. Bad \subseteq Nat
    BY <1>1
  <2> HIDE DEF Bad
  <2>2. PICK i \in Bad : \A k \in Bad : ~(<<k, i>> \in OpToRel(<, Nat))
    BY <2>1, NatLessThanWellFounded, WFMin
  <2>3. i \in 0 .. TextPages /\ ~Grown(t, g[i], s, i) /\ \A k \in Bad : ~(k < i)
    BY <2>1, <2>2 DEF OpToRel, Bad
  <2>4. g[i] = IF i = 0 THEN t ELSE page_new(g[i - 1], s, UTEXT + i - 1, PTE_USTK)
    BY <2>3, Zenon DEF IsGrow
  <2>5. CASE i = 0
    <3>1. g[i] = t
      BY <2>4, <2>5
    <3>2. Text(i) = {}
      BY <2>5, Layout DEF Text
    <3>3. Image_(t, s, Text(i))
      BY <3>2 DEF Image_, Empty, NoPages, Pt
    <3>4. Tabled(t, s) = {}
      BY DEF Tabled, Empty
    <3>5. Cardinality(t.free) + i + Cardinality(Tabled(t, s)) >= Cardinality(t.free)
      BY <1>1, <2>5, <3>4, FS_EmptySet, FreeFinite
    <3>6. Changes(t, t, s)
      BY DEF Changes
    <3>7. QED BY <2>3, <3>1, <3>3, <3>5, <3>6 DEF Grown, Holds
  <2>6. CASE i # 0
    <3>1. i - 1 \in Nat /\ i - 1 < TextPages /\ i - 1 \in 0 .. TextPages /\ i - 1 < i /\ (i - 1) + 1 = i
          /\ UTEXT + (i - 1) = UTEXT + i - 1
      BY <1>1, <2>3, <2>6, Layout
    <3>2. Grown(t, g[i - 1], s, i - 1)
      BY <2>3, <3>1 DEF Bad
    <3>3. g[i] = page_new(g[i - 1], s, UTEXT + (i - 1), PTE_USTK)
      BY <2>4, <2>6, <3>1
    <3> DEFINE k == i - 1
    <3> HIDE DEF k
    <3>4. Grown(t, g[i], s, k + 1)
      BY <1>1, <3>1, <3>2, <3>3, GrownStep DEF k
    <3>5. QED BY <2>3, <3>1, <3>4 DEF k
  <2>7. QED BY <2>5, <2>6
<1>3. QED BY <1>2

LEMMA LoadedOk ==
  ASSUME VmAssumption, NEW t, NEW r, Ok(t, r), NEW s \in Spaces, t.space[s] # None,
         NEW K \in SUBSET Vas, Image_(t, s, K), NEW v \in Vals, NEW u, u = Loaded(t, s, v)
  PROVE  /\ Ok(u, r) /\ u.space = t.space /\ u.ref = t.ref /\ u.free = t.free /\ PtSame(t, u)
         /\ Changes(t, u, s) /\ Image_(u, s, K) /\ \A w \in K : Read(u, s, w) = v
<1> DEFINE D == [f \in Frames |-> IF \E x \in Vas : t.space[s].pt[x] = Entry(f, PTE_USTK) THEN v ELSE t.data[f]]
<1>1. t \in Mem /\ Placed(t, r)
  BY DEF Ok, Placed
<1>2. D \in [Frames -> Vals]
  BY <1>1, MemFields
<1>3. u = [t EXCEPT !.data = D]
  BY DEF Loaded
<1>4. \A f \in Frames : D[f] = IF \E x \in Vas : t.space[s].pt[x] = Entry(f, PTE_USTK) THEN v ELSE t.data[f]
  OBVIOUS
<1> HIDE DEF D
<1>5. /\ u.space = t.space /\ u.ref = t.ref /\ u.free = t.free /\ u.data = D
      /\ u = [space |-> u.space, ref |-> u.ref, data |-> u.data, free |-> u.free]
  BY <1>1, <1>3 DEF Mem
<1>6. u \in Mem
  BY <1>1, <1>2, <1>5, MemFields, IsMem
<1>7. PtSame(t, u)
  BY <1>5 DEF Pt, PtSame
<1>8. \A f : PagesOf(u, f) = PagesOf(t, f) /\ StacksOf(u, f) = StacksOf(t, f)
  BY <1>5 DEF PagesOf, StacksOf, Pt
<1>9. Placed(u, r)
  <2>1. \A q \in Spaces : u.space[q] # None => Owns(u, r, q)
    BY <1>5 DEF Ok, Placed, Owns
  <2>2. QED BY <1>5, <1>6, <2>1 DEF Ok, Placed
<1>10. Counted(u)
  BY <1>5, <1>8 DEF Ok, Counted
<1>11. Image_(u, s, K)
  BY <1>7, <1>8 DEF Image_, PtSame, Only
<1>12. ASSUME NEW w \in K PROVE Read(u, s, w) = v
  <2>1. w \in Vas /\ Pt(t, s, w) # None /\ Pt(t, s, w).perm = PTE_USTK /\ Pt(u, s, w) = Pt(t, s, w)
    BY <1>7 DEF Image_, PtSame
  <2>2. t.space[s].pt[w] = Pt(t, s, w) /\ Pt(t, s, w) \in Entries /\ Pt(t, s, w).frame \in Frames
    BY <1>1, <2>1, PtFrame
  <2>3. t.space[s].pt[w] = Entry(Pt(t, s, w).frame, PTE_USTK)
    BY <2>1, <2>2 DEF Entry, Entries
  <2>4. D[Pt(t, s, w).frame] = v
    BY <1>4, <2>1, <2>2, <2>3
  <2>5. QED BY <1>5, <2>1, <2>4 DEF Read
<1>13. ASSUME NEW q \in Spaces \ {s}, NEW w \in Vas PROVE Read(u, q, w) = Read(t, q, w)
  <2>1. Pt(u, q, w) = Pt(t, q, w)
    BY <1>7 DEF PtSame
  <2>2. CASE Pt(t, q, w) = None
    BY <2>1, <2>2 DEF Read
  <2>3. CASE Pt(t, q, w) # None
    <3> DEFINE f == Pt(t, q, w).frame
    <3>1. f \in Frames /\ <<q, w>> \in PagesOf(t, f)
      BY <1>1, <2>3, PtFrame, InPages
    <3> HIDE DEF f
    <3>2. ASSUME NEW x \in Vas, t.space[s].pt[x] = Entry(f, PTE_USTK) PROVE FALSE
      <4>1. Pt(t, s, x) = Entry(f, PTE_USTK)
        BY <3>2 DEF Pt
      <4>2. Pt(t, s, x) # None /\ Pt(t, s, x).frame = f
        <5>1. PTE_USTK \in SUBSET PTE_SYSCALL
          BY Rights DEF PTE_USTK
        <5>2. QED BY <3>1, <4>1, <5>1, EntryIs
      <4>3. Only(t, f, s, x)
        BY <4>2 DEF Image_
      <4>4. QED BY <3>1, <4>3 DEF Only
    <3>3. D[f] = t.data[f]
      BY <1>4, <3>1, <3>2
    <3>4. QED BY <1>5, <2>1, <2>3, <3>3 DEF Read, f
  <2>4. QED BY <2>2, <2>3
<1>14. Changes(t, u, s)
  BY <1>5, <1>13 DEF Changes
<1>15. QED BY <1>5, <1>7, <1>9, <1>10, <1>11, <1>12, <1>14 DEF Ok

\* A program of n pages in an empty address space.
LEMMA ImageOk ==
  ASSUME VmAssumption, NEW t, NEW r, Ok(t, r), NEW s \in Spaces, t.space[s] # None, Empty(t, s),
         Cardinality(t.free) >= TextPages + Cardinality(Tables), NEW n \in 0 .. TextPages,
         NEW v \in Vals, NEW u, u = Image(t, s, n, v)
  PROVE  /\ Holds(u) /\ Changes(t, u, s) /\ Image_(u, s, Text(n)) /\ \A w \in Text(n) : Read(u, s, w) = v
         /\ Cardinality(u.free) >= Cardinality(t.free) - n - Cardinality(Tables)
<1>1. PICK g : IsGrow(g, t, s) /\ u = Loaded(g[n], s, v)
  BY GrowExists, ImageIs
<1>2. Grown(t, g[n], s, n)
  BY <1>1, GrownAll
<1>3. PICK y : y = g[n] /\ Grown(t, y, s, n) /\ u = Loaded(y, s, v)
  BY <1>1, <1>2
<1>4. PICK r1 : Ok(y, r1)
  BY <1>3 DEF Grown, Holds
<1>5. y.space[s] # None /\ Changes(t, y, s) /\ Image_(y, s, Text(n)) /\ Text(n) \in SUBSET Vas
  BY <1>3, Layout DEF Grown, Changes, Text, Vas
<1>6. /\ Ok(u, r1) /\ u.space = y.space /\ u.ref = y.ref /\ u.free = y.free /\ PtSame(y, u)
      /\ Changes(y, u, s) /\ Image_(u, s, Text(n)) /\ \A w \in Text(n) : Read(u, s, w) = v
  BY <1>3, <1>4, <1>5, LoadedOk
<1>7. Changes(t, u, s)
  BY <1>5, <1>6, ChangesCompose
<1>8. Cardinality(y.free) \in Nat /\ Cardinality(t.free) \in Nat /\ Cardinality(Tabled(y, s)) <= Cardinality(Tables)
      /\ Cardinality(Tabled(y, s)) \in Nat /\ Cardinality(Tables) \in Nat
  BY <1>4, FreeFinite, TabledFew DEF Ok, Placed
<1>9. Cardinality(u.free) >= Cardinality(t.free) - n - Cardinality(Tables)
  BY <1>3, <1>6, <1>8, Layout DEF Grown
<1>10. QED BY <1>6, <1>7, <1>9 DEF Holds

\* The memory after exec and after exec_failure.
ExecMem(t, p, n, v) ==
    LET Old(y) == kernel_free(pgdir_free(y, p), p)
        Switch(y) == LET Done(u) == [u EXCEPT !.space[p] = y.space[New], !.space[New] = None] IN On(Old(y), Done)
        Stack(y) == On(kstack_insert(y, New, t.space[p].kstack), Switch)
        Program(y) == On(Image(y, New, n, v), Stack)
    IN  On(setup_vm(t, New), Program)

FailedMem(t, n) ==
    LET Free(y) == [page_decrease_ref(pgdir_free(y, New), y.space[New].dir) EXCEPT !.space[New] = None]
        Program(y) == On(Image(y, New, n, Zero), Free)
    IN  On(setup_vm(t, New), Program)

\* Their steps.
Switched(e, c, p) == [e EXCEPT !.space[p] = c.space[New], !.space[New] = None]

LEMMA ExecIs ==
  ASSUME NEW t, NEW p, NEW n, NEW v
  PROVE  \E a, b, c, d, e :
            /\ a = setup_vm(t, New) /\ b = Image(a, New, n, v) /\ c = kstack_insert(b, New, t.space[p].kstack)
            /\ d = pgdir_free(c, p) /\ e = kernel_free(d, p)
            /\ ExecMem(t, p, n, v) = Switched(e, c, p)
<1> DEFINE Old(y) == kernel_free(pgdir_free(y, p), p)
           Done(y, u) == [u EXCEPT !.space[p] = y.space[New], !.space[New] = None]
           Switch(y) == LET Done1(u) == [u EXCEPT !.space[p] = y.space[New], !.space[New] = None] IN On(Old(y), Done1)
           Stack(y) == On(kstack_insert(y, New, t.space[p].kstack), Switch)
           Program(y) == On(Image(y, New, n, v), Stack)
<1>1. ExecMem(t, p, n, v) = On(setup_vm(t, New), Program)
  BY DEF ExecMem
<1>2. \A y : Switch(y) = Done(y, Old(y))
  <2> HIDE DEF Old
  <2> QED BY Zenon DEF On
<1> HIDE DEF Switch
<1>3. \A y : Stack(y) = Switch(kstack_insert(y, New, t.space[p].kstack))
  BY Zenon DEF On
<1> HIDE DEF Stack
<1>4. \A y : Program(y) = Stack(Image(y, New, n, v))
  BY Zenon DEF On
<1> HIDE DEF Program
<1>5. On(setup_vm(t, New), Program) = Program(setup_vm(t, New))
  BY Zenon DEF On
<1> DEFINE a == setup_vm(t, New)
           b == Image(a, New, n, v)
           c == kstack_insert(b, New, t.space[p].kstack)
           d == pgdir_free(c, p)
           e == kernel_free(d, p)
<1>6. Program(a) = Stack(b) /\ Stack(b) = Switch(c) /\ Old(c) = e
  <2>1. Program(a) = Stack(b)
    BY <1>4
  <2>2. Stack(b) = Switch(c)
    BY <1>3
  <2>3. QED BY <2>1, <2>2
<1>7. Switch(c) = Done(c, e)
  <2>1. Switch(c) = Done(c, Old(c))
    <3> HIDE DEF Done, Old
    <3> QED BY <1>2, Zenon
  <2>2. QED BY <1>6, <2>1
<1>8. ExecMem(t, p, n, v) = Done(c, e)
  BY <1>1, <1>5, <1>6, <1>7
<1> HIDE DEF a, b, c, d, e
<1>9. /\ a = setup_vm(t, New) /\ b = Image(a, New, n, v) /\ c = kstack_insert(b, New, t.space[p].kstack)
      /\ d = pgdir_free(c, p) /\ e = kernel_free(d, p)
  BY DEF a, b, c, d, e
<1>10. ExecMem(t, p, n, v) = Switched(e, c, p)
  BY <1>8 DEF Switched
<1>11. QED BY <1>9, <1>10, Zenon

LEMMA FailedIs ==
  ASSUME NEW t, NEW n
  PROVE  \E a, b, c :
            /\ a = setup_vm(t, New) /\ b = Image(a, New, n, Zero) /\ c = pgdir_free(b, New)
            /\ FailedMem(t, n) = NoDir(page_decrease_ref(c, b.space[New].dir), New)
<1> DEFINE Free(y) == [page_decrease_ref(pgdir_free(y, New), y.space[New].dir) EXCEPT !.space[New] = None]
           Program(y) == On(Image(y, New, n, Zero), Free)
<1>1. FailedMem(t, n) = On(setup_vm(t, New), Program)
  BY DEF FailedMem
<1>2. \A y : Program(y) = Free(Image(y, New, n, Zero))
  <2> HIDE DEF Free
  <2> QED BY Zenon DEF On
<1> HIDE DEF Program
<1>3. On(setup_vm(t, New), Program) = Program(setup_vm(t, New))
  BY Zenon DEF On
<1> DEFINE a == setup_vm(t, New)
           b == Image(a, New, n, Zero)
           c == pgdir_free(b, New)
<1>4. FailedMem(t, n) = Free(b)
  <2> HIDE DEF Free
  <2> QED BY <1>1, <1>2, <1>3
<1>5. Free(b) = NoDir(page_decrease_ref(c, b.space[New].dir), New)
  BY DEF NoDir
<1> HIDE DEF a, b, c, Free
<1>6. a = setup_vm(t, New) /\ b = Image(a, New, n, Zero) /\ c = pgdir_free(b, New)
  BY DEF a, b, c
<1>7. QED BY <1>4, <1>5, <1>6

\* The address spaces S stay, and what one reads there.
Kept(t, u, S) == \A q \in S : u.space[q] = t.space[q] /\ \A w \in Vas : Read(u, q, w) = Read(t, q, w)

LEMMA KeptCompose ==
  ASSUME NEW t, NEW u, NEW v, NEW S, Kept(t, u, S), Kept(u, v, S)
  PROVE  Kept(t, v, S)
BY DEF Kept

LEMMA KeptChanges == ASSUME NEW t, NEW u, NEW s, Changes(t, u, s) PROVE Kept(t, u, Spaces \ {s})
BY DEF Kept, Changes

LEMMA KeptBeside ==
  ASSUME VmAssumption, NEW t, Holds(t), NEW u, Holds(u), DataKept(t, u), NEW s, Beside(t, u, s)
  PROVE  Kept(t, u, Spaces \ {s})
<1>1. PICK r : Ok(t, r)
  BY DEF Holds
<1>2. PICK r2 : Ok(u, r2)
  BY DEF Holds
<1>3. ASSUME NEW q \in Spaces \ {s}, NEW w \in Vas PROVE u.space[q] = t.space[q] /\ Read(u, q, w) = Read(t, q, w)
  <2>1. u.space[q] = t.space[q]
    BY DEF Beside
  <2>2. Pt(u, q, w) = Pt(t, q, w)
    BY <2>1 DEF Pt
  <2>3. QED BY <1>1, <1>2, <2>1, <2>2, ReadKept DEF Ok
<1>4. QED BY <1>3 DEF Kept, Beside

LEMMA KeptFewer == ASSUME NEW t, NEW u, NEW S, Kept(t, u, S), NEW R \in SUBSET S PROVE Kept(t, u, R)
BY DEF Kept

\* exec's directory becomes that of p.
LEMMA ImageMoves ==
  ASSUME VmAssumption, NEW t, NEW u, NEW p \in Procs, NEW K \in SUBSET Vas, Image_(t, New, K),
         \A z \in Vas : Pt(u, p, z) = Pt(t, New, z),
         \A q \in Spaces \ {p}, z \in Vas : Pt(u, q, z) = None \/ (q # New /\ Pt(u, q, z) = Pt(t, q, z))
  PROVE  Image_(u, p, K)
<1>1. p \in Spaces /\ New \in Spaces
  BY DEF Spaces
<1>2. ASSUME NEW w \in Vas \ K PROVE Pt(u, p, w) = None
  BY DEF Image_
<1>3. ASSUME NEW w \in K PROVE Pt(u, p, w) # None /\ Pt(u, p, w).perm = PTE_USTK /\ Only(u, Pt(u, p, w).frame, p, w)
  <2>1. w \in Vas /\ Pt(u, p, w) = Pt(t, New, w) /\ Pt(t, New, w) # None /\ Pt(t, New, w).perm = PTE_USTK
        /\ Only(t, Pt(t, New, w).frame, New, w)
    BY DEF Image_
  <2> DEFINE h == Pt(t, New, w).frame
             C == {<<p, w>>}
  <2>2. PagesOf(t, h) = {<<New, w>>}
    BY <2>1 DEF Only
  <2> HIDE DEF h
  <2>3. ASSUME NEW q \in Spaces, NEW z \in Vas PROVE <<q, z>> \in PagesOf(u, h) <=> <<q, z>> \in C
    <3>1. /\ <<q, z>> \in PagesOf(u, h) <=> Pt(u, q, z) # None /\ Pt(u, q, z).frame = h
          /\ <<q, z>> \in PagesOf(t, h) <=> Pt(t, q, z) # None /\ Pt(t, q, z).frame = h
          /\ <<New, z>> \in PagesOf(t, h) <=> Pt(t, New, z) # None /\ Pt(t, New, z).frame = h
      BY <1>1, InPages
    <3>2. CASE q = p
      <4>1. <<q, z>> \in C <=> z = w
        BY <3>2
      <4>2. <<New, z>> \in PagesOf(t, h) <=> z = w
        BY <2>2
      <4>3. QED BY <3>1, <3>2, <4>1, <4>2
    <3>3. CASE q # p
      <4>1. <<q, z>> \notin C
        BY <3>3
      <4>2. q # New => <<q, z>> \notin PagesOf(t, h)
        BY <2>2
      <4>3. QED BY <3>1, <3>3, <4>1, <4>2
    <3>4. QED BY <3>2, <3>3
  <2>4. PagesOf(u, h) \in SUBSET (Spaces \X Vas) /\ C \in SUBSET (Spaces \X Vas)
    BY <1>1, <2>1, PagesAre
  <2>5. PagesOf(u, h) = C
    <3> HIDE DEF C
    <3> QED BY <2>3, <2>4, SameCells, Zenon
  <2>6. QED BY <2>1, <2>5 DEF Only, h
<1>4. QED BY <1>2, <1>3 DEF Image_

\* exec: p has the pages of the program and nothing else, the other processes
\* what they had.
LEMMA ExecOk ==
  ASSUME VmAssumption, NEW t, NEW r, Ok(t, r), NEW p \in Procs, t.space[p] # None, t.space[p].kstack # None,
         t.space[New] = None, Cardinality(t.free) >= TextPages + 2 + Cardinality(Tables),
         NEW n \in 0 .. TextPages, NEW v \in Vals, NEW u, u = ExecMem(t, p, n, v)
  PROVE  /\ Holds(u) /\ Kept(t, u, Procs \ {p}) /\ u.space[New] = None
         /\ u.space[p] # None /\ u.space[p].kstack # None
         /\ Image_(u, p, Text(n)) /\ \A w \in Text(n) : Read(u, p, w) = v
<1>1. PICK a, b, c, d, e :
         /\ a = setup_vm(t, New) /\ b = Image(a, New, n, v) /\ c = kstack_insert(b, New, t.space[p].kstack)
         /\ d = pgdir_free(c, p) /\ e = kernel_free(d, p)
         /\ u = Switched(e, c, p)
  BY ExecIs
<1>2. New \in Spaces /\ p \in Spaces /\ p # New /\ Spaces \ {New} = Procs /\ p \in Spaces \ {New}
  BY Layout DEF Spaces
<1> DEFINE f == t.space[p].kstack
<1>3. t \in Mem /\ f \in Frames /\ f # None
  BY <1>2, SpaceFields DEF Ok, Placed
<1> HIDE DEF f
<1>4. Cardinality(t.free) \in Nat /\ IsFiniteSet(t.free) /\ Cardinality(Tables) \in Nat /\ TextPages \in Nat
  BY <1>3, FreeFinite, TabledFew, Layout
<1>5. t.free # {}
  BY <1>4, FS_EmptySet
<1>6. /\ Holds(a) /\ DataKept(t, a) /\ PtSame(t, a) /\ Beside(t, a, New)
      /\ a.free = t.free \ {Fresh(t)} /\ Fresh(t) \in t.free /\ a.space[New] = NewSpace(Fresh(t)) /\ a.space[New] # None
  BY <1>1, <1>2, <1>5, SetupOk
<1>7. Empty(a, New) /\ a.space[New].ktable = None /\ a.space[New].kstack = None
  BY <1>6 DEF NewSpace, Empty, NoPages
<1>8. Cardinality(a.free) >= TextPages + Cardinality(Tables) + 1 /\ Cardinality(a.free) \in Nat
  <2> DEFINE S == t.free
             x == Fresh(t)
  <2> HIDE DEF S, x
  <2>1. Cardinality(S \ {x}) >= Cardinality(S) - 1 /\ Cardinality(S \ {x}) \in Nat
    BY <1>4, Fewer, Zenon DEF S
  <2>2. QED BY <1>4, <1>6, <2>1 DEF S, x
<1>9. Kept(t, a, Procs)
  <2>1. Holds(t)
    BY DEF Holds
  <2>2. QED BY <1>2, <1>6, <2>1, KeptBeside
<1>10. PICK ra : Ok(a, ra)
  BY <1>6 DEF Holds
<1>11. /\ Holds(b) /\ Changes(a, b, New) /\ Image_(b, New, Text(n)) /\ \A w \in Text(n) : Read(b, New, w) = v
       /\ Cardinality(b.free) >= Cardinality(a.free) - n - Cardinality(Tables)
  <2>1. Cardinality(a.free) >= TextPages + Cardinality(Tables)
    BY <1>4, <1>8
  <2>2. b = Image(a, New, n, v) /\ New \in Spaces /\ a.space[New] # None /\ Empty(a, New)
    BY <1>1, <1>2, <1>6, <1>7
  <2>3. QED BY <1>10, <2>1, <2>2, ImageOk
<1>12. Kept(a, b, Procs) /\ Kept(t, b, Procs)
  BY <1>2, <1>9, <1>11, KeptChanges, KeptCompose
<1>13. PICK rb : Ok(b, rb)
  BY <1>11 DEF Holds
<1>14. b \in Mem /\ b.free # {}
  <2>1. b \in Mem
    BY <1>13 DEF Ok, Placed
  <2>2. Cardinality(b.free) \in Nat
    BY <2>1, FreeFinite
  <2>3. Cardinality(b.free) >= 1
    BY <1>4, <1>8, <1>11, <2>2
  <2>4. QED BY <2>1, <2>3, FS_EmptySet
<1>15. b.space[p] # None /\ b.space[p].kstack = f
  BY <1>12 DEF Kept, f
<1>16. rb[f] = Role("stack", New, 0) /\ f \notin b.free /\ b.ref[f] = Cardinality(StacksOf(b, f))
  <2>1. Placed(b, rb) /\ Owns(b, rb, p)
    BY <1>2, <1>13, <1>15 DEF Ok, Placed
  <2>2. rb[f] = Role("stack", New, 0)
    BY <1>3, <1>15, <2>1 DEF Owns
  <2>3. f \notin b.free
    BY <1>2, <1>15, <2>1, FreeNowhere
  <2>4. StacksOf(b, f) # {}
    BY <1>2, <1>15 DEF StacksOf
  <2>5. QED BY <1>3, <1>13, <2>2, <2>3, <2>4 DEF Ok, Counted
<1>17. b.space[New] # None /\ b.space[New].ktable = None /\ b.space[New].kstack = None
  BY <1>7, <1>11 DEF Changes
<1>18. /\ Holds(c) /\ DataKept(b, c) /\ PtSame(b, c) /\ Beside(b, c, New)
       /\ c.space[New] # None /\ c.space[New].kstack = f
       /\ c.space[New].pt = b.space[New].pt
  <2>1. c = kstack_insert(b, New, f)
    BY <1>1 DEF f
  <2>2. QED BY <1>2, <1>3, <1>13, <1>14, <1>16, <1>17, <2>1, StackOk
<1>19. Kept(t, c, Procs)
  BY <1>2, <1>11, <1>12, <1>18, KeptBeside, KeptCompose
<1>20. PICK rc : Ok(c, rc)
  BY <1>18 DEF Holds
<1>21. ASSUME NEW w \in Text(n) PROVE w \in Vas /\ Read(c, New, w) = v
  <2>1. w \in Vas
    BY Layout DEF Text, Vas
  <2>2. Pt(c, New, w) = Pt(b, New, w)
    BY <1>2, <1>18, <2>1 DEF PtSame
  <2>3. Read(c, New, w) = Read(b, New, w)
    BY <1>2, <1>13, <1>18, <1>20, <2>1, <2>2, ReadKept DEF Ok
  <2>4. QED BY <1>11, <2>1, <2>3
<1>22. Image_(c, New, Text(n))
  <2>1. \A h : PagesOf(c, h) = PagesOf(b, h)
    BY <1>18 DEF PagesOf, PtSame
  <2>2. Text(n) \subseteq Vas
    BY <1>21
  <2>3. QED BY <1>2, <1>11, <1>18, <2>1, <2>2 DEF Image_, PtSame, Only
<1>23. c.space[p] # None /\ c.space[p].kstack = f
  BY <1>19 DEF Kept, f
<1>24. /\ Holds(d) /\ Changes(c, d, p) /\ DataKept(c, d) /\ c.free \subseteq d.free /\ PtGone(c, d, p, Vas) /\ Empty(d, p)
  BY <1>1, <1>2, <1>20, <1>23, PgdirFreeOk
<1>25. PICK rd : Ok(d, rd)
  BY <1>24 DEF Holds
<1>26. d.space[p] # None /\ d.space[p].kstack # None
  BY <1>3, <1>23, <1>24 DEF Changes
<1>27. /\ Holds(e) /\ DataKept(d, e) /\ PtSame(d, e) /\ Beside(d, e, p) /\ e.space[p] = None /\ d.free \subseteq e.free
  BY <1>1, <1>2, <1>24, <1>25, <1>26, KernelFreeOk DEF Empty
<1>28. Kept(c, e, Spaces \ {p})
  BY <1>24, <1>27, KeptChanges, KeptBeside, KeptCompose
<1>29. e.space[New] = c.space[New] /\ e.space[New] # None
  BY <1>2, <1>18, <1>28 DEF Kept
<1>30. u = Rename(e, p)
  BY <1>1, <1>29 DEF Rename, Switched
<1>31. PICK re : Ok(e, re)
  BY <1>27 DEF Holds
<1>32. /\ Holds(u) /\ u.data = e.data /\ u.free = e.free /\ u.space[p] = e.space[New] /\ u.space[New] = None
       /\ \A q \in Procs \ {p} : u.space[q] = e.space[q]
  BY <1>27, <1>29, <1>30, <1>31, RenameOk
<1>33. ASSUME NEW w \in Vas PROVE Pt(u, p, w) = Pt(c, New, w) /\ Read(u, p, w) = Read(c, New, w)
  <2>1. Pt(u, p, w) = Pt(c, New, w) /\ Pt(u, p, w) = Pt(e, New, w)
    BY <1>29, <1>32 DEF Pt
  <2>2. Read(u, p, w) = Read(e, New, w)
    BY <1>32, <2>1 DEF Read
  <2>3. Read(e, New, w) = Read(c, New, w)
    BY <1>2, <1>28 DEF Kept
  <2>4. QED BY <2>1, <2>2, <2>3
<1>34. Kept(e, u, Procs \ {p})
  BY <1>32 DEF Kept, Read, Pt
<1>35. Kept(t, u, Procs \ {p})
  <2>1. Kept(t, c, Procs \ {p}) /\ Kept(c, e, Procs \ {p})
    BY <1>19, <1>28 DEF Kept, Spaces
  <2>2. QED BY <1>34, <2>1, KeptCompose
<1>36. ASSUME NEW q \in Spaces \ {p}, NEW z \in Vas PROVE Pt(u, q, z) = None \/ (q # New /\ Pt(u, q, z) = Pt(c, q, z))
  <2>1. CASE q = New
    BY <1>32, <2>1 DEF Pt
  <2>2. CASE q # New
    <3>1. q \in Procs \ {p} /\ u.space[q] = c.space[q]
      BY <1>28, <1>32, <2>2 DEF Kept, Spaces
    <3>2. QED BY <2>2, <3>1 DEF Pt
  <2>3. QED BY <2>1, <2>2
<1>37. Image_(u, p, Text(n))
  <2> DEFINE K == Text(n)
  <2>1. K \in SUBSET Vas
    BY <1>21
  <2> HIDE DEF K
  <2>2. Image_(c, New, K)
    BY <1>22 DEF K
  <2>3. Image_(u, p, K)
    BY <1>33, <1>36, <2>1, <2>2, ImageMoves
  <2>4. QED BY <2>3 DEF K
<1>38. u.space[p] # None /\ u.space[p].kstack # None
  BY <1>3, <1>18, <1>29, <1>32
<1>39. \A w \in Text(n) : Read(u, p, w) = v
  BY <1>21, <1>33
<1>40. QED BY <1>32, <1>35, <1>37, <1>38, <1>39

LEMMA FailedOk ==
  ASSUME VmAssumption, NEW t, NEW r, Ok(t, r), t.space[New] = None,
         Cardinality(t.free) >= TextPages + 2 + Cardinality(Tables),
         NEW n \in 0 .. TextPages, NEW u, u = FailedMem(t, n)
  PROVE  Holds(u) /\ Kept(t, u, Procs) /\ u.space[New] = None
<1>1. PICK a, b, c :
         /\ a = setup_vm(t, New) /\ b = Image(a, New, n, Zero) /\ c = pgdir_free(b, New)
         /\ u = NoDir(page_decrease_ref(c, b.space[New].dir), New)
  BY FailedIs
<1>2. New \in Spaces /\ Spaces \ {New} = Procs /\ Zero \in Vals
  BY Layout DEF Spaces
<1>4. Cardinality(t.free) \in Nat /\ IsFiniteSet(t.free) /\ Cardinality(Tables) \in Nat /\ TextPages \in Nat
  BY FreeFinite, TabledFew, Layout DEF Ok, Placed
<1>5. t.free # {}
  BY <1>4, FS_EmptySet
<1>6. /\ Holds(a) /\ DataKept(t, a) /\ PtSame(t, a) /\ Beside(t, a, New)
      /\ a.free = t.free \ {Fresh(t)} /\ Fresh(t) \in t.free /\ a.space[New] = NewSpace(Fresh(t)) /\ a.space[New] # None
  BY <1>1, <1>2, <1>5, SetupOk
<1>7. Empty(a, New) /\ a.space[New].ktable = None /\ a.space[New].kstack = None
  BY <1>6 DEF NewSpace, Empty, NoPages
<1>8. Cardinality(a.free) >= TextPages + Cardinality(Tables)
  <2> DEFINE S == t.free
             x == Fresh(t)
  <2> HIDE DEF S, x
  <2>1. Cardinality(S \ {x}) >= Cardinality(S) - 1 /\ Cardinality(S \ {x}) \in Nat
    BY <1>4, Fewer, Zenon DEF S
  <2>2. QED BY <1>4, <1>6, <2>1 DEF S, x
<1>9. Kept(t, a, Procs)
  <2>1. Holds(t)
    BY DEF Holds
  <2>2. QED BY <1>2, <1>6, <2>1, KeptBeside
<1>10. PICK ra : Ok(a, ra)
  BY <1>6 DEF Holds
<1>11. Holds(b) /\ Changes(a, b, New)
  BY <1>1, <1>2, <1>6, <1>7, <1>8, <1>10, ImageOk
<1>12. PICK rb : Ok(b, rb)
  BY <1>11 DEF Holds
<1>13. b.space[New] # None /\ b.space[New].kstack = None
  BY <1>7, <1>11 DEF Changes
<1>14. /\ Holds(c) /\ Changes(b, c, New) /\ DataKept(b, c) /\ b.free \subseteq c.free /\ PtGone(b, c, New, Vas) /\ Empty(c, New)
  BY <1>1, <1>2, <1>12, <1>13, PgdirFreeOk
<1>15. PICK rc : Ok(c, rc)
  BY <1>14 DEF Holds
<1>16. c.space[New] # None /\ c.space[New].kstack = None /\ c.space[New].dir = b.space[New].dir
  BY <1>13, <1>14 DEF Changes
<1>17. /\ Holds(u) /\ DataKept(c, u) /\ PtSame(c, u) /\ Beside(c, u, New) /\ u.space[New] = None /\ c.free \subseteq u.free
  <2>1. u = NoDir(page_decrease_ref(c, c.space[New].dir), New)
    BY <1>1, <1>16
  <2>2. QED BY <1>2, <1>14, <1>15, <1>16, <2>1, DirFreeOk DEF Empty
<1>18. Kept(t, u, Procs)
  BY <1>2, <1>9, <1>11, <1>14, <1>17, KeptChanges, KeptBeside, KeptCompose
<1>19. QED BY <1>17, <1>18

-----------------------------------------------------------------------------
(* What every operation keeps.                                              *)

\* Between the steps of the system exec's directory is gone, a process has a
\* kernel stack, and only the heap can have reached PFTEMP.
Shape(t) ==
    /\ Holds(t) /\ t.space[New] = None
    /\ \A q \in Procs : t.space[q] # None => t.space[q].kstack # None
    /\ \A q \in Procs : Pt(t, q, PFTEMP) # None => Pt(t, q, PFTEMP).perm = PTE_SYSCALL

\* Without the heap nothing is shared on purpose, and what one process may
\* write no other one has.
Priv(t) ==
    /\ \A q \in Procs, w \in Vas : Pt(t, q, w) # None => "SHARE" \notin Pt(t, q, w).perm
    /\ \A q, z \in Procs, w \in Vas :
          q # z /\ Pt(t, q, w) # None /\ Pt(t, z, w) # None /\ Pt(t, q, w).frame = Pt(t, z, w).frame =>
             "W" \notin Pt(t, q, w).perm

\* The page directories of processes other than p are the same.
Others(t, u, p) == \A q \in Procs \ {p} : u.space[q] = t.space[q]

LEMMA Rights2 ==
  /\ "W" \in PTE_SYSCALL /\ "SHARE" \in PTE_SYSCALL /\ PTE_SYSCALL \in SUBSET PTE_SYSCALL
  /\ "W" \in PTE_USTK /\ "SHARE" \notin PTE_USTK /\ PTE_USTK \in SUBSET PTE_SYSCALL
BY DEF PTE_SYSCALL, PTE_USTK

\* Entries that go away.
LEMMA PrivGone ==
  ASSUME NEW t, NEW u, Priv(t), \A q \in Procs, w \in Vas : Pt(u, q, w) = None \/ Pt(u, q, w) = Pt(t, q, w)
  PROVE  Priv(u)
BY DEF Priv

\* A page that is one process's only.
LEMMA PrivOnly ==
  ASSUME VmAssumption, NEW t, NEW u, NEW p \in Procs, Priv(t),
         \A q \in Procs \ {p}, w \in Vas : Pt(u, q, w) = Pt(t, q, w),
         \A w \in Vas : Pt(u, p, w) # None =>
            \/ Pt(u, p, w) = Pt(t, p, w)
            \/ /\ "SHARE" \notin Pt(u, p, w).perm
               /\ \A q \in Procs \ {p} : ~(Pt(u, q, w) # None /\ Pt(u, q, w).frame = Pt(u, p, w).frame)
  PROVE  Priv(u)
<1>1. \A q \in Procs, w \in Vas : Pt(u, q, w) # None => "SHARE" \notin Pt(u, q, w).perm
  BY DEF Priv
<1>2. ASSUME NEW q \in Procs, NEW z \in Procs, NEW w \in Vas, q # z, Pt(u, q, w) # None, Pt(u, z, w) # None,
             Pt(u, q, w).frame = Pt(u, z, w).frame
      PROVE  "W" \notin Pt(u, q, w).perm
  <2>1. Pt(u, q, w) = Pt(t, q, w) /\ Pt(u, z, w) = Pt(t, z, w)
    <3>1. CASE q = p
      BY <1>2, <3>1
    <3>2. CASE z = p
      BY <1>2, <3>2
    <3>3. CASE q # p /\ z # p
      BY <3>3
    <3>4. QED BY <3>1, <3>2, <3>3
  <2>2. QED BY <1>2, <2>1 DEF Priv
<1>3. QED BY <1>1, <1>2 DEF Priv

\* A store into a page that p may write: only p sees it.
LEMMA StoreOk ==
  ASSUME VmAssumption, NEW t, Shape(t), NEW p \in Procs, NEW va \in Vas, t.space[p] # None, t.space[p].pt[va] # None,
         NEW v \in Vals, NEW u, u = FillPage(t, t.space[p].pt[va].frame, v)
  PROVE  /\ Shape(u) /\ u.space = t.space
         /\ Priv(t) /\ "W" \in t.space[p].pt[va].perm =>
               \A q \in Procs, w \in Vas : Read(u, q, w) = IF q = p /\ w = va THEN v ELSE Read(t, q, w)
<1>1. PICK r : Ok(t, r)
  BY DEF Shape, Holds
<1> DEFINE f == t.space[p].pt[va].frame
<1>2. p \in Spaces /\ Pt(t, p, va) = t.space[p].pt[va]
  BY DEF Spaces, Pt
<1>3. f \in Frames /\ Pt(t, p, va) # None
  BY <1>1, <1>2, PtFrame DEF Ok
<1>4. u = FillPage(t, f, v)
  OBVIOUS
<1> HIDE DEF f
<1>f. /\ Ok(u, r) /\ u.space = t.space /\ u.ref = t.ref /\ u.free = t.free /\ u.data = [t.data EXCEPT ![f] = v]
      /\ \A q \in Spaces, w \in Vas : Pt(u, q, w) = Pt(t, q, w)
  BY <1>1, <1>3, <1>4, FillOk
<1>5. /\ Ok(u, r) /\ u.space = t.space /\ u.ref = t.ref /\ u.free = t.free
      /\ \A q \in Spaces, w \in Vas : Pt(u, q, w) = Pt(t, q, w)
  BY <1>f
<1>d. u.data = [t.data EXCEPT ![f] = v]
  BY <1>f
<1>6. Shape(u)
  <2>1. Holds(u) /\ u.space[New] = None /\ \A q \in Procs : u.space[q] # None => u.space[q].kstack # None
    BY <1>5 DEF Shape, Holds
  <2>2. \A q \in Procs : Pt(u, q, PFTEMP) = Pt(t, q, PFTEMP)
    BY <1>5, Temporary, Within
  <2>3. QED BY <2>1, <2>2 DEF Shape
<1>7. ASSUME Priv(t), "W" \in t.space[p].pt[va].perm, NEW q \in Procs, NEW w \in Vas
      PROVE  Read(u, q, w) = IF q = p /\ w = va THEN v ELSE Read(t, q, w)
  <2>1. q \in Spaces /\ Pt(u, q, w) = Pt(t, q, w) /\ t.data \in [Frames -> Vals]
    <3>1. t \in Mem
      BY <1>1 DEF Ok, Placed
    <3>2. QED BY <1>5, <3>1, MemFields, Within
  <2>2. CASE q = p /\ w = va
    <3>1. Pt(u, q, w).frame = f /\ Pt(u, q, w) # None
      BY <1>2, <1>3, <2>1, <2>2 DEF f
    <3>2. u.data[f] = v
      BY <1>3, <1>d, <2>1
    <3>3. QED BY <2>2, <3>1, <3>2 DEF Read
  <2>3. CASE Pt(t, q, w) = None
    BY <1>3, <2>1, <2>3 DEF Read
  <2>4. CASE ~(q = p /\ w = va) /\ Pt(t, q, w) # None
    <3>1. Pt(t, q, w).frame \in Frames /\ r[Pt(t, q, w).frame] = Role("page", New, w) /\ r[f] = Role("page", New, va)
      BY <1>1, <1>2, <1>3, <2>1, <2>4, PtFrame DEF Ok, f
    <3>2. Pt(t, q, w).frame # f
      <4>1. CASE w # va
        BY <3>1, <4>1 DEF Role
      <4>2. CASE w = va
        BY <1>2, <1>3, <1>7, <2>4, <4>2 DEF Priv, f
      <4>3. QED BY <4>1, <4>2
    <3>3. QED BY <1>d, <2>1, <2>4, <3>1, <3>2 DEF Read
  <2>5. QED BY <2>2, <2>3, <2>4
<1>8. QED BY <1>5, <1>6, <1>7

\* A write to a page that is copied first: nobody sees a difference.
LEMMA CowFaultOk ==
  ASSUME VmAssumption, NEW t, Shape(t), NEW p \in Procs, NEW va \in Vas, t.space[p] # None, t.space[p].pt[va] # None,
         "W" \notin t.space[p].pt[va].perm,
         Cardinality(t.free) >= IF t.space[p].table[PFTEMP \div PDENTRIES] = None THEN 2 ELSE 1,
         NEW u, u = cow_pgfault(t, p, va)
  PROVE  /\ Shape(u) /\ Lives(t, u) /\ (Priv(t) => Priv(u))
         /\ \A q \in Procs, w \in Vas : q # p => Pt(u, q, w) = Pt(t, q, w)
         /\ \A q \in Procs, w \in Vas : w # PFTEMP => Read(u, q, w) = Read(t, q, w)
<1>1. PICK r : Ok(t, r)
  BY DEF Shape, Holds
<1>2. t \in Mem /\ p \in Spaces /\ Pt(t, p, va) = t.space[p].pt[va] /\ PFTEMP \in Vas /\ New \in Spaces
  BY <1>1, Temporary DEF Spaces, Pt, Ok, Placed
<1>3. va # PFTEMP
  BY <1>2, Rights2 DEF Shape
<1>4. t.free # {} /\ (t.space[p].table[PFTEMP \div PDENTRIES] # None \/ t.free # {Fresh(t)})
  <2>1. IsFiniteSet(t.free) /\ Cardinality(t.free) \in Nat /\ Cardinality(t.free) >= 1
    BY <1>2, FreeFinite
  <2>2. t.free # {}
    BY <2>1, FS_EmptySet
  <2>3. t.free = {Fresh(t)} => Cardinality(t.free) = 1
    BY FS_Singleton
  <2>4. QED BY <2>1, <2>2, <2>3
<1> DEFINE f == Fresh(t)
           e == Entry(f, PTE_USTK)
<1>5. /\ Holds(u) /\ Lives(t, u) /\ DataKept(t, u)
      /\ f \in t.free /\ f \in Frames /\ u.data[f] = Read(t, p, va)
      /\ \A q \in Spaces, w \in Vas :
            Pt(u, q, w) = IF q = p /\ w = va THEN e
                          ELSE IF q = p /\ w = PFTEMP THEN None ELSE Pt(t, q, w)
  BY <1>1, <1>2, <1>3, <1>4, CowOk
<1>6. PICK r2 : Ok(u, r2)
  BY <1>5 DEF Holds
<1>7. e # None /\ e.frame = f /\ e.perm = PTE_USTK
  BY <1>5, EntryIs, Rights2
<1> HIDE DEF e, f
<1>8. Procs \subseteq Spaces
  BY DEF Spaces
<1>9. Shape(u)
  <2>1. u.space[New] = None
    BY <1>2, <1>5 DEF Shape, Lives
  <2>2. \A q \in Procs : u.space[q] # None => u.space[q].kstack # None
    BY <1>5, <1>8 DEF Shape, Lives
  <2>3. \A q \in Procs : Pt(u, q, PFTEMP) # None => Pt(u, q, PFTEMP).perm = PTE_SYSCALL
    BY <1>2, <1>3, <1>5, <1>8 DEF Shape
  <2>4. QED BY <1>5, <2>1, <2>2, <2>3 DEF Shape
<1>10. ASSUME Priv(t) PROVE Priv(u)
  <2>1. \A q \in Procs \ {p}, w \in Vas : Pt(u, q, w) = Pt(t, q, w)
    BY <1>5, <1>8
  <2>2. ASSUME NEW w \in Vas, Pt(u, p, w) # None
        PROVE  \/ Pt(u, p, w) = Pt(t, p, w)
               \/ /\ "SHARE" \notin Pt(u, p, w).perm
                  /\ \A q \in Procs \ {p} : ~(Pt(u, q, w) # None /\ Pt(u, q, w).frame = Pt(u, p, w).frame)
    <3>1. CASE w = va
      <4>1. Pt(u, p, w) = e
        BY <1>2, <1>5, <3>1
      <4>2. ASSUME NEW q \in Procs \ {p}, Pt(u, q, w) # None PROVE Pt(u, q, w).frame # f
        <5>1. Pt(t, q, w) = Pt(u, q, w)
          BY <2>1
        <5>2. Pt(t, q, w).frame \notin t.free
          BY <1>1, <1>8, <4>2, <5>1, PtFrame DEF Ok
        <5>3. QED BY <1>5, <5>1, <5>2
      <4>3. QED BY <1>7, <4>1, <4>2, Rights2
    <3>2. CASE w # va
      BY <1>2, <1>5, <2>2, <3>2
    <3>3. QED BY <3>1, <3>2
  <2>3. QED BY <1>10, <2>1, <2>2, PrivOnly
<1>11. ASSUME NEW q \in Procs, NEW w \in Vas, w # PFTEMP PROVE Read(u, q, w) = Read(t, q, w)
  <2>1. CASE q = p /\ w = va
    BY <1>2, <1>5, <1>7, <2>1 DEF Read
  <2>2. CASE ~(q = p /\ w = va)
    <3>1. Pt(u, q, w) = Pt(t, q, w) /\ q \in Spaces
      BY <1>5, <1>8, <1>11, <2>2
    <3>2. QED BY <1>1, <1>5, <1>6, <3>1, ReadKept DEF Ok
  <2>3. QED BY <2>1, <2>2
<1>12. \A q \in Procs, w \in Vas : q # p => Pt(u, q, w) = Pt(t, q, w)
  BY <1>5, <1>8
<1>13. QED BY <1>5, <1>9, <1>10, <1>11, <1>12

LEMMA ShapeBy ==
  ASSUME VmAssumption, NEW t, Shape(t), NEW u, Holds(u), Lives(t, u),
         \A q \in Procs : Pt(u, q, PFTEMP) # None => Pt(u, q, PFTEMP).perm = PTE_SYSCALL
  PROVE  Shape(u)
<1>1. u.space[New] = None
  BY Within DEF Shape, Lives
<1>2. \A q \in Procs : u.space[q] # None => u.space[q].kstack # None
  BY Within DEF Shape, Lives
<1>3. QED BY <1>1, <1>2 DEF Shape

\* A page of the heap.
LEMMA NewShape ==
  ASSUME VmAssumption, NEW t, Shape(t), NEW p \in Procs, NEW va \in Vas, t.space[p] # None, Cardinality(t.free) >= 2,
         NEW u, u = page_new(t, p, va, PTE_SYSCALL)
  PROVE  Shape(u) /\ Changes(t, u, p) /\ Lives(t, u) /\ Cardinality(u.free) >= Cardinality(t.free) - 2
<1>1. PICK r : Ok(t, r)
  BY DEF Shape, Holds
<1>2. t \in Mem /\ p \in Spaces /\ PFTEMP \in Vas /\ PTE_SYSCALL \in SUBSET PTE_SYSCALL
  BY <1>1, Within, Temporary, Rights2 DEF Ok, Placed
<1> DEFINE f == Fresh(t)
           perm == PTE_SYSCALL
<1>3. IsFiniteSet(t.free) /\ Cardinality(t.free) \in Nat
  BY <1>2, FreeFinite
<1>4. t.free # {} /\ t.free # {f}
  BY <1>3, FS_EmptySet, FS_Singleton
<1> HIDE DEF perm
<1>5. /\ Still(t, r, u)
      /\ Changes(t, u, p) /\ DataKept(t, u) /\ u.data[f] = Zero
      /\ f \in t.free /\ f \in Frames /\ Only(u, f, p, va)
      /\ Walked(Took(t), u, p, va)
      /\ PtIs(t, u, p, va, Entry(f, perm))
  <2>1. perm \in SUBSET PTE_SYSCALL /\ u = page_new(t, p, va, perm)
    BY <1>2 DEF perm
  <2>2. QED BY <1>1, <1>2, <1>4, <2>1, NewOk
<1>6. Holds(u) /\ Lives(t, u)
  BY <1>2, <1>5, LivesBy DEF Still, Holds
<1>7. Entry(f, perm) # None /\ Entry(f, perm).perm = PTE_SYSCALL
  BY <1>2, <1>5, EntryIs DEF perm
<1>8. Shape(u)
  <2>1. ASSUME NEW q \in Procs, Pt(u, q, PFTEMP) # None PROVE Pt(u, q, PFTEMP).perm = PTE_SYSCALL
    <3>1. q \in Spaces /\ (Pt(u, q, PFTEMP) = Entry(f, perm) \/ Pt(u, q, PFTEMP) = Pt(t, q, PFTEMP))
      BY <1>2, <1>5, Within DEF PtIs
    <3>2. QED BY <1>7, <2>1, <3>1 DEF Shape
  <2>2. QED BY <1>6, <2>1, ShapeBy
<1>9. Cardinality(u.free) >= Cardinality(t.free) - 2
  <2>1. PICK g : (t.free \ {f}) \ {g} \subseteq u.free
    <3>1. Took(t).free = t.free \ {f} /\ Took(t).space = t.space
      BY <1>2 DEF Took, Mem
    <3> DEFINE y == Took(t)
    <3> HIDE DEF y
    <3>2. Walked(y, u, p, va) /\ y.free = t.free \ {f}
      BY <1>5, <3>1 DEF y
    <3>3. \E g : \A x \in y.free : x # g => x \in u.free
      <4>1. CASE y.space[p].table[va \div PDENTRIES] # None
        BY <3>2, <4>1 DEF Walked
      <4>2. CASE y.space[p].table[va \div PDENTRIES] = None
        BY <3>2, <4>2 DEF Walked
      <4>3. QED BY <4>1, <4>2
    <3>4. PICK g : \A x \in y.free : x # g => x \in u.free
      BY <3>3
    <3> HIDE DEF f
    <3>5. ASSUME NEW x \in (t.free \ {f}) \ {g} PROVE x \in u.free
      <4>1. x \in y.free /\ x # g
        BY <3>2, <3>5, Zenon
      <4>2. QED BY <3>4, <4>1
    <3>6. QED BY <3>5
  <2>2. IsFiniteSet(u.free) /\ Cardinality(u.free) \in Nat
    BY <1>6, FreeFinite DEF Holds, Ok, Placed
  <2> DEFINE A == t.free
             B == A \ {f}
             C == B \ {g}
  <2>3. C \subseteq u.free
    BY <2>1
  <2> HIDE DEF A, f
  <2>4. IsFiniteSet(B) /\ Cardinality(A) \in Nat /\ Cardinality(B) \in Nat /\ Cardinality(B) >= Cardinality(A) - 1
    BY <1>3, Fewer, Zenon DEF A
  <2> HIDE DEF B
  <2>5. IsFiniteSet(C) /\ Cardinality(C) \in Nat /\ Cardinality(C) >= Cardinality(B) - 1
    BY <2>4, Fewer, Zenon
  <2> HIDE DEF C
  <2>6. Cardinality(C) <= Cardinality(u.free)
    BY <2>2, <2>3, FS_Subset
  <2>7. QED BY <2>2, <2>4, <2>5, <2>6 DEF A
<1>10. QED BY <1>5, <1>6, <1>8, <1>9

\* The pages that a fault in the heap adds.
LEMMA HeapOk ==
  ASSUME VmAssumption, NEW t, Shape(t), NEW p \in Procs, NEW va \in Vas, t.space[p] # None, Cardinality(t.free) >= 4,
         NEW aligned, Region(va, aligned) \subseteq Vas, NEW u, u = proc_region_alloc(t, p, va, aligned)
  PROVE  Shape(u) /\ Changes(t, u, p) /\ Lives(t, u)
<1> DEFINE a == page_new(t, p, va, PTE_SYSCALL)
           Next1(y) == IF aligned THEN y ELSE page_new(y, p, va + 1, PTE_SYSCALL)
<1>1. u = On(a, Next1)
  BY DEF proc_region_alloc
<1>2. On(a, Next1) = Next1(a)
  <2> HIDE DEF a, Next1
  <2> QED BY Zenon DEF On
<1>3. u = IF aligned THEN a ELSE page_new(a, p, va + 1, PTE_SYSCALL)
  BY <1>1, <1>2
<1>4. Cardinality(t.free) \in Nat
  BY FreeFinite DEF Shape, Holds, Ok, Placed
<1>5. Shape(a) /\ Changes(t, a, p) /\ Lives(t, a) /\ Cardinality(a.free) >= Cardinality(t.free) - 2
  <2>1. Cardinality(t.free) >= 2
    BY <1>4
  <2>2. QED BY <2>1, NewShape
<1> HIDE DEF a
<1>6. CASE aligned
  BY <1>3, <1>5, <1>6
<1>7. CASE ~aligned
  <2>1. va + 1 \in Vas /\ u = page_new(a, p, va + 1, PTE_SYSCALL)
    BY <1>3, <1>7 DEF Region
  <2>2. a.space[p] # None /\ p \in Spaces
    BY <1>5, Within DEF Changes
  <2>3. Cardinality(a.free) \in Nat
    BY <1>5, FreeFinite DEF Shape, Holds, Ok, Placed
  <2>4. Cardinality(a.free) >= 2
    BY <1>4, <1>5, <2>3
  <2>5. Shape(u) /\ Changes(a, u, p)
    BY <1>5, <2>1, <2>2, <2>4, NewShape
  <2>6. Changes(t, u, p)
    BY <1>5, <2>5, ChangesCompose
  <2>7. QED BY <2>2, <2>5, <2>6, LivesBy
<1>8. QED BY <1>6, <1>7

\* Nobody sees a difference.
Unseen(t, u) == \A q \in Procs, w \in Vas : Read(u, q, w) = Read(t, q, w)

LEMMA UnseenBy ==
  ASSUME VmAssumption, NEW t, Holds(t), NEW u, Holds(u), DataKept(t, u), PtSame(t, u)
  PROVE  Unseen(t, u)
<1>1. PICK r : Ok(t, r)
  BY DEF Holds
<1>2. PICK r2 : Ok(u, r2)
  BY DEF Holds
<1>3. ASSUME NEW q \in Procs, NEW w \in Vas PROVE Read(u, q, w) = Read(t, q, w)
  <2>1. q \in Spaces /\ Pt(u, q, w) = Pt(t, q, w)
    BY Within DEF PtSame
  <2>2. QED BY <1>1, <1>2, <2>1, ReadKept DEF Ok
<1>4. QED BY <1>3 DEF Unseen

LEMMA SameShape ==
  ASSUME VmAssumption, NEW t, Shape(t), NEW u, Holds(u), PtSame(t, u), u.space[New] = None,
         \A q \in Procs : u.space[q] # None => u.space[q].kstack # None
  PROVE  Shape(u) /\ (Priv(t) => Priv(u))
<1>1. \A q \in Procs, w \in Vas : Pt(u, q, w) = Pt(t, q, w)
  BY Within DEF PtSame
<1>2. Priv(t) => Priv(u)
  BY <1>1, PrivGone
<1>3. QED BY <1>1, <1>2, Temporary DEF Shape

LEMMA ForkShape ==
  ASSUME VmAssumption, NEW t, Shape(t), NEW c \in Procs, t.space[c] = None, Cardinality(t.free) >= 3,
         NEW u, u = proc_setup_vm(t, c)
  PROVE  /\ Shape(u) /\ (Priv(t) => Priv(u)) /\ u.space[c] # None /\ Others(t, u, c) /\ PtSame(t, u) /\ Unseen(t, u)
<1>1. PICK r : Ok(t, r)
  BY DEF Shape, Holds
<1>2. c \in Spaces /\ c # New
  BY Within, Layout
<1>3. /\ Holds(u) /\ DataKept(t, u) /\ PtSame(t, u) /\ Beside(t, u, c)
      /\ u.space[c] # None /\ u.space[c].kstack # None
  BY <1>1, <1>2, ProcSetupOk
<1>4. Others(t, u, c) /\ u.space[New] = None
  BY <1>2, <1>3, Within DEF Beside, Others, Shape
<1>5. \A q \in Procs : u.space[q] # None => u.space[q].kstack # None
  BY <1>3, <1>4 DEF Others, Shape
<1>6. Unseen(t, u)
  BY <1>3, UnseenBy DEF Shape
<1>7. QED BY <1>3, <1>4, <1>5, <1>6, SameShape

LEMMA WaitShape ==
  ASSUME VmAssumption, NEW t, Shape(t), NEW c \in Procs, t.space[c] # None, NoPages(t, c),
         NEW u, u = kernel_free(t, c)
  PROVE  /\ Shape(u) /\ (Priv(t) => Priv(u)) /\ u.space[c] = None /\ Others(t, u, c) /\ PtSame(t, u) /\ Unseen(t, u)
<1>1. PICK r : Ok(t, r)
  BY DEF Shape, Holds
<1>2. c \in Spaces /\ c # New /\ t.space[c].kstack # None
  BY Within, Layout DEF Shape
<1>3. /\ Holds(u) /\ DataKept(t, u) /\ PtSame(t, u) /\ Beside(t, u, c) /\ u.space[c] = None
  BY <1>1, <1>2, KernelFreeOk
<1>4. Others(t, u, c) /\ u.space[New] = None
  BY <1>2, <1>3, Within DEF Beside, Others, Shape
<1>5. \A q \in Procs : u.space[q] # None => u.space[q].kstack # None
  BY <1>3, <1>4 DEF Others, Shape
<1>6. Unseen(t, u)
  BY <1>3, UnseenBy DEF Shape
<1>7. QED BY <1>3, <1>4, <1>5, <1>6, SameShape

\* Pages that p gives back.
LEMMA GoneShape ==
  ASSUME VmAssumption, NEW t, Shape(t), NEW p \in Procs, t.space[p] # None, NEW K \in SUBSET Vas,
         NEW u, Holds(u), Changes(t, u, p), DataKept(t, u), PtGone(t, u, p, K)
  PROVE  /\ Shape(u) /\ (Priv(t) => Priv(u)) /\ Lives(t, u)
         /\ \A q \in Procs, w \in Vas : Read(u, q, w) = IF q = p /\ w \in K THEN None ELSE Read(t, q, w)
<1>1. PICK r : Ok(t, r)
  BY DEF Shape, Holds
<1>2. PICK r2 : Ok(u, r2)
  BY DEF Holds
<1>3. Lives(t, u)
  BY Within, LivesBy
<1>4. \A q \in Procs, w \in Vas : Pt(u, q, w) = IF q = p /\ w \in K THEN None ELSE Pt(t, q, w)
  BY Within DEF PtGone
<1>5. \A q \in Procs, w \in Vas : Pt(u, q, w) = None \/ Pt(u, q, w) = Pt(t, q, w)
  BY <1>4
<1>6. Shape(u)
  BY <1>3, <1>5, ShapeBy, Temporary DEF Shape
<1>7. ASSUME NEW q \in Procs, NEW w \in Vas PROVE Read(u, q, w) = IF q = p /\ w \in K THEN None ELSE Read(t, q, w)
  <2>1. CASE q = p /\ w \in K
    BY <1>4, <2>1 DEF Read
  <2>2. CASE ~(q = p /\ w \in K)
    <3>1. q \in Spaces /\ Pt(u, q, w) = Pt(t, q, w)
      BY <1>4, <2>2, Within
    <3>2. QED BY <1>1, <1>2, <2>2, <3>1, ReadKept DEF Ok
  <2>3. QED BY <2>1, <2>2
<1>8. QED BY <1>3, <1>5, <1>6, <1>7, PrivGone

LEMMA ExitShape ==
  ASSUME VmAssumption, NEW t, Shape(t), NEW p \in Procs, t.space[p] # None, NEW u, u = pgdir_free(t, p)
  PROVE  /\ Shape(u) /\ (Priv(t) => Priv(u)) /\ Lives(t, u) /\ NoPages(u, p) /\ Changes(t, u, p)
         /\ \A q \in Procs, w \in Vas : Read(u, q, w) = IF q = p THEN None ELSE Read(t, q, w)
<1>1. PICK r : Ok(t, r)
  BY DEF Shape, Holds
<1>2. Holds(u) /\ Changes(t, u, p) /\ DataKept(t, u) /\ PtGone(t, u, p, Vas) /\ Empty(u, p)
  BY <1>1, Within, PgdirFreeOk
<1> DEFINE K == Vas
<1>3. K \in SUBSET Vas /\ PtGone(t, u, p, K)
  BY <1>2
<1> HIDE DEF K
<1>4. /\ Shape(u) /\ (Priv(t) => Priv(u)) /\ Lives(t, u)
      /\ \A q \in Procs, w \in Vas : Read(u, q, w) = IF q = p /\ w \in K THEN None ELSE Read(t, q, w)
  BY <1>2, <1>3, GoneShape
<1>5. QED BY <1>2, <1>4 DEF K, Empty

LEMMA RemovedShape ==
  ASSUME VmAssumption, NEW t, Shape(t), NEW p \in Procs, t.space[p] # None, NEW low \in Int, NEW high \in Int,
         NEW u, u = Removed(t, p, low, high)
  PROVE  /\ Shape(u) /\ (Priv(t) => Priv(u)) /\ Lives(t, u) /\ Changes(t, u, p)
         /\ \A q \in Procs, w \in Vas :
               Read(u, q, w) = IF q = p /\ w \in low .. high - 1 THEN None ELSE Read(t, q, w)
<1>1. PICK r : Ok(t, r)
  BY DEF Shape, Holds
<1> DEFINE K == (low .. high - 1) \cap Vas
           L == {}
<1>2. IsRelease(t, u, p, K, L)
  BY <1>1, Within, RemovedIs
<1>3. K \in SUBSET Vas /\ L \in SUBSET Tables /\ (L # {} => K = Vas)
  OBVIOUS
<1> HIDE DEF K, L
<1>4. Still(t, r, u) /\ Changes(t, u, p) /\ DataKept(t, u) /\ PtGone(t, u, p, K)
  BY <1>1, <1>2, <1>3, Within, ReleaseOk
<1>5. Holds(u)
  BY <1>4 DEF Still, Holds
<1>6. /\ Shape(u) /\ (Priv(t) => Priv(u)) /\ Lives(t, u)
      /\ \A q \in Procs, w \in Vas : Read(u, q, w) = IF q = p /\ w \in K THEN None ELSE Read(t, q, w)
  <2>1. K \in SUBSET Vas
    BY <1>3
  <2>2. QED BY <1>4, <1>5, <2>1, GoneShape
<1>7. QED BY <1>4, <1>6 DEF K

\* fork shares a page; the child reads there what its parent does.
LEMMA DupShape ==
  ASSUME VmAssumption, NEW t, Shape(t), NEW p \in Procs, NEW c \in Procs, p # c, t.space[p] # None, t.space[c] # None,
         NEW va \in Vas, t.space[p].pt[va] # None, Cardinality(t.free) >= 1, NEW u, u = duppage(t, p, c, va)
  PROVE  /\ Shape(u) /\ (Priv(t) => Priv(u)) /\ Lives(t, u)
         /\ \A q \in Procs, w \in Vas : ~(q \in {p, c} /\ w = va) => Pt(u, q, w) = Pt(t, q, w)
         /\ \A q \in Procs, w \in Vas : Read(u, q, w) = IF q = c /\ w = va THEN Read(t, p, va) ELSE Read(t, q, w)
<1>1. PICK r : Ok(t, r)
  BY DEF Shape, Holds
<1>2. t \in Mem /\ p \in Spaces /\ c \in Spaces /\ t.free # {} /\ Pt(t, p, va) = t.space[p].pt[va]
  BY <1>1, Within, FS_EmptySet, SMTT(30) DEF Ok, Placed, Pt
<1> DEFINE f == Pt(t, p, va).frame
           perm == Pt(t, p, va).perm
           e == Entry(f, Copied(perm))
<1>3. /\ Holds(u) /\ Lives(t, u) /\ DataKept(t, u)
      /\ \A q \in Spaces, w \in Vas : Pt(u, q, w) = IF q \in {p, c} /\ w = va THEN e ELSE Pt(t, q, w)
  BY <1>1, <1>2, DupOk
<1>4. /\ f \in Frames /\ f \notin t.free /\ perm \in SUBSET PTE_SYSCALL /\ Pt(t, p, va) # None
  BY <1>1, <1>2, PtFrame DEF Ok, Entries
<1> HIDE DEF f, perm
<1>5. /\ Copied(perm) \in SUBSET PTE_SYSCALL
      /\ "SHARE" \notin perm => "W" \notin Copied(perm) /\ "SHARE" \notin Copied(perm)
      /\ perm = PTE_SYSCALL => Copied(perm) = PTE_SYSCALL
  BY <1>4 DEF Copied, PTE_SYSCALL
<1>6. e # None /\ e.frame = f /\ e.perm = Copied(perm)
  BY <1>4, <1>5, EntryIs
<1> HIDE DEF e
<1>7. \A q \in Procs, w \in Vas : Pt(u, q, w) = IF q \in {p, c} /\ w = va THEN e ELSE Pt(t, q, w)
  BY <1>3, Within
<1>8. Shape(u)
  <2>1. ASSUME NEW q \in Procs, Pt(u, q, PFTEMP) # None PROVE Pt(u, q, PFTEMP).perm = PTE_SYSCALL
    <3>1. CASE q \in {p, c} /\ PFTEMP = va
      <4>1. perm = PTE_SYSCALL
        BY <1>4, <3>1 DEF Shape, perm
      <4>2. QED BY <1>5, <1>6, <1>7, <3>1, <4>1
    <3>2. CASE ~(q \in {p, c} /\ PFTEMP = va)
      BY <1>7, <2>1, <3>2, Temporary DEF Shape
    <3>3. QED BY <3>1, <3>2
  <2>2. QED BY <1>3, <2>1, ShapeBy
<1>9. ASSUME Priv(t) PROVE Priv(u)
  <2>1. "W" \notin Copied(perm) /\ "SHARE" \notin Copied(perm)
    BY <1>4, <1>5, <1>9 DEF Priv, perm
  <2>2. ASSUME NEW q \in Procs, NEW w \in Vas, Pt(u, q, w) # None PROVE "SHARE" \notin Pt(u, q, w).perm
    BY <1>6, <1>7, <1>9, <2>1, <2>2 DEF Priv
  <2>3. ASSUME NEW q \in Procs, NEW z \in Procs, NEW w \in Vas, q # z, Pt(u, q, w) # None, Pt(u, z, w) # None,
               Pt(u, q, w).frame = Pt(u, z, w).frame
        PROVE  "W" \notin Pt(u, q, w).perm
    <3>1. CASE q \in {p, c} /\ w = va
      BY <1>6, <1>7, <2>1, <3>1
    <3>2. CASE ~(q \in {p, c} /\ w = va)
      <4>1. Pt(u, q, w) = Pt(t, q, w)
        BY <1>7, <3>2
      <4>2. CASE z \in {p, c} /\ w = va
        <5>1. q # p /\ Pt(t, q, va).frame = Pt(t, p, va).frame
          BY <1>6, <1>7, <2>3, <3>2, <4>1, <4>2 DEF f
        <5>2. QED BY <1>4, <1>9, <2>3, <4>1, <4>2, <5>1 DEF Priv
      <4>3. CASE ~(z \in {p, c} /\ w = va)
        BY <1>7, <1>9, <2>3, <4>1, <4>3 DEF Priv
      <4>4. QED BY <4>2, <4>3
    <3>3. QED BY <3>1, <3>2
  <2>4. QED BY <2>2, <2>3 DEF Priv
<1>10. PICK r2 : Ok(u, r2)
  BY <1>3 DEF Holds
<1>11. f \notin u.free /\ u.data[f] = t.data[f]
  <2>1. Pt(u, p, va) = e
    BY <1>7
  <2>2. f \notin u.free
    BY <1>2, <1>6, <1>10, <2>1, PtFrame DEF Ok
  <2>3. QED BY <1>3, <1>4, <2>2 DEF DataKept
<1>12. ASSUME NEW q \in Procs, NEW w \in Vas
       PROVE  Read(u, q, w) = IF q = c /\ w = va THEN Read(t, p, va) ELSE Read(t, q, w)
  <2>1. CASE q \in {p, c} /\ w = va
    <3>1. Read(u, q, w) = t.data[f]
      BY <1>6, <1>7, <1>11, <2>1 DEF Read
    <3>2. Read(t, p, va) = t.data[f]
      BY <1>4 DEF Read, f
    <3>3. QED BY <2>1, <3>1, <3>2
  <2>2. CASE ~(q \in {p, c} /\ w = va)
    <3>1. q \in Spaces /\ Pt(u, q, w) = Pt(t, q, w)
      BY <1>7, <2>2, Within
    <3>2. Read(u, q, w) = Read(t, q, w)
      BY <1>1, <1>3, <1>10, <3>1, ReadKept DEF Ok
    <3>3. QED BY <2>2, <3>2
  <2>3. QED BY <2>1, <2>2
<1>13. QED BY <1>3, <1>7, <1>8, <1>9, <1>12

LEMMA TextPlace ==
  ASSUME VmAssumption, NEW n \in 0 .. TextPages
  PROVE  Text(n) \in SUBSET Vas /\ PFTEMP \notin Text(n)
BY Layout DEF Text, Vas, PFTEMP

LEMMA ExecShape ==
  ASSUME VmAssumption, NEW t, Shape(t), NEW p \in Procs, t.space[p] # None,
         Cardinality(t.free) >= TextPages + 2 + Cardinality(Tables),
         NEW n \in 0 .. TextPages, NEW v \in Vals, NEW u, u = ExecMem(t, p, n, v)
  PROVE  /\ Shape(u) /\ (Priv(t) => Priv(u)) /\ u.space[p] # None /\ Others(t, u, p)
         /\ \A q \in Procs, w \in Vas :
               Read(u, q, w) = IF q # p THEN Read(t, q, w) ELSE IF w \in Text(n) THEN v ELSE None
<1>1. PICK r : Ok(t, r)
  BY DEF Shape, Holds
<1>2. t.space[p].kstack # None /\ t.space[New] = None
  BY DEF Shape
<1>3. /\ Holds(u) /\ Kept(t, u, Procs \ {p}) /\ u.space[New] = None
      /\ u.space[p] # None /\ u.space[p].kstack # None
      /\ Image_(u, p, Text(n)) /\ \A w \in Text(n) : Read(u, p, w) = v
  BY <1>1, <1>2, ExecOk
<1>4. \A q \in Procs \ {p}, w \in Vas : Pt(u, q, w) = Pt(t, q, w)
  BY <1>3 DEF Kept, Pt
<1>5. Shape(u)
  <2>1. \A q \in Procs : u.space[q] # None => u.space[q].kstack # None
    BY <1>3 DEF Kept, Shape
  <2>2. \A q \in Procs : Pt(u, q, PFTEMP) # None => Pt(u, q, PFTEMP).perm = PTE_SYSCALL
    BY <1>3, <1>4, Temporary, TextPlace DEF Shape, Image_
  <2>3. QED BY <1>3, <2>1, <2>2 DEF Shape
<1>6. ASSUME Priv(t) PROVE Priv(u)
  <2>1. ASSUME NEW w \in Vas, Pt(u, p, w) # None
        PROVE  /\ "SHARE" \notin Pt(u, p, w).perm
               /\ \A q \in Procs \ {p} : ~(Pt(u, q, w) # None /\ Pt(u, q, w).frame = Pt(u, p, w).frame)
    <3>1. w \in Text(n) /\ Pt(u, p, w).perm = PTE_USTK /\ Only(u, Pt(u, p, w).frame, p, w)
      BY <1>3, <2>1 DEF Image_
    <3>2. ASSUME NEW q \in Procs \ {p}, Pt(u, q, w) # None, Pt(u, q, w).frame = Pt(u, p, w).frame PROVE FALSE
      <4>1. <<q, w>> \in PagesOf(u, Pt(u, p, w).frame)
        BY <3>2, Within, InPages
      <4>2. QED BY <3>1, <3>2, <4>1 DEF Only
    <3>3. QED BY <3>1, <3>2, Rights2
  <2>2. QED BY <1>4, <1>6, <2>1, PrivOnly
<1>7. ASSUME NEW q \in Procs, NEW w \in Vas
      PROVE  Read(u, q, w) = IF q # p THEN Read(t, q, w) ELSE IF w \in Text(n) THEN v ELSE None
  <2>1. CASE q # p
    BY <1>3, <2>1 DEF Kept
  <2>2. CASE q = p /\ w \in Text(n)
    BY <1>3, <2>2
  <2>3. CASE q = p /\ w \notin Text(n)
    BY <1>3, <2>3 DEF Image_, Read
  <2>4. QED BY <2>1, <2>2, <2>3
<1>8. Others(t, u, p)
  BY <1>3 DEF Kept, Others
<1>9. QED BY <1>3, <1>5, <1>6, <1>7, <1>8

LEMMA FailedShape ==
  ASSUME VmAssumption, NEW t, Shape(t), Cardinality(t.free) >= TextPages + 2 + Cardinality(Tables),
         NEW n \in 0 .. TextPages, NEW u, u = FailedMem(t, n)
  PROVE  Shape(u) /\ (Priv(t) => Priv(u)) /\ Unseen(t, u) /\ \A q \in Procs : u.space[q] = t.space[q]
<1>1. PICK r : Ok(t, r)
  BY DEF Shape, Holds
<1>2. Holds(u) /\ Kept(t, u, Procs) /\ u.space[New] = None
  BY <1>1, FailedOk DEF Shape
<1>3. (\A q \in Procs : u.space[q] = t.space[q]) /\ Unseen(t, u)
  BY <1>2 DEF Kept, Unseen
<1>4. \A q \in Procs, w \in Vas : Pt(u, q, w) = Pt(t, q, w)
  BY <1>3 DEF Pt
<1>5. Shape(u)
  BY <1>2, <1>3, <1>4, Temporary DEF Shape
<1>6. QED BY <1>3, <1>4, <1>5, PrivGone

\* The first process.
LEMMA FirstShape ==
  ASSUME VmAssumption, NEW a, a = proc_setup_vm(Blank, Root), NEW u, u = Image(a, Root, TextPages, Zero)
  PROVE  /\ Shape(u) /\ Priv(u) /\ \A q \in Procs : u.space[q] # None <=> q = Root
<1> DEFINE r == [f \in Frames |-> Role("free", New, 0)]
<1>1. /\ Blank.space = NoSpace /\ Blank.ref = [f \in Frames |-> 0] /\ Blank.data = [f \in Frames |-> Zero]
      /\ Blank.free = Frames
      /\ Blank = [space |-> Blank.space, ref |-> Blank.ref, data |-> Blank.data, free |-> Blank.free]
  BY DEF Blank
<1>2. \A s \in Spaces : NoSpace[s] = None
  BY DEF NoSpace, Spaces
<1> DEFINE z == Blank
<1> HIDE DEF z
<1>3. z \in Mem
  <2>1. z.space \in [Spaces -> Space \cup {None}]
    BY <1>1 DEF NoSpace, Spaces, z
  <2>2. z.ref \in [Frames -> 0 .. REFS - 1] /\ z.data \in [Frames -> Vals] /\ z.free \subseteq Frames
    BY <1>1, Layout DEF z
  <2>3. QED BY <1>1, <2>1, <2>2, IsMem DEF z
<1>4. \A s \in Spaces : z.space[s] = None
  BY <1>1, <1>2 DEF z
<1>5. r \in Roles /\ \A f \in Frames : r[f].kind = "free"
  BY Within DEF Roles, Role, Uses_
<1> HIDE DEF r
<1>6. Placed(z, r)
  BY <1>3, <1>4, <1>5, MemFields DEF Placed
<1>7. \A f \in Frames : PagesOf(z, f) = {} /\ StacksOf(z, f) = {}
  BY <1>4 DEF PagesOf, StacksOf, Pt
<1>8. Ok(z, r)
  BY <1>4, <1>6, <1>7 DEF Ok, Counted
<1>9. Cardinality(z.free) = NFrames /\ NFrames \in Nat /\ Cardinality(Tables) \in Nat /\ TextPages \in Nat
      /\ NFrames >= TextPages + 3 + Cardinality(Tables) /\ Root \in Procs /\ Root \in Spaces /\ Root # New /\ Zero \in Vals
  BY <1>1, Finite, TabledFew, Layout, Within DEF z, VmAssumption
<1>10. /\ Holds(a) /\ PtSame(z, a) /\ Beside(z, a, Root)
       /\ Cardinality(a.free) >= Cardinality(z.free) - 3
       /\ a.space[Root] # None /\ a.space[Root].kstack # None
       /\ \A x \in Tables : a.space[Root].table[x] = None
  <2>1. a = proc_setup_vm(z, Root) /\ z.space[Root] = None
    BY <1>4, <1>9 DEF z
  <2>2. Cardinality(z.free) >= 3
    BY <1>9
  <2>3. QED BY <1>8, <1>9, <2>1, <2>2, ProcSetupOk
<1>11. PICK ra : Ok(a, ra)
  BY <1>10 DEF Holds
<1>12. Empty(a, Root)
  <2>1. \A va \in Vas : Pt(a, Root, va) = None
    BY <1>4, <1>9, <1>10 DEF PtSame, Pt
  <2>2. QED BY <1>10, <2>1 DEF Empty, NoPages, Pt
<1>13. Cardinality(a.free) \in Nat
  BY <1>11, FreeFinite DEF Ok, Placed
<1>14. Cardinality(a.free) >= TextPages + Cardinality(Tables) /\ TextPages \in 0 .. TextPages
  BY <1>9, <1>10, <1>13
<1>15. Holds(u) /\ Changes(a, u, Root) /\ Image_(u, Root, Text(TextPages))
  BY <1>9, <1>10, <1>11, <1>12, <1>14, ImageOk
<1>16. u.space[Root] # None /\ u.space[Root].kstack # None /\ \A q \in Spaces \ {Root} : u.space[q] = None
  BY <1>4, <1>10, <1>15 DEF Changes, Beside
<1>17. \A q \in Procs \ {Root}, w \in Vas : Pt(u, q, w) = None
  BY <1>16, Within DEF Pt
<1>18. \A w \in Vas : Pt(u, Root, w) # None => w # PFTEMP /\ Pt(u, Root, w).perm = PTE_USTK
  BY <1>14, <1>15, TextPlace DEF Image_
<1>19. Shape(u)
  <2>1. u.space[New] = None /\ \A q \in Procs : u.space[q] # None => u.space[q].kstack # None
    BY <1>9, <1>16, Within
  <2>2. \A q \in Procs : Pt(u, q, PFTEMP) = None
    BY <1>17, <1>18, Temporary
  <2>3. QED BY <1>15, <2>1, <2>2 DEF Shape
<1>20. Priv(u)
  BY <1>17, <1>18, Rights2 DEF Priv
<1>21. QED BY <1>16, <1>19, <1>20, Within

-----------------------------------------------------------------------------
(* The inductive invariant.                                                 *)

\* TypeOK but for what Shape says of the memory.
Rest ==
    /\ \A p \in Procs : status[p] = "unused" <=> m.space[p] = None
    /\ status \in [Procs -> {"unused", "new", "run", "zombie"}]
    /\ parent \in [Procs -> Procs \cup {None}]
    /\ heap_ptr \in [Procs -> 0 .. ADDRESSES - 1] /\ base_mem_sz \in [Procs -> 0 .. HEAPTOP]
    /\ fork \in [Procs -> [child : Procs, va : 0 .. UTOP] \cup {None}]
    /\ panic \in {None, "uvpt", "read"}

\* exit has given the pages back, which wait does not look at.
Zombies == \A p \in Procs : status[p] = "zombie" => NoPages(m, p)

\* A child under construction has one parent, which runs, and no pages where
\* cow_fork has not been.
Forks ==
    /\ \A p \in Procs : fork[p] # None =>
          /\ status[p] = "run" /\ status[fork[p].child] = "new"
          /\ \A va \in Vas : va >= fork[p].va => Pt(m, fork[p].child, va) = None
    /\ \A p, q \in Procs : fork[p] # None /\ fork[q] # None /\ fork[p].child = fork[q].child => p = q

Hidden == "heap" \notin Calls => Priv(m)

IInv == Rest /\ Shape(m) /\ Zombies /\ Forks /\ Hidden

LEMMA ShapeTypes ==
  ASSUME VmAssumption, NEW t, Shape(t)
  PROVE  /\ t.space \in [Procs \cup {New} -> Space \cup {None}]
         /\ t.ref \in [Frames -> 0 .. REFS - 1] /\ t.data \in [Frames -> Vals] /\ t.free \subseteq Frames
         /\ t.space[New] = None
BY MemFields DEF Shape, Holds, Ok, Placed, Spaces

LEMMA TypeIs == ASSUME VmAssumption, IInv PROVE TypeOK
BY ShapeTypes DEF IInv, Rest, TypeOK

\* p's memory changes, and nobody is born or dies.
LEMMA OnlyMemory ==
  ASSUME VmAssumption, IInv, UNCHANGED <<status, fork>>, parent' \in [Procs -> Procs \cup {None}],
         heap_ptr' \in [Procs -> 0 .. ADDRESSES - 1], base_mem_sz' \in [Procs -> 0 .. HEAPTOP],
         panic' \in {None, "uvpt", "read"},
         Shape(m'), "heap" \notin Calls => Priv(m'), \A q \in Procs : m'.space[q] = None <=> m.space[q] = None,
         NEW p \in Procs, status[p] = "run", \A q \in Procs \ {p}, w \in Vas : Pt(m', q, w) = Pt(m, q, w)
  PROVE  IInv'
<1>1. Rest'
  BY DEF IInv, Rest
<1>2. Zombies'
  <2>1. ASSUME NEW q \in Procs, status[q] = "zombie" PROVE NoPages(m', q)
    <3>1. q # p /\ m.space[q] # None /\ NoPages(m, q) /\ m'.space[q] # None
      BY <2>1 DEF IInv, Rest, Zombies
    <3>2. \A w \in Vas : Pt(m', q, w) = Pt(m, q, w)
      BY <3>1
    <3>3. QED BY <3>1, <3>2 DEF NoPages, Pt
  <2>2. QED BY <2>1 DEF Zombies
<1>3. Forks'
  <2>1. ASSUME NEW q \in Procs, fork[q] # None
        PROVE  /\ status[q] = "run" /\ status[fork[q].child] = "new"
               /\ \A va \in Vas : va >= fork[q].va => Pt(m', fork[q].child, va) = None
    <3>1. /\ status[q] = "run" /\ status[fork[q].child] = "new"
          /\ \A va \in Vas : va >= fork[q].va => Pt(m, fork[q].child, va) = None
      BY <2>1 DEF IInv, Forks
    <3>2. fork[q].child \in Procs \ {p}
      BY <2>1, <3>1 DEF IInv, Rest
    <3>3. QED BY <3>1, <3>2
  <2>2. \A a, b \in Procs : fork[a] # None /\ fork[b] # None /\ fork[a].child = fork[b].child => a = b
    BY DEF IInv, Forks
  <2>3. QED BY <2>1, <2>2 DEF Forks
<1>4. QED BY <1>1, <1>2, <1>3 DEF IInv, Hidden

-----------------------------------------------------------------------------
(* What others see of a step.                                               *)

Visible == Vas \ {PFTEMP}

SeenSame(t, u) == \A q \in Procs, w \in Visible : Read(u, q, w) = Read(t, q, w)

SeenStore(t, u, p) ==
    \E va \in Visible, v \in Vals :
       /\ Read(t, p, va) # None
       /\ \A q \in Procs, w \in Visible : Read(u, q, w) = IF q = p /\ w = va THEN v ELSE Read(t, q, w)

SeenGone(t, u, p) ==
    \E S \in SUBSET Visible :
       \A q \in Procs, w \in Visible : Read(u, q, w) = IF q = p /\ w \in S THEN None ELSE Read(t, q, w)

SeenCopy(t, u, p, c) ==
    \E va \in Visible :
       /\ Read(t, c, va) = None /\ Read(t, p, va) # None
       /\ \A q \in Procs, w \in Visible : Read(u, q, w) = IF q = c /\ w = va THEN Read(t, p, va) ELSE Read(t, q, w)

SeenLoad(t, u, p) ==
    \E S \in SUBSET Visible, v \in Vals :
       \A q \in Procs, w \in Visible : Read(u, q, w) = IF q # p THEN Read(t, q, w) ELSE IF w \in S THEN v ELSE None

Seen(t, u) ==
    \/ SeenSame(t, u)
    \/ \E p \in Procs : \/ SeenStore(t, u, p) \/ SeenGone(t, u, p) \/ SeenLoad(t, u, p)
                        \/ \E c \in Procs \ {p} : SeenCopy(t, u, p, c)

LEMMA ReadIs ==
  ASSUME VmAssumption, NEW t, Shape(t), NEW p \in Procs, NEW va \in Vas, t.space[p] # None, t.space[p].pt[va] # None
  PROVE  /\ Read(t, p, va) # None /\ Read(t, p, va) \in Vals /\ Pt(t, p, va) = t.space[p].pt[va]
         /\ Priv(t) => va # PFTEMP
<1>1. PICK r : Ok(t, r)
  BY DEF Shape, Holds
<1>2. p \in Spaces /\ Pt(t, p, va) = t.space[p].pt[va]
  BY Within DEF Pt
<1>3. Pt(t, p, va) # None /\ Pt(t, p, va).frame \in Frames
  BY <1>1, <1>2, PtFrame DEF Ok
<1>4. t.data[Pt(t, p, va).frame] \in Vals
  BY <1>1, <1>3, MemFields DEF Ok, Placed
<1>5. Priv(t) => va # PFTEMP
  BY <1>3, Rights2 DEF Priv, Shape
<1>6. QED BY <1>2, <1>3, <1>4, <1>5, Layout DEF Read

LEMMA RunsHas == ASSUME IInv, NEW p \in Procs, Runs(p) PROVE m.space[p] # None /\ status[p] = "run" /\ fork[p] = None
BY DEF IInv, Rest, Runs

LEMMA RestIs ==
  ASSUME IInv
  PROVE  /\ status \in [Procs -> {"unused", "new", "run", "zombie"}] /\ parent \in [Procs -> Procs \cup {None}]
         /\ heap_ptr \in [Procs -> 0 .. ADDRESSES - 1] /\ base_mem_sz \in [Procs -> 0 .. HEAPTOP]
         /\ fork \in [Procs -> [child : Procs, va : 0 .. UTOP] \cup {None}] /\ panic \in {None, "uvpt", "read"}
         /\ Shape(m) /\ ("heap" \notin Calls => Priv(m))
BY DEF IInv, Rest, Hidden

\* Write and CopyOut.
LEMMA StoreStep ==
  ASSUME VmAssumption, IInv, NEW p \in Procs, Runs(p), NEW va \in Vas, NEW v \in Vals, Present(p, va), "W" \in Perm(p, va),
         m' = [m EXCEPT !.data[m.space[p].pt[va].frame] = v], Same, UNCHANGED panic
  PROVE  IInv' /\ ("heap" \notin Calls => Seen(m, m'))
<1>1. m.space[p] # None /\ status[p] = "run" /\ m.space[p].pt[va] # None /\ "W" \in m.space[p].pt[va].perm
  BY RunsHas DEF Present, Perm
<1>2. m' = FillPage(m, m.space[p].pt[va].frame, v)
  BY DEF FillPage
<1> DEFINE t == m
           u == m'
<1>3. Shape(t) /\ t.space[p] # None /\ t.space[p].pt[va] # None /\ u = FillPage(t, t.space[p].pt[va].frame, v)
  BY <1>1, <1>2, RestIs
<1> HIDE DEF t, u
<1>4. /\ Shape(u) /\ u.space = t.space
      /\ Priv(t) /\ "W" \in t.space[p].pt[va].perm =>
            \A q \in Procs, w \in Vas : Read(u, q, w) = IF q = p /\ w = va THEN v ELSE Read(t, q, w)
  BY <1>3, StoreOk
<1>5. \A q \in Procs, w \in Vas : Pt(u, q, w) = Pt(t, q, w)
  BY <1>4 DEF Pt
<1>6. Priv(t) => Priv(u)
  BY <1>5, PrivGone
<1>7. ASSUME Priv(t) PROVE Seen(t, u)
  <2>1. va \in Visible /\ Read(t, p, va) # None
    BY <1>3, <1>7, ReadIs DEF Visible
  <2>2. \A q \in Procs, w \in Visible : Read(u, q, w) = IF q = p /\ w = va THEN v ELSE Read(t, q, w)
    BY <1>1, <1>4, <1>7 DEF Visible, t
  <2>3. SeenStore(t, u, p)
    BY <2>1, <2>2 DEF SeenStore
  <2>4. QED BY <2>3 DEF Seen
<1>8. IInv'
  <2>1. UNCHANGED <<status, fork>> /\ UNCHANGED <<parent, heap_ptr, base_mem_sz, panic>>
    BY DEF Same
  <2>2. /\ parent' \in [Procs -> Procs \cup {None}] /\ heap_ptr' \in [Procs -> 0 .. ADDRESSES - 1]
        /\ base_mem_sz' \in [Procs -> 0 .. HEAPTOP] /\ panic' \in {None, "uvpt", "read"}
    BY <2>1, RestIs
  <2>3. /\ Shape(m') /\ ("heap" \notin Calls => Priv(m')) /\ \A q \in Procs : m'.space[q] = None <=> m.space[q] = None
    BY <1>4, <1>6, RestIs DEF t, u
  <2>4. \A q \in Procs \ {p}, w \in Vas : Pt(m', q, w) = Pt(m, q, w)
    BY <1>5 DEF t, u
  <2>5. QED BY <1>1, <2>1, <2>2, <2>3, <2>4, OnlyMemory
<1>9. QED BY <1>7, <1>8, RestIs DEF t, u

LEMMA SameStep ==
  ASSUME VmAssumption, IInv, Same, panic' \in {None, "uvpt", "read"},
         Shape(m'), "heap" \notin Calls => Priv(m'), \A q \in Procs : m'.space[q] = None <=> m.space[q] = None,
         NEW p \in Procs, status[p] = "run", \A q \in Procs \ {p}, w \in Vas : Pt(m', q, w) = Pt(m, q, w)
  PROVE  IInv'
<1>1. UNCHANGED <<status, fork>> /\ UNCHANGED <<parent, heap_ptr, base_mem_sz>>
  BY DEF Same
<1>2. /\ parent' \in [Procs -> Procs \cup {None}] /\ heap_ptr' \in [Procs -> 0 .. ADDRESSES - 1]
      /\ base_mem_sz' \in [Procs -> 0 .. HEAPTOP]
  BY <1>1, RestIs
<1>3. QED BY <1>1, <1>2, OnlyMemory

LEMMA SeenNothing == ASSUME NEW t, NEW u, u = t PROVE Seen(t, u)
BY DEF Seen, SeenSame

\* The memory does not change.
LEMMA NoMemory ==
  ASSUME VmAssumption, IInv, UNCHANGED <<m, status, fork, parent, base_mem_sz>>,
         heap_ptr' \in [Procs -> 0 .. ADDRESSES - 1], panic' \in {None, "uvpt", "read"}, NEW p \in Procs, Runs(p)
  PROVE  IInv' /\ Seen(m, m')
<1>1. /\ parent' \in [Procs -> Procs \cup {None}] /\ base_mem_sz' \in [Procs -> 0 .. HEAPTOP]
      /\ Shape(m') /\ ("heap" \notin Calls => Priv(m')) /\ UNCHANGED <<status, fork>> /\ m' = m
  BY RestIs
<1>2. \A q \in Procs : m'.space[q] = None <=> m.space[q] = None
  BY <1>1
<1>3. \A q \in Procs \ {p}, w \in Vas : Pt(m', q, w) = Pt(m, q, w)
  BY <1>1
<1>4. status[p] = "run"
  BY RunsHas
<1>5. IInv'
  BY <1>1, <1>2, <1>3, <1>4, OnlyMemory
<1>6. QED BY <1>1, <1>5, SeenNothing

LEMMA WriteStep ==
  ASSUME VmAssumption, IInv, NEW p \in Procs, Write(p)
  PROVE  IInv' /\ ("heap" \notin Calls => Seen(m, m'))
BY StoreStep DEF Write

LEMMA CopyOutStep ==
  ASSUME VmAssumption, IInv, NEW p \in Procs, CopyOut(p)
  PROVE  IInv' /\ ("heap" \notin Calls => Seen(m, m'))
<1>1. Runs(p) /\ Same
  BY DEF CopyOut
<1>2. PICK va \in UTEXT .. UTOP - 1, v \in Vals :
          IF Present(p, va) /\ "W" \in Perm(p, va)
          THEN m' = [m EXCEPT !.data[m.space[p].pt[va].frame] = v] /\ UNCHANGED panic
          ELSE panic' = "read" /\ UNCHANGED m
  BY DEF CopyOut
<1>3. va \in Vas
  BY Layout DEF Vas
<1>4. CASE Present(p, va) /\ "W" \in Perm(p, va)
  BY <1>1, <1>2, <1>3, <1>4, StoreStep
<1>5. CASE ~(Present(p, va) /\ "W" \in Perm(p, va))
  <2>1. panic' = "read" /\ m' = m
    BY <1>2, <1>5
  <2>2. QED BY <1>1, <2>1, NoMemory, RestIs DEF Same
<1>6. QED BY <1>4, <1>5

LEMMA NoTableStep ==
  ASSUME VmAssumption, IInv, NEW p \in Procs, WriteFaultNoTable(p)
  PROVE  IInv' /\ ("heap" \notin Calls => Seen(m, m'))
BY NoMemory, RestIs DEF WriteFaultNoTable, Same

LEMMA CowFaultStep ==
  ASSUME VmAssumption, IInv, NEW p \in Procs, CowFault(p)
  PROVE  IInv' /\ ("heap" \notin Calls => Seen(m, m'))
<1>1. /\ Runs(p) /\ Same /\ UNCHANGED panic
      /\ Cardinality(m.free) >= IF m.space[p].table[PFTEMP \div PDENTRIES] = None THEN 2 ELSE 1
  BY DEF CowFault, Enough
<1>2. PICK va \in Vas : m.space[p].pt[va] # None /\ "W" \notin m.space[p].pt[va].perm /\ m' = cow_pgfault(m, p, va)
  BY DEF CowFault, Present, Perm
<1>3. m.space[p] # None /\ status[p] = "run" /\ Shape(m)
  BY <1>1, RunsHas, RestIs
<1>4. /\ Shape(m') /\ Lives(m, m') /\ (Priv(m) => Priv(m'))
      /\ \A q \in Procs, w \in Vas : q # p => Pt(m', q, w) = Pt(m, q, w)
      /\ \A q \in Procs, w \in Vas : w # PFTEMP => Read(m', q, w) = Read(m, q, w)
  BY <1>1, <1>2, <1>3, CowFaultOk
<1>5. SeenSame(m, m')
  BY <1>4 DEF SeenSame, Visible
<1>6. /\ \A q \in Procs : m'.space[q] = None <=> m.space[q] = None
      /\ \A q \in Procs \ {p}, w \in Vas : Pt(m', q, w) = Pt(m, q, w)
  BY <1>4, Within DEF Lives
<1>7. IInv'
  BY <1>1, <1>3, <1>4, <1>6, RestIs, SameStep
<1>8. QED BY <1>5, <1>7 DEF Seen

LEMMA HeapFaultStep ==
  ASSUME VmAssumption, IInv, NEW p \in Procs, HeapFault(p)
  PROVE  IInv' /\ ("heap" \notin Calls => Seen(m, m'))
<1>1. "heap" \in Calls /\ Runs(p) /\ Same /\ UNCHANGED panic /\ Cardinality(m.free) >= 4
  BY DEF HeapFault, Enough
<1>2. PICK va \in Vas, aligned \in BOOLEAN : Region(va, aligned) \subseteq Vas /\ m' = proc_region_alloc(m, p, va, aligned)
  BY DEF HeapFault, proc_region_alloc
<1>3. m.space[p] # None /\ status[p] = "run" /\ Shape(m)
  BY <1>1, RunsHas, RestIs
<1>4. Shape(m') /\ Changes(m, m', p) /\ Lives(m, m')
  BY <1>1, <1>2, <1>3, HeapOk
<1>5. /\ \A q \in Procs : m'.space[q] = None <=> m.space[q] = None
      /\ \A q \in Procs \ {p}, w \in Vas : Pt(m', q, w) = Pt(m, q, w)
  BY <1>4, Within DEF Lives, Changes, Pt
<1>6. IInv'
  BY <1>1, <1>3, <1>4, <1>5, RestIs, SameStep
<1>7. QED BY <1>1, <1>6

LEMMA ExecFailureStep ==
  ASSUME VmAssumption, IInv, NEW p \in Procs, ExecFailure(p)
  PROVE  IInv' /\ ("heap" \notin Calls => Seen(m, m'))
<1>1. Runs(p) /\ Same /\ UNCHANGED panic /\ Cardinality(m.free) >= TextPages + 2 + Cardinality(Tables)
  BY DEF ExecFailure, Enough
<1>2. PICK n \in 0 .. TextPages : m' = FailedMem(m, n)
  BY DEF ExecFailure, FailedMem
<1>3. m.space[p] # None /\ status[p] = "run" /\ Shape(m)
  BY <1>1, RunsHas, RestIs
<1>4. Shape(m') /\ (Priv(m) => Priv(m')) /\ Unseen(m, m') /\ \A q \in Procs : m'.space[q] = m.space[q]
  BY <1>1, <1>2, <1>3, FailedShape
<1>5. /\ \A q \in Procs : m'.space[q] = None <=> m.space[q] = None
      /\ \A q \in Procs \ {p}, w \in Vas : Pt(m', q, w) = Pt(m, q, w)
  BY <1>4 DEF Pt
<1>6. IInv'
  BY <1>1, <1>3, <1>4, <1>5, RestIs, SameStep
<1>7. SeenSame(m, m')
  BY <1>4 DEF SeenSame, Unseen, Visible
<1>8. QED BY <1>6, <1>7 DEF Seen

LEMMA ExecStep ==
  ASSUME VmAssumption, IInv, NEW p \in Procs, Exec(p)
  PROVE  IInv' /\ ("heap" \notin Calls => Seen(m, m'))
<1>1. Runs(p) /\ UNCHANGED <<status, parent, fork, panic>> /\ Cardinality(m.free) >= TextPages + 2 + Cardinality(Tables)
  BY DEF Exec, Enough
<1>2. PICK n \in 1 .. TextPages, v \in Vals :
         /\ m' = ExecMem(m, p, n, v)
         /\ base_mem_sz' = [base_mem_sz EXCEPT ![p] = UTEXT + n] /\ heap_ptr' = [heap_ptr EXCEPT ![p] = UTEXT + n]
  BY DEF Exec, ExecMem
<1>3. m.space[p] # None /\ status[p] = "run" /\ Shape(m) /\ n \in 0 .. TextPages
  BY <1>1, RunsHas, RestIs
<1>4. /\ Shape(m') /\ (Priv(m) => Priv(m')) /\ m'.space[p] # None /\ Others(m, m', p)
      /\ \A q \in Procs, w \in Vas :
            Read(m', q, w) = IF q # p THEN Read(m, q, w) ELSE IF w \in Text(n) THEN v ELSE None
  BY <1>1, <1>2, <1>3, ExecShape
<1>5. /\ \A q \in Procs : m'.space[q] = None <=> m.space[q] = None
      /\ \A q \in Procs \ {p}, w \in Vas : Pt(m', q, w) = Pt(m, q, w)
  BY <1>3, <1>4 DEF Pt, Others
<1>6. UTEXT + n \in 0 .. ADDRESSES - 1 /\ UTEXT + n \in 0 .. HEAPTOP
  BY <1>2, Layout
<1>7. /\ heap_ptr' \in [Procs -> 0 .. ADDRESSES - 1] /\ base_mem_sz' \in [Procs -> 0 .. HEAPTOP]
      /\ parent' \in [Procs -> Procs \cup {None}] /\ panic' \in {None, "uvpt", "read"}
      /\ ("heap" \notin Calls => Priv(m')) /\ UNCHANGED <<status, fork>>
  BY <1>1, <1>2, <1>4, <1>6, RestIs
<1>8. IInv'
  BY <1>3, <1>4, <1>5, <1>7, OnlyMemory
<1>9. SeenLoad(m, m', p)
  <2>1. Text(n) \in SUBSET Visible
    BY <1>3, TextPlace DEF Visible
  <2> DEFINE S == Text(n)
  <2> HIDE DEF S
  <2>2. \A q \in Procs, w \in Visible : Read(m', q, w) = IF q # p THEN Read(m, q, w) ELSE IF w \in S THEN v ELSE None
    BY <1>4 DEF Visible, S
  <2>3. S \in SUBSET Visible
    BY <2>1 DEF S
  <2>4. QED BY <2>2, <2>3 DEF SeenLoad
<1>10. QED BY <1>8, <1>9 DEF Seen

LEMMA RemovedStep ==
  ASSUME VmAssumption, IInv, NEW p \in Procs, Runs(p), NEW low \in 0 .. ADDRESSES - 1,
         m' = Removed(m, p, low, heap_ptr[p]), heap_ptr' = [heap_ptr EXCEPT ![p] = low],
         UNCHANGED <<status, parent, base_mem_sz, fork, panic>>
  PROVE  IInv' /\ Seen(m, m')
<1>1. m.space[p] # None /\ status[p] = "run" /\ Shape(m) /\ heap_ptr[p] \in Int /\ low \in Int
  BY RunsHas, RestIs, Layout
<1>2. /\ Shape(m') /\ (Priv(m) => Priv(m')) /\ Lives(m, m') /\ Changes(m, m', p)
      /\ \A q \in Procs, w \in Vas :
            Read(m', q, w) = IF q = p /\ w \in low .. heap_ptr[p] - 1 THEN None ELSE Read(m, q, w)
  BY <1>1, RemovedShape
<1>3. /\ \A q \in Procs : m'.space[q] = None <=> m.space[q] = None
      /\ \A q \in Procs \ {p}, w \in Vas : Pt(m', q, w) = Pt(m, q, w)
  BY <1>2, Within DEF Lives, Changes, Pt
<1>4. /\ heap_ptr' \in [Procs -> 0 .. ADDRESSES - 1] /\ base_mem_sz' \in [Procs -> 0 .. HEAPTOP]
      /\ parent' \in [Procs -> Procs \cup {None}] /\ panic' \in {None, "uvpt", "read"}
      /\ ("heap" \notin Calls => Priv(m')) /\ UNCHANGED <<status, fork>>
  BY <1>2, RestIs
<1>5. IInv'
  BY <1>1, <1>2, <1>3, <1>4, OnlyMemory
<1>6. SeenGone(m, m', p)
  <2> DEFINE S == (low .. heap_ptr[p] - 1) \cap Visible
  <2>1. \A w \in Visible : w \in S <=> w \in low .. heap_ptr[p] - 1
    OBVIOUS
  <2>2. S \in SUBSET Visible
    OBVIOUS
  <2> HIDE DEF S
  <2>3. \A q \in Procs, w \in Visible : Read(m', q, w) = IF q = p /\ w \in S THEN None ELSE Read(m, q, w)
    BY <1>2, <2>1 DEF Visible
  <2>4. QED BY <2>2, <2>3 DEF SeenGone
<1>7. QED BY <1>5, <1>6 DEF Seen

LEMMA Wraps == ASSUME VmAssumption, NEW n \in Int PROVE n % ADDRESSES \in 0 .. ADDRESSES - 1
BY Layout

LEMMA BrkStep ==
  ASSUME VmAssumption, IInv, NEW p \in Procs, brk(p)
  PROVE  IInv' /\ ("heap" \notin Calls => Seen(m, m'))
<1>1. Runs(p) /\ UNCHANGED <<status, parent, base_mem_sz, fork, panic>>
  BY DEF brk
<1>2. /\ heap_ptr \in [Procs -> 0 .. ADDRESSES - 1] /\ base_mem_sz \in [Procs -> 0 .. HEAPTOP]
      /\ ADDRESSES \in Nat /\ panic \in {None, "uvpt", "read"}
  BY RestIs, Layout
<1>3. ASSUME NEW n \in heap_ptr[p] + 1 .. ADDRESSES,
             heap_ptr' = [heap_ptr EXCEPT ![p] = n % ADDRESSES], UNCHANGED m
      PROVE  IInv' /\ ("heap" \notin Calls => Seen(m, m'))
  <2>1. n % ADDRESSES \in 0 .. ADDRESSES - 1
    BY <1>2, Wraps
  <2>2. heap_ptr' \in [Procs -> 0 .. ADDRESSES - 1]
    BY <1>2, <1>3, <2>1
  <2>3. QED BY <1>1, <1>2, <1>3, <2>2, NoMemory
<1>4. ASSUME NEW low \in base_mem_sz[p] .. heap_ptr[p] - 1,
             m' = Removed(m, p, low, heap_ptr[p]), heap_ptr' = [heap_ptr EXCEPT ![p] = low]
      PROVE  IInv' /\ ("heap" \notin Calls => Seen(m, m'))
  <2>1. low \in 0 .. ADDRESSES - 1
    BY <1>2, <1>4
  <2>2. QED BY <1>1, <1>4, <2>1, RemovedStep
<1>5. QED BY <1>3, <1>4 DEF brk

LEMMA SbrkLessStep ==
  ASSUME VmAssumption, IInv, NEW p \in Procs, sbrkLess(p)
  PROVE  IInv' /\ ("heap" \notin Calls => Seen(m, m'))
<1>1. Runs(p) /\ UNCHANGED <<status, parent, base_mem_sz, fork, panic>>
  BY DEF sbrkLess
<1>2. PICK low \in Breaks(heap_ptr[p]) :
         m' = Removed(m, p, low, heap_ptr[p]) /\ heap_ptr' = [heap_ptr EXCEPT ![p] = low]
  BY DEF sbrkLess
<1>3. heap_ptr[p] \in 0 .. ADDRESSES - 1 /\ HALF \in Int /\ ADDRESSES \in Nat /\ MaxGrow \in Nat
  BY RestIs, Layout DEF HALF
<1>4. low \in 0 .. ADDRESSES - 1
  <2>1. (heap_ptr[p] + ADDRESSES - 1) % ADDRESSES \in 0 .. ADDRESSES - 1
    BY <1>3, Wraps, SMTT(30)
  <2>2. ASSUME NEW n \in 1 .. MaxGrow PROVE (heap_ptr[p] + HALF + n - 1) % ADDRESSES \in 0 .. ADDRESSES - 1
    <3>1. heap_ptr[p] + HALF + n - 1 \in Int
      BY <1>3
    <3>2. QED BY <3>1, Wraps
  <2>3. QED BY <1>2, <1>3, <2>1, <2>2 DEF Breaks
<1>5. QED BY <1>1, <1>2, <1>4, RemovedStep

LEMMA SbrkMoreStep ==
  ASSUME VmAssumption, IInv, NEW p \in Procs, sbrkMore(p)
  PROVE  IInv' /\ ("heap" \notin Calls => Seen(m, m'))
<1>1. Runs(p) /\ UNCHANGED <<m, status, parent, base_mem_sz, fork, panic>>
  BY DEF sbrkMore
<1>2. PICK n \in 1 .. MaxGrow : heap_ptr' = [heap_ptr EXCEPT ![p] = (@ + (heap_ptr[p] + n)) % ADDRESSES]
  BY DEF sbrkMore
<1>3. heap_ptr \in [Procs -> 0 .. ADDRESSES - 1] /\ ADDRESSES \in Nat /\ MaxGrow \in Nat
  BY RestIs, Layout
<1>4. (heap_ptr[p] + (heap_ptr[p] + n)) % ADDRESSES \in 0 .. ADDRESSES - 1
  BY <1>3, Wraps
<1>5. heap_ptr' \in [Procs -> 0 .. ADDRESSES - 1]
  BY <1>2, <1>3, <1>4
<1>6. panic' \in {None, "uvpt", "read"}
  BY <1>1, RestIs
<1>7. QED BY <1>1, <1>5, <1>6, NoMemory

LEMMA StartForkStep ==
  ASSUME VmAssumption, IInv, NEW p \in Procs, NEW c \in Procs, StartFork(p, c)
  PROVE  IInv' /\ ("heap" \notin Calls => Seen(m, m'))
<1> DEFINE low == (UTEXT \div PDENTRIES) * PDENTRIES
           e == [child |-> c, va |-> low]
<1>1. /\ Runs(p) /\ status[c] = "unused" /\ Cardinality(m.free) >= 3 /\ m' = proc_setup_vm(m, c)
      /\ status' = [status EXCEPT ![c] = "new"] /\ parent' = [parent EXCEPT ![c] = p]
      /\ heap_ptr' = [heap_ptr EXCEPT ![c] = heap_ptr[p]] /\ base_mem_sz' = [base_mem_sz EXCEPT ![c] = base_mem_sz[p]]
      /\ fork' = [fork EXCEPT ![p] = e] /\ UNCHANGED panic
  BY DEF StartFork, Enough
<1>2. m.space[p] # None /\ status[p] = "run" /\ fork[p] = None /\ Shape(m) /\ m.space[c] = None /\ p # c
  BY <1>1, RunsHas, RestIs DEF IInv, Rest
<1>3. low \in 0 .. UTOP
  <2>1. UTEXT \div PDENTRIES \in Nat /\ PDENTRIES * (UTEXT \div PDENTRIES) <= UTEXT
    BY Layout
  <2>2. low \in Nat
    BY <2>1, Layout
  <2>3. low <= UTEXT
    BY <2>1, Layout
  <2>4. QED BY <2>2, <2>3, Layout
<1>4. e \in [child : Procs, va : 0 .. UTOP] /\ e.child = c
  BY <1>3
<1> HIDE DEF e
<1>5. /\ Shape(m') /\ (Priv(m) => Priv(m')) /\ m'.space[c] # None /\ Others(m, m', c) /\ PtSame(m, m') /\ Unseen(m, m')
  BY <1>1, <1>2, ForkShape
<1>6. /\ \A q \in Procs : status'[q] = IF q = c THEN "new" ELSE status[q]
      /\ \A q \in Procs : fork'[q] = IF q = p THEN e ELSE fork[q]
  BY <1>1, RestIs
<1>7. Rest'
  <2>1. \A q \in Procs : status'[q] = "unused" <=> m'.space[q] = None
    BY <1>5, <1>6 DEF IInv, Rest, Others
  <2>2. /\ status' \in [Procs -> {"unused", "new", "run", "zombie"}] /\ parent' \in [Procs -> Procs \cup {None}]
        /\ heap_ptr' \in [Procs -> 0 .. ADDRESSES - 1] /\ base_mem_sz' \in [Procs -> 0 .. HEAPTOP]
        /\ panic' \in {None, "uvpt", "read"}
    BY <1>1, RestIs
  <2>3. fork' \in [Procs -> [child : Procs, va : 0 .. UTOP] \cup {None}]
    BY <1>1, <1>4, RestIs
  <2>4. QED BY <2>1, <2>2, <2>3 DEF Rest
<1>8. Zombies'
  BY <1>5, <1>6 DEF IInv, Zombies, Others, NoPages
<1>9. \A q \in Procs, w \in Vas : Pt(m', q, w) = Pt(m, q, w)
  BY <1>5, Within DEF PtSame
<1>10. Forks'
  <2>1. ASSUME NEW q \in Procs, q # p, fork[q] # None
        PROVE  /\ fork[q].child \in Procs /\ fork[q].child # c
               /\ status'[q] = "run" /\ status'[fork[q].child] = "new"
               /\ \A va \in Vas : va >= fork[q].va => Pt(m', fork[q].child, va) = None
    <3>1. /\ status[q] = "run" /\ status[fork[q].child] = "new"
          /\ \A va \in Vas : va >= fork[q].va => Pt(m, fork[q].child, va) = None
      BY <2>1 DEF IInv, Forks
    <3>2. fork[q].child \in Procs
      BY <2>1, RestIs
    <3>3. QED BY <1>1, <1>6, <1>9, <3>1, <3>2
  <2>2. status'[p] = "run" /\ status'[c] = "new" /\ \A va \in Vas : Pt(m', c, va) = None
    BY <1>2, <1>6, <1>9 DEF Pt
  <2>3. ASSUME NEW q \in Procs, fork'[q] # None
        PROVE  /\ status'[q] = "run" /\ status'[fork'[q].child] = "new"
               /\ \A va \in Vas : va >= fork'[q].va => Pt(m', fork'[q].child, va) = None
    BY <1>4, <1>6, <2>1, <2>2, <2>3
  <2>4. ASSUME NEW a \in Procs, NEW b \in Procs, fork'[a] # None, fork'[b] # None, fork'[a].child = fork'[b].child
        PROVE  a = b
    <3>1. CASE a # p /\ b # p
      BY <1>6, <2>4, <3>1 DEF IInv, Forks
    <3>2. CASE a = p \/ b = p
      BY <1>4, <1>6, <2>1, <2>4, <3>2
    <3>3. QED BY <3>1, <3>2
  <2>5. QED BY <2>3, <2>4 DEF Forks
<1>11. Hidden'
  BY <1>5, RestIs DEF Hidden
<1>12. SeenSame(m, m')
  BY <1>5 DEF SeenSame, Unseen, Visible
<1>13. QED BY <1>5, <1>7, <1>8, <1>10, <1>11, <1>12 DEF IInv, Seen

LEMMA WaitStep ==
  ASSUME VmAssumption, IInv, NEW p \in Procs, NEW c \in Procs, Wait(p, c)
  PROVE  IInv' /\ ("heap" \notin Calls => Seen(m, m'))
<1>1. /\ status[c] = "zombie" /\ m' = kernel_free(m, c)
      /\ status' = [status EXCEPT ![c] = "unused"] /\ parent' = [parent EXCEPT ![c] = None]
      /\ UNCHANGED <<heap_ptr, base_mem_sz, fork, panic>>
  BY DEF Wait
<1>2. Shape(m) /\ m.space[c] # None /\ NoPages(m, c)
  BY <1>1, RestIs DEF IInv, Rest, Zombies
<1>3. /\ Shape(m') /\ (Priv(m) => Priv(m')) /\ m'.space[c] = None /\ Others(m, m', c) /\ PtSame(m, m') /\ Unseen(m, m')
  BY <1>1, <1>2, WaitShape
<1>4. \A q \in Procs : status'[q] = IF q = c THEN "unused" ELSE status[q]
  BY <1>1, RestIs
<1>5. Rest'
  <2>1. \A q \in Procs : status'[q] = "unused" <=> m'.space[q] = None
    BY <1>3, <1>4 DEF IInv, Rest, Others
  <2>2. /\ status' \in [Procs -> {"unused", "new", "run", "zombie"}] /\ parent' \in [Procs -> Procs \cup {None}]
        /\ heap_ptr' \in [Procs -> 0 .. ADDRESSES - 1] /\ base_mem_sz' \in [Procs -> 0 .. HEAPTOP]
        /\ fork' \in [Procs -> [child : Procs, va : 0 .. UTOP] \cup {None}] /\ panic' \in {None, "uvpt", "read"}
    BY <1>1, RestIs
  <2>3. QED BY <2>1, <2>2 DEF Rest
<1>6. Zombies'
  BY <1>3, <1>4 DEF IInv, Zombies, Others, NoPages
<1>7. \A q \in Procs, w \in Vas : Pt(m', q, w) = Pt(m, q, w)
  BY <1>3, Within DEF PtSame
<1>8. Forks'
  <2>1. ASSUME NEW q \in Procs, fork[q] # None
        PROVE  /\ status'[q] = "run" /\ status'[fork[q].child] = "new"
               /\ \A va \in Vas : va >= fork[q].va => Pt(m', fork[q].child, va) = None
    <3>1. /\ status[q] = "run" /\ status[fork[q].child] = "new"
          /\ \A va \in Vas : va >= fork[q].va => Pt(m, fork[q].child, va) = None
      BY <2>1 DEF IInv, Forks
    <3>2. fork[q].child \in Procs
      BY <2>1, RestIs
    <3>3. QED BY <1>1, <1>4, <1>7, <3>1, <3>2
  <2>2. \A a, b \in Procs : fork[a] # None /\ fork[b] # None /\ fork[a].child = fork[b].child => a = b
    BY DEF IInv, Forks
  <2>3. QED BY <1>1, <2>1, <2>2 DEF Forks
<1>9. Hidden'
  BY <1>3, RestIs DEF Hidden
<1>10. SeenSame(m, m')
  BY <1>3 DEF SeenSame, Unseen, Visible
<1>11. QED BY <1>3, <1>5, <1>6, <1>8, <1>9, <1>10 DEF IInv, Seen

LEMMA ExitStep ==
  ASSUME VmAssumption, IInv, NEW p \in Procs, Exit(p)
  PROVE  IInv' /\ ("heap" \notin Calls => Seen(m, m'))
<1>1. /\ Runs(p) /\ m' = pgdir_free(m, p) /\ status' = [status EXCEPT ![p] = "zombie"]
      /\ parent' = [q \in Procs |-> IF parent[q] = p THEN Root ELSE parent[q]]
      /\ UNCHANGED <<heap_ptr, base_mem_sz, fork, panic>>
  BY DEF Exit
<1>2. Shape(m) /\ m.space[p] # None /\ status[p] = "run" /\ fork[p] = None
  BY <1>1, RestIs, RunsHas
<1>3. /\ Shape(m') /\ (Priv(m) => Priv(m')) /\ Lives(m, m') /\ NoPages(m', p) /\ Changes(m, m', p)
      /\ \A q \in Procs, w \in Vas : Read(m', q, w) = IF q = p THEN None ELSE Read(m, q, w)
  BY <1>1, <1>2, ExitShape
<1>4. \A q \in Procs : status'[q] = IF q = p THEN "zombie" ELSE status[q]
  BY <1>1, RestIs
<1>5. \A q \in Procs \ {p} : m'.space[q] = m.space[q]
  BY <1>3, Within DEF Changes
<1>6. Rest'
  <2>1. \A q \in Procs : status'[q] = "unused" <=> m'.space[q] = None
    BY <1>2, <1>3, <1>4, <1>5 DEF IInv, Rest, Changes
  <2>2. /\ status' \in [Procs -> {"unused", "new", "run", "zombie"}]
        /\ heap_ptr' \in [Procs -> 0 .. ADDRESSES - 1] /\ base_mem_sz' \in [Procs -> 0 .. HEAPTOP]
        /\ fork' \in [Procs -> [child : Procs, va : 0 .. UTOP] \cup {None}] /\ panic' \in {None, "uvpt", "read"}
    BY <1>1, RestIs
  <2>3. parent' \in [Procs -> Procs \cup {None}]
    BY <1>1, RestIs, Layout
  <2>4. QED BY <2>1, <2>2, <2>3 DEF Rest
<1>7. Zombies'
  BY <1>3, <1>4, <1>5 DEF IInv, Zombies, NoPages
<1>8. Forks'
  <2>1. ASSUME NEW q \in Procs, fork[q] # None
        PROVE  /\ status'[q] = "run" /\ status'[fork[q].child] = "new"
               /\ \A va \in Vas : va >= fork[q].va => Pt(m', fork[q].child, va) = None
    <3>1. /\ status[q] = "run" /\ status[fork[q].child] = "new" /\ q # p
          /\ \A va \in Vas : va >= fork[q].va => Pt(m, fork[q].child, va) = None
      BY <1>2, <2>1 DEF IInv, Forks
    <3>2. fork[q].child \in Procs \ {p}
      BY <1>2, <2>1, <3>1, RestIs
    <3>3. \A w \in Vas : Pt(m', fork[q].child, w) = Pt(m, fork[q].child, w)
      BY <1>5, <3>2 DEF Pt
    <3>4. QED BY <1>4, <3>1, <3>2, <3>3
  <2>2. \A a, b \in Procs : fork[a] # None /\ fork[b] # None /\ fork[a].child = fork[b].child => a = b
    BY DEF IInv, Forks
  <2>3. QED BY <1>1, <2>1, <2>2 DEF Forks
<1>9. Hidden'
  BY <1>3, RestIs DEF Hidden
<1>10. SeenGone(m, m', p)
  <2> DEFINE S == Visible
  <2>1. S \in SUBSET Visible
    OBVIOUS
  <2>2. \A q \in Procs, w \in Visible : Read(m', q, w) = IF q = p /\ w \in S THEN None ELSE Read(m, q, w)
    BY <1>3 DEF Visible
  <2> HIDE DEF S
  <2>3. QED BY <2>1, <2>2 DEF SeenGone
<1>11. QED BY <1>3, <1>6, <1>7, <1>8, <1>9, <1>10 DEF IInv, Seen

LEMMA EndForkStep ==
  ASSUME VmAssumption, IInv, NEW p \in Procs, EndFork(p)
  PROVE  IInv' /\ ("heap" \notin Calls => Seen(m, m'))
<1> DEFINE c == fork[p].child
<1>1. /\ fork[p] # None /\ status' = [status EXCEPT ![c] = "run"] /\ fork' = [fork EXCEPT ![p] = None]
      /\ UNCHANGED <<m, parent, heap_ptr, base_mem_sz, panic>>
  BY DEF EndFork
<1>2. status[p] = "run" /\ status[c] = "new" /\ c \in Procs
  BY <1>1, RestIs DEF IInv, Forks
<1>3. /\ \A q \in Procs : status'[q] = IF q = c THEN "run" ELSE status[q]
      /\ \A q \in Procs : fork'[q] = IF q = p THEN None ELSE fork[q]
  BY <1>1, RestIs
<1>4. Rest'
  <2>1. \A q \in Procs : status'[q] = "unused" <=> m'.space[q] = None
    BY <1>1, <1>2, <1>3 DEF IInv, Rest
  <2>2. /\ status' \in [Procs -> {"unused", "new", "run", "zombie"}] /\ parent' \in [Procs -> Procs \cup {None}]
        /\ heap_ptr' \in [Procs -> 0 .. ADDRESSES - 1] /\ base_mem_sz' \in [Procs -> 0 .. HEAPTOP]
        /\ fork' \in [Procs -> [child : Procs, va : 0 .. UTOP] \cup {None}] /\ panic' \in {None, "uvpt", "read"}
    BY <1>1, RestIs
  <2>3. QED BY <2>1, <2>2 DEF Rest
<1>5. Zombies' /\ Shape(m') /\ Hidden' /\ m' = m
  BY <1>1, <1>3, RestIs DEF IInv, Zombies, Hidden
<1>6. Forks'
  <2>1. ASSUME NEW q \in Procs, fork'[q] # None
        PROVE  /\ status'[q] = "run" /\ status'[fork'[q].child] = "new"
               /\ \A va \in Vas : va >= fork'[q].va => Pt(m', fork'[q].child, va) = None
    <3>1. q # p /\ fork'[q] = fork[q] /\ fork[q] # None
      BY <1>3, <2>1
    <3>2. /\ status[q] = "run" /\ status[fork[q].child] = "new" /\ fork[q].child # c
          /\ \A va \in Vas : va >= fork[q].va => Pt(m, fork[q].child, va) = None
      BY <1>1, <3>1 DEF IInv, Forks
    <3>3. fork[q].child \in Procs
      BY <3>1, RestIs
    <3>4. QED BY <1>3, <1>5, <3>1, <3>2, <3>3
  <2>2. \A a, b \in Procs : fork'[a] # None /\ fork'[b] # None /\ fork'[a].child = fork'[b].child => a = b
    BY <1>3 DEF IInv, Forks
  <2>3. QED BY <2>1, <2>2 DEF Forks
<1>7. QED BY <1>4, <1>5, <1>6, SeenNothing DEF IInv

LEMMA LeftIs ==
  ASSUME VmAssumption, IInv, NEW p \in Procs, fork[p] # None, Left(p) # {}
  PROVE  Min(Left(p)) \in Vas /\ Min(Left(p)) \in Left(p) /\ Min(Left(p)) >= fork[p].va
<1>1. fork[p].va \in Nat /\ UTOP \in Nat
  BY RestIs, Layout
<1> DEFINE L == Left(p)
<1>2. L \subseteq Nat /\ L \subseteq Vas /\ \A x \in L : x >= fork[p].va
  BY <1>1 DEF Left, Vas
<1> HIDE DEF L
<1>3. PICK x \in L : \A y \in L : ~(<<y, x>> \in OpToRel(<, Nat))
  BY <1>2, WFMin, NatLessThanWellFounded DEF L
<1>4. \A y \in L : x <= y
  <2>1. \A y \in L : ~(y < x)
    BY <1>2, <1>3 DEF OpToRel
  <2>2. QED BY <1>2, <2>1
<1>5. Min(L) \in L
  BY <1>4 DEF Min
<1>6. QED BY <1>2, <1>5 DEF L

LEMMA CopyNextStep ==
  ASSUME VmAssumption, IInv, NEW p \in Procs, CopyNext(p)
  PROVE  IInv' /\ ("heap" \notin Calls => Seen(m, m'))
<1> DEFINE c == fork[p].child
           va == Min(Left(p))
<1>1. /\ fork[p] # None /\ Left(p) # {} /\ Cardinality(m.free) >= 1 /\ m' = duppage(m, p, c, va)
      /\ fork' = [fork EXCEPT ![p].va = va + 1] /\ UNCHANGED <<status, parent, heap_ptr, base_mem_sz, panic>>
  BY DEF CopyNext, Enough
<1>2. /\ status[p] = "run" /\ status[c] = "new" /\ c \in Procs /\ c # p /\ Shape(m)
      /\ \A w \in Vas : w >= fork[p].va => Pt(m, c, w) = None
      /\ fork[p] \in [child : Procs, va : 0 .. UTOP]
  BY <1>1, RestIs DEF IInv, Forks
<1>3. va \in Vas /\ va \in Left(p) /\ va >= fork[p].va
  BY <1>1, LeftIs
<1> HIDE DEF va, c
<1>4. m.space[p].pt[va] # None /\ m.space[p] # None /\ m.space[c] # None
  BY <1>2, <1>3 DEF Left, Present, IInv, Rest
<1>5. /\ Shape(m') /\ (Priv(m) => Priv(m')) /\ Lives(m, m')
      /\ \A q \in Procs, w \in Vas : ~(q \in {p, c} /\ w = va) => Pt(m', q, w) = Pt(m, q, w)
      /\ \A q \in Procs, w \in Vas : Read(m', q, w) = IF q = c /\ w = va THEN Read(m, p, va) ELSE Read(m, q, w)
  BY <1>1, <1>2, <1>3, <1>4, DupShape
<1>6. va + 1 \in 0 .. UTOP /\ va \in Nat
  BY <1>3, Layout DEF Vas
<1>7. /\ \A q \in Procs \ {p} : fork'[q] = fork[q]
      /\ fork'[p] \in [child : Procs, va : 0 .. UTOP] /\ fork'[p].child = c /\ fork'[p].va = va + 1
  BY <1>1, <1>2, <1>6, RestIs DEF c
<1>8. Rest'
  <2>1. \A q \in Procs : status'[q] = "unused" <=> m'.space[q] = None
    BY <1>1, <1>5, Within DEF IInv, Rest, Lives
  <2>2. /\ status' \in [Procs -> {"unused", "new", "run", "zombie"}] /\ parent' \in [Procs -> Procs \cup {None}]
        /\ heap_ptr' \in [Procs -> 0 .. ADDRESSES - 1] /\ base_mem_sz' \in [Procs -> 0 .. HEAPTOP]
        /\ panic' \in {None, "uvpt", "read"}
    BY <1>1, RestIs
  <2>3. fork' \in [Procs -> [child : Procs, va : 0 .. UTOP] \cup {None}]
    BY <1>1, <1>7, RestIs
  <2>4. QED BY <2>1, <2>2, <2>3 DEF Rest
<1>9. Zombies'
  <2>1. ASSUME NEW q \in Procs, status[q] = "zombie" PROVE NoPages(m', q)
    <3>1. q # p /\ q # c /\ m.space[q] # None /\ NoPages(m, q)
      BY <1>2, <2>1 DEF IInv, Rest, Zombies
    <3>2. m'.space[q] # None /\ \A w \in Vas : Pt(m', q, w) = Pt(m, q, w)
      BY <1>5, <3>1, Within DEF Lives
    <3>3. QED BY <3>1, <3>2 DEF NoPages, Pt
  <2>2. QED BY <1>1, <2>1 DEF Zombies
<1>10. Forks'
  <2>1. ASSUME NEW q \in Procs \ {p}, fork[q] # None
        PROVE  /\ status[q] = "run" /\ status[fork[q].child] = "new" /\ fork[q].child # c
               /\ \A w \in Vas : w >= fork[q].va => Pt(m', fork[q].child, w) = None
    <3>1. /\ status[q] = "run" /\ status[fork[q].child] = "new" /\ fork[q].child # c
          /\ \A w \in Vas : w >= fork[q].va => Pt(m, fork[q].child, w) = None
      BY <1>1, <2>1 DEF IInv, Forks, c
    <3>2. fork[q].child \in Procs /\ fork[q].child \notin {p, c}
      BY <1>2, <2>1, <3>1, RestIs
    <3>3. QED BY <1>5, <3>1, <3>2
  <2>2. \A w \in Vas : w >= va + 1 => Pt(m', c, w) = None
    <3>1. ASSUME NEW w \in Vas, w >= va + 1 PROVE Pt(m', c, w) = None
      <4>1. w # va /\ w >= fork[p].va /\ w \in Nat
        BY <1>2, <1>3, <1>6, <3>1, Layout DEF Vas
      <4>2. QED BY <1>2, <1>5, <4>1
    <3>2. QED BY <3>1
  <2>3. ASSUME NEW q \in Procs, fork'[q] # None
        PROVE  /\ status'[q] = "run" /\ status'[fork'[q].child] = "new"
               /\ \A w \in Vas : w >= fork'[q].va => Pt(m', fork'[q].child, w) = None
    <3>1. CASE q = p
      BY <1>1, <1>2, <1>7, <2>2, <3>1
    <3>2. CASE q # p
      BY <1>1, <1>7, <2>1, <2>3, <3>2
    <3>3. QED BY <3>1, <3>2
  <2>4. ASSUME NEW a \in Procs, NEW b \in Procs, fork'[a] # None, fork'[b] # None, fork'[a].child = fork'[b].child
        PROVE  a = b
    <3>1. CASE a # p /\ b # p
      BY <1>7, <2>4, <3>1 DEF IInv, Forks
    <3>2. CASE a = p \/ b = p
      BY <1>7, <2>1, <2>4, <3>2
    <3>3. QED BY <3>1, <3>2
  <2>5. QED BY <2>3, <2>4 DEF Forks
<1>11. Hidden'
  BY <1>5, RestIs DEF Hidden
<1>12. ASSUME Priv(m) PROVE SeenCopy(m, m', p, c)
  <2>1. va \in Visible /\ Read(m, p, va) # None
    BY <1>2, <1>3, <1>4, <1>12, ReadIs DEF Visible
  <2>2. Read(m, c, va) = None
    BY <1>2, <1>3 DEF Read
  <2>3. \A q \in Procs, w \in Visible : Read(m', q, w) = IF q = c /\ w = va THEN Read(m, p, va) ELSE Read(m, q, w)
    BY <1>5 DEF Visible
  <2>4. QED BY <2>1, <2>2, <2>3 DEF SeenCopy
<1>13. "heap" \notin Calls => Seen(m, m')
  BY <1>2, <1>12, RestIs DEF Seen
<1>14. QED BY <1>5, <1>8, <1>9, <1>10, <1>11, <1>13 DEF IInv

LEMMA NextStep ==
  ASSUME VmAssumption, IInv, Next
  PROVE  IInv' /\ ("heap" \notin Calls => Seen(m, m'))
<1>1. PICK p \in Procs :
         \/ Write(p)
         \/ CowFault(p)
         \/ WriteFaultNoTable(p)
         \/ HeapFault(p)
         \/ CopyOut(p)
         \/ \E q \in Procs : StartFork(p, q) \/ Wait(p, q)
         \/ CopyNext(p)
         \/ EndFork(p)
         \/ Exit(p)
         \/ Exec(p)
         \/ ExecFailure(p)
         \/ brk(p)
         \/ sbrkMore(p)
         \/ sbrkLess(p)
  BY DEF Next
<1>2. CASE Write(p) \/ CopyOut(p)
  BY <1>2, WriteStep, CopyOutStep
<1>3. CASE CowFault(p) \/ WriteFaultNoTable(p) \/ HeapFault(p)
  BY <1>3, CowFaultStep, NoTableStep, HeapFaultStep
<1>4. CASE \E q \in Procs : StartFork(p, q) \/ Wait(p, q)
  BY <1>4, StartForkStep, WaitStep
<1>5. CASE CopyNext(p) \/ EndFork(p)
  BY <1>5, CopyNextStep, EndForkStep
<1>6. CASE Exit(p) \/ Exec(p) \/ ExecFailure(p)
  BY <1>6, ExitStep, ExecStep, ExecFailureStep
<1>7. CASE brk(p) \/ sbrkMore(p) \/ sbrkLess(p)
  BY <1>7, BrkStep, SbrkMoreStep, SbrkLessStep
<1>8. QED BY <1>1, <1>2, <1>3, <1>4, <1>5, <1>6, <1>7

LEMMA StutterStep ==
  ASSUME VmAssumption, IInv, UNCHANGED vars
  PROVE  IInv' /\ ("heap" \notin Calls => Seen(m, m'))
<1>1. m' = m /\ UNCHANGED <<status, parent, heap_ptr, base_mem_sz, fork, panic>>
  BY DEF vars
<1>2. IInv'
  BY <1>1 DEF IInv, Rest, Zombies, Forks, Hidden
<1>3. QED BY <1>1, <1>2, SeenNothing

LEMMA InitOk == ASSUME VmAssumption, Init PROVE IInv
<1> DEFINE a == proc_setup_vm(Blank, Root)
           Program(t) == Image(t, Root, TextPages, Zero)
<1>1. m = On(a, Program)
  BY DEF Init
<1>2. On(a, Program) = Program(a)
  <2> HIDE DEF a, Program
  <2> QED BY Zenon DEF On
<1>3. m = Image(a, Root, TextPages, Zero)
  BY <1>1, <1>2
<1>4. Shape(m) /\ Priv(m) /\ \A q \in Procs : m.space[q] # None <=> q = Root
  BY <1>3, FirstShape
<1>5. /\ status = [p \in Procs |-> IF p = Root THEN "run" ELSE "unused"]
      /\ parent = [p \in Procs |-> None]
      /\ base_mem_sz = [p \in Procs |-> IF p = Root THEN TextPages ELSE 0]
      /\ heap_ptr = [p \in Procs |-> IF p = Root THEN UTEXT + TextPages ELSE 0]
      /\ fork = [p \in Procs |-> None]
      /\ panic = None
  BY DEF Init
<1>6. TextPages \in 0 .. HEAPTOP /\ 0 \in 0 .. HEAPTOP /\ UTEXT + TextPages \in 0 .. ADDRESSES - 1 /\ 0 \in 0 .. ADDRESSES - 1
  BY Layout
<1>7. Rest
  BY <1>4, <1>5, <1>6 DEF Rest
<1>8. Zombies /\ Forks /\ Hidden
  BY <1>4, <1>5 DEF Zombies, Forks, Hidden
<1>9. QED BY <1>4, <1>7, <1>8 DEF IInv

\* What the memory looks like between any two steps of the kernel.
THEOREM Invariance == ASSUME VmAssumption PROVE Spec => []IInv
<1>1. Init => IInv
  BY InitOk
<1>2. IInv /\ [Next]_vars => IInv'
  BY NextStep, StutterStep
<1>3. QED BY <1>1, <1>2, PTL DEF Spec

\* TypeOK of Vm: heap_ptr stays an address and exec leaves nothing behind,
\* however sbrk wraps.
THEOREM Types == ASSUME VmAssumption PROVE Spec => []TypeOK
<1>1. IInv => TypeOK
  BY TypeIs
<1>2. QED BY <1>1, Invariance, PTL

-----------------------------------------------------------------------------
(* p_ref.                                                                   *)

\* The three sets of Uses.
UsePages(f) == {u \in Live \X Vas : m.space[u[1]].pt[u[2]] # None /\ m.space[u[1]].pt[u[2]].frame = f}
UseTables(f) == {u \in Live \X Tables : m.space[u[1]].table[u[2]] = f}
UseKernel(f) == {u \in Live \X {"ktable", "kstack"} : m.space[u[1]][u[2]] = f}

LEMMA UsesIs == ASSUME NEW f PROVE Uses(f) = Cardinality(UsePages(f)) + Cardinality(UseTables(f)) + Cardinality(UseKernel(f))
BY DEF Uses, UsePages, UseTables, UseKernel

LEMMA UsePagesAre == ASSUME VmAssumption, Shape(m), NEW f PROVE UsePages(f) = PagesOf(m, f)
<1>1. \A s \in Spaces : s \in Live <=> m.space[s] # None
  BY DEF Spaces, Live, Shape
<1>2. UsePages(f) \in SUBSET (Spaces \X Vas) /\ PagesOf(m, f) \in SUBSET (Spaces \X Vas)
  BY PagesAre DEF UsePages, Live, Spaces
<1>3. ASSUME NEW s \in Spaces, NEW va \in Vas PROVE <<s, va>> \in UsePages(f) <=> <<s, va>> \in PagesOf(m, f)
  <2>1. <<s, va>> \in PagesOf(m, f) <=> Pt(m, s, va) # None /\ Pt(m, s, va).frame = f
    BY InPages
  <2>2. <<s, va>> \in UsePages(f) <=> s \in Live /\ m.space[s].pt[va] # None /\ m.space[s].pt[va].frame = f
    BY DEF UsePages
  <2>3. QED BY <1>1, <2>1, <2>2 DEF Pt
<1> DEFINE A == UsePages(f)
           B == PagesOf(m, f)
<1> HIDE DEF A, B
<1>4. A \in SUBSET (Spaces \X Vas) /\ B \in SUBSET (Spaces \X Vas)
      /\ \A s \in Spaces, va \in Vas : <<s, va>> \in A <=> <<s, va>> \in B
  BY <1>2, <1>3 DEF A, B
<1>5. A = B
  BY <1>4, SameCells, Zenon
<1>6. QED BY <1>5 DEF A, B

\* What the role of a frame says of each of the sets.
LEMMA UsesByRole ==
  ASSUME VmAssumption, Shape(m), NEW r, Ok(m, r), NEW f \in Frames
  PROVE  /\ UsePages(f) # {} => r[f].kind = "page"
         /\ UseTables(f) # {} => r[f].kind = "table" /\ m.ref[f] = 1 /\ \E u : UseTables(f) = {u}
         /\ UseKernel(f) # {} => \/ r[f].kind = "ktable" /\ m.ref[f] = 1 /\ \E u : UseKernel(f) = {u}
                                 \/ r[f].kind = "stack" /\ UseKernel(f) = {<<s, "kstack">> : s \in StacksOf(m, f)}
<1>1. Placed(m, r) /\ Counted(m) /\ m \in Mem
  BY DEF Ok, Placed
<1>2. \A s : s \in Live <=> s \in Spaces /\ m.space[s] # None
  BY DEF Spaces, Live, Shape
<1>3. \A s \in Live : Owns(m, r, s)
  BY <1>1, <1>2 DEF Placed
<1>k. \A k, z, x : Role(k, z, x).kind = k /\ Role(k, z, x).of = z /\ Role(k, z, x).at = x
  BY DEF Role
<1>f. f # None
  BY Layout
<1>4. UsePages(f) # {} => r[f].kind = "page"
  <2>1. ASSUME NEW u \in UsePages(f) PROVE r[f].kind = "page"
    <3>1. u[1] \in Live /\ u[2] \in Vas /\ m.space[u[1]].pt[u[2]] # None /\ m.space[u[1]].pt[u[2]].frame = f
      BY DEF UsePages
    <3>2. r[f] = Role("page", New, u[2])
      BY <1>3, <3>1 DEF Owns
    <3>3. QED BY <1>k, <3>2
  <2>2. QED BY <2>1
<1>5. UseTables(f) # {} => r[f].kind = "table" /\ m.ref[f] = 1 /\ \E u : UseTables(f) = {u}
  <2>1. ASSUME NEW u \in UseTables(f) PROVE r[f] = Role("table", u[1], u[2]) /\ m.ref[f] = 1 /\ u = <<u[1], u[2]>>
    <3>1. u[1] \in Live /\ u[2] \in Tables /\ m.space[u[1]].table[u[2]] = f /\ u = <<u[1], u[2]>>
      BY DEF UseTables
    <3>2. r[f] = Role("table", u[1], u[2])
      BY <1>3, <1>f, <3>1 DEF Owns
    <3>3. m.ref[f] = 1
      BY <1>1, <1>2, <1>f, <3>1 DEF Counted
    <3>4. QED BY <3>1, <3>2, <3>3
  <2>2. ASSUME NEW u \in UseTables(f), NEW w \in UseTables(f) PROVE u = w
    <3>1. u[1] = w[1] /\ u[2] = w[2]
      BY <1>k, <2>1
    <3>2. QED BY <2>1, <3>1
  <2>3. ASSUME UseTables(f) # {} PROVE r[f].kind = "table" /\ m.ref[f] = 1 /\ \E u : UseTables(f) = {u}
    <3>1. PICK u : u \in UseTables(f)
      BY <2>3
    <3>2. UseTables(f) = {u}
      BY <2>2, <3>1
    <3>3. QED BY <1>k, <2>1, <3>1, <3>2
  <2>4. QED BY <2>3
<1>6. ASSUME NEW u \in UseKernel(f)
      PROVE  /\ u[1] \in Live /\ m.space[u[1]][u[2]] = f /\ u = <<u[1], u[2]>>
             /\ \/ u[2] = "ktable" /\ m.space[u[1]].ktable = f /\ r[f] = Role("ktable", u[1], 0) /\ m.ref[f] = 1
                \/ u[2] = "kstack" /\ m.space[u[1]].kstack = f /\ r[f] = Role("stack", New, 0)
  <2>1. u[1] \in Live /\ u[2] \in {"ktable", "kstack"} /\ m.space[u[1]][u[2]] = f /\ u = <<u[1], u[2]>>
    BY DEF UseKernel
  <2>2. CASE u[2] = "ktable"
    BY <1>1, <1>2, <1>3, <1>f, <2>1, <2>2 DEF Owns, Counted
  <2>3. CASE u[2] = "kstack"
    BY <1>3, <1>f, <2>1, <2>3 DEF Owns
  <2>4. QED BY <2>1, <2>2, <2>3
<1>7. CASE r[f].kind = "ktable"
  <2>1. ASSUME NEW u \in UseKernel(f), NEW w \in UseKernel(f) PROVE u = w
    <3>1. u[2] = "ktable" /\ w[2] = "ktable" /\ u[1] = w[1]
      BY <1>6, <1>7, <1>k
    <3>2. QED BY <1>6, <3>1
  <2>2. ASSUME NEW u \in UseKernel(f) PROVE m.ref[f] = 1 /\ UseKernel(f) = {u}
    <3>1. m.ref[f] = 1
      BY <1>6, <1>7, <1>k
    <3>2. UseKernel(f) = {u}
      BY <2>1
    <3>3. QED BY <3>1, <3>2
  <2>3. QED BY <1>4, <1>5, <1>7, <2>2
<1>8. CASE r[f].kind # "ktable"
  <2>1. ASSUME NEW u \in UseKernel(f) PROVE u[2] = "kstack" /\ r[f].kind = "stack" /\ u[1] \in StacksOf(m, f) /\ u = <<u[1], "kstack">>
    <3>1. u[2] = "kstack" /\ r[f] = Role("stack", New, 0) /\ u[1] \in Live /\ m.space[u[1]].kstack = f /\ u = <<u[1], "kstack">>
      BY <1>6, <1>8, <1>k
    <3>2. QED BY <1>2, <1>k, <3>1 DEF StacksOf
  <2>2. ASSUME NEW s \in StacksOf(m, f) PROVE <<s, "kstack">> \in UseKernel(f)
    <3>1. s \in Live /\ m.space[s].kstack = f
      BY <1>2 DEF StacksOf
    <3>2. QED BY <3>1 DEF UseKernel
  <2>3. UseKernel(f) = {<<s, "kstack">> : s \in StacksOf(m, f)}
    BY <2>1, <2>2
  <2>4. QED BY <1>4, <1>5, <2>1, <2>3
<1>9. QED BY <1>7, <1>8

\* A kernel stack is counted once for each process on it.
LEMMA StackCount ==
  ASSUME VmAssumption, NEW S, IsFiniteSet(S)
  PROVE  Cardinality({<<s, "kstack">> : s \in S}) = Cardinality(S)
<1> DEFINE T == {<<s, "kstack">> : s \in S}
           F == [s \in S |-> <<s, "kstack">>]
<1>1. F \in [S -> T]
  OBVIOUS
<1>2. \A a, b \in S : F[a] = F[b] => a = b
  OBVIOUS
<1>3. \A y \in T : \E x \in S : F[x] = y
  OBVIOUS
<1>4. F \in Bijection(S, T)
  BY <1>1, <1>2, <1>3 DEF Bijection, Injection, Surjection, IsInjective
<1>5. ExistsBijection(S, T)
  BY <1>4 DEF ExistsBijection
<1>6. QED BY <1>5, FS_Bijection

\* What Uses counts, by the role of the frame.
LEMMA UsesCount ==
  ASSUME VmAssumption, Shape(m), NEW r, Ok(m, r), NEW f \in Frames
  PROVE  /\ UsePages(f) # {} => Uses(f) = Cardinality(PagesOf(m, f)) /\ m.ref[f] = Uses(f)
         /\ Uses(f) # 0 => m.ref[f] = Uses(f) /\ f \notin m.free
<1>1. Uses(f) = Cardinality(UsePages(f)) + Cardinality(UseTables(f)) + Cardinality(UseKernel(f))
  BY UsesIs
<1>2. UsePages(f) = PagesOf(m, f)
  BY UsePagesAre
<1>3. Placed(m, r) /\ Counted(m)
  BY DEF Ok
<1>e. Cardinality({}) = 0
  BY FS_EmptySet
<1>4. /\ UsePages(f) # {} => r[f].kind = "page"
      /\ UseTables(f) # {} => r[f].kind = "table" /\ m.ref[f] = 1 /\ \E u : UseTables(f) = {u}
      /\ UseKernel(f) # {} => \/ r[f].kind = "ktable" /\ m.ref[f] = 1 /\ \E u : UseKernel(f) = {u}
                              \/ r[f].kind = "stack" /\ UseKernel(f) = {<<s, "kstack">> : s \in StacksOf(m, f)}
  BY UsesByRole
<1>p. Cardinality(PagesOf(m, f)) \in Nat
  BY <1>3, PagesFit
<1>k. IsFiniteSet(StacksOf(m, f)) /\ Cardinality(StacksOf(m, f)) \in Nat
  BY <1>3, StacksFit
<1>o. \A u : Cardinality({u}) = 1
  BY FS_Singleton
<1>5. CASE UsePages(f) # {}
  <2>1. UseTables(f) = {} /\ UseKernel(f) = {} /\ r[f].kind = "page"
    BY <1>4, <1>5
  <2>2. Cardinality(UseTables(f)) = 0 /\ Cardinality(UseKernel(f)) = 0
    BY <1>e, <2>1
  <2>3. Uses(f) = Cardinality(PagesOf(m, f))
    BY <1>1, <1>2, <1>p, <2>2
  <2>4. m.ref[f] = Cardinality(PagesOf(m, f))
    BY <1>2, <1>3, <1>5 DEF Counted
  <2>5. f \notin m.free
    BY <1>3, <2>1 DEF Placed
  <2>6. QED BY <2>3, <2>4, <2>5
<1>6. CASE UsePages(f) = {} /\ UseTables(f) # {}
  <2>1. UseKernel(f) = {} /\ r[f].kind = "table" /\ m.ref[f] = 1
    BY <1>4, <1>6
  <2>2. PICK u : UseTables(f) = {u}
    BY <1>4, <1>6
  <2>3. Cardinality(UsePages(f)) = 0 /\ Cardinality(UseTables(f)) = 1 /\ Cardinality(UseKernel(f)) = 0
    BY <1>6, <1>e, <1>o, <2>1, <2>2
  <2>4. f \notin m.free
    BY <1>3, <2>1 DEF Placed
  <2>5. QED BY <1>1, <1>6, <2>1, <2>3, <2>4
<1>7. CASE UsePages(f) = {} /\ UseTables(f) = {} /\ UseKernel(f) # {}
  <2>1. Cardinality(UsePages(f)) = 0 /\ Cardinality(UseTables(f)) = 0
    BY <1>7, <1>e
  <2>2. CASE r[f].kind = "ktable" /\ m.ref[f] = 1 /\ \E u : UseKernel(f) = {u}
    <3>1. PICK u : UseKernel(f) = {u}
      BY <2>2
    <3>2. Cardinality(UseKernel(f)) = 1
      BY <1>o, <3>1
    <3>3. f \notin m.free
      BY <1>3, <2>2 DEF Placed
    <3>4. QED BY <1>1, <1>7, <2>1, <2>2, <3>2, <3>3
  <2>3. CASE r[f].kind = "stack" /\ UseKernel(f) = {<<s, "kstack">> : s \in StacksOf(m, f)}
    <3>1. Cardinality(UseKernel(f)) = Cardinality(StacksOf(m, f))
      BY <1>k, <2>3, StackCount
    <3>2. StacksOf(m, f) # {}
      BY <1>7, <2>3
    <3>3. m.ref[f] = Cardinality(StacksOf(m, f))
      BY <1>3, <3>2 DEF Counted
    <3>4. f \notin m.free
      BY <1>3, <2>3 DEF Placed
    <3>5. QED BY <1>1, <1>7, <1>k, <2>1, <3>1, <3>3, <3>4
  <2>4. QED BY <1>4, <1>7, <2>2, <2>3
<1>8. CASE UsePages(f) = {} /\ UseTables(f) = {} /\ UseKernel(f) = {}
  BY <1>1, <1>8, <1>e
<1>9. QED BY <1>5, <1>6, <1>7, <1>8

LEMMA RefsAre == ASSUME VmAssumption, IInv PROVE RefsExact
<1>1. Shape(m)
  BY RestIs
<1>2. PICK r : Ok(m, r)
  BY <1>1 DEF Shape, Holds
<1>3. ASSUME NEW f \in Frames, Uses(f) > 0 PROVE m.ref[f] = Uses(f) /\ f \notin m.free
  <2>1. Uses(f) # 0
    BY <1>3
  <2>2. QED BY <1>1, <1>2, <2>1, UsesCount
<1>4. QED BY <1>3 DEF RefsExact

\* RefsExact of Vm: p_ref is the number of entries that name a frame, whatever
\* the interleaving of fork, faults, exec, exit, brk and sbrk (pmap.c:225-310).
THEOREM References == ASSUME VmAssumption PROVE Spec => []RefsExact
<1>1. IInv => RefsExact
  BY RefsAre
<1>2. QED BY <1>1, Invariance, PTL

LEMMA WritablesAre == ASSUME VmAssumption, IInv, "heap" \notin Calls PROVE WritableIsPrivate
<1>1. Shape(m) /\ Priv(m)
  BY RestIs
<1>2. PICK r : Ok(m, r)
  BY <1>1 DEF Shape, Holds
<1>3. ASSUME NEW p \in Live, NEW va \in Vas, m.space[p].pt[va] # None, "W" \in m.space[p].pt[va].perm
      PROVE  Uses(m.space[p].pt[va].frame) = 1
  <2> DEFINE f == m.space[p].pt[va].frame
  <2>1. p \in Procs /\ p \in Spaces /\ m.space[p] # None /\ Pt(m, p, va) = m.space[p].pt[va]
    BY Within DEF Live, Pt
  <2>2. Placed(m, r) /\ m \in Mem
    BY <1>2 DEF Ok, Placed
  <2>3. f \in Frames
    BY <1>3, <2>1, <2>2, PtFrame
  <2>4. r[f] = Role("page", New, va)
    BY <1>3, <2>1, <2>2 DEF Placed, Owns
  <2>5. \A k, z, x : Role(k, z, x).at = x
    BY DEF Role
  <2> HIDE DEF f
  <2>6. ASSUME NEW s \in Spaces, NEW w \in Vas, <<s, w>> \in PagesOf(m, f) PROVE s = p /\ w = va
    <3>1. Pt(m, s, w) # None /\ Pt(m, s, w).frame = f
      BY <2>6, InPages
    <3>2. m.space[s] # None /\ m.space[s].pt[w] = Pt(m, s, w)
      BY <3>1 DEF Pt
    <3>3. r[f] = Role("page", New, w)
      BY <2>2, <3>1, <3>2 DEF Placed, Owns
    <3>4. w = va
      BY <2>4, <2>5, <3>3
    <3>5. s \in Procs
      BY <1>1, <3>2 DEF Shape, Spaces
    <3>6. s = p
      BY <1>1, <1>3, <2>1, <3>1, <3>4, <3>5 DEF Priv, f
    <3>7. QED BY <3>4, <3>6
  <2>7. <<p, va>> \in PagesOf(m, f)
    BY <1>3, <2>1, InPages DEF f
  <2>8. PagesOf(m, f) \in SUBSET (Spaces \X Vas)
    BY PagesAre
  <2>9. PagesOf(m, f) = {<<p, va>>}
    <3> DEFINE A == PagesOf(m, f)
               B == {<<p, va>>}
    <3> HIDE DEF A
    <3>1. A \in SUBSET (Spaces \X Vas) /\ B \in SUBSET (Spaces \X Vas)
      BY <2>1, <2>8 DEF A
    <3>2. \A s \in Spaces, w \in Vas : <<s, w>> \in A <=> <<s, w>> \in B
      BY <2>6, <2>7 DEF A
    <3> HIDE DEF B
    <3>3. A = B
      BY <3>1, <3>2, SameCells, Zenon
    <3>4. QED BY <3>3 DEF A, B
  <2>10. UsePages(f) # {}
    BY <1>1, <2>7, UsePagesAre
  <2>11. Uses(f) = Cardinality(PagesOf(m, f))
    BY <1>1, <1>2, <2>3, <2>10, UsesCount
  <2>12. Cardinality({<<p, va>>}) = 1
    BY FS_Singleton
  <2>13. Uses(f) = 1
    BY <2>9, <2>11, <2>12
  <2>14. QED BY <2>13 DEF f
<1>4. QED BY <1>3 DEF WritableIsPrivate

\* WritableIsPrivate of Vm: as long as no program touches the heap (whose pages
\* are shared on purpose), what one process may write no other one has, between
\* any two pages that a fork copies (sysfunc.c:350-395).
THEOREM WritePrivately == ASSUME VmAssumption, "heap" \notin Calls PROVE Spec => []WritableIsPrivate
<1>1. IInv => WritableIsPrivate
  BY WritablesAre
<1>2. QED BY <1>1, Invariance, PTL

-----------------------------------------------------------------------------
(* Vm implements Memory.                                                    *)

\* Contents without the status of processes: a zombie has no pages left.
Sight(t) == [p \in Procs |-> [w \in Visible |-> Read(t, p, w)]]

Finds(t, st) ==
    [p \in Procs |-> [va \in Vas \ {PFTEMP} |->
        IF t.space[p] = None \/ st[p] = "zombie" THEN None
        ELSE IF t.space[p].pt[va] = None THEN None ELSE t.data[t.space[p].pt[va].frame]]]

LEMMA SightIs ==
  ASSUME NEW t, NEW st, \A p \in Procs : st[p] = "zombie" => NoPages(t, p)
  PROVE  Finds(t, st) = Sight(t)
<1> DEFINE Old(p, w) == IF t.space[p] = None \/ st[p] = "zombie" THEN None
                        ELSE IF t.space[p].pt[w] = None THEN None ELSE t.data[t.space[p].pt[w].frame]
<1>1. ASSUME NEW p \in Procs, NEW w \in Visible PROVE Old(p, w) = Read(t, p, w)
  <2>1. w \in Vas
    BY DEF Visible
  <2>2. CASE t.space[p] = None
    BY <2>2 DEF Read, Pt
  <2>3. CASE t.space[p] # None /\ st[p] = "zombie"
    <3>1. t.space[p].pt[w] = None
      BY <2>1, <2>3 DEF NoPages
    <3>2. QED BY <2>3, <3>1 DEF Read, Pt
  <2>4. CASE t.space[p] # None /\ st[p] # "zombie"
    BY <2>4 DEF Read, Pt
  <2>5. QED BY <2>2, <2>3, <2>4
<1> HIDE DEF Old
<1>2. [p \in Procs |-> [w \in Visible |-> Old(p, w)]] = [p \in Procs |-> [w \in Visible |-> Read(t, p, w)]]
  BY <1>1
<1>3. QED BY <1>2 DEF Old, Sight, Visible, Finds

LEMMA ContentsIs == ASSUME IInv PROVE Contents = Sight(m)
<1>1. \A p \in Procs : status[p] = "zombie" => NoPages(m, p)
  BY DEF IInv, Zombies
<1>2. Contents = Finds(m, status)
  BY Zenon DEF Contents, Finds
<1>3. QED BY <1>1, <1>2, SightIs

LEMMA ContentsNext == ASSUME IInv' PROVE Contents' = Sight(m')
<1>1. \A p \in Procs : status'[p] = "zombie" => NoPages(m', p)
  BY DEF IInv, Zombies
<1>2. Contents' = Finds(m', status')
  BY Zenon DEF Contents, Finds
<1>3. QED BY <1>1, <1>2, SightIs

LEMMA Looks ==
  ASSUME NEW t, NEW q \in Procs
  PROVE  /\ DOMAIN Sight(t) = Procs /\ DOMAIN Sight(t)[q] = Visible
         /\ Sight(t) = [a \in Procs |-> Sight(t)[a]] /\ Sight(t)[q] = [w \in Visible |-> Sight(t)[q][w]]
         /\ \A w \in Visible : Sight(t)[q][w] = Read(t, q, w)
BY DEF Sight

\* Two sights are the same when what they show is.
LEMMA SameSight ==
  ASSUME NEW a, NEW b, a \in [Procs -> [Visible -> Vals \cup {None}]], b \in [Procs -> [Visible -> Vals \cup {None}]],
         \A q \in Procs, w \in Visible : a[q][w] = b[q][w]
  PROVE  a = b
<1>1. \A q \in Procs : a[q] = b[q]
  <2>1. ASSUME NEW q \in Procs PROVE a[q] = b[q]
    <3>1. a[q] \in [Visible -> Vals \cup {None}] /\ b[q] \in [Visible -> Vals \cup {None}]
      OBVIOUS
    <3>2. QED BY <3>1
  <2>2. QED BY <2>1
<1>2. QED BY <1>1

LEMMA SightType ==
  ASSUME VmAssumption, NEW t, Shape(t)
  PROVE  Sight(t) \in [Procs -> [Visible -> Vals \cup {None}]]
<1>1. ASSUME NEW p \in Procs, NEW w \in Visible PROVE Read(t, p, w) \in Vals \cup {None}
  <2>1. w \in Vas
    BY DEF Visible
  <2>2. CASE Pt(t, p, w) = None
    BY <2>2 DEF Read
  <2>3. CASE Pt(t, p, w) # None
    BY <2>1, <2>3, ReadIs DEF Pt
  <2>4. QED BY <2>2, <2>3
<1>2. QED BY <1>1 DEF Sight

\* Each way to see a step is one of Memory's actions.
LEMMA Refines ==
  ASSUME VmAssumption, NEW t, NEW u, Shape(t), Shape(u), Seen(t, u),
         Contents = Sight(t), Contents' = Sight(u)
  PROVE  Private!Next \/ UNCHANGED Contents
<1> DEFINE T == Sight(t)
           U == Sight(u)
<1>t. T \in [Procs -> [Visible -> Vals \cup {None}]] /\ U \in [Procs -> [Visible -> Vals \cup {None}]]
  BY SightType
<1>r. \A q \in Procs, w \in Visible : T[q][w] = Read(t, q, w) /\ U[q][w] = Read(u, q, w)
  BY Looks
<1> HIDE DEF T, U
<1>c. Contents = T /\ Contents' = U /\ Visible = Vas \ {PFTEMP} /\ Zero \in Vals
  BY Layout DEF T, U, Visible
<1>1. CASE SeenSame(t, u)
  <2>1. U = T
    BY <1>1, <1>t, <1>r, SameSight DEF SeenSame
  <2>2. QED BY <1>c, <2>1
<1>2. ASSUME NEW p \in Procs, SeenStore(t, u, p) PROVE Private!Store(p)
  <2>1. PICK va \in Visible, v \in Vals :
           /\ Read(t, p, va) # None
           /\ \A q \in Procs, w \in Visible : Read(u, q, w) = IF q = p /\ w = va THEN v ELSE Read(t, q, w)
    BY <1>2 DEF SeenStore
  <2> DEFINE X == [T EXCEPT ![p][va] = v]
  <2>2. X \in [Procs -> [Visible -> Vals \cup {None}]]
    BY <1>t
  <2>3. \A q \in Procs, w \in Visible : X[q][w] = IF q = p /\ w = va THEN v ELSE T[q][w]
    BY <1>t
  <2> HIDE DEF X
  <2>4. U = X
    BY <1>t, <1>r, <2>1, <2>2, <2>3, SameSight
  <2>5. T[p][va] # None
    BY <1>r, <2>1
  <2>6. QED BY <1>c, <2>4, <2>5 DEF Private!Store, X
<1>3. ASSUME NEW p \in Procs, SeenGone(t, u, p) PROVE Private!Remap(p)
  <2>1. PICK S \in SUBSET Visible :
           \A q \in Procs, w \in Visible : Read(u, q, w) = IF q = p /\ w \in S THEN None ELSE Read(t, q, w)
    BY <1>3 DEF SeenGone
  <2> DEFINE X == [T EXCEPT ![p] = [w \in Visible |-> IF w \in S THEN None ELSE @[w]]]
  <2>2. X \in [Procs -> [Visible -> Vals \cup {None}]]
    BY <1>t
  <2>3. \A q \in Procs, w \in Visible : X[q][w] = IF q = p /\ w \in S THEN None ELSE T[q][w]
    BY <1>t
  <2> HIDE DEF X
  <2>4. U = X
    BY <1>t, <1>r, <2>1, <2>2, <2>3, SameSight
  <2>5. Contents' = [Contents EXCEPT ![p] = [va \in Vas \ {PFTEMP} |-> IF va \in S THEN None ELSE @[va]]]
    BY <1>c, <2>4 DEF X
  <2>6. S \in SUBSET (Vas \ {PFTEMP}) /\ None \in {Zero, None}
    BY <1>c
  <2>7. QED BY <2>5, <2>6, Zenon DEF Private!Remap
<1>4. ASSUME NEW p \in Procs, SeenLoad(t, u, p) PROVE Private!Load(p)
  <2>1. PICK S \in SUBSET Visible, v \in Vals :
           \A q \in Procs, w \in Visible : Read(u, q, w) = IF q # p THEN Read(t, q, w) ELSE IF w \in S THEN v ELSE None
    BY <1>4 DEF SeenLoad
  <2> DEFINE X == [T EXCEPT ![p] = [w \in Visible |-> IF w \in S THEN v ELSE None]]
  <2>2. X \in [Procs -> [Visible -> Vals \cup {None}]]
    BY <1>t
  <2>3. \A q \in Procs, w \in Visible : X[q][w] = IF q # p THEN T[q][w] ELSE IF w \in S THEN v ELSE None
    BY <1>t
  <2> HIDE DEF X
  <2>4. U = X
    BY <1>t, <1>r, <2>1, <2>2, <2>3, SameSight
  <2>5. Contents' = [Contents EXCEPT ![p] = [va \in Vas \ {PFTEMP} |-> IF va \in S THEN v ELSE None]]
    BY <1>c, <2>4 DEF X
  <2>6. S \in SUBSET (Vas \ {PFTEMP})
    BY <1>c
  <2>7. QED BY <2>1, <2>5, <2>6, Zenon DEF Private!Load
<1>5. ASSUME NEW p \in Procs, NEW c \in Procs \ {p}, SeenCopy(t, u, p, c) PROVE Private!CopyPage(p, c)
  <2>1. PICK va \in Visible :
           /\ Read(t, c, va) = None /\ Read(t, p, va) # None
           /\ \A q \in Procs, w \in Visible : Read(u, q, w) = IF q = c /\ w = va THEN Read(t, p, va) ELSE Read(t, q, w)
    BY <1>5 DEF SeenCopy
  <2> DEFINE X == [T EXCEPT ![c][va] = T[p][va]]
  <2>2. X \in [Procs -> [Visible -> Vals \cup {None}]]
    BY <1>t
  <2>3. \A q \in Procs, w \in Visible : X[q][w] = IF q = c /\ w = va THEN T[p][va] ELSE T[q][w]
    BY <1>t
  <2> HIDE DEF X
  <2>4. U = X
    BY <1>t, <1>r, <2>1, <2>2, <2>3, SameSight
  <2>5. T[c][va] = None /\ T[p][va] # None
    BY <1>r, <2>1
  <2>6. QED BY <1>c, <2>4, <2>5 DEF Private!CopyPage, X
<1>6. QED BY <1>1, <1>2, <1>3, <1>4, <1>5 DEF Seen, Private!Next

LEMMA FirstSight == ASSUME VmAssumption, Init PROVE Private!Init
<1>1. IInv
  BY InitOk
<1>2. Contents = Sight(m) /\ Sight(m) \in [Procs -> [Visible -> Vals \cup {None}]]
  BY <1>1, ContentsIs, SightType, RestIs
<1>3. QED BY <1>2 DEF Private!Init, Visible

LEMMA StepRefines ==
  ASSUME VmAssumption, "heap" \notin Calls, IInv, [Next]_vars
  PROVE  Private!Next \/ UNCHANGED Contents
<1>1. IInv' /\ Seen(m, m')
  BY NextStep, StutterStep
<1>2. Shape(m) /\ Shape(m')
  BY <1>1, RestIs DEF IInv
<1>3. Contents = Sight(m) /\ Contents' = Sight(m')
  BY <1>1, ContentsIs, ContentsNext
<1>4. QED BY <1>1, <1>2, <1>3, Refines

\* PrivateMemory of Vm: as long as no program touches the heap, processes that
\* share frames copy on write behave as if each had a memory of its own; every
\* step of the kernel is a step of Memory or shows nothing (sysfunc.c:350-395,
\* trap.c:129-185).
THEOREM Privacy == ASSUME VmAssumption, "heap" \notin Calls PROVE Spec => PrivateMemory
<1>1. Init => Private!Init
  BY FirstSight
<1>2. IInv /\ [Next]_vars => [Private!Next]_Contents
  BY StepRefines
<1>3. QED BY <1>1, <1>2, Invariance, PTL DEF Spec, PrivateMemory, Private!Spec

=============================================================================
