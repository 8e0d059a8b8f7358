----------------------------- MODULE MCMemory -----------------------------
(***************************************************************************)
(* Who has which memory: process descriptors and ids (ProcTable), page     *)
(* frames (Buddy), objects (Slab), and address spaces (Vm), the latter as  *)
(* an instance about copy on write and one about the heap.  A behaviour    *)
(* moves one part and leaves the others as they were initialised.          *)
(***************************************************************************)
EXTENDS ProcTable, TLC

CONSTANTS d1, d2, d3, d4, root, p1, p2, child, c1, c2, meta, None, New, zero, one

FourDesc == {d1, d2, d3, d4}

VARIABLES
    part,           \* the part that moves
    zones, out, sleepers,
    slabs, pages, pc, objects,
    m, status, parent, heap_ptr, base_mem_sz, fork, panic

buddyVars == <<zones, out, sleepers>>
slabVars == <<slabs, pages, pc, objects>>
vmVars == <<m, status, parent, heap_ptr, base_mem_sz, fork, panic>>

\* proc_alloc fails only after it has counted the process.
Late == INSTANCE ProcTable WITH FAILURES <- {"stack"}

\* Blocks of up to four pages in two zones, one page reserved.
Frames == INSTANCE Buddy WITH
    Procs <- {p1, p2}, KERNEL <- 7, RESERVED <- 1, NPAGES <- 15, MEMLEVEL <- 3, HIGH <- 4,
    WORD <- 32, s <- zones

\* One object to a slab in a cache that waits for pages, two in one that does not.
Objects == INSTANCE Slab WITH
    Procs <- {p1, p2}, Pages <- 1 .. 4, Caches <- {c1, c2}, DmaCaches <- {c2}, meta_cache <- meta,
    NObjs <- (c1 :> 1) @@ (c2 :> 2) @@ (meta :> 3), MaxHeld <- 4, s <- slabs

\* Three generations that share pages, and a frame for one of them to copy to.
Cow == INSTANCE Vm WITH
    Procs <- {root, p1, p2}, Root <- root, NFrames <- 14, REFS <- 15, Vals <- {zero, one}, Zero <- zero,
    UTEXT <- 2, HEAPTOP <- 3, UTOP <- 4, ADDRESSES <- 16, PDENTRIES <- 8, TextPages <- 1,
    Calls <- {"read"}, MaxGrow <- 1

\* Two processes with heaps, in an address space that wraps soon.
Heap == INSTANCE Vm WITH
    Procs <- {root, child}, Root <- root, NFrames <- 11, REFS <- 12, Vals <- {zero}, Zero <- zero,
    UTEXT <- 2, HEAPTOP <- 4, UTOP <- 5, ADDRESSES <- 6, PDENTRIES <- 3, TextPages <- 1,
    Calls <- {"heap", "brk", "sbrk"}, MaxGrow <- 1

ASSUME MemoryAssumption ==
    /\ Frames!BuddyAssumption /\ Objects!SlabAssumption
    /\ Cow!VmAssumption /\ Heap!VmAssumption

MCInit ==
    /\ part \in {"pids", "late", "frames", "objects", "cow", "heap"}
    /\ proc_init /\ Frames!Init /\ Objects!Init
    /\ IF part = "heap" THEN Heap!Init ELSE Cow!Init

MCNext ==
    \/ part = "pids" /\ Next /\ UNCHANGED <<part, buddyVars, slabVars, vmVars>>
    \/ part = "late" /\ Late!Next /\ UNCHANGED <<part, buddyVars, slabVars, vmVars>>
    \/ part = "frames" /\ Frames!Alloc /\ UNCHANGED <<part, vars, slabVars, vmVars>>
    \/ part = "objects" /\ Objects!Next /\ UNCHANGED <<part, vars, buddyVars, vmVars>>
    \/ part = "cow" /\ Cow!Next /\ UNCHANGED <<part, vars, buddyVars, slabVars>>
    \/ part = "heap" /\ Heap!Next /\ UNCHANGED <<part, vars, buddyVars, slabVars>>

MCSpec == MCInit /\ [][MCNext]_<<part, vars, buddyVars, slabVars, vmVars>>

\* p1 and p2 are interchangeable in every part.
Twins == Permutations({p1, p2})

\* Bound: failures before the count (each lowers it below the truth).
Bound == n_procs_alive >= Cardinality(live) - 2

-----------------------------------------------------------------------------

\* All variables of the four modules have the types their declarations intend;
\* heap_ptr stays an address.
TypesOK ==
    /\ part \in {"pids", "late"} => TypeOK
    /\ part = "frames" => Frames!TypeOK
    /\ part = "objects" => Objects!TypeOK
    /\ part = "cow" => Cow!TypeOK
    /\ part = "heap" => Heap!TypeOK

\* The table reaches no destroyed descriptor, and a descriptor is a process's or
\* in the cache, whatever fails.  As long as proc_alloc fails only after the
\* count, n_procs_alive is exact and two living processes share no id below
\* sizeof(uint32_t), where clear_pid finds the right bit (proc.c:100-152,
\* 261-285).
TableExact ==
    /\ part \in {"pids", "late"} => TableEntriesLive /\ CacheDisjoint
    /\ part = "late" => AliveCounted /\ SmallIdsUnique

\* Each page is in one free block, in the page set or handed out, and the counters
\* are exact, also when fewer pages are left than a page set asks for and its
\* unsigned test lets it take them (buddy.c:27-168, 268).
EachPageOnce ==
    part = "frames" => Frames!EachPageOnce /\ Frames!CountsExact

\* Until kmem_cache_alloc takes a full slab for one with room (slab.c:177-179), each
\* object of a slab is free or in use, once; that happens only in caches with
\* several objects to a slab.  Always, a slab's descriptor is an object in use of a
\* slab that exists, and each page is free, a slab, or in the hands of a process
\* that makes one (slab.c:60-245).
EachObjectOnce ==
    part = "objects" =>
       Objects!EachObjectOnce /\ Objects!WildOnlyInShared /\ Objects!DescriptorsLive /\ Objects!PagesKept

\* p_ref counts the page table entries that name a frame (pmap.c:225-310), and
\* one that a process may write is in no other address space (sysfunc.c:350-395).
RefsExact ==
    /\ part = "cow" => Cow!RefsExact /\ Cow!WritableIsPrivate
    /\ part = "heap" => Heap!RefsExact

\* Processes that share frames behave as if each had a memory of its own: Vm
\* implements Memory (sysfunc.c:382, trap.c:129-185).
PrivateMemory ==
    /\ part = "cow" => Cow!Private!Init
    /\ [][part = "cow" => Cow!Private!Next \/ UNCHANGED Cow!Contents]_vmVars

=============================================================================
