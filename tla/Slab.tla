------------------------------- MODULE Slab -------------------------------
(***************************************************************************)
(* Slabs and kmalloc (kern/slab.c, kern/kmalloc.c).                        *)
(*                                                                         *)
(* A slab is one page, and is named by it; an object is a pair of page and *)
(* index.  Slabs of the normal caches stay in slabs_empty and those of     *)
(* meta_cache in slabs_partitial for as long as they exist.  A descriptor  *)
(* of a normal slab is an object of meta_cache, that of a meta slab is its *)
(* own object 0.  A step is a stretch of code under a cache's lock or one  *)
(* call of alloc_page (Buddy): a tick or the wait for a page may switch    *)
(* the process between them.  A cache with __GFP_DMA does not wait.        *)
(*                                                                         *)
(* An operator named Op_Why is a defective Op, kept to test that the       *)
(* properties notice the defect; no definition uses it.                    *)
(***************************************************************************)
EXTENDS Integers, SequencesExt, FiniteSetsExt

CONSTANTS
    Procs,
    Pages,          \* what the buddy system has for slabs
    Caches,         \* normal_caches, one for each size
    DmaCaches,      \* those with __GFP_DMA
    meta_cache,
    NObjs,          \* n_objs_per_slab of each cache
    MaxHeld,        \* bound: objects in use
    None

SlabAssumption ==
    /\ DmaCaches \subseteq Caches /\ meta_cache \notin Caches
    /\ NObjs \in [Caches \cup {meta_cache} -> Nat \ {0}] /\ NObjs[meta_cache] > 1
    /\ MaxHeld \in Nat

BUFCTL_END == 65535

VARIABLES
    s,              \* the caches and the slabs, see TypeOK
    pages,          \* free pages
    pc,             \* where a process is in kmem_cache_alloc, see Steps
    objects         \* what kmalloc gave out

vars == <<s, pages, pc, objects>>

AllCaches == Caches \cup {meta_cache}
Steps == {"page", "desc", "metapage", "metaadd", "add"}
Idle == [at |-> "idle", cache |-> None, page |-> None, extra |-> None]

-----------------------------------------------------------------------------

NSlab(c) == [cache |-> c, n_inuse |-> 0, free |-> 0, desc |-> None,
             objs_desc |-> [i \in 0 .. NObjs[c] - 1 |-> IF i = NObjs[c] - 1 THEN BUFCTL_END ELSE i + 1]]

Take_NoCount(t, page) ==
    [t EXCEPT !.slab[page].free = t.slab[page].objs_desc[@], !.free_objects[t.slab[page].cache] = @ - 1]

\* find_slab in kmem_cache_alloc.  The index BUFCTL_END reads what lies behind
\* the slab; the model goes no further than that, see wild.
Take(t, page) ==
    LET c == t.slab[page].cache
        i == t.slab[page].free
    IN  [t EXCEPT !.slab[page].free = IF i = BUFCTL_END THEN i ELSE t.slab[page].objs_desc[i],
                  !.slab[page].n_inuse = @ + 1,
                  !.free_objects[c] = @ - 1,
                  !.wild = @ \/ i = BUFCTL_END]

Object(t, page) == <<page, t.slab[page].free>>

\* The slab kmem_cache_alloc looks for when there are free objects: for a
\* normal cache, the last of slabs_empty.
TakenSlab(t, c) ==
    LET usable == {i \in DOMAIN t.lists[c] : t.slab[t.lists[c][i]].free # BUFCTL_END}
    IN  IF c = meta_cache THEN t.lists[c][Max(usable)] ELSE t.lists[c][Len(t.lists[c])]

MetaFree_Own == 0

\* The first free object of a new meta slab: object 0 is its own descriptor.
MetaFree == 1

\* cache_grow, from the descriptor on.
Grown(t, page, c, desc) ==
    [t EXCEPT !.slab[page] = [NSlab(c) EXCEPT !.desc = desc],
              !.lists[c] = Append(@, page),
              !.free_objects[c] = @ + NObjs[c]]

GrownMeta(t, page) ==
    [t EXCEPT !.slab[page] = [NSlab(meta_cache) EXCEPT !.desc = <<page, 0>>, !.n_inuse = 1, !.free = MetaFree],
              !.lists[meta_cache] = Append(@, page),
              !.free_objects[meta_cache] = @ + NObjs[meta_cache] - 1]

Put_Lost(t, obj) ==
    [t EXCEPT !.slab[obj[1]].free = obj[2],
              !.slab[obj[1]].n_inuse = @ - 1,
              !.free_objects[t.slab[obj[1]].cache] = @ + 1]

\* kmem_cache_free, without slab_destroy.
Put(t, obj) ==
    [t EXCEPT !.slab[obj[1]].objs_desc[obj[2]] = t.slab[obj[1]].free,
              !.slab[obj[1]].free = obj[2],
              !.slab[obj[1]].n_inuse = @ - 1,
              !.free_objects[t.slab[obj[1]].cache] = @ + 1]

Unlink(t, page) ==
    LET c == t.slab[page].cache
    IN  [t EXCEPT !.lists[c] = SelectSeq(@, LAMBDA q : q # page),
                  !.free_objects[c] = @ - (NObjs[c] - t.slab[page].n_inuse),
                  !.slab[page] = None]

\* slab_destroy of a normal slab: its descriptor goes back to meta_cache, by
\* kfree, which would destroy a meta slab with nothing in use.
slab_destroy(t, page) ==
    LET desc == t.slab[page].desc
        u == Put(Unlink(t, page), desc)
    IN  IF u.slab[desc[1]].n_inuse = 0 THEN Unlink(u, desc[1]) ELSE u

-----------------------------------------------------------------------------

Runs == ~s.wild

GoTo(p, at) == pc' = [pc EXCEPT ![p] = [@ EXCEPT !.at = at]]

\* kmalloc of a size that cache c serves.
kmalloc(p, c) ==
    /\ Runs /\ pc[p] = Idle /\ Cardinality(objects) < MaxHeld
    /\ IF s.free_objects[c] > 0
       THEN /\ s' = Take(s, TakenSlab(s, c))
            /\ objects' = objects \cup {Object(s, TakenSlab(s, c))}
            /\ UNCHANGED pc
       ELSE pc' = [pc EXCEPT ![p] = [Idle EXCEPT !.at = "page", !.cache = c]] /\ UNCHANGED <<s, objects>>
    /\ UNCHANGED pages

\* kmem_get_page; which page it is makes no difference.
APage == CHOOSE page \in pages : TRUE

GetPage(p) ==
    /\ Runs /\ pc[p].at = "page" /\ pages # {}
    /\ pages' = pages \ {APage}
    /\ pc' = [pc EXCEPT ![p].at = "desc", ![p].page = APage]
    /\ UNCHANGED <<s, objects>>

NoPage(p) ==
    /\ Runs /\ pc[p].at = "page" /\ pages = {} /\ pc[p].cache \in DmaCaches
    /\ pc' = [pc EXCEPT ![p] = Idle]
    /\ UNCHANGED <<s, pages, objects>>

\* alloc_slab_desc: kmem_cache_alloc in meta_cache.
GetDesc(p) ==
    /\ Runs /\ pc[p].at = "desc"
    /\ IF s.free_objects[meta_cache] > 0
       THEN LET m == TakenSlab(s, meta_cache)
            IN  /\ s' = Take(s, m)
                /\ pc' = [pc EXCEPT ![p].at = "add", ![p].extra = Object(s, m)]
       ELSE GoTo(p, "metapage") /\ UNCHANGED s
    /\ UNCHANGED <<pages, objects>>

GetMetaPage(p) ==
    /\ Runs /\ pc[p].at = "metapage" /\ pages # {}
    /\ pages' = pages \ {APage}
    /\ pc' = [pc EXCEPT ![p].at = "metaadd", ![p].extra = APage]
    /\ UNCHANGED <<s, objects>>

AddMeta(p) ==
    /\ Runs /\ pc[p].at = "metaadd"
    /\ LET t == GrownMeta(s, pc[p].extra)
       IN  /\ s' = Take(t, pc[p].extra)
           /\ pc' = [pc EXCEPT ![p].at = "add", ![p].extra = Object(t, pc[p].extra)]
    /\ UNCHANGED <<pages, objects>>

\* The new slab and its first object.
Add(p) ==
    /\ Runs /\ pc[p].at = "add"
    /\ LET t == Grown(s, pc[p].page, pc[p].cache, pc[p].extra)
       IN  /\ s' = Take(t, pc[p].page)
           /\ objects' = objects \cup {Object(t, pc[p].page)}
    /\ pc' = [pc EXCEPT ![p] = Idle]
    /\ UNCHANGED pages

FreedPages_None(t) == {}

\* kmem_free_page of the slabs that are gone in t.
FreedPages(t) == {q \in Pages : s.slab[q] # None /\ t.slab[q] = None}

kfree(p, obj) ==
    /\ Runs /\ pc[p] = Idle
    /\ LET t == Put(s, obj)
           u == IF t.slab[obj[1]].n_inuse = 0 THEN slab_destroy(t, obj[1]) ELSE t
       IN  s' = u /\ pages' = pages \cup FreedPages(u)
    /\ objects' = objects \ {obj}
    /\ UNCHANGED pc

\* slab_init.
Init ==
    /\ s = [slab |-> [q \in Pages |-> None], lists |-> [c \in AllCaches |-> <<>>],
            free_objects |-> [c \in AllCaches |-> 0], wild |-> FALSE]
    /\ pages = Pages
    /\ pc = [p \in Procs |-> Idle]
    /\ objects = {}

Next ==
    \E p \in Procs :
       \/ \E c \in Caches : kmalloc(p, c)
       \/ GetPage(p)
       \/ NoPage(p)
       \/ GetDesc(p)
       \/ GetMetaPage(p)
       \/ AddMeta(p)
       \/ Add(p)
       \/ \E obj \in objects : kfree(p, obj)

Spec == Init /\ [][Next]_vars

-----------------------------------------------------------------------------

Indices == 0 .. Max({NObjs[c] : c \in AllCaches})

TypeOK ==
    /\ \A q \in Pages : s.slab[q] # None =>
          /\ s.slab[q].cache \in AllCaches /\ s.slab[q].n_inuse \in Nat
          /\ s.slab[q].free \in 0 .. NObjs[s.slab[q].cache] - 1 \cup {BUFCTL_END}
    /\ s.lists \in [AllCaches -> Seq(Pages)] /\ s.free_objects \in [AllCaches -> Nat]
    /\ pages \subseteq Pages /\ objects \subseteq Pages \X (Indices \cup {BUFCTL_END})
    /\ \A p \in Procs : pc[p] = Idle \/ pc[p].at \in Steps

Live == {q \in Pages : s.slab[q] # None}

\* Descriptors: those of slabs and those that a process in cache_grow holds.
Descriptors == {s.slab[q].desc : q \in Live} \cup {pc[p].extra : p \in {r \in Procs : pc[r].at = "add"}}

\* The free objects of slab q, by the chain of objs_desc.
FreeChain(q) ==
    LET n == NObjs[s.slab[q].cache]
        at[k \in 0 .. n] == IF k = 0 THEN s.slab[q].free
                            ELSE IF at[k - 1] = BUFCTL_END THEN BUFCTL_END ELSE s.slab[q].objs_desc[at[k - 1]]
    IN  {<<q, at[k]>> : k \in 0 .. n} \ {<<q, BUFCTL_END>>}

\* An object outside its slab comes only from a cache with several objects to a
\* slab: meta_cache looks for a slab with room, and a cache with one object to a
\* slab has free objects only under the lock it grows under (slab.c:119-127,
\* 168-172, 189).
WildOnlyInShared ==
    /\ \A x \in objects : x[2] = BUFCTL_END => NObjs[s.slab[x[1]].cache] > 1
    /\ \A x \in Descriptors : x[2] # BUFCTL_END

\* However allocations, slabs that are made and slabs that are destroyed
\* interleave, until a full slab has been taken for one with room (InsideSlab,
\* below) each object of a slab is in its free chain or in use, never both, and
\* n_inuse and free_objects count them (slab.c:119-127, 202-205, 228-234).
EachObjectOnce ==
    s.wild \/
    /\ \A q \in Live :
          LET used == {x \in objects \cup Descriptors : x[1] = q}
          IN  /\ used \cap FreeChain(q) = {}
              /\ Cardinality(used) = s.slab[q].n_inuse
              /\ Cardinality(used) + Cardinality(FreeChain(q)) = NObjs[s.slab[q].cache]
    /\ \A c \in AllCaches :
          s.free_objects[c] = MapThenSumSet(LAMBDA q : NObjs[c] - s.slab[q].n_inuse,
                                            {q \in Live : s.slab[q].cache = c})

\* Every descriptor is the one of one slab, in a slab that exists: nobody frees
\* the slab a descriptor is in (slab.c:94, 144-145, 233).
DescriptorsLive ==
    /\ \A d \in Descriptors : d[1] \in Live /\ s.slab[d[1]].cache = meta_cache /\ d \notin objects
    /\ Cardinality(Descriptors) = Cardinality(Live) + Cardinality({p \in Procs : pc[p].at = "add"})

\* No page is lost or used twice: it is free, a slab, or on its way to become
\* one (slab.c:48, 62, 98).
PagesKept ==
    \A q \in Pages :
       Cardinality({x \in {"free"} : q \in pages} \cup {x \in {"slab"} : q \in Live}
                   \cup {p \in Procs : pc[p].page = q} \cup {p \in Procs : pc[p].at = "metaadd" /\ pc[p].extra = q}) = 1

-----------------------------------------------------------------------------
(* What the repository says of this code and the code does not do: the       *)
(* README tells for each how TLC refutes it.                                 *)

\* "Index of first free objects in slab." (include/slab.h:18): the object that
\* kmalloc gives out is one of the slab's.
InsideSlab == \A x \in objects : x[2] # BUFCTL_END

=============================================================================
