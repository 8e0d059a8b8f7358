------------------------------- MODULE Buddy -------------------------------
(***************************************************************************)
(* Page frames: the zones, their buddy lists and page sets (kern/buddy.c). *)
(*                                                                         *)
(* The lists are modelled by their links, next and prev, because what the  *)
(* code does to them depends on the links of a page that is in a list      *)
(* twice or in none.  A node is a page (a number from 0) or the head of a  *)
(* list (a negative number).  A step is one call of the interface, which   *)
(* holds the zone's lock; sizes and addresses are counted in pages.        *)
(* Every page that is asked for has order 0 or is never given back, and    *)
(* then p_ref does not matter: a page that is not free has p_private       *)
(* OUT_OF_BUDDY.  The cold page set is never used (buddy.c:224, 298).      *)
(*                                                                         *)
(* An operator named Op_Why is a defective Op, kept to test that the       *)
(* properties notice the defect; no definition uses it.                    *)
(***************************************************************************)
EXTENDS Integers, SequencesExt, FiniteSetsExt

CONSTANTS
    KERNEL,         \* pages below 16 MB that are free after the boot
    RESERVED,       \* reserved pages
    NPAGES,         \* all pages
    MEMLEVEL,       \* orders of the buddy lists
    HIGH,           \* high of a page set; low is 0
    WORD,           \* values of a uint32_t
    Procs

BuddyAssumption ==
    /\ {KERNEL, RESERVED, NPAGES, HIGH} \subseteq Nat /\ MEMLEVEL \in Nat \ {0}
    /\ KERNEL + RESERVED <= NPAGES /\ RESERVED < 4096
    /\ WORD \in Nat /\ NPAGES + RESERVED + HIGH < WORD

KERN_ZONE == 0
NORMAL_ZONE == 1
Zones == {KERN_ZONE, NORMAL_ZONE}
Orders == 0 .. MEMLEVEL - 1
Pages == 0 .. NPAGES - 1
IN_BUDDY == MEMLEVEL + 1
OUT_OF_BUDDY == MEMLEVEL + 2

\* Heads of lists: of free blocks, of a zone's page set and of reserved pages.
Area(z, o) == -(1 + z * (MEMLEVEL + 1) + o)
Pageset(z) == Area(z, MEMLEVEL)
ReservedList == -(1 + 2 * (MEMLEVEL + 1))
Null == ReservedList - 1
Heads == {Area(z, o) : z \in Zones, o \in 0 .. MEMLEVEL} \cup {ReservedList}

\* buddy_init: where the zones start, and how many pages they have.  The size
\* of the reserved area is shifted by PGSHIFT, 12, before it is added.
reserved_start == KERNEL
normal_start == reserved_start + RESERVED \div 4096
ZoneStart == [z \in Zones |-> IF z = KERN_ZONE THEN 0 ELSE normal_start]
ZoneSize == [z \in Zones |-> IF z = KERN_ZONE THEN KERNEL ELSE NPAGES - normal_start]
pages_low == [z \in Zones |-> IF z = KERN_ZONE THEN RESERVED ELSE 0]

VARIABLES
    s,              \* the zones and the pages, see TypeOK
    out,            \* pages that were handed out: how often, less how often given back
    sleepers        \* processes that wait for pages (__GFP_WAIT)

vars == <<s, out, sleepers>>

-----------------------------------------------------------------------------
(* Lists.  Following a null pointer stops the machine.                      *)

\* Op(v), where TLC evaluates v once.
On(v, Op(_)) == CHOOSE w \in {Op(x) : x \in {v}} : TRUE

list_add(u, n, h) ==
    On(u, LAMBDA t :
        LET x == t.next[h]
        IN  IF t.crash \/ x = Null THEN [t EXCEPT !.crash = TRUE]
            ELSE [t EXCEPT !.next[n] = x, !.prev[x] = n, !.next[h] = n, !.prev[n] = h])

list_del(u, e) ==
    On(u, LAMBDA t :
        LET n == t.next[e]
            p == t.prev[e]
        IN  IF t.crash \/ n = Null \/ p = Null THEN [t EXCEPT !.crash = TRUE]
            ELSE [t EXCEPT !.next[p] = n, !.prev[n] = p, !.next[e] = Null, !.prev[e] = Null])

list_empty(t, h) == t.next[h] = h

-----------------------------------------------------------------------------
(* The buddy lists.                                                         *)

Order(o) == 2 ^ o

\* Split: the upper half of a block, of order o, goes to its list.
Split_NoCount(t, z, page, o) ==
    [list_add(t, page + Order(o), Area(z, o)) EXCEPT !.p_private[page + Order(o)] = o]

Split_LowerHalf(t, z, page, o) ==
    [list_add(t, page, Area(z, o)) EXCEPT !.p_private[page] = o, !.nr_free[z][o] = @ + 1]

Split(t, z, page, o) ==
    [list_add(t, page + Order(o), Area(z, o)) EXCEPT
        !.p_private[page + Order(o)] = o, !.nr_free[z][o] = @ + 1]

Taken_Block(order, curr_order) == Order(curr_order)

\* What __rmqueue takes off free_pages.
Taken(order, curr_order) == Order(order)

\* The pair of the new state and the page, Null if there is none.
rmqueue(t, z, order) ==
    LET found == {o \in order .. MEMLEVEL - 1 : ~list_empty(t, Area(z, o))}
        o == Min(found)
        page == t.next[Area(z, o)]
        u == [list_del(t, page) EXCEPT !.p_private[page] = OUT_OF_BUDDY, !.nr_free[z][o] = @ - 1,
                                       !.free_pages[z] = @ - Taken(order, o)]
        down == [i \in 1 .. o - order |-> o - i]
    IN  IF found = {} THEN <<t, Null>>
        ELSE <<FoldLeft(LAMBDA v, k : Split(v, z, page, k), u, down), page>>

BuddyOf(i, o) == IF (i \div Order(o)) % 2 = 0 THEN i + Order(o) ELSE i - Order(o)

\* No page behind the last one passes for a buddy.
page_is_buddy(t, buddy, o) == buddy \in Pages /\ t.p_private[buddy] = o

\* __free_pages_bulk of one page.  At the top of the levels, list_add finds
\* the page set's zero in the place of a list.
FreeToBuddy(t, page, z) ==
    LET base == ZoneStart[z]
        Merge(b, o) ==
            On(b, LAMBDA a :
                LET buddy == base + BuddyOf(a.idx, o)
                IN  IF a.done \/ ~page_is_buddy(a.t, buddy, o) THEN [a EXCEPT !.done = TRUE]
                    ELSE [t |-> [list_del(a.t, buddy) EXCEPT !.nr_free[z][o] = @ - 1,
                                                             !.p_private[buddy] = IN_BUDDY],
                          idx |-> IF buddy - base < a.idx THEN buddy - base ELSE a.idx,
                          order |-> o + 1, done |-> FALSE])
        Put(r) ==
            LET c == base + r.idx
            IN  IF r.order = MEMLEVEL THEN [r.t EXCEPT !.crash = TRUE]
                ELSE [list_add(r.t, c, Area(z, r.order)) EXCEPT !.p_private[c] = r.order,
                         !.nr_free[z][r.order] = @ + 1, !.free_pages[z] = @ + 1]
    IN  On(FoldLeft(Merge, [t |-> t, idx |-> page - base, order |-> 0, done |-> FALSE],
                    [i \in 1 .. MEMLEVEL |-> i - 1]), Put)

-----------------------------------------------------------------------------
(* Page sets.                                                               *)

\* Taking 2^order pages would leave no more than pages_low; all are int.
BelowMark(t, z, order) == t.free_pages[z] - Order(order) <= pages_low[z]

\* The same of a batch, which is unsigned: so is the difference then.
BelowMarkBatch(t, z, batch) == (t.free_pages[z] - batch) % WORD <= pages_low[z]

\* The page set of zone z is filled up; FALSE if there are not enough pages for
\* it, and then it has those that there were.
Refill(t, z) ==
    LET batch == HIGH \div 2 + 1
        Add(a, r) == IF ~a[2] \/ r[2] = Null THEN <<a[1], FALSE>>
                     ELSE <<[list_add(r[1], r[2], Pageset(z)) EXCEPT !.count[z] = @ + 1], TRUE>>
        One(b, i) == On(b, LAMBDA a : On(rmqueue(a[1], z, 0), LAMBDA r : Add(a, r)))
    IN  IF t.count[z] > 0 THEN <<t, TRUE>>
        ELSE IF BelowMarkBatch(t, z, batch) THEN <<t, FALSE>>
        ELSE FoldLeft(One, <<t, TRUE>>, [i \in 1 .. batch |-> i])

\* A page set that is no list any more may give its own head for a page.
buffered_rmqueue(t, z, order) ==
    LET Take(r) ==
            LET page == r[1].next[Pageset(z)]
            IN  IF ~r[2] THEN <<r[1], Null>>
                ELSE IF page \notin Pages THEN <<[r[1] EXCEPT !.crash = TRUE], Null>>
                ELSE <<[list_del([r[1] EXCEPT !.count[z] = @ - 1], page) EXCEPT
                            !.p_private[page] = OUT_OF_BUDDY], page>>
    IN  CASE order = 0 -> On(Refill(t, z), Take)
          [] order > 0 /\ BelowMark(t, z, order) -> <<t, Null>>
          [] OTHER -> rmqueue(t, z, order)

\* free_pages_bulk of order 0: the page at the end of the page set is freed.
BulkFree(u, z) ==
    On(u, LAMBDA t :
        LET page == t.prev[Pageset(z)]
        IN  IF t.crash \/ page \notin Pages THEN [t EXCEPT !.crash = TRUE]
            ELSE FreeToBuddy(list_del(t, page), page, z))

-----------------------------------------------------------------------------
(* The interface.                                                           *)

Runs == ~s.crash /\ ~s.panic

\* A process that neither waits for pages nor gives one back.
Free(p) == p \notin sleepers /\ s.again[p] = Null

\* spin_lock_irqsave of a zone's lock, and the unlock.
Locked(t, z) == IF t.held[z] THEN [t EXCEPT !.panic = TRUE] ELSE [t EXCEPT !.held[z] = TRUE]
Unlocked(t, z) == [t EXCEPT !.held[z] = FALSE]

\* One zone in the loop of __alloc_pages: when the page set cannot be filled up,
\* the zone's lock is kept.
TryZone(u, z, order) ==
    LET End(b) == <<IF b[2] = Null THEN b[1] ELSE Unlocked(b[1], z), b[2]>>
        In(t) == CASE t.panic -> <<t, Null>>
                   [] BelowMark(t, z, order) -> <<Unlocked(t, z), Null>>
                   [] OTHER -> On(buffered_rmqueue(t, z, order), End)
    IN  On(Locked(u, z), In)

\* Without __GFP_DMA the zones are tried from the normal one down.
Normal(t, order) ==
    On(TryZone(t, NORMAL_ZONE, order), LAMBDA n :
        IF n[2] # Null \/ n[1].panic THEN n ELSE TryZone(n[1], KERN_ZONE, order))

\* With __GFP_DMA only the kernel's zone serves.
Dma(u, order) ==
    LET End(b) == <<Unlocked(b[1], KERN_ZONE), b[2]>>
        In(t) == CASE t.panic -> <<t, Null>>
                   [] order > 0 /\ BelowMark(t, KERN_ZONE, order) ->
                        End(<<t, Null>>)
                   [] OTHER -> On(buffered_rmqueue(t, KERN_ZONE, order), End)
    IN  On(Locked(u, KERN_ZONE), In)

\* The caller gets the page and those behind it.
HandOut(page, order) ==
    out' = [q \in Pages |-> IF page \in Pages /\ q \in page .. page + Order(order) - 1 THEN out[q] + 1
                            ELSE out[q]]

\* A process that sleeps and is woken starts again, with any request.
alloc_pages(p, order, dma, wait) ==
    /\ Runs /\ Free(p)
    /\ \E r \in {IF dma THEN Dma(s, order) ELSE Normal(s, order)} :
       LET sleeps == r[2] = Null /\ wait /\ ~dma /\ ~r[1].panic
       IN  /\ s' = IF sleeps THEN Unlocked(Locked(r[1], NORMAL_ZONE), NORMAL_ZONE) ELSE r[1]
           /\ HandOut(IF r[1].crash THEN Null ELSE r[2], order)
           /\ sleepers' = IF sleeps THEN sleepers \cup {p} ELSE sleepers

\* __GFP_IRQ: a reserved page.
AllocReserved ==
    /\ Runs /\ s.pages_reserved > 0
    /\ LET t == Locked(s, KERN_ZONE)
           page == t.next[ReservedList]
           u == [list_del(t, page) EXCEPT !.free_pages[KERN_ZONE] = @ - 1, !.pages_reserved = @ - 1]
       IN  /\ s' = IF t.panic THEN t ELSE Unlocked(u, KERN_ZONE)
           /\ HandOut(IF t.panic \/ u.crash THEN Null ELSE page, 0)
    /\ UNCHANGED sleepers

\* A full page set gives half of its pages back before it takes one more.
free_hot_cold_page(t, page, z) ==
    LET batch == HIGH \div 2
        full == IF t.count[z] > HIGH
                THEN FoldLeft(LAMBDA v, i : BulkFree(v, z), [t EXCEPT !.count[z] = @ - batch],
                              [i \in 1 .. batch |-> i])
                ELSE t
    IN  [list_add(full, page, Pageset(z)) EXCEPT !.count[z] = @ + 1]

\* A stretch of __free_pages under zone z's lock, from t to u; it wakes whoever
\* waits for pages.
GiveBack(t, u, z, again) ==
    /\ s' = IF t.panic THEN t ELSE [Unlocked(u, z) EXCEPT !.again = again]
    /\ sleepers' = IF z = NORMAL_ZONE /\ ~t.panic THEN {} ELSE sleepers

\* A reserved page goes to its list, without a lock and without pages_reserved.
\* Any other one goes to the page set of the zone that its flag names.
free_page(p, page) ==
    /\ Runs /\ Free(p) /\ out[page] > 0
    /\ IF page \in s.reserved
       THEN s' = [list_add(s, page, ReservedList) EXCEPT !.free_pages[KERN_ZONE] = @ + 1] /\ UNCHANGED sleepers
       ELSE LET z == s.zone[page]
                t == Locked(s, z)
            IN  GiveBack(t, free_hot_cold_page(t, page, z), z, [s.again EXCEPT ![p] = page])
    /\ out' = [out EXCEPT ![page] = @ - 1]

\* The rest of __free_pages: the page is put on the page set once more, and the
\* last page of the set is freed.
FreeAgain(p) ==
    /\ Runs /\ s.again[p] # Null
    /\ LET page == s.again[p]
           z == s.zone[page]
           t == Locked(s, z)
       IN  GiveBack(t, BulkFree(list_add(t, page, Pageset(z)), z), z, [s.again EXCEPT ![p] = Null])
    /\ UNCHANGED out

-----------------------------------------------------------------------------
(* boot_zone_init.                                                          *)

\* The blocks a zone is cut into: pairs of first page and order.
Cut(z) ==
    LET One(a, o) == LET n == a.left \div Order(o)
                     IN  [at |-> a.at + n * Order(o), left |-> a.left % Order(o),
                          blocks |-> a.blocks \o [i \in 1 .. n |-> <<a.at + (i - 1) * Order(o), o>>]]
    IN  FoldLeft(One, [at |-> ZoneStart[z], left |-> ZoneSize[z], blocks |-> <<>>],
                 [i \in 1 .. MEMLEVEL |-> MEMLEVEL - i]).blocks

\* Only the first page of a block learns its zone.
AddBlock(t, z, b) ==
    [list_add(t, b[1], Area(z, b[2])) EXCEPT !.p_private[b[1]] = b[2], !.zone[b[1]] = z,
                                             !.reserved = @ \ {b[1]}, !.nr_free[z][b[2]] = @ + 1]

boot_zone_init(t, z) == FoldLeft(LAMBDA u, b : AddBlock(u, z, b), t, Cut(z))

AddReserved(t, page) ==
    [list_add(t, page, ReservedList) EXCEPT !.p_private[page] = OUT_OF_BUDDY, !.reserved = @ \cup {page}]

buddy_init ==
    LET empty == [next |-> [n \in Pages \cup Heads |-> IF n \in Heads THEN n ELSE Null],
                  prev |-> [n \in Pages \cup Heads |-> IF n \in Heads THEN n ELSE Null],
                  p_private |-> [p \in Pages |-> 0], zone |-> [p \in Pages |-> KERN_ZONE],
                  nr_free |-> [z \in Zones |-> [o \in Orders |-> 0]],
                  free_pages |-> [z \in Zones |-> pages_low[z] + ZoneSize[z]],
                  count |-> [z \in Zones |-> 0], pages_reserved |-> RESERVED, reserved |-> {},
                  again |-> [p \in Procs |-> Null],
                  held |-> [z \in Zones |-> FALSE], crash |-> FALSE, panic |-> FALSE]
        reserved == FoldLeft(AddReserved, empty, [i \in 1 .. RESERVED |-> reserved_start + i - 1])
    IN  boot_zone_init(boot_zone_init(reserved, KERN_ZONE), NORMAL_ZONE)

Init ==
    /\ s = buddy_init
    /\ out = [p \in Pages |-> 0]
    /\ sleepers = {}

Alloc == \E p \in Procs, o \in Orders, dma, wait \in BOOLEAN : alloc_pages(p, o, dma, wait)

\* What the kernel asks for: single pages (slab.c:48).
AllocOne == \E p \in Procs, dma, wait \in BOOLEAN : alloc_pages(p, 0, dma, wait)

GivenBack == \E p \in Procs : FreeAgain(p) \/ \E page \in Pages : free_page(p, page)

\* Until the first page is given back.
Spec == Init /\ [][Alloc]_vars

\* With reserved pages, and with pages that are given back.
FreeSpec == Init /\ [][AllocOne \/ AllocReserved \/ GivenBack]_vars

-----------------------------------------------------------------------------

Node == Pages \cup Heads \cup {Null}

TypeOK ==
    /\ s.next \in [Pages \cup Heads -> Node] /\ s.prev \in [Pages \cup Heads -> Node]
    /\ s.p_private \in [Pages -> 0 .. OUT_OF_BUDDY] /\ s.zone \in [Pages -> Zones]
    /\ s.nr_free \in [Zones -> [Orders -> Nat]] /\ s.free_pages \in [Zones -> Nat]
    /\ s.count \in [Zones -> Nat] /\ s.pages_reserved \in Nat
    /\ s.reserved \subseteq Pages /\ s.again \in [Procs -> Pages \cup {Null}]
    /\ out \in [Pages -> Nat] /\ sleepers \subseteq Procs

\* The pages that the chain of next links leads to from h.
Members(h) ==
    LET at[k \in 0 .. NPAGES] ==
            IF k = 0 THEN s.next[h] ELSE On(at[k - 1], LAMBDA n : IF n \in Pages THEN s.next[n] ELSE n)
    IN  {at[k] : k \in 0 .. NPAGES} \cap Pages

\* The pages of zone z's free blocks and page set, each with where it is.
FreePlaces(z) ==
    UNION {{<<b, b + i>> : b \in Members(Area(z, o)), i \in 0 .. Order(o) - 1} : o \in Orders}
    \cup {<<-1, q>> : q \in Members(Pageset(z))}

\* Splitting and filling up page sets neither lose a page nor have one twice:
\* each page of a zone is in one free block, in the page set or handed out
\* (buddy.c:27-70, 113-168).
EachPageOnce ==
    \A z \in Zones :
       \A places \in {FreePlaces(z)}, q \in ZoneStart[z] .. ZoneStart[z] + ZoneSize[z] - 1 :
          Cardinality({x \in places : x[2] = q}) + out[q] = 1

\* What the watermark tests rely on, also after a page set could be filled up only
\* in part: free_pages is the number of pages in the
\* buddy lists and nr_free the length of each (buddy.c:48-49, 65, 133, 268);
\* reserved pages count as free.
CountsExact ==
    \A z \in Zones :
       /\ \A o \in Orders : s.nr_free[z][o] = Cardinality(Members(Area(z, o)))
       /\ s.free_pages[z] - pages_low[z]
            = FoldSet(LAMBDA o, a : a + s.nr_free[z][o] * Order(o), 0, Orders)
       /\ s.count[z] = Cardinality(Members(Pageset(z)))

-----------------------------------------------------------------------------
(* What the repository says of this code and the code does not do: the       *)
(* README tells for each how TLC refutes it.                                 *)

\* "We have to alloc enough pages above low watermark." (buddy.c:130): filling up
\* page sets leaves more than pages_low pages.
WatermarkHolds == \A z \in Zones : s.free_pages[z] > pages_low[z] \/ ZoneSize[z] = 0

\* "A doubly-link list of pages" (include/buddy.h:52): next and prev of a page
\* set undo each other.
PagesetIsList ==
    \A z \in Zones : \A n \in Members(Pageset(z)) \cup {Pageset(z)} :
       /\ s.next[s.prev[n]] = n
       /\ s.prev[s.next[n]] = n

\* The panic of lock.c:56, "spin_lock_irqsave(): Deadlock!!!".
NoDeadlockPanic == ~s.panic

\* "kernel_zone's address is below to 16MB(physical addr)" (include/buddy.h:20):
\* every page the kernel's zone hands out is below the reserved area.
KernelZoneBelow16MB ==
    \A q \in Members(Pageset(KERN_ZONE)) \cup UNION {Members(Area(KERN_ZONE, o)) : o \in Orders} :
       q < reserved_start

\* "18 MB" (pmap.c:100): the normal zone starts behind the reserved area, so that
\* no page is handed out for an interrupt and to a process.
NormalBehindReserved == \A p \in Pages : out[p] <= 1

=============================================================================
