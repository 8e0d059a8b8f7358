-------------------------------- MODULE Vm --------------------------------
(***************************************************************************)
(* Address spaces and copy on write: the page directories of kern/pmap.c,  *)
(* fork, exec, brk and sbrk of kern/sysfunc.c, the page fault handler of   *)
(* kern/trap.c, and what proc_alloc, exit and wait do with memory.         *)
(*                                                                         *)
(* Addresses are counted in pages.  A frame is one page of kmalloc, and    *)
(* page_alloc waits until there is one; which one it gets does not matter. *)
(* All pages a process runs on are alike: its stack is one of them.        *)
(* System calls can be preempted, so that fork copies one page at a time;  *)
(* faults run with interrupts off and are one step, and so is exec, whose  *)
(* new directory nobody else sees before it is in place.                   *)
(*                                                                         *)
(* An operator named Op_Why is a defective Op, kept to test that the       *)
(* properties notice the defect; no definition uses it.                    *)
(***************************************************************************)
EXTENDS Integers, FiniteSetsExt

CONSTANTS
    Procs, Root,
    NFrames,        \* bound: frames of memory
    REFS,           \* what p_ref counts modulo: 2^32
    Vals, Zero,     \* contents of a page
    UTEXT, HEAPTOP, UTOP, ADDRESSES,    \* the layout, in pages; ADDRESSES is 2^32 bytes
    PDENTRIES,      \* pages to a page table
    TextPages,      \* bound: pages of a program
    Calls,          \* bound: what programs do: "brk", "sbrk", "read", and "heap", to touch
                    \* addresses between base_mem_sz and heap_ptr
    MaxGrow,        \* bound: argument of sbrk
    New, None

VARIABLES
    m,              \* the machine's memory, see TypeOK
    status,         \* of each process
    parent,
    heap_ptr, base_mem_sz,
    fork,           \* child and next page of a fork under way
    panic           \* why the kernel stopped

vars == <<m, status, parent, heap_ptr, base_mem_sz, fork, panic>>

Frames == 1 .. NFrames
Vas == 0 .. UTOP - 1
Tables == {va \div PDENTRIES : va \in Vas}
PFTEMP == UTEXT - 1
HALF == ADDRESSES \div 2

PTE_USTK == {"W"}
PTE_SYSCALL == {"W", "COW", "SHARE"}

\* A page directory and what it names; the entries of the page tables are pt.
Entries == [frame : Frames, perm : SUBSET PTE_SYSCALL]
Space == [dir : Frames, ktable : Frames \cup {None}, kstack : Frames \cup {None},
          table : [Tables -> Frames \cup {None}], pt : [Vas -> Entries \cup {None}]]

\* 2^32 bytes hold fewer than 2^32 frames, and the first process fits into
\* memory.
VmAssumption ==
    /\ IsFiniteSet(Procs) /\ Root \in Procs /\ New \notin Procs
    /\ Zero \in Vals /\ None \notin Vals \cup Frames \cup Entries \cup Space \cup Procs
    /\ NFrames \in Nat /\ REFS \in Nat /\ NFrames < REFS
    /\ UTEXT \in Nat /\ TextPages \in Nat /\ HEAPTOP \in Nat /\ UTOP \in Nat /\ ADDRESSES \in Nat
    /\ 1 < UTEXT /\ UTEXT + TextPages <= HEAPTOP /\ HEAPTOP < UTOP /\ UTOP < ADDRESSES
    /\ PDENTRIES \in Nat \ {0} /\ MaxGrow \in Nat
    /\ NFrames >= TextPages + 3 + Cardinality(Tables)
    /\ Calls \subseteq {"brk", "sbrk", "read", "heap"}

\* Evaluates v once.
On(v, Op(_)) == CHOOSE w \in {Op(x) : x \in {v}} : TRUE

-----------------------------------------------------------------------------
(* pmap.c *)

Enough(n) == Cardinality(m.free) >= n

\* page_alloc(ALLOC_ZERO): the frame it returns, and the memory after it.
Fresh(t) == Min(t.free)
page_alloc(t) == [t EXCEPT !.free = @ \ {Fresh(t)}, !.ref[Fresh(t)] = 0, !.data[Fresh(t)] = Zero]

\* page_decrease_ref, times(f) times for each frame f.
Drop(t, times(_)) ==
    LET gone == {f \in Frames : times(f) > 0 /\ t.ref[f] = times(f)}
    IN  [t EXCEPT !.ref = [f \in Frames |-> (t.ref[f] + REFS - times(f)) % REFS],
                  !.free = @ \cup gone,
                  !.data = [f \in Frames |-> IF f \in gone THEN Zero ELSE t.data[f]]]

page_decrease_ref(t, f) == LET Once(g) == IF g = f THEN 1 ELSE 0 IN Drop(t, Once)

\* A page table made by pgdir_walk has one reference.
WithTable(t, f, s, table) == [t EXCEPT !.ref[f] = 1, !.space[s].table[table] = f]

pgdir_walk(t, s, va) ==
    IF t.space[s].table[va \div PDENTRIES] # None THEN t
    ELSE LET Walk(u) == WithTable(u, Fresh(t), s, va \div PDENTRIES) IN On(page_alloc(t), Walk)

page_remove_Kept(t, s, va) == [t EXCEPT !.space[s].pt[va] = None]

\* An empty entry counts down the page of frame 0, which the kernel keeps.
page_remove(t, s, va) ==
    LET e == t.space[s].pt[va] IN
    IF e = None THEN t ELSE [page_decrease_ref(t, e.frame) EXCEPT !.space[s].pt[va] = None]

Entry(f, perm) == [frame |-> f, perm |-> perm]

page_insert(t, s, f, va, perm) ==
    LET Set(u) == [u EXCEPT !.space[s].pt[va] = Entry(f, perm)]
        Count(u) == [Set(u) EXCEPT !.ref[f] = (@ + 1) % REFS]
        Walked(u) == IF u.space[s].pt[va] # None /\ u.space[s].pt[va].frame = f THEN Set(u)
                     ELSE On(page_remove(u, s, va), Count)
    IN  On(pgdir_walk(t, s, va), Walked)

\* page_alloc and page_insert: user_page_alloc, proc_region_alloc, grow_vm.
page_new(t, s, va, perm) ==
    LET Put(u) == page_insert(u, s, Fresh(t), va, perm) IN On(page_alloc(t), Put)

\* setup_vm: the directory keeps p_ref 0.
setup_vm(t, s) ==
    LET Put(u) == [u EXCEPT !.space[s] = [dir |-> Fresh(t), ktable |-> None, kstack |-> None,
                                          table |-> [x \in Tables |-> None], pt |-> [va \in Vas |-> None]]]
    IN  On(page_alloc(t), Put)

\* The kernel stack, behind a page table of its own above UTOP.
kstack_insert(t, s, f) ==
    LET Put(u) == [u EXCEPT !.ref[f] = @ + 1, !.ref[Fresh(t)] = 1,
                            !.space[s].ktable = Fresh(t), !.space[s].kstack = f]
    IN  On(page_alloc(t), Put)

proc_setup_vm(t, s) ==
    LET Stack(u) == LET Put(v) == kstack_insert(v, s, Fresh(u)) IN On(page_alloc(u), Put)
    IN  On(setup_vm(t, s), Stack)

pgdir_free_Tables(t, s) ==
    LET Times(f) == Cardinality({x \in Tables : t.space[s].table[x] = f})
    IN  [Drop(t, Times) EXCEPT !.space[s].table = [x \in Tables |-> None], !.space[s].pt = [va \in Vas |-> None]]

\* The user part of a directory.
pgdir_free(t, s) ==
    LET Times(f) == Cardinality({va \in Vas : t.space[s].pt[va] # None /\ t.space[s].pt[va].frame = f})
                    + Cardinality({x \in Tables : t.space[s].table[x] = f})
    IN  [Drop(t, Times) EXCEPT !.space[s].table = [x \in Tables |-> None], !.space[s].pt = [va \in Vas |-> None]]

\* wait, exec: the kernel stack and the directory itself.
kernel_free(t, s) ==
    LET Dir(u) == [page_decrease_ref(u, t.space[s].dir) EXCEPT !.space[s] = None]
    IN  On(page_decrease_ref(t, t.space[s].kstack), Dir)

-----------------------------------------------------------------------------
(* Copies *)

\* PTE_P of the page tables.
Present(p, va) == m.space[p].pt[va] # None
Perm(p, va) == m.space[p].pt[va].perm

\* Its callers pass addresses of the user part, a page that is there, and
\* never ask for more rights than the page has.
user_page_map(t, src, srcva, dst, dstva, perm) == page_insert(t, dst, t.space[src].pt[srcva].frame, dstva, perm)

duppage_StillWritable(t, p, child, va) == user_page_map(t, p, va, child, va, {"COW"})

duppage(t, p, child, va) ==
    LET pt == t.space[p].pt[va].perm
        perm == IF pt \cap {"W", "COW"} # {} THEN {"COW"} ELSE {}
        Mine(u) == IF perm = {} THEN u ELSE user_page_map(u, p, va, p, va, perm)
    IN  IF "SHARE" \in pt THEN user_page_map(t, p, va, child, va, pt)
        ELSE On(user_page_map(t, p, va, child, va, perm), Mine)

cow_pgfault_InPlace(t, p, va) == [t EXCEPT !.space[p].pt[va].perm = PTE_USTK]

cow_pgfault(t, p, va) ==
    LET Copied(u) == [u EXCEPT !.data[u.space[p].pt[PFTEMP].frame] = u.data[u.space[p].pt[va].frame]]
        Moved(u) == user_page_map(u, p, PFTEMP, p, va, PTE_USTK)
        Clear(u) == page_remove(u, p, PFTEMP)
        Map(u) == On(Moved(u), Clear)
        Unmap(u) == On(page_remove(u, p, va), Map)
        Copy(u) == On(Copied(u), Unmap)
    IN  On(page_new(t, p, PFTEMP, PTE_USTK), Copy)

-----------------------------------------------------------------------------

\* p runs its program.
Runs(p) == panic = None /\ status[p] = "run" /\ fork[p] = None

Same == UNCHANGED <<status, parent, heap_ptr, base_mem_sz, fork>>

\* The program writes to a page it may write.
Write(p) ==
    /\ Runs(p)
    /\ \E va \in Vas, v \in Vals \ {Zero} :
          /\ Present(p, va) /\ "W" \in Perm(p, va)
          /\ m' = [m EXCEPT !.data[m.space[p].pt[va].frame] = v]
    /\ Same /\ UNCHANGED panic

\* page_fault_handler on a write to a copy-on-write page.  PFTEMP may need a
\* page table.
CowFault(p) ==
    /\ Runs(p) /\ Enough(IF m.space[p].table[PFTEMP \div PDENTRIES] = None THEN 2 ELSE 1)
    /\ \E va \in Vas : Present(p, va) /\ "W" \notin Perm(p, va) /\ "COW" \in Perm(p, va) /\ m' = cow_pgfault(m, p, va)
    /\ Same /\ UNCHANGED panic

\* page_fault_handler looks at uvpt before anything else, and there is no
\* uvpt where there is no page table.
WriteFaultNoTable(p) ==
    /\ Runs(p)
    /\ \E va \in Vas : m.space[p].table[va \div PDENTRIES] = None
    /\ panic' = "uvpt"
    /\ Same /\ UNCHANGED m

\* proc_region_alloc of PGSIZE bytes from the address of the fault, which is
\* seldom the first of its page.
Region(va, aligned) == IF aligned THEN {va} ELSE {va, va + 1}

proc_region_alloc(t, p, va, aligned) ==
    LET Next1(u) == IF aligned THEN u ELSE page_new(u, p, va + 1, PTE_SYSCALL)
    IN  On(page_new(t, p, va, PTE_SYSCALL), Next1)

\* page_fault_handler on an address of the heap.
HeapFault(p) ==
    /\ "heap" \in Calls /\ Runs(p) /\ Enough(4)
    /\ \E va \in Vas, aligned, write \in BOOLEAN :
          /\ ~Present(p, va) /\ va < heap_ptr[p] /\ va >= base_mem_sz[p]
          /\ write => m.space[p].table[va \div PDENTRIES] # None
          /\ Region(va, aligned) \subseteq Vas
          /\ m' = proc_region_alloc(m, p, va, aligned)
    /\ Same /\ UNCHANGED panic

\* read() stores into the buffer in kernel mode, under CR0_WP.
CopyOut(p) ==
    /\ "read" \in Calls /\ Runs(p)
    /\ \E va \in UTEXT .. UTOP - 1, v \in Vals :
          IF Present(p, va) /\ "W" \in Perm(p, va)
          THEN m' = [m EXCEPT !.data[m.space[p].pt[va].frame] = v] /\ UNCHANGED panic
          ELSE /\ va < heap_ptr[p]
               /\ panic' = "read" /\ UNCHANGED m
    /\ Same

-----------------------------------------------------------------------------

\* clone, dup_proc_struct and proc_alloc.
StartFork(p, child) ==
    /\ Runs(p) /\ status[child] = "unused" /\ Enough(3)
    /\ m' = proc_setup_vm(m, child)
    /\ status' = [status EXCEPT ![child] = "new"]
    /\ parent' = [parent EXCEPT ![child] = p]
    /\ heap_ptr' = [heap_ptr EXCEPT ![child] = heap_ptr[p]]
    /\ base_mem_sz' = [base_mem_sz EXCEPT ![child] = base_mem_sz[p]]
    /\ fork' = [fork EXCEPT ![p] = [child |-> child, va |-> (UTEXT \div PDENTRIES) * PDENTRIES]]
    /\ UNCHANGED panic

\* The pages the loop of cow_fork has still to visit.  It starts at the page
\* table of UTEXT.
Left(p) == {va \in fork[p].va .. UTOP - 1 : Present(p, va)}

\* The loop up to the next page, which may need a page table.
CopyNext(p) ==
    /\ panic = None /\ fork[p] # None /\ Left(p) # {} /\ Enough(1)
    /\ m' = duppage(m, p, fork[p].child, Min(Left(p)))
    /\ fork' = [fork EXCEPT ![p].va = Min(Left(p)) + 1]
    /\ UNCHANGED <<status, parent, heap_ptr, base_mem_sz, panic>>

\* clone puts the child on the run queue.
EndFork(p) ==
    /\ panic = None /\ fork[p] # None /\ Left(p) = {}
    /\ status' = [status EXCEPT ![fork[p].child] = "run"]
    /\ fork' = [fork EXCEPT ![p] = None]
    /\ UNCHANGED <<m, parent, heap_ptr, base_mem_sz, panic>>

Exit(p) ==
    /\ Runs(p) /\ p # Root
    /\ m' = pgdir_free(m, p)
    /\ status' = [status EXCEPT ![p] = "zombie"]
    /\ parent' = [q \in Procs |-> IF parent[q] = p THEN Root ELSE parent[q]]
    /\ UNCHANGED <<heap_ptr, base_mem_sz, fork, panic>>

Wait(p, child) ==
    /\ Runs(p) /\ status[child] = "zombie" /\ parent[child] = p
    /\ m' = kernel_free(m, child)
    /\ status' = [status EXCEPT ![child] = "unused"]
    /\ parent' = [parent EXCEPT ![child] = None]
    /\ UNCHANGED <<heap_ptr, base_mem_sz, fork, panic>>

\* The pages of a program with contents v, by grow_vm and load_program.
Image(t, s, n, v) ==
    LET Load(u) == [u EXCEPT !.data = [f \in Frames |-> IF \E x \in Vas : u.space[s].pt[x] = Entry(f, PTE_USTK)
                                                        THEN v ELSE u.data[f]]]
        Grow[i \in 0 .. TextPages] ==
            IF i = 0 THEN t ELSE LET Put(u) == page_new(u, s, UTEXT + i - 1, PTE_USTK) IN On(Grow[i - 1], Put)
    IN  On(Grow[n], Load)

Exec(p) ==
    /\ Runs(p) /\ Enough(TextPages + 2 + Cardinality(Tables))
    /\ \E n \in 1 .. TextPages, v \in Vals \ {Zero} :
          /\ LET Old(t) == kernel_free(pgdir_free(t, p), p)
                 Switch(t) == LET Done(u) == [u EXCEPT !.space[p] = t.space[New], !.space[New] = None] IN On(Old(t), Done)
                 Stack(t) == On(kstack_insert(t, New, m.space[p].kstack), Switch)
                 Program(t) == On(Image(t, New, n, v), Stack)
             IN  m' = On(setup_vm(m, New), Program)
          /\ base_mem_sz' = [base_mem_sz EXCEPT ![p] = UTEXT + n]
          /\ heap_ptr' = [heap_ptr EXCEPT ![p] = UTEXT + n]
    /\ UNCHANGED <<status, parent, fork, panic>>

\* exec_failure, after n pages of the program.
ExecFailure(p) ==
    /\ Runs(p) /\ Enough(TextPages + 2 + Cardinality(Tables))
    /\ \E n \in 0 .. TextPages :
          LET Free(t) == [page_decrease_ref(pgdir_free(t, New), t.space[New].dir) EXCEPT !.space[New] = None]
              Program(t) == On(Image(t, New, n, Zero), Free)
          IN  m' = On(setup_vm(m, New), Program)
    /\ Same /\ UNCHANGED panic

-----------------------------------------------------------------------------
(* The heap *)

\* page_remove of the pages from low to high - 1.
Removed(t, p, low, high) ==
    LET Times(f) == Cardinality({va \in low .. high - 1 : va \in Vas /\ t.space[p].pt[va] # None
                                                          /\ t.space[p].pt[va].frame = f})
    IN  [Drop(t, Times) EXCEPT !.space[p].pt = [va \in Vas |-> IF va \in low .. high - 1 THEN None ELSE @[va]]]

\* brk to a higher address, rounded up, which may wrap, or to a lower one.
brk(p) ==
    /\ "brk" \in Calls /\ Runs(p)
    /\ \/ \E n \in heap_ptr[p] + 1 .. ADDRESSES :
             LET heap_break == n % ADDRESSES IN
             /\ heap_break <= HEAPTOP
             /\ heap_ptr' = [heap_ptr EXCEPT ![p] = heap_break]
             /\ UNCHANGED m
       \/ \E heap_break \in base_mem_sz[p] .. heap_ptr[p] - 1 :
             /\ heap_ptr' = [heap_ptr EXCEPT ![p] = heap_break]
             /\ m' = Removed(m, p, heap_break, heap_ptr[p])
    /\ UNCHANGED <<status, parent, base_mem_sz, fork, panic>>

sbrkMore_NoWrap(p) ==
    /\ "sbrk" \in Calls /\ Runs(p)
    /\ \E n \in 1 .. MaxGrow : heap_ptr[p] + n <= HEAPTOP /\ heap_ptr' = [heap_ptr EXCEPT ![p] = @ + @ + n]
    /\ UNCHANGED <<m, status, parent, base_mem_sz, fork, panic>>

\* sbrk(n), n > 0: the new break is added to the old one.
sbrkMore(p) ==
    /\ "sbrk" \in Calls /\ Runs(p)
    /\ \E n \in 1 .. MaxGrow :
          LET end_addr == heap_ptr[p] + n IN
          /\ end_addr <= HEAPTOP
          /\ heap_ptr' = [heap_ptr EXCEPT ![p] = (@ + end_addr) % ADDRESSES]
    /\ UNCHANGED <<m, status, parent, base_mem_sz, fork, panic>>

\* What n % 0x7fffffff makes of base_addr + n, n < 0, rounded down: one page
\* less for one byte, nothing for two, and for more a break 2 GB higher.
Breaks(h) == {(h + ADDRESSES - 1) % ADDRESSES, h} \cup {(h + HALF + n - 1) % ADDRESSES : n \in 1 .. MaxGrow}

sbrkLess(p) ==
    /\ "sbrk" \in Calls /\ Runs(p)
    /\ \E end_addr \in Breaks(heap_ptr[p]) :
          /\ end_addr >= base_mem_sz[p]
          /\ m' = Removed(m, p, end_addr, heap_ptr[p])
          /\ heap_ptr' = [heap_ptr EXCEPT ![p] = end_addr]
    /\ UNCHANGED <<status, parent, base_mem_sz, fork, panic>>

-----------------------------------------------------------------------------

NoSpace == [p \in Procs \cup {New} |-> None]
Blank == [space |-> NoSpace, ref |-> [f \in Frames |-> 0], data |-> [f \in Frames |-> Zero], free |-> Frames]

\* WeiOS_first_process; base_mem_sz is the size of the program, not its end.
Init ==
    /\ LET Program(t) == Image(t, Root, TextPages, Zero) IN m = On(proc_setup_vm(Blank, Root), Program)
    /\ status = [p \in Procs |-> IF p = Root THEN "run" ELSE "unused"]
    /\ parent = [p \in Procs |-> None]
    /\ base_mem_sz = [p \in Procs |-> IF p = Root THEN TextPages ELSE 0]
    /\ heap_ptr = [p \in Procs |-> IF p = Root THEN UTEXT + TextPages ELSE 0]
    /\ fork = [p \in Procs |-> None]
    /\ panic = None

Next ==
    \E p \in Procs :
       \/ Write(p)
       \/ CowFault(p)
       \/ WriteFaultNoTable(p)
       \/ HeapFault(p)
       \/ CopyOut(p)
       \/ \E q \in Procs : StartFork(p, q) \/ Wait(p, q)
       \/ CopyNext(p)
       \/ EndFork(p)
       \/ Exit(p)
       \/ Exec(p)
       \/ ExecFailure(p)
       \/ brk(p)
       \/ sbrkMore(p)
       \/ sbrkLess(p)

Spec == Init /\ [][Next]_vars

-----------------------------------------------------------------------------
(* Properties *)

\* Types of the state, with exec's directory gone between steps and every
\* process that exists holding a directory; heap_ptr stays an address.
TypeOK ==
    /\ m.space \in [Procs \cup {New} -> Space \cup {None}]
    /\ m.ref \in [Frames -> 0 .. REFS - 1] /\ m.data \in [Frames -> Vals] /\ m.free \subseteq Frames
    /\ m.space[New] = None
    /\ \A p \in Procs : status[p] = "unused" <=> m.space[p] = None
    /\ status \in [Procs -> {"unused", "new", "run", "zombie"}]
    /\ parent \in [Procs -> Procs \cup {None}]
    /\ heap_ptr \in [Procs -> 0 .. ADDRESSES - 1] /\ base_mem_sz \in [Procs -> 0 .. HEAPTOP]
    /\ fork \in [Procs -> [child : Procs, va : 0 .. UTOP] \cup {None}]
    /\ panic \in {None, "uvpt", "read"}

Live == {p \in Procs : m.space[p] # None}

\* The places in page tables and directories that name a frame.
Uses(f) ==
    LET pages == {u \in Live \X Vas : m.space[u[1]].pt[u[2]] # None /\ m.space[u[1]].pt[u[2]].frame = f}
        tables == {u \in Live \X Tables : m.space[u[1]].table[u[2]] = f}
        kernel == {u \in Live \X {"ktable", "kstack"} : m.space[u[1]][u[2]] = f}
    IN  Cardinality(pages) + Cardinality(tables) + Cardinality(kernel)

\* p_ref of a frame in use is the number of entries that name it, and it is
\* not free, through every order of fork, faults, exec, exit and brk.
RefsExact == \A f \in Frames : Uses(f) > 0 => m.ref[f] = Uses(f) /\ f \notin m.free

\* A page one process may write is in nobody else's address space: what
\* duppage and cow_pgfault are for ("Copy-on-write fork!!!", sysfunc.c:344).
WritableIsPrivate ==
    \A p \in Live : \A va \in Vas :
       m.space[p].pt[va] # None /\ "W" \in m.space[p].pt[va].perm => Uses(m.space[p].pt[va].frame) = 1

\* What a process finds in its pages.
Contents ==
    [p \in Procs |-> [va \in Vas \ {PFTEMP} |->
        IF m.space[p] = None \/ status[p] = "zombie" THEN None
        ELSE IF m.space[p].pt[va] = None THEN None ELSE m.data[m.space[p].pt[va].frame]]]

Private == INSTANCE Memory WITH VPages <- Vas \ {PFTEMP}, mem <- Contents

\* Processes that share frames behave as if each had a memory of its own.
PrivateMemory == Private!Spec

-----------------------------------------------------------------------------
(* What the repository says of this code and the code does not do: the       *)
(* README tells for each how TLC refutes it.                                 *)

\* "HEAPTOP" bounds the heap (include/mem.h:59, and the test of sbrk,
\* "if (end_addr > HEAPTOP || end_addr < base_addr)", sysfunc.c:445).
HeapBelowTop == \A p \in Procs : heap_ptr[p] <= HEAPTOP

\* "Free all memory process owns including kernel stack." (proc.c:235; "free
\* proc_pgdir itself.", sysfunc.c:126): every frame that is not free belongs
\* to a process that exists.
TablesReturned == \A f \in Frames \ m.free : Uses(f) > 0 \/ \E p \in Live : m.space[p].dir = f

\* "Int occurs in kernel mode!!!" (trap.c:193) is never reached by a user
\* program's write to an address without a page table.
NoFaultInHandler == panic # "uvpt"

\* "Int occurs in kernel mode!!!" (trap.c:193) is never reached by read()
\* into a page the program has.
NoFaultInRead == panic # "read"

=============================================================================
