----------------------------- MODULE ProcTable -----------------------------
(***************************************************************************)
(* Process descriptors and process ids (kern/proc.c): the bitmap of ids,   *)
(* the table, the cache of descriptors, and proc_alloc() with the places   *)
(* where it gives up.  The two failures are those the code has a branch    *)
(* for; page_alloc() as it is waits for memory instead (slab.c:246-251).   *)
(*                                                                         *)
(* All of it runs under proc_table_lock: one call is one step.  What fork, *)
(* exit and wait do with a process in between is in module Sched.  An id   *)
(* whose word in clear_pid() is past the end of id_bitmap (128 and up)     *)
(* overwrites proc_table; the bound InBitmap stops before such ids.        *)
(*                                                                         *)
(* An operator named Op_Why is a defective Op, kept to test that the       *)
(* properties notice the defect; no definition uses it.                    *)
(***************************************************************************)
EXTENDS Integers, SequencesExt, FiniteSetsExt

CONSTANTS
    Desc,           \* descriptors kmalloc may hand out
    WORDS,          \* words of id_bitmap
    WORDBITS,       \* sizeof(uint32_t) * 8
    WORDBYTES,      \* sizeof(uint32_t)
    NPROC,
    FAILURES        \* where an allocation in proc_alloc may fail: "vm", "stack"

ASSUME ProcTableAssumption ==
    /\ IsFiniteSet(Desc)
    /\ WORDS \in Nat \ {0} /\ WORDBYTES \in Nat \ {0}
    /\ WORDBITS \in Nat /\ WORDBYTES < WORDBITS
    /\ NPROC = WORDS * WORDBITS
    /\ FAILURES \subseteq {"vm", "stack"}

Pid == 0 .. NPROC - 1

VARIABLES
    id_bitmap,      \* the ids whose bit is set
    proc_table,     \* the descriptor in each slot: none or one
    procs_desc_cache,
    pid,            \* p->pid
    live,           \* the descriptors of processes that were created and not destroyed
    n_procs_alive,  \* unsigned, and only compared with NPROC: below 0 stands for wrapped
    made            \* descriptors kmalloc has handed out

vars == <<id_bitmap, proc_table, procs_desc_cache, pid, live, n_procs_alive, made>>

-----------------------------------------------------------------------------

\* The lowest id whose bit is set; 0 when there is none.
get_pid == IF id_bitmap = {} THEN 0 ELSE Min(id_bitmap)

clear_pid_NoWord(i) == i * WORDBITS

clear_pid_NextBit(i) == (i \div WORDBYTES) * WORDBITS + ((i + 1) % WORDBYTES)

\* The bit clear_pid sets: word i / sizeof(uint32_t), bit i % sizeof(uint32_t).
clear_pid(i) == (i \div WORDBYTES) * WORDBITS + (i % WORDBYTES)

\* Bound: the ids whose word in clear_pid lies inside id_bitmap.
InBitmap(i) == i \div WORDBYTES < WORDS

\* A cached descriptor, or a new one.
get_proc_desc(d) ==
    IF procs_desc_cache # <<>>
    THEN d = Head(procs_desc_cache) /\ UNCHANGED made
    ELSE d \in Desc \ made /\ made' = made \cup {d}

Unhook_KeepSlot(i) == UNCHANGED proc_table

\* proc_table[i] = 0
Unhook(i) == proc_table' = [proc_table EXCEPT ![i] = {}]

\* d, whose id is i, goes to the front of the cache.  Its caller says what
\* the cache is by then.
proc_desc_destroy(d, i, cache) ==
    /\ id_bitmap' = id_bitmap \cup {clear_pid(i)}
    /\ Unhook(i)
    /\ procs_desc_cache' = <<d>> \o cache

CacheLeft == IF procs_desc_cache = <<>> THEN <<>> ELSE Tail(procs_desc_cache)

proc_alloc_Uncounted(d) ==
    /\ n_procs_alive # NPROC /\ InBitmap(get_pid)
    /\ get_proc_desc(d)
    /\ procs_desc_cache' = CacheLeft
    /\ pid' = [pid EXCEPT ![d] = get_pid]
    /\ id_bitmap' = id_bitmap \ {get_pid}
    /\ proc_table' = [proc_table EXCEPT ![get_pid] = {d}]
    /\ live' = live \cup {d}
    /\ UNCHANGED n_procs_alive

\* proc_alloc() that succeeds.
proc_alloc(d) ==
    /\ n_procs_alive # NPROC /\ InBitmap(get_pid)
    /\ get_proc_desc(d)
    /\ procs_desc_cache' = CacheLeft
    /\ n_procs_alive' = n_procs_alive + 1
    /\ pid' = [pid EXCEPT ![d] = get_pid]
    /\ id_bitmap' = id_bitmap \ {get_pid}
    /\ proc_table' = [proc_table EXCEPT ![get_pid] = {d}]
    /\ live' = live \cup {d}

\* No page for the page directory: the descriptor has no id yet, so it is
\* destroyed with id 0, and was not counted.
proc_alloc_NoVm(d) ==
    /\ "vm" \in FAILURES /\ n_procs_alive # NPROC
    /\ get_proc_desc(d)
    /\ proc_desc_destroy(d, 0, CacheLeft)
    /\ pid' = [pid EXCEPT ![d] = 0]
    /\ n_procs_alive' = n_procs_alive - 1
    /\ UNCHANGED live

proc_alloc_NoStack_Cached(d) ==
    /\ "stack" \in FAILURES /\ n_procs_alive # NPROC /\ InBitmap(get_pid)
    /\ get_proc_desc(d)
    /\ procs_desc_cache' = <<d>> \o procs_desc_cache
    /\ pid' = [pid EXCEPT ![d] = get_pid]
    /\ UNCHANGED <<id_bitmap, proc_table, live, n_procs_alive>>

\* No page for the kernel stack: taken back after the id was given and the
\* process counted.  (proc_alloc returns 0 here all the same, and sets no
\* descriptor; what its caller then reads is not modelled.)
proc_alloc_NoStack(d) ==
    /\ "stack" \in FAILURES /\ n_procs_alive # NPROC /\ InBitmap(get_pid)
    /\ get_proc_desc(d)
    /\ LET i == get_pid
       IN  /\ id_bitmap' = (id_bitmap \ {i}) \cup {clear_pid(i)}
           /\ pid' = [pid EXCEPT ![d] = i]
           /\ Unhook(i)
    /\ procs_desc_cache' = <<d>> \o CacheLeft
    /\ UNCHANGED <<live, n_procs_alive>>

\* wait() reaps a process that has exited.
Reap(d) ==
    /\ d \in live
    /\ proc_desc_destroy(d, pid[d], procs_desc_cache)
    /\ live' = live \ {d}
    /\ n_procs_alive' = n_procs_alive - 1
    /\ UNCHANGED <<pid, made>>

\* What pid2proc finds for an id other than 0, before its last check.
pid2proc(i) == {d \in proc_table[i] : d \in live /\ pid[d] = i}

proc_init ==
    /\ id_bitmap = Pid /\ proc_table = [i \in Pid |-> {}] /\ procs_desc_cache = <<>>
    /\ pid = [d \in Desc |-> 0] /\ live = {} /\ n_procs_alive = 0 /\ made = {}

Next == \E d \in Desc :
    proc_alloc(d) \/ proc_alloc_NoVm(d) \/ proc_alloc_NoStack(d) \/ Reap(d)

Spec == proc_init /\ [][Next]_vars

-----------------------------------------------------------------------------

TypeOK ==
    /\ id_bitmap \subseteq Pid /\ proc_table \in [Pid -> SUBSET Desc]
    /\ procs_desc_cache \in Seq(Desc) /\ pid \in [Desc -> Pid]
    /\ live \subseteq Desc /\ n_procs_alive \in Int /\ made \subseteq Desc

\* No slot of the table outlives its process: whatever ids are shared or
\* lost, pid2proc (and so kill and ipc) never reaches a destroyed descriptor
\* (proc.c:129, 150).
TableEntriesLive ==
    \A i \in Pid : proc_table[i] \subseteq live /\ proc_table[i] = pid2proc(i)

\* A descriptor is a process's or in the cache, once, never both, so that
\* get_proc_desc cannot give a living process away (proc.c:110-133, 261-285).
CacheDisjoint ==
    /\ IsInjective(procs_desc_cache)
    /\ ToSet(procs_desc_cache) = made \ live

\* n_procs_alive, which limits proc_alloc, counts the living processes
\* through creations, reaping and failures after the count.
AliveCounted == n_procs_alive = Cardinality(live)

\* Two living processes never share an id, as long as no process has an id
\* of sizeof(uint32_t) or more: there clear_pid's bit is the right one.
SmallIdsUnique ==
    (\A d \in made : pid[d] < WORDBYTES) =>
        \A d, e \in live : pid[d] = pid[e] => d = e

-----------------------------------------------------------------------------
(* What the repository says of this code and the code does not do: the       *)
(* README tells for each how TLC refutes it.                                 *)

\* The comment at proc.h:116, "if bits in id_bitmap is 0, it is occupied.":
\* the cleared bits are the ids of the living processes.
ZeroBitMeansOccupied == Pid \ id_bitmap = {pid[d] : d \in live}

=============================================================================
