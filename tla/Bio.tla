-------------------------------- MODULE Bio --------------------------------
(***************************************************************************)
(* The buffer cache (kern/bio.c): a fixed number of buffers, the hash by   *)
(* block, the free list, and the processes that wait for a buffer or for   *)
(* the disk.                                                               *)
(*                                                                         *)
(* Code under blk_cache_lk is one step.  There is one device (ROOTDEV), so *)
(* a block is its number, and the hash slots only speed up the search: the *)
(* hash is the buffers that have a block.  The driver is what module Ide   *)
(* promises: a request is answered some time after it was made.  Users are *)
(* the file system: they take a block, read or change it, give it to       *)
(* bwrite() or to log_write(), and release it.                             *)
(*                                                                         *)
(* An operator named Op_Why is a defective Op, kept to test that the       *)
(* properties notice the defect; no definition uses it.                    *)
(***************************************************************************)
EXTENDS Integers, SequencesExt, FiniteSetsExt

CONSTANTS
    Procs,
    Bufs,
    Blocks,
    NoBlock,        \* the block of a buffer that was never used
    Values,         \* the contents a block may have
    MAXHELD         \* bound: buffers one process holds

ASSUME BioAssumption ==
    /\ IsFiniteSet(Bufs) /\ Bufs # {}
    /\ NoBlock \notin Blocks /\ Values # {} /\ MAXHELD \in Nat

VARIABLES
    blockno,        \* b->blockno of the hashed buffers
    flag,           \* subsets of B_BUSY, B_VALID and B_DIRTY
    data,
    free_list,
    disk,
    held,           \* the buffers a process has got and not released
    at,             \* the buffer a process sleeps on, asked the driver for, or holds
    want,           \* the block a process in getblk() looks for
    pc

cacheVars == <<blockno, flag, data, free_list>>
vars == <<cacheVars, disk, held, at, want, pc>>

-----------------------------------------------------------------------------

find_blk_in_hash(k) == {b \in Bufs : blockno[b] = k}

SetFlag(b, on, off) == flag' = [flag EXCEPT ![b] = (@ \cup on) \ off]

Goto(p, l) == pc' = [pc EXCEPT ![p] = l]

-----------------------------------------------------------------------------
(* getblk and bread.                                                        *)

\* The block is hashed and busy: wait for that buffer.
getblk_Busy(p) ==
    /\ pc[p] = "getblk"
    /\ \E b \in find_blk_in_hash(want[p]) :
          "BUSY" \in flag[b] /\ at' = [at EXCEPT ![p] = {b}]
    /\ Goto(p, "sleep_buf")
    /\ UNCHANGED <<cacheVars, disk, held, want>>

\* bread() goes to the driver when the buffer it got is not valid.
Got(p, b) ==
    /\ held' = [held EXCEPT ![p] = @ \cup {b}]
    /\ IF "VALID" \in flag'[b]
       THEN Goto(p, "run") /\ at' = [at EXCEPT ![p] = {}]
       ELSE Goto(p, "io") /\ at' = [at EXCEPT ![p] = {b}]

getblk_Hit_NotTaken(p) ==
    /\ pc[p] = "getblk"
    /\ \E b \in find_blk_in_hash(want[p]) :
          /\ "BUSY" \notin flag[b]
          /\ SetFlag(b, {"BUSY"}, {})
          /\ Got(p, b)
    /\ UNCHANGED <<blockno, data, free_list, disk, want>>

\* It is hashed and nobody has it.
getblk_Hit(p) ==
    /\ pc[p] = "getblk"
    /\ \E b \in find_blk_in_hash(want[p]) :
          /\ "BUSY" \notin flag[b]
          /\ SetFlag(b, {"BUSY"}, {})
          /\ free_list' = RemoveFirst(free_list, b)
          /\ Got(p, b)
    /\ UNCHANGED <<blockno, data, disk, want>>

\* It is not hashed and no buffer is free.
getblk_Full(p) ==
    /\ pc[p] = "getblk"
    /\ find_blk_in_hash(want[p]) = {} /\ free_list = <<>>
    /\ Goto(p, "sleep_free")
    /\ UNCHANGED <<cacheVars, disk, held, at, want>>

getblk_Miss_KeepValid(p) ==
    /\ pc[p] = "getblk"
    /\ find_blk_in_hash(want[p]) = {} /\ free_list # <<>>
    /\ LET b == Head(free_list)
       IN  /\ free_list' = Tail(free_list)
           /\ blockno' = [blockno EXCEPT ![b] = want[p]]
           /\ SetFlag(b, {"BUSY"}, {})
           /\ Got(p, b)
    /\ UNCHANGED <<data, disk, want>>

\* The first free buffer changes its block.
getblk_Miss(p) ==
    /\ pc[p] = "getblk"
    /\ find_blk_in_hash(want[p]) = {} /\ free_list # <<>>
    /\ LET b == Head(free_list)
       IN  /\ free_list' = Tail(free_list)
           /\ blockno' = [blockno EXCEPT ![b] = want[p]]
           /\ SetFlag(b, {"BUSY"}, {"VALID"})
           /\ Got(p, b)
    /\ UNCHANGED <<data, disk, want>>

\* The file system asks for a block it does not hold.
bread(p, k) ==
    /\ pc[p] = "run" /\ Cardinality(held[p]) < MAXHELD
    /\ \A b \in held[p] : blockno[b] # k
    /\ want' = [want EXCEPT ![p] = k]
    /\ Goto(p, "getblk")
    /\ UNCHANGED <<cacheVars, disk, held, at>>

\* The driver answers, and the process that asked goes on: a dirty buffer has
\* been written, another one read.
IoDone(p) ==
    /\ pc[p] = "io"
    /\ \E b \in at[p] :
          /\ IF "DIRTY" \in flag[b]
             THEN disk' = [disk EXCEPT ![blockno[b]] = data[b]] /\ UNCHANGED data
             ELSE data' = [data EXCEPT ![b] = disk[blockno[b]]] /\ UNCHANGED disk
          /\ SetFlag(b, {"VALID"}, {"DIRTY"})
    /\ at' = [at EXCEPT ![p] = {}]
    /\ Goto(p, "run")
    /\ UNCHANGED <<blockno, free_list, held, want>>

-----------------------------------------------------------------------------
(* Writing and releasing.                                                   *)

\* The block is changed and written at once: the log header.
bwrite(p, b, v) ==
    /\ pc[p] = "run" /\ b \in held[p]
    /\ data' = [data EXCEPT ![b] = v]
    /\ SetFlag(b, {"DIRTY"}, {"VALID"})
    /\ at' = [at EXCEPT ![p] = {b}]
    /\ Goto(p, "io")
    /\ UNCHANGED <<blockno, free_list, disk, held, want>>

\* The block is changed and marked by log_write(), to be written by the commit.
log_write(p, b, v) ==
    /\ pc[p] = "run" /\ b \in held[p]
    /\ data' = [data EXCEPT ![b] = v]
    /\ SetFlag(b, {"DIRTY"}, {"VALID"})
    /\ UNCHANGED <<blockno, free_list, disk, held, at, want, pc>>

Clean_Any(b) == TRUE

\* The test of brelse: only a buffer that is valid and clean is free again.
Clean(b) == flag[b] \cap {"VALID", "DIRTY"} = {"VALID"}

Wakes_BufOnly(b) == {p \in Procs : pc[p] = "sleep_buf" /\ b \in at[p]}

\* Whom brelse wakes: those who sleep on b, and those for want of a free buffer.
Wakes(b) == {p \in Procs : \/ pc[p] = "sleep_free"
                           \/ pc[p] = "sleep_buf" /\ b \in at[p]}

\* A dirty buffer stays off the free list, and its release wakes nobody.
brelse(p, b) ==
    /\ pc[p] = "run" /\ b \in held[p]
    /\ SetFlag(b, {}, {"BUSY"})
    /\ held' = [held EXCEPT ![p] = @ \ {b}]
    /\ IF Clean(b)
       THEN /\ free_list' = Append(free_list, b)
            /\ pc' = [r \in Procs |-> IF r \in Wakes(b) THEN "getblk" ELSE pc[r]]
            /\ at' = [r \in Procs |-> IF r \in Wakes(b) THEN {} ELSE at[r]]
       ELSE UNCHANGED <<free_list, pc, at>>
    /\ UNCHANGED <<blockno, data, disk, want>>

\* kill() of a process that sleeps in getblk(): it looks again.
kill(p) ==
    /\ pc[p] \in {"sleep_buf", "sleep_free"}
    /\ Goto(p, "getblk") /\ at' = [at EXCEPT ![p] = {}]
    /\ UNCHANGED <<cacheVars, disk, held, want>>

-----------------------------------------------------------------------------

buffer_init ==
    /\ blockno = [b \in Bufs |-> NoBlock] /\ flag = [b \in Bufs |-> {}]
    /\ data \in [Bufs -> {CHOOSE v \in Values : TRUE}]
    /\ free_list = SetToSeq(Bufs)
    /\ disk \in [Blocks -> {CHOOSE v \in Values : TRUE}]
    /\ held = [p \in Procs |-> {}] /\ at = [p \in Procs |-> {}]
    /\ want = [p \in Procs |-> NoBlock] /\ pc = [p \in Procs |-> "run"]

getblk(p) == getblk_Busy(p) \/ getblk_Hit(p) \/ getblk_Full(p) \/ getblk_Miss(p)

Next == \E p \in Procs :
    \/ \E k \in Blocks : bread(p, k)
    \/ getblk(p)
    \/ IoDone(p)
    \/ \E b \in Bufs, v \in Values : bwrite(p, b, v)
    \/ \E b \in Bufs, v \in Values : log_write(p, b, v)
    \/ \E b \in Bufs : brelse(p, b)
    \/ kill(p)

Spec == buffer_init /\ [][Next]_vars

-----------------------------------------------------------------------------

TypeOK ==
    /\ blockno \in [Bufs -> Blocks \cup {NoBlock}] /\ data \in [Bufs -> Values]
    /\ flag \in [Bufs -> SUBSET {"BUSY", "VALID", "DIRTY"}]
    /\ free_list \in Seq(Bufs) /\ IsInjective(free_list)
    /\ disk \in [Blocks -> Values] /\ held \in [Procs -> SUBSET Bufs]
    /\ at \in [Procs -> SUBSET Bufs] /\ want \in [Procs -> Blocks \cup {NoBlock}]
    /\ pc \in [Procs -> {"run", "getblk", "sleep_buf", "sleep_free", "io"}]

\* A buffer on the free list is in nobody's hands and has nothing the disk
\* lacks: getblk() gives the first one away without a look (bio.c:93-104).
FreeIsClean ==
    \A b \in ToSet(free_list) :
        /\ flag[b] \cap {"BUSY", "DIRTY"} = {}
        /\ \A p \in Procs : b \notin held[p]

\* Nobody sleeps for want of a free buffer while there is one, or on a buffer
\* that is neither owned nor dirty.  On a dirty buffer that nobody owns any more
\* a process may sleep on, see SleepersHaveOwner (bio.c:72-92, 180-195).
NobodySleepsOverFree ==
    \A p \in Procs :
        /\ pc[p] = "sleep_free" => free_list = <<>>
        /\ pc[p] = "sleep_buf" => \A b \in at[p] : flag[b] \cap {"BUSY", "DIRTY"} # {}

\* What the free list has is free: nobody owns it or sleeps for it, and the disk
\* has its contents (bio.c:72-104, 180-195).
FreeMeansFree == FreeIsClean /\ NobodySleepsOverFree

\* The buffers whose contents count for block k.
Cached(k) == {b \in find_blk_in_hash(k) : flag[b] \cap {"VALID", "DIRTY"} # {}}

\* A block is owned by the holder of its buffer, and its value is in the
\* buffer or, failing that, on the disk.
Store == INSTANCE BlockStore WITH
    owner <- [k \in Blocks |->
                 {p \in Procs : \E b \in held[p] : blockno[b] = k}],
    val   <- [k \in Blocks |->
                 IF Cached(k) = {} THEN disk[k] ELSE data[CHOOSE b \in Cached(k) : TRUE]]

\* The cache implements BlockStore: a block has one owner, and reads as the
\* last thing written to it.  Losing an update, giving a block to two
\* processes or having two buffers for one block would break it (bio.c:65-195).
IsBlockStore == Store!Spec

-----------------------------------------------------------------------------
(* What the repository says of this code and the code does not do: the       *)
(* README tells for each how TLC refutes it.                                 *)

\* The comment at bio.c:80-82: "every blocks in the hash table has been used
\* by other processes, otherwise, it must be in the free_list".
HashedIsUsedOrFree ==
    \A b \in Bufs : blockno[b] # NoBlock => "BUSY" \in flag[b] \/ Contains(free_list, b)

\* README.md:339 of the repository, on getblk(): a process sleeps when another one
\* has the block (B_BUSY).  It sleeps on when that one leaves the block dirty,
\* and nobody wakes it (bio.c:186).
SleepersHaveOwner ==
    \A p \in Procs : pc[p] = "sleep_buf" => \A b \in at[p] : "BUSY" \in flag[b]

=============================================================================
