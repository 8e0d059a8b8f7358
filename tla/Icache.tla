------------------------------- MODULE Icache -------------------------------
(***************************************************************************)
(* The inode cache (kern/inode.c): references, the hash, the free list,    *)
(* inode locks, and freeing a file's inode with its last reference.        *)
(*                                                                         *)
(* A struct inode is a slot.  Code under icache_lock is one step, and so   *)
(* is what an inode's lock holder does with its inode.  A file has one     *)
(* name while named[n] holds; the contents of files and directories are    *)
(* left to the modules FileData and Dirs.  A process's references are what *)
(* its system call or its open files hold.                                 *)
(*                                                                         *)
(* An operator named Op_Why is a defective Op, kept to test that the       *)
(* properties notice the defect; no definition uses it.                    *)
(***************************************************************************)
EXTENDS Integers, SequencesExt, FiniteSetsExt, Bags

CONSTANTS
    Procs,
    Slots,          \* the NINODE struct inodes
    Inos,           \* inode numbers
    NoIno,          \* the number of a slot never used
    MAXREF          \* bound: references one process holds

ASSUME IcacheAssumption ==
    /\ IsFiniteSet(Slots) /\ Inos # {} /\ NoIno \notin Inos /\ MAXREF \in Nat

VARIABLES
    ino, ref, valid, nlink,     \* the fields of a slot
    slk,            \* the process in the slot's sleeplock: none or one
    hash_list,      \* the hashed slots, in the order find_inode_in_hash meets them
    free_list,
    d_type,         \* on disk: the inode numbers in use
    d_nlink,        \* on disk: links
    named,          \* the inode numbers a directory names
    refs,           \* the slots each process refers to, a bag
    pc,             \* what a process is doing in iput()
    icache_lock,    \* icache_lock was left locked
    panicked        \* the panics reached

slotVars == <<ino, ref, valid, nlink>>
diskVars == <<d_type, d_nlink, named>>
vars == <<slotVars, slk, hash_list, free_list, diskVars, refs, pc, icache_lock, panicked>>

Ready(p) == pc[p] = {} /\ panicked = {}

\* spin_lock_irqsave(&icache.icache_lock) panics when this CPU has the lock.
Locks(A) == IF icache_lock
            THEN /\ panicked' = {"spin_lock_irqsave(): Deadlock!!!"}
                 /\ UNCHANGED <<slotVars, slk, hash_list, free_list, refs, pc, icache_lock>>
            ELSE A

AddRef(p, s) == refs' = [refs EXCEPT ![p] = @ (+) SetToBag({s})]

DropRef(p, s) == refs' = [refs EXCEPT ![p] = @ (-) SetToBag({s})]

-----------------------------------------------------------------------------
(* iget and ialloc.                                                         *)

\* The first hashed slot with number n.
find_inode_in_hash(n) ==
    LET at == {i \in 1 .. Len(hash_list) : ino[hash_list[i]] = n}
    IN  IF at = {} THEN {} ELSE {hash_list[Min(at)]}

RefUp_Not(s) == ref

\* i->ref++
RefUp(s) == [ref EXCEPT ![s] = @ + 1]

\* A hashed slot that is referenced comes off the free list if it is there.
FreeTaken(s) == RemoveFirst(free_list, s)

\* A slot is found only if it is referenced; otherwise the first free one is
\* given the number, whoever else has it.  Without a free slot iget() returns
\* 0 and keeps the lock.
iget(p, n) ==
    LET found == {s \in find_inode_in_hash(n) : ref[s] > 0}
        s == IF found # {} THEN CHOOSE f \in found : TRUE ELSE Head(free_list)
    IN  Locks(IF found # {}
              THEN /\ ref' = RefUp(s)
                   /\ free_list' = FreeTaken(s)
                   /\ AddRef(p, s)
                   /\ UNCHANGED <<ino, valid, hash_list, icache_lock, panicked>>
              ELSE IF free_list = <<>>
              THEN /\ icache_lock' = TRUE
                   /\ UNCHANGED <<ino, ref, valid, hash_list, free_list, refs, panicked>>
              ELSE /\ free_list' = Tail(free_list)
                   /\ ref' = [ref EXCEPT ![s] = 1]
                   /\ ino' = [ino EXCEPT ![s] = n]
                   /\ valid' = [valid EXCEPT ![s] = FALSE]
                   /\ hash_list' = Append(RemoveFirst(hash_list, s), s)
                   /\ AddRef(p, s)
                   /\ UNCHANGED <<icache_lock, panicked>>)
        /\ UNCHANGED <<nlink, slk, pc>>

\* A name is looked up.
Lookup(p, n) ==
    /\ Ready(p) /\ BagCardinality(refs[p]) < MAXREF
    /\ named[n]
    /\ iget(p, n) /\ UNCHANGED diskVars

\* A free inode on disk is taken; its creator will give it its name.
ialloc(p, n) ==
    /\ Ready(p) /\ BagCardinality(refs[p]) < MAXREF
    /\ n \notin d_type
    /\ d_type' = d_type \cup {n} /\ d_nlink' = [d_nlink EXCEPT ![n] = 0]
    /\ UNCHANGED named
    /\ iget(p, n)

\* dup, fork and namex share a reference.
iref(p, s) ==
    /\ Ready(p) /\ s \in BagToSet(refs[p]) /\ BagCardinality(refs[p]) < MAXREF
    /\ Locks(/\ ref' = RefUp(s)
             /\ AddRef(p, s)
             /\ UNCHANGED <<ino, valid, nlink, slk, hash_list, free_list, pc, icache_lock, panicked>>)
    /\ UNCHANGED diskVars

-----------------------------------------------------------------------------
(* Locking.                                                                 *)

\* ilock(): the slot is filled from the disk if it is not valid.
ilock(p, s) ==
    /\ Ready(p) /\ s \in BagToSet(refs[p]) /\ slk[s] = {}
    /\ IF ref[s] < 1
       THEN panicked' = {"ilock die1!!!"} /\ UNCHANGED <<slk, valid, nlink>>
       ELSE IF ~valid[s] /\ ino[s] \notin d_type
       THEN panicked' = {"ilock die2!!!"} /\ UNCHANGED <<slk, valid, nlink>>
       ELSE /\ slk' = [slk EXCEPT ![s] = {p}]
            /\ valid' = [valid EXCEPT ![s] = TRUE]
            /\ nlink' = IF valid[s] THEN nlink ELSE [nlink EXCEPT ![s] = d_nlink[ino[s]]]
            /\ UNCHANGED panicked
    /\ UNCHANGED <<ino, ref, hash_list, free_list, diskVars, refs, pc, icache_lock>>

iunlock(p, s) ==
    /\ Ready(p) /\ slk[s] = {p}
    /\ slk' = [slk EXCEPT ![s] = {}]
    /\ UNCHANGED <<slotVars, hash_list, free_list, diskVars, refs, pc, icache_lock, panicked>>

\* The lock holder gives the file its name or takes it away, and iupdate()
\* writes the slot's link count to disk.
SetLink(p, s, on) ==
    /\ Ready(p) /\ slk[s] = {p}
    /\ named[ino[s]] # on
    /\ named' = [named EXCEPT ![ino[s]] = on]
    /\ nlink' = [nlink EXCEPT ![s] = IF on THEN 1 ELSE 0]
    /\ d_nlink' = [d_nlink EXCEPT ![ino[s]] = nlink'[s]]
    /\ UNCHANGED <<ino, ref, valid, slk, hash_list, free_list, d_type, refs, pc, icache_lock, panicked>>

-----------------------------------------------------------------------------
(* iput.                                                                    *)

\* The last reference to a file without a name.
LastRef(s) == valid[s] /\ nlink[s] = 0 /\ ref[s] = 1

\* Up to ifree() and the update of the type: ref is read under icache_lock,
\* which is released again.
iput(p, s) ==
    /\ Ready(p) /\ s \in BagToSet(refs[p]) /\ slk[s] = {}
    /\ slk' = [slk EXCEPT ![s] = {p}]
    /\ IF LastRef(s)
       THEN /\ d_type' = d_type \ {ino[s]}
            /\ valid' = [valid EXCEPT ![s] = FALSE]
       ELSE UNCHANGED <<d_type, valid>>
    /\ pc' = [pc EXCEPT ![p] = {s}]
    /\ UNCHANGED <<ino, ref, nlink, hash_list, free_list, d_nlink, named, refs, icache_lock, panicked>>

ToFree_Always(s) == Append(free_list, s)

\* The free list after a reference to s is gone.
ToFree(s) == IF ref[s] = 1 THEN Append(free_list, s) ELSE free_list

\* The rest of iput().
IputEnd(p) ==
    /\ pc[p] # {} /\ panicked = {}
    /\ \E s \in pc[p] :
          Locks(/\ ref' = [ref EXCEPT ![s] = @ - 1]
                /\ free_list' = ToFree(s)
                /\ DropRef(p, s)
                /\ slk' = [slk EXCEPT ![s] = {}]
                /\ pc' = [pc EXCEPT ![p] = {}]
                /\ UNCHANGED <<ino, valid, nlink, hash_list, icache_lock, panicked>>)
    /\ UNCHANGED diskVars

-----------------------------------------------------------------------------

\* One file with a name; nothing cached.
inode_init ==
    /\ ino = [s \in Slots |-> NoIno] /\ ref = [s \in Slots |-> 0]
    /\ valid = [s \in Slots |-> FALSE] /\ nlink = [s \in Slots |-> 0]
    /\ slk = [s \in Slots |-> {}] /\ hash_list = <<>> /\ free_list = SetToSeq(Slots)
    /\ d_type = {CHOOSE n \in Inos : TRUE}
    /\ named = [n \in Inos |-> n \in d_type]
    /\ d_nlink = [n \in Inos |-> IF n \in d_type THEN 1 ELSE 0]
    /\ refs = [p \in Procs |-> EmptyBag] /\ pc = [p \in Procs |-> {}]
    /\ icache_lock = FALSE /\ panicked = {}

Next == \E p \in Procs :
    \/ \E n \in Inos : Lookup(p, n) \/ ialloc(p, n)
    \/ \E s \in Slots : iref(p, s) \/ ilock(p, s) \/ iunlock(p, s) \/ iput(p, s)
    \/ \E s \in Slots, on \in BOOLEAN : SetLink(p, s, on)
    \/ IputEnd(p)

Spec == inode_init /\ [][Next]_vars

-----------------------------------------------------------------------------

TypeOK ==
    /\ ino \in [Slots -> Inos \cup {NoIno}] /\ ref \in [Slots -> Nat]
    /\ valid \in [Slots -> BOOLEAN] /\ nlink \in [Slots -> {0, 1}]
    /\ slk \in [Slots -> SUBSET Procs] /\ IsInjective(hash_list) /\ IsInjective(free_list)
    /\ d_type \subseteq Inos /\ d_nlink \in [Inos -> {0, 1}] /\ named \in [Inos -> BOOLEAN]
    /\ pc \in [Procs -> SUBSET Slots] /\ icache_lock \in BOOLEAN

\* The references to s, those of each process numbered.
Holders(s) == {p \in Procs : s \in BagToSet(refs[p])}
Held(s) == UNION {{p} \X (1 .. refs[p][s]) : p \in Holders(s)}

\* ref is the number of references the processes hold, through iget, iref
\* and iput in any order, and the free list has exactly the slots nobody
\* refers to: none is recycled in use, none is lost (inode.c:99-120, 281-283).
RefsCounted ==
    \A s \in Slots :
        /\ ref[s] = Cardinality(Held(s))
        /\ Contains(free_list, s) <=> ref[s] = 0

\* The panic of inode.c:160 is not reached: a slot that somebody is about to
\* lock keeps its reference.
NoDie1 == "ilock die1!!!" \notin panicked

-----------------------------------------------------------------------------
(* What the repository says of this code and the code does not do: the       *)
(* README tells for each how TLC refutes it.                                 *)

\* The comment at inode.c:30, "inode->inode_slk to protect single inode.": an
\* inode in use is in one slot, or its lock protects nothing.
OneCopy == \A s, t \in Slots : ref[s] > 0 /\ ref[t] > 0 /\ ino[s] = ino[t] => s = t

\* The panic of inode.c:180: whoever has a reference to a file finds the file.
NoDie2 == "ilock die2!!!" \notin panicked

\* The panic of lock.c:56: the CPU never locks a spinlock it already has.
NoDeadlockPanic == "spin_lock_irqsave(): Deadlock!!!" \notin panicked

=============================================================================
