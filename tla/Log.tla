-------------------------------- MODULE Log --------------------------------
(***************************************************************************)
(* The log (kern/log.c): transactions, the commit, and the recovery after  *)
(* a crash between any two disk writes.                                    *)
(*                                                                         *)
(* One block transfer is atomic.  The buffer of a block is mem[b]; it is   *)
(* dirty after log_write() and until the block is next read through        *)
(* bread(), which writes a dirty buffer home (bio.c:129, ide.c:111).  A    *)
(* clean buffer equals its home block, so eviction is not visible.  The    *)
(* blocks of a dozen are written in any order.  Every write gives a block  *)
(* a version of its own.                                                   *)
(*                                                                         *)
(* An operator named Op_Why is a defective Op, kept to test that the       *)
(* properties notice the defect; no definition uses it.                    *)
(***************************************************************************)
EXTENDS Integers, Sequences, FiniteSets

CONSTANTS
    Procs,
    Blocks,         \* home blocks
    MAXOPBLOCKS,
    LOGSIZE,
    size,           \* log_manager.size: the blocks of the log on disk
    MAXTX,          \* bound: transactions
    MAXCRASH        \* bound: crashes

LogAssumption ==
    /\ IsFiniteSet(Procs) /\ IsFiniteSet(Blocks)
    /\ MAXOPBLOCKS \in Nat \ {0} /\ LOGSIZE \in Nat /\ LOGSIZE >= MAXOPBLOCKS
    /\ size \in Nat \ {0} /\ MAXTX \in Nat /\ MAXCRASH \in Nat

VARIABLES
    home,           \* on disk: the blocks in their places
    slot,           \* on disk: the log blocks
    hdr,            \* on disk: the block numbers of the log header
    mem,            \* the buffers' contents
    dirty,          \* the buffers with B_DIRTY
    lheader,        \* log_manager.lheader
    n_occupiers,
    committing,
    buf_ptrs,       \* the copies of the log blocks the commit installs
    todo,           \* the positions of a dozen that are not yet written
    pc,
    left,           \* how many blocks a process may still write in its transaction
    busy,           \* the block a process is about to log
    stable,         \* the contents as of the last commit
    ver, refused, ntx, ncrash

diskVars == <<home, slot, hdr>>
txVars == <<lheader, n_occupiers, committing>>
bounds == <<ntx, ncrash>>
vars == <<diskVars, mem, dirty, txVars, buf_ptrs, todo, pc, left, busy, stable, ver, refused, bounds>>

InLog(h, b) == \E i \in 1 .. Len(h) : h[i] = b

Goto(p, l) == pc' = [pc EXCEPT ![p] = l]

\* wakeup(&log_manager.procs_waitting) by p, which goes to l.
WakeAndGoto(p, l) ==
    pc' = [r \in Procs |-> CASE r = p -> l
                             [] r # p /\ pc[r] = "sleep" -> "begin"
                             [] OTHER -> pc[r]]

-----------------------------------------------------------------------------
(* Transactions.                                                            *)

begin_transaction(p) ==
    /\ pc[p] = "user" /\ ntx < MAXTX
    /\ ntx' = ntx + 1
    /\ Goto(p, "begin")
    /\ UNCHANGED <<diskVars, mem, dirty, txVars, buf_ptrs, todo, left, busy, stable, ver, refused, ncrash>>

Admits_DuringCommit == Len(lheader) + (n_occupiers + 1) * MAXOPBLOCKS <= LOGSIZE

Admits_OneShort == ~committing /\ Len(lheader) + n_occupiers * MAXOPBLOCKS <= LOGSIZE

\* Every operation is assumed to write as many blocks as it may.
Admits == ~committing /\ Len(lheader) + (n_occupiers + 1) * MAXOPBLOCKS <= LOGSIZE

BeginLoop_NotCounted(p) ==
    /\ pc[p] = "begin" /\ Admits
    /\ left' = [left EXCEPT ![p] = MAXOPBLOCKS]
    /\ Goto(p, "in")
    /\ UNCHANGED <<diskVars, mem, dirty, txVars, buf_ptrs, todo, busy, stable, ver, refused, bounds>>

\* The loop of begin_transaction.
BeginLoop(p) ==
    /\ pc[p] = "begin"
    /\ IF Admits
       THEN /\ n_occupiers' = n_occupiers + 1
            /\ left' = [left EXCEPT ![p] = MAXOPBLOCKS]
            /\ Goto(p, "in")
       ELSE Goto(p, "sleep") /\ UNCHANGED <<n_occupiers, left>>
    /\ UNCHANGED <<diskVars, mem, dirty, lheader, committing, buf_ptrs, todo, busy, stable, ver, refused, bounds>>

\* bread() of block b: a dirty buffer goes home.
Bread(b) ==
    /\ home' = IF b \in dirty THEN [home EXCEPT ![b] = mem[b]] ELSE home
    /\ UNCHANGED <<slot, hdr>>

\* The operation reads a block, changes it and calls log_write(), which tests
\* the limits before it takes the lock.  Nobody looks at its result.
Write(p, b) ==
    /\ pc[p] = "in" /\ left[p] > 0
    /\ \A r \in Procs : b \notin busy[r]
    /\ Bread(b)
    /\ ver' = ver + 1
    /\ mem' = [mem EXCEPT ![b] = ver + 1]
    /\ dirty' = dirty \ {b}
    /\ left' = [left EXCEPT ![p] = left[p] - 1]
    /\ IF Len(lheader) >= LOGSIZE \/ Len(lheader) >= size - 1 \/ n_occupiers < 1
       THEN refused' = TRUE /\ UNCHANGED <<busy, pc>>
       ELSE busy' = [busy EXCEPT ![p] = {b}] /\ Goto(p, "log_write") /\ UNCHANGED refused
    /\ UNCHANGED <<txVars, buf_ptrs, todo, stable, bounds>>

\* The rest of log_write(), under the lock, and brelse().
log_write(p) ==
    /\ pc[p] = "log_write"
    /\ \E b \in busy[p] :
          /\ lheader' = IF InLog(lheader, b) THEN lheader ELSE Append(lheader, b)
          /\ dirty' = dirty \cup {b}
    /\ busy' = [busy EXCEPT ![p] = {}]
    /\ Goto(p, "in")
    /\ UNCHANGED <<diskVars, mem, n_occupiers, committing, buf_ptrs, todo, left, stable, ver, refused, bounds>>

\* Somebody reads a block, in a transaction or not.
Read(b) ==
    /\ b \in dirty
    /\ Bread(b)
    /\ dirty' = dirty \ {b}
    /\ UNCHANGED <<mem, txVars, buf_ptrs, todo, pc, left, busy, stable, ver, refused, bounds>>

\* The last one commits, if there is anything to commit.
end_transaction(p) ==
    /\ pc[p] = "in"
    /\ n_occupiers' = n_occupiers - 1
    /\ left' = [left EXCEPT ![p] = 0]
    /\ IF committing
       THEN Goto(p, "panic") /\ UNCHANGED <<committing, todo, buf_ptrs>>
       ELSE IF n_occupiers = 1
            THEN /\ committing' = TRUE
                 /\ Goto(p, IF lheader = <<>> THEN "end" ELSE "copy")
                 /\ todo' = 1 .. Len(lheader) /\ buf_ptrs' = <<>>
            ELSE WakeAndGoto(p, "user") /\ UNCHANGED <<committing, todo, buf_ptrs>>
    /\ UNCHANGED <<diskVars, mem, dirty, lheader, busy, stable, ver, refused, bounds>>

-----------------------------------------------------------------------------
(* The commit, one disk write at a time.                                    *)

\* The loop of write_log_blk: the modified block is read, which writes it
\* home if it is dirty, and copied.
CopyBlock(p) ==
    /\ pc[p] = "copy"
    /\ LET b == lheader[Len(buf_ptrs) + 1]
       IN  /\ Bread(b)
           /\ dirty' = dirty \ {b}
           /\ buf_ptrs' = Append(buf_ptrs, mem[b])
    /\ IF Len(buf_ptrs) + 1 = Len(lheader) THEN Goto(p, "log") ELSE UNCHANGED pc
    /\ UNCHANGED <<mem, txVars, todo, left, busy, stable, ver, refused, bounds>>

DozenStep_First(p, i, next) == todo' = 1 .. Len(lheader) /\ Goto(p, next)

\* One block of a dozen; the process goes to next after the last one.
DozenStep(p, i, next) ==
    /\ todo' = IF todo = {i} THEN 1 .. Len(lheader) ELSE todo \ {i}
    /\ IF todo = {i} THEN Goto(p, next) ELSE UNCHANGED pc

\* bwrite_dozens at the end of write_log_blk.
write_log_blk(p) ==
    /\ pc[p] = "log"
    /\ \E i \in todo : slot' = [slot EXCEPT ![i] = buf_ptrs[i]] /\ DozenStep(p, i, "header")
    /\ UNCHANGED <<home, hdr, mem, dirty, txVars, buf_ptrs, left, busy, stable, ver, refused, bounds>>

\* The first write_log_header of commit: from here on the blocks are stable.
write_log_header(p) ==
    /\ pc[p] = "header"
    /\ hdr' = lheader
    /\ stable' = [b \in Blocks |-> IF InLog(lheader, b) THEN mem[b] ELSE stable[b]]
    /\ Goto(p, "install")
    /\ UNCHANGED <<home, slot, mem, dirty, txVars, buf_ptrs, todo, left, busy, ver, refused, bounds>>

\* keep_consistent_on_disk(0): the copies go to their places.
keep_consistent_on_disk(p) ==
    /\ pc[p] = "install"
    /\ \E i \in todo :
          /\ home' = [home EXCEPT ![lheader[i]] = buf_ptrs[i]]
          /\ mem' = [mem EXCEPT ![lheader[i]] = buf_ptrs[i]]
          /\ dirty' = dirty \ {lheader[i]}
          /\ DozenStep(p, i, "clear")
    /\ UNCHANGED <<slot, hdr, txVars, buf_ptrs, left, busy, stable, ver, refused, bounds>>

\* The second write_log_header.
ClearLog(p) ==
    /\ pc[p] = "clear"
    /\ lheader' = <<>> /\ hdr' = <<>> /\ todo' = {} /\ buf_ptrs' = <<>>
    /\ Goto(p, "end")
    /\ UNCHANGED <<home, slot, mem, dirty, n_occupiers, committing, left, busy, stable, ver, refused, bounds>>

CommitEnd_NoWakeup(p) ==
    /\ pc[p] = "end"
    /\ committing' = FALSE
    /\ Goto(p, "user")
    /\ UNCHANGED <<diskVars, mem, dirty, lheader, n_occupiers, buf_ptrs, todo, left, busy, stable, ver, refused, bounds>>

\* The end of end_transaction.
CommitEnd(p) ==
    /\ pc[p] = "end"
    /\ committing' = FALSE
    /\ WakeAndGoto(p, "user")
    /\ UNCHANGED <<diskVars, mem, dirty, lheader, n_occupiers, buf_ptrs, todo, left, busy, stable, ver, refused, bounds>>

-----------------------------------------------------------------------------
(* Crash and recovery.                                                      *)

\* The machine stops at any moment: only the disk is left.
Crash ==
    /\ ncrash < MAXCRASH
    /\ ncrash' = ncrash + 1
    /\ mem' = [b \in Blocks |-> 0] /\ dirty' = {}
    /\ lheader' = <<>> /\ n_occupiers' = 0 /\ committing' = FALSE
    /\ buf_ptrs' = <<>> /\ todo' = {} /\ busy' = [p \in Procs |-> {}]
    /\ left' = [p \in Procs |-> 0] /\ pc' = [p \in Procs |-> "boot"]
    /\ UNCHANGED <<diskVars, stable, ver, refused, ntx>>

\* read_log_header in the first process, before there are others.
read_log_header(p) ==
    /\ \A r \in Procs : pc[r] = "boot"
    /\ lheader' = hdr
    /\ todo' = 1 .. Len(hdr)
    /\ Goto(p, IF hdr = <<>> THEN "recovered" ELSE "recover")
    /\ UNCHANGED <<diskVars, mem, dirty, n_occupiers, committing, buf_ptrs, left, busy, stable, ver, refused, bounds>>

\* keep_consistent_on_disk(1): the log blocks go to their places.
RecoverBlock(p) ==
    /\ pc[p] = "recover"
    /\ \E i \in todo :
          home' = [home EXCEPT ![lheader[i]] = slot[i]] /\ DozenStep(p, i, "recovered")
    /\ UNCHANGED <<slot, hdr, mem, dirty, txVars, buf_ptrs, left, busy, stable, ver, refused, bounds>>

\* The end of recover_from_log: the log is cleared and the system is up.
recover_from_log(p) ==
    /\ pc[p] = "recovered"
    /\ lheader' = <<>> /\ hdr' = <<>> /\ todo' = {}
    /\ mem' = home
    /\ pc' = [r \in Procs |-> "user"]
    /\ UNCHANGED <<home, slot, dirty, n_occupiers, committing, buf_ptrs, left, busy, stable, ver, refused, bounds>>

-----------------------------------------------------------------------------

log_init ==
    /\ home = [b \in Blocks |-> 0] /\ slot = [i \in 1 .. LOGSIZE |-> 0] /\ hdr = <<>>
    /\ mem = home /\ dirty = {} /\ stable = home
    /\ lheader = <<>> /\ n_occupiers = 0 /\ committing = FALSE
    /\ buf_ptrs = <<>> /\ todo = {}
    /\ pc = [p \in Procs |-> "user"] /\ left = [p \in Procs |-> 0]
    /\ busy = [p \in Procs |-> {}] /\ ver = 0 /\ refused = FALSE
    /\ ntx = 0 /\ ncrash = 0

commit(p) ==
    \/ CopyBlock(p) \/ write_log_blk(p) \/ write_log_header(p)
    \/ keep_consistent_on_disk(p) \/ ClearLog(p) \/ CommitEnd(p)

Step(p) ==
    \/ BeginLoop(p) \/ log_write(p) \/ end_transaction(p) \/ commit(p)

Recover(p) == read_log_header(p) \/ RecoverBlock(p) \/ recover_from_log(p)

Next ==
    \/ \E p \in Procs : begin_transaction(p) \/ Step(p) \/ Recover(p)
    \/ \E p \in Procs, b \in Blocks : Write(p, b)
    \/ \E b \in Blocks : Read(b)
    \/ Crash

Spec == log_init /\ [][Next]_vars

\* A process in the kernel runs on, and an operation ends.
FairSpec == Spec /\ \A p \in Procs : WF_vars(Step(p))

-----------------------------------------------------------------------------

Flags == committing \in BOOLEAN /\ refused \in BOOLEAN

TypeOK ==
    /\ Flags
    /\ home \in [Blocks -> Nat] /\ slot \in [1 .. LOGSIZE -> Nat] /\ hdr \in Seq(Blocks)
    /\ mem \in [Blocks -> Nat] /\ dirty \subseteq Blocks /\ stable \in [Blocks -> Nat]
    /\ lheader \in Seq(Blocks) /\ n_occupiers \in Nat
    /\ buf_ptrs \in Seq(Nat) /\ todo \subseteq 1 .. LOGSIZE
    /\ pc \in [Procs -> {"user", "begin", "sleep", "in", "log_write", "copy", "log", "header",
                         "install", "clear", "end", "panic", "boot", "recover", "recovered"}]
    /\ left \in [Procs -> 0 .. MAXOPBLOCKS] /\ busy \in [Procs -> SUBSET Blocks]
    /\ ver \in Nat /\ ntx \in 0 .. MAXTX /\ ncrash \in 0 .. MAXCRASH

\* What a recovery would leave in block b if the machine stopped now.
Recovered(b) ==
    IF InLog(hdr, b) THEN slot[CHOOSE i \in 1 .. Len(hdr) : hdr[i] = b] ELSE home[b]

\* A commit is for good: after any number of crashes, in the installation, in
\* the recovery or later, no block falls behind its last committed contents
\* (commit and recover_from_log write data, header, home, header).
Durable == \A b \in Blocks : Recovered(b) >= stable[b]

\* end_transaction's panic is not reached, and the commit has the log for
\* itself: nobody is in a transaction while it runs (log.c:117, 140).
CommitsAlone ==
    /\ committing => n_occupiers = 0
    /\ \A p \in Procs : pc[p] # "panic"
    /\ n_occupiers = Cardinality({p \in Procs : pc[p] \in {"in", "log_write"}})

\* The header array has room for all that the admitted operations may still
\* write, although log_write tests it outside the lock (log.c:120, 213, 225).
HeaderFits == Len(lheader) <= LOGSIZE

\* Whoever waits for the log gets in once no more transactions arrive.
EveryoneGetsIn == \A p \in Procs : (pc[p] \in {"begin", "sleep"}) ~> (pc[p] = "in")

-----------------------------------------------------------------------------
(* What the repository says of this code and the code does not do: the       *)
(* README tells for each how TLC refutes it.                                 *)

\* The comment at log.c:87-88, writing the header is "the point that the
\* current transaction was really commited": before it a crash leaves nothing
\* of a transaction, after it everything.
AllOrNothing == \A b \in Blocks : Recovered(b) = stable[b]

\* The comment at log.c:121, "this op might exhaust log space; wait for
\* commit.": an operation that was let in finds room for its blocks.
AdmittedFits == ~refused

\* mkfs.c:18 puts the inode blocks right behind the log: the log's data
\* blocks are the size - 1 after its header.
LogInItsArea == Len(lheader) <= size - 1

=============================================================================
