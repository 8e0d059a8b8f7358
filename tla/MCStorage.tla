----------------------------- MODULE MCStorage -----------------------------
(***************************************************************************)
(* The layers below the file system: the buffer cache (Bio), the driver    *)
(* (Ide) and the log (Log), the latter as an instance with crashes and one *)
(* with more processes than the log has room for.  The modules have no     *)
(* variable in common, so that a behaviour moves one part and leaves the   *)
(* others as they were initialised.                                        *)
(***************************************************************************)
EXTENDS Bio, TLC

CONSTANTS p1, p2, p3, p4, k1, k2, k3, Idle

ThreeProcs == {p1, p2, p3}

ThreeBlocks == {k1, k2, k3}

VARIABLES
    part,           \* the part that moves
    ide_queue, n_requests, active, ide_flag, fresh, dozen_ptr, n_request, mine, ide_pc, calls,
    home, slot, hdr, mem, dirty, lheader, n_occupiers, committing, buf_ptrs, todo, log_pc,
    left, busy, stable, ver, refused, ntx, ncrash

ideVars == <<ide_queue, n_requests, active, ide_flag, fresh, dozen_ptr, n_request, mine,
             ide_pc, calls>>

logVars == <<home, slot, hdr, mem, dirty, lheader, n_occupiers, committing, buf_ptrs, todo,
             log_pc, left, busy, stable, ver, refused, ntx, ncrash>>

Disk == INSTANCE Ide WITH
    Procs <- ThreeProcs, Blocks <- 1 .. 4, FAULTS <- BOOLEAN, MAXDOZEN <- 3, MAXCALLS <- 4,
    flag <- ide_flag, pc <- ide_pc

\* Group commits of up to two blocks, and two crashes.
Crashes == INSTANCE Log WITH
    Procs <- ThreeProcs, Blocks <- {1, 2}, MAXOPBLOCKS <- 2, LOGSIZE <- 6, size <- 6,
    MAXTX <- 3, MAXCRASH <- 2, pc <- log_pc

\* Four operations for a log of two blocks, and three blocks to write.
Crowd == INSTANCE Log WITH
    Procs <- ThreeProcs \cup {p4}, Blocks <- ThreeBlocks, MAXOPBLOCKS <- 1, LOGSIZE <- 2,
    size <- 2, MAXTX <- 4, MAXCRASH <- 0, pc <- log_pc

ASSUME StorageAssumption == Disk!IdeAssumption /\ Crashes!LogAssumption /\ Crowd!LogAssumption

MCInit ==
    /\ part \in {"cache", "disk", "crashes", "crowd"}
    /\ buffer_init
    /\ Disk!ide_init
    /\ IF part = "crowd" THEN Crowd!log_init ELSE Crashes!log_init

MCNext ==
    \/ part = "cache" /\ Next /\ UNCHANGED <<part, ideVars, logVars>>
    \/ part = "disk" /\ Disk!Next /\ UNCHANGED <<part, vars, logVars>>
    \/ part = "crashes" /\ Crashes!Next /\ UNCHANGED <<part, vars, ideVars>>
    \/ part = "crowd" /\ Crowd!Next /\ UNCHANGED <<part, vars, ideVars>>

MCSpec == MCInit /\ [][MCNext]_<<part, vars, ideVars, logVars>>

\* p1, p2 and p3 are interchangeable, and so are the blocks.
Twins == Permutations(ThreeProcs) \cup Permutations(ThreeBlocks)

-----------------------------------------------------------------------------

\* All variables of the three modules have the types their declarations intend.
TypesOK ==
    /\ part = "cache" => TypeOK
    /\ part = "disk" => Disk!TypeOK
    /\ part = "crashes" => Crashes!TypeOK
    /\ part = "crowd" => Crowd!TypeOK

\* Whoever sleeps for the disk will be woken: the disk works exactly while
\* something is queued (ide.c:157, 177, 204), a caller's request is queued, and
\* the count a dozen waits on is that of its queued buffers (ide.c:150-154).
SleepersAreServed ==
    part = "disk" => Disk!DiskWorksWhileQueued /\ Disk!NobodySleepsInVain /\ Disk!DozensCounted

\* No crash takes a block back behind its last commit (log.c:87-128).
Durable == part = "crashes" => Crashes!Durable

\* Nobody is in a transaction while the log commits (log.c:117, 140), and the
\* header has room for all that the admitted operations write, although
\* log_write tests it outside the lock (log.c:120, 213).
CommitsFit ==
    /\ part = "crashes" => Crashes!CommitsAlone /\ Crashes!HeaderFits
    /\ part = "crowd" => Crowd!CommitsAlone /\ Crowd!HeaderFits

=============================================================================
