------------------------------- MODULE MCLive -------------------------------
(***************************************************************************)
(* What must eventually happen at a pipe (Pipe), in the ide driver (Ide),  *)
(* in the log (Log) and in path names (Dirs), each under the fairness that *)
(* its module states.  A behaviour moves one part and leaves the others as *)
(* they were initialised.                                                  *)
(***************************************************************************)
EXTENDS Pipe

CONSTANTS p1, p2, p3, k1, k2, n1, n2, Dot, DotDot, NoProc, quiet

TwoProcs == {p1, p2}

VARIABLES
    part,           \* the part that moves
    ide_queue, n_requests, active, flag, fresh, dozen_ptr, n_request, mine, ide_pc, calls,
    home, slot, hdr, mem, dirty, lheader, n_occupiers, committing, buf_ptrs, todo, log_pc, left,
    busy, stable, ver, refused, ntx, ncrash,
    ino, dir_ref, lock, pwd, opened, pr

ideVars == <<ide_queue, n_requests, active, flag, fresh, dozen_ptr, n_request, mine, ide_pc, calls>>
logVars == <<home, slot, hdr, mem, dirty, lheader, n_occupiers, committing, buf_ptrs, todo, log_pc,
             left, busy, stable, ver, refused, ntx, ncrash>>
dirVars == <<ino, dir_ref, lock, pwd, opened, pr>>

\* Two processes, three calls and a disk that always answers.
Disk == INSTANCE Ide WITH
    Procs <- TwoProcs, Blocks <- {1, 2, 3}, FAULTS <- {TRUE}, MAXDOZEN <- 2, MAXCALLS <- 3,
    Idle <- quiet, pc <- ide_pc

\* Three processes and four operations in a log of three blocks.
Transactions == INSTANCE Log WITH
    Procs <- {p1, p2, p3}, Blocks <- {k1, k2}, MAXOPBLOCKS <- 1, LOGSIZE <- 3, size <- 3,
    MAXTX <- 4, MAXCRASH <- 0, pc <- log_pc

Does(op, abs, path) == [op |-> op, abs |-> abs, path |-> path, new |-> <<>>]

\* Walks and creations; nothing is linked or removed.
WalkCalls ==
    {Does("open", TRUE, <<n1, n2>>), Does("open", FALSE, <<n1, DotDot, n1>>),
     Does("chdir", FALSE, <<n1>>), Does("chdir", FALSE, <<DotDot>>), Does("mkdir", TRUE, <<n1>>),
     Does("creat", TRUE, <<n1, n2>>)}

Tree == INSTANCE Dirs WITH
    Procs <- TwoProcs, NInodes <- 3, Names <- {n1, n2}, Calls <- WalkCalls, MaxCalls <- 3,
    ref <- dir_ref

ASSUME Disk!IdeAssumption /\ Transactions!LogAssumption /\ Tree!DirsAssumption

MCInit ==
    /\ part \in {"pipe", "disk", "log", "tree"}
    /\ Init /\ Disk!ide_init /\ Transactions!log_init /\ Tree!Init

Moves(name) == part = name /\ UNCHANGED part

MCNext ==
    \/ Moves("pipe") /\ Next /\ UNCHANGED <<ideVars, logVars, dirVars>>
    \/ Moves("disk") /\ Disk!Next /\ UNCHANGED <<vars, logVars, dirVars>>
    \/ Moves("log") /\ Transactions!Next /\ UNCHANGED <<vars, ideVars, dirVars>>
    \/ Moves("tree") /\ Tree!Next /\ UNCHANGED <<vars, ideVars, logVars>>

\* Each part's own fairness; a part that does not move has nothing to do in its
\* initial state.
MCFairness ==
    /\ \A p \in Procs : WF_vars(part = "pipe" /\ KernelStep(p))
    /\ WF_ideVars(part = "disk" /\ Disk!ide_intr(TRUE))
    /\ \A p \in TwoProcs : WF_ideVars(part = "disk" /\ Disk!Woken(p))
    /\ \A p \in {p1, p2, p3} : WF_logVars(part = "log" /\ Transactions!Step(p))
    /\ \A p \in TwoProcs : WF_dirVars(part = "tree" /\ Tree!Step(p))

MCSpec ==
    MCInit /\ [][MCNext]_<<part, vars, ideVars, logVars, dirVars>> /\ MCFairness

-----------------------------------------------------------------------------

\* Every caller of the driver gets its answer once the calls stop coming
\* (ide.c:118-165).
EveryCallReturns == Disk!EveryCallReturns

\* Whoever waits for the log gets in once no more transactions arrive
\* (log.c:107-160).
EveryoneGetsIn == Transactions!EveryoneGetsIn

\* Walks, opens, creations and chdirs, of which creat and mkdir hold the new
\* inode while they lock the directory again, come to their end, where they
\* close their transaction (log.c:131).  Neither link nor unlink is among them.
EveryCallEnds == Tree!EveryCallEnds

=============================================================================
