---------------------------- MODULE MCMessages ----------------------------
(***************************************************************************)
(* What processes exchange bytes through: pipes (Pipe), messages (Ipc) and *)
(* the console's ring (Console).  Ipc has an instance with messages only   *)
(* and two with the calls that use the same wait list and descriptors.  A  *)
(* behaviour moves one part and leaves the others as they were             *)
(* initialised.                                                            *)
(***************************************************************************)
EXTENDS Pipe, TLC

CONSTANTS
    root, p1, p2, i0, i1, i2, None,
    Peers, Values,                      \* of Ipc; the processes start with pids of their own
    Readers, TTY_BUF, WRAP, MaxBytes    \* of Console

ThreeProcs == {root, p1, p2}

VARIABLES
    part,           \* the part that moves
    status, pid, ppid, ipc_killed, wait_for_child, ipc_recving, ipc, wants_page, call,
    procs_desc_cache, id_bitmap, mail,
    buf, rpos, wpos, procs_list, tty_nbytes, cnt, slept, tty_killed, getchar, panic, pending, seen

ipcVars == <<status, pid, ppid, ipc_killed, wait_for_child, ipc_recving, ipc, wants_page, call,
             procs_desc_cache, id_bitmap, mail>>
ttyVars == <<buf, rpos, wpos, procs_list, tty_nbytes, cnt, slept, tty_killed, getchar, panic,
             pending, seen>>

\* Messages with and without a page.
Exchange == INSTANCE Ipc WITH
    Procs <- Peers, Root <- i0, Start <- Peers, Pages <- BOOLEAN, Calls <- {},
    killed <- ipc_killed

\* Messages without a page, and families that grow and shrink.
Family == INSTANCE Ipc WITH
    Procs <- Peers, Root <- i0, Start <- Peers, Pages <- {FALSE},
    Calls <- {"fork", "exit", "wait"}, killed <- ipc_killed

\* Messages without a page, and processes that are killed.
Victims == INSTANCE Ipc WITH
    Procs <- Peers, Root <- i0, Start <- Peers, Pages <- {FALSE},
    Calls <- {"exit", "wait", "kill"}, killed <- ipc_killed

\* Readers and the monitor at the ring.
Tty == INSTANCE Console WITH
    Monitor <- TRUE, nbytes <- tty_nbytes, killed <- tty_killed

ASSUME MessagesAssumption ==
    Exchange!IpcAssumption /\ Family!IpcAssumption /\ Victims!IpcAssumption /\ Tty!ConsoleAssumption

MCInit ==
    /\ part \in {"pipe", "exchange", "family", "victims", "console"}
    /\ Init /\ Exchange!Init /\ Tty!Init

MCNext ==
    \/ part = "pipe" /\ Next /\ UNCHANGED <<part, ipcVars, ttyVars>>
    \/ part = "exchange" /\ Exchange!Next /\ UNCHANGED <<part, vars, ttyVars>>
    \/ part = "family" /\ Family!Next /\ UNCHANGED <<part, vars, ttyVars>>
    \/ part = "victims" /\ Victims!Next /\ UNCHANGED <<part, vars, ttyVars>>
    \/ part = "console" /\ Tty!Next /\ UNCHANGED <<part, vars, ipcVars>>

MCSpec == MCInit /\ [][MCNext]_<<part, vars, ipcVars, ttyVars>>

\* The processes other than the first are interchangeable.
Twins == Permutations({p1, p2}) \cup Permutations({i1, i2})

-----------------------------------------------------------------------------

\* All variables of the three modules have the types their declarations intend.
TypesOK ==
    /\ part = "pipe" => TypeOK
    /\ part = "family" => Family!TypeOK
    /\ part = "victims" => Victims!TypeOK
    /\ part = "console" => Tty!TypeOK

\* A message that was reported as delivered is the one the receiver returns
\* with (sysfunc.c:600-678).
DeliveredIsKept == part = "exchange" => Exchange!DeliveredIsKept

\* The ring, with positions that wrap, is a queue with the keys' editing
\* (kbd.c:60-105, console.c:140-190).
RingIsQueue == part = "console" => Tty!RingIsQueue

\* Nobody sleeps over what is there: over bytes or room in a pipe (pipe.c:66-125),
\* over a finished line or a full ring of the console (kbd.c:89-99,
\* console.c:160-180), or in ipc_recv, the root process apart, where no sender
\* can reach it (sysfunc.c:601-678, proc.c:135-160).
WaitersAreWoken ==
    /\ part = "pipe" => NobodySleepsInVain
    /\ part = "console" => Tty!NobodySleepsInVain
    /\ part = "exchange" => Exchange!SleeperCanReceive
    /\ part = "family" => Family!SleeperCanReceive
    /\ part = "victims" => Victims!SleeperCanReceive

=============================================================================
