-------------------------------- MODULE Pipe --------------------------------
(***************************************************************************)
(* One pipe (kern/pipe.c), the two struct file that are its ends           *)
(* (kern/file.c) and the processes that share them after fork.             *)
(*                                                                         *)
(* The code under pipe_lock is one step.  sleep() puts the caller on one   *)
(* of the pipe's wait lists; wakeup() empties the list, kill() takes one   *)
(* process off it, and either way the sleeper goes on after the call.  A   *)
(* wait list is a set, because wakeup() takes everybody.  A process that   *)
(* is not running may have been preempted anywhere between two steps.      *)
(*                                                                         *)
(* Descriptors are the ends a process has; that dup() and dup2() may give  *)
(* it an end twice is not modelled.                                        *)
(*                                                                         *)
(* An operator named Op_Why is a defective Op, kept to test that the       *)
(* properties notice the defect; no definition uses it.                    *)
(***************************************************************************)
EXTENDS Integers, Sequences, FiniteSets

CONSTANTS
    Procs,
    Creator,        \* the process that called pipe()
    PIPESIZE,
    WORD,           \* number of values of a uint32_t
    Bytes,
    MAXREQ          \* bound: the most bytes one call asks for

ASSUME PipeAssumption ==
    /\ Creator \in Procs /\ IsFiniteSet(Procs)
    /\ PIPESIZE \in Nat \ {0} /\ MAXREQ \in Nat \ {0}
    /\ WORD \in Nat /\ WORD > PIPESIZE /\ WORD % PIPESIZE = 0
    /\ Bytes # {}

\* The two ends, by the flag of their struct file.
End == {"O_RDONLY", "O_WRONLY"}

VARIABLES
    data,           \* p->data
    nread,
    nwrite,
    open,           \* the ends e with p->readopen or p->writeopen set
    frees,          \* how often kfree(p) has been called
    wait_to_read,
    wait_to_write,
    ref,            \* the reference counts of the two struct file
    fds,            \* which ends each process has in its open_file_table
    killed,
    exiting,        \* the processes that are in exit()
    pc,
    src,            \* the bytes a process asleep in pipe_write wants to write
    nbytes,         \* the number of bytes one asleep in pipe_read asked for
    dst             \* the bytes pipe_read returned last

ringVars == <<data, nread, nwrite>>
listVars == <<wait_to_read, wait_to_write>>
fileVars == <<ref, fds>>
callVars == <<src, nbytes>>

vars == <<ringVars, open, frees, listVars, fileVars, killed, exiting, pc, callVars, dst>>

-----------------------------------------------------------------------------
(* The ring.                                                                *)

MinOf(a, b) == IF a < b THEN a ELSE b

\* p->nwrite - p->nread, in 32 bits.
Used == (nwrite - nread) % WORD

\* data and nwrite after the loop of pipe_write has stored the first k bytes of s.
Stored(s, k) ==
    [j \in 0 .. PIPESIZE - 1 |->
        LET at == {i \in 1 .. k : ((nwrite + i - 1) % WORD) % PIPESIZE = j}
        IN  IF at = {} THEN data[j] ELSE s[CHOOSE i \in at : TRUE]]

Taken_Ahead(k) == [i \in 1 .. k |-> data[((nread + i) % WORD) % PIPESIZE]]

\* The k bytes the loop of pipe_read takes.
Taken(k) == [i \in 1 .. k |-> data[((nread + i - 1) % WORD) % PIPESIZE]]

Goto(p, at) == pc' = [pc EXCEPT ![p] = at]

\* The caller p goes to at; those who leave a wait list go on in the function
\* they slept in.
WakeAndGoto(P, p, at) ==
    pc' = [r \in Procs |-> CASE r = p -> at
                             [] r \in P /\ pc[r] = "read_sleep"  -> "read_woken"
                             [] r \in P /\ pc[r] = "write_sleep" -> "write_woken"
                             [] OTHER -> pc[r]]

-----------------------------------------------------------------------------
(* pipe_read and pipe_write.                                                *)

ReadTop_NoWrap(p, n) ==
    IF nwrite = nread
    THEN /\ wait_to_read' = wait_to_read \cup {p}
         /\ Goto(p, "read_sleep")
         /\ nbytes' = [nbytes EXCEPT ![p] = n]
         /\ UNCHANGED <<ringVars, wait_to_write, dst>>
    ELSE LET k == MinOf(n, Used)
         IN  /\ dst' = Taken(k)
             /\ nbytes' = [nbytes EXCEPT ![p] = 0]
             /\ nread' = nread + k
             /\ wait_to_write' = {}
             /\ WakeAndGoto(wait_to_write, p, "ret")
             /\ UNCHANGED <<data, nwrite, wait_to_read>>

ReadTop_NoWakeup(p, n) ==
    IF nwrite = nread
    THEN /\ wait_to_read' = wait_to_read \cup {p}
         /\ Goto(p, "read_sleep")
         /\ nbytes' = [nbytes EXCEPT ![p] = n]
         /\ UNCHANGED <<ringVars, wait_to_write, dst>>
    ELSE LET k == MinOf(n, Used)
         IN  /\ dst' = Taken(k)
             /\ nbytes' = [nbytes EXCEPT ![p] = 0]
             /\ nread' = (nread + k) % WORD
             /\ Goto(p, "ret")
             /\ UNCHANGED <<data, nwrite, listVars>>

\* The test of pipe_read's while loop, and what follows when it fails.
ReadTop(p, n) ==
    IF nwrite = nread
    THEN /\ wait_to_read' = wait_to_read \cup {p}
         /\ Goto(p, "read_sleep")
         /\ nbytes' = [nbytes EXCEPT ![p] = n]
         /\ UNCHANGED <<ringVars, wait_to_write, dst>>
    ELSE LET k == MinOf(n, Used)
         IN  /\ dst' = Taken(k)
             /\ nbytes' = [nbytes EXCEPT ![p] = 0]
             /\ nread' = (nread + k) % WORD
             /\ wait_to_write' = {}
             /\ WakeAndGoto(wait_to_write, p, "ret")
             /\ UNCHANGED <<data, nwrite, wait_to_read>>

pipe_read(p) ==
    /\ pc[p] = "user" /\ "O_RDONLY" \in fds[p]
    /\ \E n \in 0 .. MAXREQ : ReadTop(p, n)
    /\ UNCHANGED <<open, frees, fileVars, killed, exiting, src>>

ReadWoken_NoKilled(p) ==
    /\ pc[p] = "read_woken"
    /\ IF "O_WRONLY" \notin open
       THEN /\ Goto(p, "ret") /\ nbytes' = [nbytes EXCEPT ![p] = 0]
            /\ UNCHANGED <<ringVars, listVars, dst>>
       ELSE ReadTop(p, nbytes[p])
    /\ UNCHANGED <<open, frees, fileVars, killed, exiting, src>>

\* Back from sleep(): give up when the write end is closed or the process
\* was killed, otherwise test again.
ReadWoken(p) ==
    /\ pc[p] = "read_woken"
    /\ IF "O_WRONLY" \notin open \/ p \in killed
       THEN /\ Goto(p, "ret") /\ nbytes' = [nbytes EXCEPT ![p] = 0]
            /\ UNCHANGED <<ringVars, listVars, dst>>
       ELSE ReadTop(p, nbytes[p])
    /\ UNCHANGED <<open, frees, fileVars, killed, exiting, src>>

WriteTop_NoWakeup(p, s) ==
    IF Used = PIPESIZE
    THEN /\ wait_to_write' = wait_to_write \cup {p}
         /\ Goto(p, "write_sleep")
         /\ src' = [src EXCEPT ![p] = s]
         /\ UNCHANGED <<ringVars, wait_to_read>>
    ELSE LET k == MinOf(Len(s), PIPESIZE - Used)
         IN  /\ data' = Stored(s, k)
             /\ src' = [src EXCEPT ![p] = <<>>]
             /\ nwrite' = (nwrite + k) % WORD
             /\ Goto(p, "ret")
             /\ UNCHANGED <<nread, listVars>>

\* The same for pipe_write.
WriteTop(p, s) ==
    IF Used = PIPESIZE
    THEN /\ wait_to_write' = wait_to_write \cup {p}
         /\ Goto(p, "write_sleep")
         /\ src' = [src EXCEPT ![p] = s]
         /\ UNCHANGED <<ringVars, wait_to_read>>
    ELSE LET k == MinOf(Len(s), PIPESIZE - Used)
         IN  /\ data' = Stored(s, k)
             /\ src' = [src EXCEPT ![p] = <<>>]
             /\ nwrite' = (nwrite + k) % WORD
             /\ wait_to_read' = {}
             /\ WakeAndGoto(wait_to_read, p, "ret")
             /\ UNCHANGED <<nread, wait_to_write>>

pipe_write(p) ==
    /\ pc[p] = "user" /\ "O_WRONLY" \in fds[p]
    /\ \E n \in 0 .. MAXREQ : \E s \in [1 .. n -> Bytes] : WriteTop(p, s)
    /\ UNCHANGED <<open, frees, fileVars, killed, exiting, nbytes, dst>>

WriteWoken(p) ==
    /\ pc[p] = "write_woken"
    /\ IF "O_RDONLY" \notin open \/ p \in killed
       THEN /\ Goto(p, "ret") /\ src' = [src EXCEPT ![p] = <<>>]
            /\ UNCHANGED <<ringVars, listVars>>
       ELSE WriteTop(p, src[p])
    /\ UNCHANGED <<open, frees, fileVars, killed, exiting, nbytes, dst>>

-----------------------------------------------------------------------------
(* Closing.                                                                 *)

\* file_close() on one of p's descriptors: the last reference goes on to
\* pipe_close().
file_close(p, e, back) ==
    /\ fds' = [fds EXCEPT ![p] = @ \ {e}]
    /\ ref' = [ref EXCEPT ![e] = @ - 1]
    /\ Goto(p, IF ref[e] > 1 THEN back ELSE IF e = "O_RDONLY" THEN "close_r" ELSE "close_w")
    /\ UNCHANGED <<ringVars, open, frees, listVars, killed, exiting, callVars, dst>>

close(p) == pc[p] = "user" /\ \E e \in fds[p] : file_close(p, e, "ret")

\* pipe_close() under pipe_lock, for either end.
pipe_close(p) ==
    /\ \/ /\ pc[p] = "close_w"
          /\ open' = open \ {"O_WRONLY"}
          /\ wait_to_read' = {} /\ UNCHANGED wait_to_write
          /\ WakeAndGoto(wait_to_read, p, "close_free")
       \/ /\ pc[p] = "close_r"
          /\ open' = open \ {"O_RDONLY"}
          /\ wait_to_write' = {} /\ UNCHANGED wait_to_read
          /\ WakeAndGoto(wait_to_write, p, "close_free")
    /\ UNCHANGED <<ringVars, frees, fileVars, killed, exiting, callVars, dst>>

pipe_close_free_WrongFlag(p) ==
    /\ pc[p] = "close_free"
    /\ frees' \in IF frees = 0 THEN {IF open = {"O_WRONLY"} THEN 1 ELSE 0} ELSE {frees, frees + 1}
    /\ Goto(p, IF p \in exiting THEN "exit" ELSE "ret")
    /\ UNCHANGED <<ringVars, open, listVars, fileVars, killed, exiting, callVars, dst>>

\* Its end, after the unlock: both flags are read again.  Memory that another
\* process has freed meanwhile holds anything, and kfree() comes again or not.
pipe_close_free(p) ==
    /\ pc[p] = "close_free"
    /\ frees' \in IF frees = 0 THEN {IF open = {} THEN 1 ELSE 0} ELSE {frees, frees + 1}
    /\ Goto(p, IF p \in exiting THEN "exit" ELSE "ret")
    /\ UNCHANGED <<ringVars, open, listVars, fileVars, killed, exiting, callVars, dst>>

-----------------------------------------------------------------------------
(* The processes.                                                           *)

\* The end of trap(), and a timer tick in user mode: a killed process exits.
TrapReturn(p) ==
    /\ pc[p] = "ret" \/ (pc[p] = "user" /\ p \in killed)
    /\ exiting' = IF p \in killed THEN exiting \cup {p} ELSE exiting
    /\ Goto(p, IF p \in killed THEN "exit" ELSE "user")
    /\ UNCHANGED <<ringVars, open, frees, listVars, fileVars, killed, callVars, dst>>

exit(p) ==
    /\ pc[p] = "user"
    /\ exiting' = exiting \cup {p} /\ Goto(p, "exit")
    /\ UNCHANGED <<ringVars, open, frees, listVars, fileVars, killed, callVars, dst>>

\* exit() closes what is open, in the order of the table.
ExitClose(p) ==
    /\ pc[p] = "exit" /\ fds[p] # {}
    /\ file_close(p, IF "O_RDONLY" \in fds[p] THEN "O_RDONLY" ELSE "O_WRONLY", "exit")

ExitEnd(p) ==
    /\ pc[p] = "exit" /\ fds[p] = {}
    /\ Goto(p, "dead")
    /\ UNCHANGED <<ringVars, open, frees, listVars, fileVars, killed, exiting, callVars, dst>>

fork_NoDup(p, c) ==
    /\ pc[p] = "user" /\ pc[c] = "none"
    /\ fds' = [fds EXCEPT ![c] = fds[p]]
    /\ \E at \in {"user", "lost"} : pc' = [pc EXCEPT ![p] = "ret", ![c] = at]
    /\ UNCHANGED <<ringVars, open, frees, listVars, ref, killed, exiting, callVars, dst>>

\* dup_proc_struct(): the child has its parent's descriptors.  When cow_fork()
\* fails after it, the child never runs and keeps them.
fork(p, c) ==
    /\ pc[p] = "user" /\ pc[c] = "none"
    /\ fds' = [fds EXCEPT ![c] = fds[p]]
    /\ ref' = [e \in End |-> IF e \in fds[p] THEN ref[e] + 1 ELSE ref[e]]
    /\ \E at \in {"user", "lost"} : pc' = [pc EXCEPT ![p] = "ret", ![c] = at]
    /\ UNCHANGED <<ringVars, open, frees, listVars, killed, exiting, callVars, dst>>

\* kill() by anybody: a sleeper leaves its list.
kill(p) ==
    /\ pc[p] \notin {"none", "dead", "lost"}
    /\ killed' = killed \cup {p}
    /\ wait_to_read' = wait_to_read \ {p} /\ wait_to_write' = wait_to_write \ {p}
    /\ Goto(p, CASE pc[p] = "read_sleep"  -> "read_woken"
                 [] pc[p] = "write_sleep" -> "write_woken"
                 [] OTHER -> pc[p])
    /\ UNCHANGED <<ringVars, open, frees, fileVars, exiting, callVars, dst>>

-----------------------------------------------------------------------------
(* The specification.                                                       *)

\* pipe_alloc() has returned to its caller.
Init ==
    /\ data \in [0 .. PIPESIZE - 1 -> {CHOOSE b \in Bytes : TRUE}]
    /\ nread = 0 /\ nwrite = 0
    /\ open = End /\ frees = 0
    /\ wait_to_read = {} /\ wait_to_write = {}
    /\ ref = [e \in End |-> 1]
    /\ fds = [p \in Procs |-> IF p = Creator THEN End ELSE {}]
    /\ killed = {} /\ exiting = {}
    /\ pc = [p \in Procs |-> IF p = Creator THEN "user" ELSE "none"]
    /\ src = [p \in Procs |-> <<>>] /\ nbytes = [p \in Procs |-> 0]
    /\ dst = <<>>

UserStep(p) == pipe_read(p) \/ pipe_write(p) \/ close(p) \/ exit(p) \/ \E c \in Procs : fork(p, c)

KernelStep(p) ==
    \/ ReadWoken(p) \/ WriteWoken(p) \/ pipe_close(p) \/ pipe_close_free(p)
    \/ TrapReturn(p) \/ ExitClose(p) \/ ExitEnd(p)

Next == \E p \in Procs : UserStep(p) \/ KernelStep(p) \/ kill(p)

Spec == Init /\ [][Next]_vars

\* A process that is in the kernel and not asleep goes on; the timer makes a
\* killed process leave user mode.  What a process does in user mode is its own
\* affair.
FairSpec == Spec /\ \A p \in Procs : WF_vars(KernelStep(p))

-----------------------------------------------------------------------------
(* Properties.                                                              *)

Where == {"none", "user", "ret", "read_sleep", "read_woken", "write_sleep",
          "write_woken", "close_r", "close_w", "close_free", "exit", "dead", "lost"}

\* Every variable has the type its declaration intends.
TypeOK ==
    /\ data \in [0 .. PIPESIZE - 1 -> Bytes]
    /\ nread \in 0 .. WORD - 1 /\ nwrite \in 0 .. WORD - 1
    /\ open \subseteq End /\ frees \in Nat
    /\ wait_to_read \subseteq Procs /\ wait_to_write \subseteq Procs
    /\ ref \in [End -> Int] /\ fds \in [Procs -> SUBSET End]
    /\ killed \subseteq Procs /\ exiting \subseteq Procs
    /\ pc \in [Procs -> Where]
    /\ src \in [Procs -> Seq(Bytes)] /\ nbytes \in [Procs -> 0 .. MAXREQ]
    /\ dst \in Seq(Bytes)

Reading(p) == pc[p] \in {"read_sleep", "read_woken"}

Writing(p) == pc[p] \in {"write_sleep", "write_woken"}

\* The bytes in the pipe, oldest first.
Content == [i \in 1 .. Used |-> data[(nread + i - 1) % PIPESIZE]]

F == INSTANCE Fifo WITH Size <- PIPESIZE, q <- Content, got <- dst

\* The pipe is a bounded FIFO of bytes: what pipe_read returns is what
\* pipe_write stored, in order, once, also when the counters wrap.
IsFifo == F!Spec

\* Nobody sleeps in pipe_read over bytes that are there, or in pipe_write over
\* room that is there.
NobodySleepsInVain ==
    /\ wait_to_read # {} => Used = 0
    /\ wait_to_write # {} => Used = PIPESIZE

\* The references of the two files are the descriptors that name them, an end
\* is open while one does, and a process inside pipe_read or pipe_write has
\* its end open and the pipe's memory allocated: pipe_close() comes with the
\* last reference and never under a sleeper.
EndsMatchDescriptors ==
    /\ \A e \in End : ref[e] = Cardinality({p \in Procs : e \in fds[p]})
    /\ \A e \in End : ref[e] > 0 => e \in open
    /\ frees > 0 => open = {}
    /\ \A p \in Procs : /\ Reading(p) => "O_RDONLY" \in open /\ frees = 0
                        /\ Writing(p) => "O_WRONLY" \in open /\ frees = 0

\* A process killed while it sleeps in pipe_read or pipe_write, or before it
\* goes on from there, quits the function and exits (the comment before
\* pipe_read).
KilledSleeperQuits ==
    \A p \in Procs :
        p \in killed /\ pc[p] \in {"read_woken", "write_woken"} ~> pc[p] = "dead"

\* When both ends are closed pipe_close() frees the pipe's memory, whichever
\* end is closed last and whoever is killed meanwhile.
ClosedIsFreed == open = {} ~> frees > 0

-----------------------------------------------------------------------------
(* What the repository says of this code and the code does not do: the       *)
(* README tells for each how TLC refutes it.                                 *)

\* pipe_read waits for another process to write or to close the write end (the
\* comment before pipe_read), so nobody waits when that end is closed.
NoReaderLeftBehind == "O_WRONLY" \notin open => wait_to_read = {}

=============================================================================
