------------------------------- MODULE Sched -------------------------------
(***************************************************************************)
(* The process core of WeiOS on its one CPU: the O(1) scheduler with its   *)
(* run queue and exhausted queue (kern/sched.c), sleep and wakeup, fork,   *)
(* exit, wait and kill (kern/sysfunc.c), the timer interrupt and the way   *)
(* back to user mode (kern/trap.c), and two clients of sleep and wakeup: a *)
(* sleeplock (kern/lock.c) and a disk request (kern/ide.c).                *)
(*                                                                         *)
(* A spinlock of this kernel disables interrupts and there is one CPU, so  *)
(* the code between taking and releasing a spinlock is one step.  All      *)
(* other kernel code runs with interrupts on (system calls enter through a *)
(* trap gate), so a timer tick or a disk interrupt may come between any    *)
(* two steps, and a tick may switch to another process there.              *)
(*                                                                         *)
(* The FIFO lists procs_in_queue[0..N_PRIORITY-1] of a proc_queue are one  *)
(* sequence of entries [proc, prio] in order of arrival; the list of a     *)
(* priority is the subsequence of its entries.  sleep_avg is 0 whenever    *)
(* proc_table_lock is free (whoever raises it also resets it), so the time *)
(* slept is an input of wakeup and sleep_avg is not a variable.            *)
(* timeslice is only read where it has just been computed.                 *)
(*                                                                         *)
(* An operator named Op_Why is a defective Op, kept to test that the       *)
(* properties notice the defect; no definition uses it.                    *)
(***************************************************************************)
EXTENDS Integers, Sequences

CONSTANTS
    Procs,              \* process descriptors
    Root,               \* rootproc, the process with pid 0
    NoProc,             \* the null process pointer
    N_PRIORITY,         \* number of priorities, MAX_USER_PRIO
    DEFAULT_USER_PRIO,
    MAX_BONUS,
    MAX_SLEEP_AVG,
    DEFAULT_TIMESLICE,
    MIN_TIMESLICE,
    HIGH_SCALE,         \* how much longer a slice is above nice 0 (4 in the code)
    WORD,               \* number of values of a uint32_t
    SleepTimes,         \* the times a process may have slept when it is woken
    Syscalls,           \* the system calls the processes make
    Builds              \* how the compiler may translate dup_proc_struct()

ASSUME ProcsAssumption == /\ Root \in Procs
                          /\ NoProc \notin Procs

ASSUME SliceAssumption ==
    /\ N_PRIORITY \in Nat /\ N_PRIORITY >= 2
    /\ DEFAULT_USER_PRIO \in 0 .. N_PRIORITY - 1
    /\ MAX_BONUS \in Nat \ {0}
    /\ MAX_SLEEP_AVG \in Nat \ {0}
    /\ DEFAULT_TIMESLICE \in Nat \ {0}
    /\ MIN_TIMESLICE \in Nat /\ MIN_TIMESLICE >= 2
    /\ HIGH_SCALE \in Nat \ {0}
    /\ WORD \in Nat /\ WORD > DEFAULT_TIMESLICE
    /\ SleepTimes \subseteq Nat /\ SleepTimes # {}

Prio == 0 .. N_PRIORITY - 1

Entry == [proc : Procs, prio : Prio]

\* The wait lists: a process's sleep_alone, the waiting_for_io of the
\* buffer it asked the disk for, and the sleep_procs of the sleeplock.
Alone(p) == <<"alone", p>>

Buf(p) == <<"buf", p>>

Slk == <<"slk", Root>>

Chan == {"alone", "buf"} \X Procs \cup {Slk}

VARIABLES
    panic,          \* "none", or the panic that stopped the machine
    cproc,          \* c->proc
    spc,            \* where the scheduler's own context is
    sp,             \* its local variable p
    run,            \* which of the two queues c->run_queue points to
    queues,         \* the two struct proc_queue
    status,
    priority,
    timeslice_left,
    proc_queue,     \* 0, or the queue the process is in
    killed,
    preempted,
    wait_for_child, \* these three: the processes whose flag is 1
    ppid,
    children,
    sleep_list,     \* the wait lists
    pc,             \* where each process is in the kernel, or "user"
    son,            \* local variable son_p of clone()
    half,           \* the register with timeslice_left in dup_proc_struct()
    locked,         \* the sleeplock's flag
    io              \* processes whose disk request is not done

schedVars == <<cproc, spc, sp>>
queueVars == <<run, queues, proc_queue>>
flagVars  == <<killed, wait_for_child>>
treeVars  == <<ppid, children>>
forkVars  == <<son, half>>
devVars   == <<locked, io>>

vars == <<panic, schedVars, queueVars, status, priority, timeslice_left,
          flagVars, preempted, treeVars, sleep_list, pc, forkVars, devVars>>

-----------------------------------------------------------------------------
(* Priorities, slices and lists.                                            *)

Elems(s) == {s[i] : i \in DOMAIN s}

DelAt_Next(s, k) == [i \in 1 .. Len(s) - 1 |-> IF i <= k THEN s[i] ELSE s[i + 1]]

DelAt(s, k) == [i \in 1 .. Len(s) - 1 |-> IF i < k THEN s[i] ELSE s[i + 1]]

Without_StaysLinked(s, p) == s

\* list_del: a node that is in no list of s leaves s as it is.
Without(s, p) ==
    IF p \in Elems(s) THEN DelAt(s, CHOOSE k \in DOMAIN s : s[k] = p) ELSE s

Reversed(s) == [i \in DOMAIN s |-> s[Len(s) + 1 - i]]

CURRENT_BONUS(sleep_avg) == ((sleep_avg * MAX_BONUS) % WORD) \div MAX_SLEEP_AVG

recalculate_priority_NoFloor(prio, sleep_avg) ==
    LET p == prio - (CURRENT_BONUS(sleep_avg) - MAX_BONUS \div 2)
    IN  IF p > N_PRIORITY - 1 THEN N_PRIORITY - 1 ELSE p

recalculate_priority(prio, sleep_avg) ==
    LET bonus == CURRENT_BONUS(sleep_avg) - MAX_BONUS \div 2
        p     == prio - bonus
    IN  IF p < 0 THEN 0 ELSE IF p > N_PRIORITY - 1 THEN N_PRIORITY - 1 ELSE p

SCALE_PRIO_NoMin(x, prio) == (x * (N_PRIORITY - prio)) \div (N_PRIORITY \div 2)

SCALE_PRIO(x, prio) ==
    LET s == (x * (N_PRIORITY - prio)) \div (N_PRIORITY \div 2)
    IN  IF s > MIN_TIMESLICE THEN s ELSE MIN_TIMESLICE

task_timeslice(prio) ==
    IF prio < N_PRIORITY \div 2
    THEN SCALE_PRIO(DEFAULT_TIMESLICE * HIGH_SCALE, prio)
    ELSE SCALE_PRIO(DEFAULT_TIMESLICE, prio)

-----------------------------------------------------------------------------
(* struct proc_queue.                                                       *)

EmptyQueue == [list |-> <<>>, bitmap |-> {}, n_procs |-> 0]

\* add_proc_to_queue for the processes of the sequence ps, one after the other.
add_procs_to_queue(Q, ps, prio) ==
    [list    |-> Q.list \o [i \in DOMAIN ps |-> [proc |-> ps[i], prio |-> prio[ps[i]]]],
     bitmap  |-> Q.bitmap \cup {prio[ps[i]] : i \in DOMAIN ps},
     n_procs |-> Q.n_procs + Len(ps)]

add_proc_to_queue(Q, p, prio) ==
    [list    |-> Append(Q.list, [proc |-> p, prio |-> prio]),
     bitmap  |-> Q.bitmap \cup {prio},
     n_procs |-> Q.n_procs + 1]

del_proc_fron_queue_StaysLinked(Q, p, prio) == [Q EXCEPT !.n_procs = @ - 1]

del_proc_fron_queue_BitStays(Q, p, prio) ==
    LET k == CHOOSE i \in DOMAIN Q.list : Q.list[i].proc = p
    IN  [list |-> DelAt(Q.list, k), bitmap |-> Q.bitmap, n_procs |-> Q.n_procs - 1]

\* prio is p->priority, which also selects the bit that is cleared.
del_proc_fron_queue(Q, p, prio) ==
    LET k == CHOOSE i \in DOMAIN Q.list : Q.list[i].proc = p
        l == DelAt(Q.list, k)
    IN  [list    |-> l,
         bitmap  |-> IF \E i \in DOMAIN l : l[i].prio = prio
                     THEN Q.bitmap ELSE Q.bitmap \ {prio},
         n_procs |-> Q.n_procs - 1]

\* The priority find_first_set returns when a bit is set.
find_first_set(Q) == CHOOSE b \in Q.bitmap : \A c \in Q.bitmap : b <= c

\* procs_in_queue[prio].next
FirstOf(Q, prio) ==
    LET k == CHOOSE i \in DOMAIN Q.list :
                /\ Q.list[i].prio = prio
                /\ \A j \in DOMAIN Q.list : j < i => Q.list[j].prio # prio
    IN  Q.list[k].proc

exhausted == 3 - run

-----------------------------------------------------------------------------
(* Fragments of steps.                                                      *)

\* p's code is executing: it is the current process and nothing has panicked.
Runs(p, at) == panic = "none" /\ cproc = p /\ pc[p] = at

Goto(p, at) == pc' = [pc EXCEPT ![p] = at]

SwitchOut_Forgets(p) == cproc' = NoProc /\ sp' = NoProc /\ spc' = "top"

\* swtch to the scheduler, which forgets the current process and releases
\* proc_table_lock: interrupts may come before it takes the lock again.
SwitchOut(p) == cproc' = NoProc /\ sp' = p /\ spc' = "top"

\* sleep(): on list c, then away.
Sleep(p, c) ==
    /\ status' = [status EXCEPT ![p] = "SLEEPING"]
    /\ sleep_list' = [sleep_list EXCEPT ![c] = Append(@, p)]
    /\ SwitchOut(p)

yield_KeepsStatus(p) == SwitchOut(p) /\ UNCHANGED status

yield(p) ==
    /\ status' = [status EXCEPT ![p] = "RUNNABLE"]
    /\ SwitchOut(p)

\* wakeup(): everyone on list c becomes RUNNABLE on the run queue with a
\* priority that depends on how long it slept, and the current process is
\* marked preempted when one of them is better.
Wakeup(c) ==
    LET ps == sleep_list[c]
        W  == Elems(ps)
    IN  \E slept \in [W -> SleepTimes] :
          LET pr == [p \in Procs |-> IF p \in W
                                     THEN recalculate_priority(priority[p], slept[p])
                                     ELSE priority[p]]
          IN  /\ sleep_list' = [sleep_list EXCEPT ![c] = <<>>]
              /\ status' = [p \in Procs |-> IF p \in W THEN "RUNNABLE" ELSE status[p]]
              /\ priority' = pr
              /\ queues' = [queues EXCEPT ![run] = add_procs_to_queue(@, ps, pr)]
              /\ proc_queue' = [p \in Procs |-> IF p \in W THEN run ELSE proc_queue[p]]
              /\ preempted' = IF cproc # NoProc /\ \E p \in W : pr[p] < priority[cproc]
                              THEN preempted \cup {cproc} ELSE preempted

wakeVars == <<sleep_list, status, priority, queues, proc_queue, preempted>>

-----------------------------------------------------------------------------
(* scheduler(): one turn of its loop is SchedRequeue or SchedSkip, then     *)
(* SchedPick or SchedIdle, with proc_table_lock held in between.            *)

SchedRequeue ==
    LET p  == sp
        Qs == IF proc_queue[p] = 0 THEN queues
              ELSE [queues EXCEPT ![proc_queue[p]] = del_proc_fron_queue(@, p, priority[p])]
        pr == recalculate_priority(priority[p], 0)
        k  == IF timeslice_left[p] = 0 THEN exhausted ELSE run
    IN  /\ panic = "none" /\ spc = "top"
        /\ p # NoProc /\ status[p] = "RUNNABLE"
        /\ priority' = [priority EXCEPT ![p] = pr]
        /\ timeslice_left' = [timeslice_left EXCEPT ![p] =
                                IF @ = 0 THEN task_timeslice(pr) \div 2 ELSE @]
        /\ queues' = [Qs EXCEPT ![k] = add_proc_to_queue(@, p, pr)]
        /\ proc_queue' = [proc_queue EXCEPT ![p] = k]
        /\ spc' = "pick" /\ sp' = NoProc   \* p is dead until the next switch
        /\ UNCHANGED <<panic, cproc, run, status, flagVars, preempted,
                       treeVars, sleep_list, pc, forkVars, devVars>>

SchedSkip ==
    /\ panic = "none" /\ spc = "top"
    /\ IF sp = NoProc THEN TRUE ELSE status[sp] # "RUNNABLE"
    /\ spc' = "pick" /\ sp' = NoProc
    /\ UNCHANGED <<panic, cproc, queueVars, status, priority, timeslice_left,
                   flagVars, preempted, treeVars, sleep_list, pc, forkVars, devVars>>

NextRun_NoSwap == run

\* The queue to pick from: the queues are swapped when the run queue is empty.
NextRun == IF queues[run].n_procs = 0 THEN exhausted ELSE run

SchedPick ==
    LET Q == queues[NextRun]
        p == FirstOf(Q, find_first_set(Q))
    IN  /\ panic = "none" /\ spc = "pick"
        /\ Q.bitmap # {}
        /\ run' = NextRun
        /\ queues' = [queues EXCEPT ![NextRun] = del_proc_fron_queue(@, p, priority[p])]
        /\ proc_queue' = [proc_queue EXCEPT ![p] = 0]
        /\ cproc' = p
        /\ status' = [status EXCEPT ![p] = "RUNNING"]
        /\ spc' = "swtch"
        /\ UNCHANGED <<panic, sp, priority, timeslice_left, flagVars, preempted,
                       treeVars, sleep_list, pc, forkVars, devVars>>

SchedIdle ==
    /\ panic = "none" /\ spc = "pick"
    /\ queues[NextRun].bitmap = {}
    /\ run' = NextRun
    /\ spc' = "halt"
    /\ UNCHANGED <<panic, cproc, sp, queues, proc_queue, status, priority, timeslice_left,
                   flagVars, preempted, treeVars, sleep_list, pc, forkVars, devVars>>

-----------------------------------------------------------------------------
(* Interrupts.                                                              *)

\* The timer interrupt charges the current process, in user or kernel mode,
\* and takes the CPU from it when its slice is used up.  An interrupt from
\* user mode leaves through the checks at the end of trap().
Tick(p) ==
    LET t == IF timeslice_left[p] = 0 THEN WORD - 1 ELSE timeslice_left[p] - 1
    IN  /\ panic = "none" /\ cproc = p
        /\ timeslice_left' = [timeslice_left EXCEPT ![p] = t]
        /\ Goto(p, IF pc[p] = "user" THEN "trapret" ELSE pc[p])
        /\ IF t = 0 THEN yield(p) ELSE UNCHANGED <<status, schedVars>>
        /\ UNCHANGED <<panic, queueVars, priority, flagVars, preempted,
                       treeVars, sleep_list, forkVars, devVars>>

\* An interrupt ends the scheduler's hlt.
TickIdle ==
    /\ panic = "none" /\ spc = "halt"
    /\ spc' = "top"
    /\ UNCHANGED <<panic, cproc, sp, queueVars, status, priority, timeslice_left,
                   flagVars, preempted, treeVars, sleep_list, pc, forkVars, devVars>>

\* The disk finishes p's request and wakes whoever waits for the buffer.  This
\* interrupt too leaves user mode through the end of trap().
ide_intr(p) ==
    /\ panic = "none" /\ spc # "pick"
    /\ p \in io
    /\ io' = io \ {p}
    /\ Wakeup(Buf(p))
    /\ spc' = IF spc = "halt" THEN "top" ELSE spc
    /\ pc' = [r \in Procs |-> IF r = cproc /\ pc[r] = "user" THEN "trapret" ELSE pc[r]]
    /\ UNCHANGED <<panic, cproc, sp, run, timeslice_left, flagVars, treeVars,
                   forkVars, locked>>

\* The end of trap(): die if killed, give way if preempted, look again.
TrapReturn(p) ==
    /\ Runs(p, "trapret")
    /\ IF p \notin killed /\ p \in preempted
       THEN yield(p) /\ Goto(p, "trapret2")
       ELSE /\ Goto(p, IF p \in killed THEN "exit" ELSE "user")
            /\ UNCHANGED <<status, schedVars>>
    /\ UNCHANGED <<panic, queueVars, priority, timeslice_left, flagVars, preempted,
                   treeVars, sleep_list, forkVars, devVars>>

TrapReturn2(p) ==
    /\ Runs(p, "trapret2")
    /\ Goto(p, IF p \in killed THEN "exit" ELSE "user")
    /\ UNCHANGED <<panic, schedVars, queueVars, status, priority, timeslice_left,
                   flagVars, preempted, treeVars, sleep_list, forkVars, devVars>>

\* A new process starts here; the first one also reads the disk.
Forkret(p) ==
    /\ Runs(p, "forkret")
    /\ IF p = Root
       THEN io' = io \cup {p} /\ Sleep(p, Buf(p)) /\ Goto(p, "boot_io")
       ELSE Goto(p, "user") /\ UNCHANGED <<io, status, sleep_list, schedVars>>
    /\ UNCHANGED <<panic, queueVars, priority, timeslice_left, flagVars, preempted,
                   treeVars, forkVars, locked>>

-----------------------------------------------------------------------------
(* fork: proc_alloc, dup_proc_struct and the end of clone.                  *)

\* A system call that changes nothing here before its first step, or at all.
Enter(p) ==
    /\ Runs(p, "user")
    /\ \E s \in Syscalls \cap {"getpid", "fork", "wait", "exit", "slock"} :
          Goto(p, CASE s = "getpid" -> "trapret"
                    [] s = "fork"   -> "fork_alloc"
                    [] s = "wait"   -> "wait"
                    [] s = "exit"   -> "exit"
                    [] s = "slock"  -> "sl_lock")
    /\ UNCHANGED <<panic, schedVars, queueVars, status, priority, timeslice_left,
                   flagVars, preempted, treeVars, sleep_list, forkVars, devVars>>

\* proc_alloc(): a descriptor, all fields zero.
proc_alloc(p) ==
    /\ Runs(p, "fork_alloc")
    /\ \E s \in Procs :
         /\ status[s] = "FREE"
         /\ son' = [son EXCEPT ![p] = s]
         /\ status' = [status EXCEPT ![s] = "READY"]
         /\ priority' = [priority EXCEPT ![s] = 0]
         /\ timeslice_left' = [timeslice_left EXCEPT ![s] = 0]
         /\ killed' = killed \ {s}
         /\ preempted' = preempted \ {s}
         /\ wait_for_child' = wait_for_child \ {s}
         /\ proc_queue' = [proc_queue EXCEPT ![s] = 0]
         /\ ppid' = [ppid EXCEPT ![s] = Root]      \* 0 is the root's pid
         /\ children' = [children EXCEPT ![s] = <<>>]
         /\ sleep_list' = [sleep_list EXCEPT ![Alone(s)] = <<>>]
         /\ pc' = [pc EXCEPT ![p] = "fork_load", ![s] = "forkret"]
    /\ UNCHANGED <<panic, schedVars, run, queues, half, devVars>>

\* -E_NO_FREE_PROC
proc_alloc_failed(p) ==
    /\ Runs(p, "fork_alloc")
    /\ \A s \in Procs : status[s] # "FREE"
    /\ Goto(p, "trapret")
    /\ UNCHANGED <<panic, schedVars, queueVars, status, priority, timeslice_left,
                   flagVars, preempted, treeVars, sleep_list, forkVars, devVars>>

\* timeslice_left is read and halved in a register ...
ForkLoad(p) ==
    /\ Runs(p, "fork_load")
    /\ half' = [half EXCEPT ![p] = timeslice_left[p] \div 2]
    /\ Goto(p, "fork_store")
    /\ UNCHANGED <<panic, schedVars, queueVars, status, priority, timeslice_left,
                   flagVars, preempted, treeVars, sleep_list, son, devVars>>

\* The slice that parent and child get instead of t.
AtLeastOne(t) == IF t = 0 THEN 1 ELSE t

\* The rest of dup_proc_struct(), with t ticks for each of the two.
ForkChild(p, t) ==
    LET s == son[p]
    IN  /\ timeslice_left' = [timeslice_left EXCEPT ![p] = t, ![s] = t]
        /\ ppid' = [ppid EXCEPT ![s] = p]
        /\ status' = [status EXCEPT ![s] = "RUNNABLE"]
        /\ priority' = [priority EXCEPT ![s] = DEFAULT_USER_PRIO]
        /\ half' = [half EXCEPT ![p] = 0]
        /\ Goto(p, "fork_link")
        /\ UNCHANGED <<panic, schedVars, queueVars, flagVars, preempted, children,
                       sleep_list, son, devVars>>

\* ... and what follows is the compiler's choice.  It may test the register
\* and store the slice once (gcc -O2 does) ...
ForkStore(p) ==
    /\ Runs(p, "fork_store") /\ "one store" \in Builds
    /\ ForkChild(p, AtLeastOne(half[p]))

\* ... or translate line by line: the half is stored, be it 0, ...
ForkHalve(p) ==
    /\ Runs(p, "fork_store") /\ "line by line" \in Builds
    /\ timeslice_left' = [timeslice_left EXCEPT ![p] = half[p]]
    /\ half' = [half EXCEPT ![p] = 0]
    /\ Goto(p, "fork_test")
    /\ UNCHANGED <<panic, schedVars, queueVars, status, priority, flagVars, preempted,
                   treeVars, sleep_list, son, devVars>>

\* ... and read again for the test and the repair.
ForkTest(p) == Runs(p, "fork_test") /\ ForkChild(p, AtLeastOne(timeslice_left[p]))

\* clone() makes the child known.
ForkLink(p) ==
    LET s == son[p]
    IN  /\ Runs(p, "fork_link")
        /\ children' = [children EXCEPT ![p] = Append(@, s)]
        /\ queues' = [queues EXCEPT ![run] = add_proc_to_queue(@, s, priority[s])]
        /\ proc_queue' = [proc_queue EXCEPT ![s] = run]
        /\ son' = [son EXCEPT ![p] = NoProc]
        /\ Goto(p, "trapret")
        /\ UNCHANGED <<panic, schedVars, run, status, priority, timeslice_left,
                       flagVars, preempted, ppid, sleep_list, half, devVars>>

\* clone() with cow_fork() out of memory or a bad flag: the child is left as it is.
ForkFail(p) ==
    /\ Runs(p, "fork_link") /\ "fork_fail" \in Syscalls
    /\ son' = [son EXCEPT ![p] = NoProc]
    /\ Goto(p, "trapret")
    /\ UNCHANGED <<panic, schedVars, queueVars, status, priority, timeslice_left,
                   flagVars, preempted, treeVars, sleep_list, half, devVars>>

-----------------------------------------------------------------------------
(* wait, kill and exit.                                                     *)

\* The position in the list of p's children of the first ZOMBLE one.
ZombleAt(p, k) ==
    /\ k \in DOMAIN children[p]
    /\ status[children[p][k]] = "ZOMBLE"
    /\ \A j \in 1 .. k - 1 : status[children[p][j]] # "ZOMBLE"

\* wait() finds a ZOMBLE child: its descriptor is free again.
WaitReap(p) ==
    /\ Runs(p, "wait")
    /\ \E k \in DOMAIN children[p] :
         /\ ZombleAt(p, k)
         /\ status' = [status EXCEPT ![children[p][k]] = "FREE"]
         /\ children' = [children EXCEPT ![p] = DelAt(@, k)]
    /\ Goto(p, "trapret")
    /\ UNCHANGED <<panic, schedVars, queueVars, priority, timeslice_left, flagVars,
                   preempted, ppid, sleep_list, forkVars, devVars>>

WaitSleep_NoFlag(p) ==
    /\ Runs(p, "wait")
    /\ \A k \in DOMAIN children[p] : status[children[p][k]] # "ZOMBLE"
    /\ Sleep(p, Alone(p))
    /\ UNCHANGED <<panic, queueVars, priority, timeslice_left, flagVars, preempted,
                   treeVars, pc, forkVars, devVars>>

\* wait() finds none: it sleeps, and looks again when it wakes.
WaitSleep(p) ==
    /\ Runs(p, "wait")
    /\ \A k \in DOMAIN children[p] : status[children[p][k]] # "ZOMBLE"
    /\ wait_for_child' = wait_for_child \cup {p}
    /\ Sleep(p, Alone(p))
    /\ UNCHANGED <<panic, queueVars, priority, timeslice_left, killed, preempted,
                   treeVars, pc, forkVars, devVars>>

\* Whom kill(), which checks, and murder(), which does not, accept: pid 0 is
\* the caller itself, so no other process can name the root process.
MayKill(p, t) == t = p \/ (t # Root /\ status[t] # "FREE" /\ ppid[t] = p)

MayMurder(p, t) == t = p \/ (t # Root /\ status[t] # "FREE")

MustWake_Any(t) == status[t] # "RUNNING" /\ proc_queue[t] = 0

MustWake(t) == status[t] = "SLEEPING"

\* kill(), murder(): a sleeping victim leaves its wait list for the run queue.
Kill(p, t) ==
    /\ Runs(p, "user")
    /\ \/ "kill" \in Syscalls /\ MayKill(p, t)
       \/ "murder" \in Syscalls /\ MayMurder(p, t)
    /\ killed' = killed \cup {t}
    /\ IF MustWake(t)
       THEN /\ status' = [status EXCEPT ![t] = "RUNNABLE"]
            /\ sleep_list' = [c \in Chan |-> Without(sleep_list[c], t)]
            /\ queues' = [queues EXCEPT ![run] = add_proc_to_queue(@, t, priority[t])]
            /\ proc_queue' = [proc_queue EXCEPT ![t] = run]
       ELSE UNCHANGED <<status, sleep_list, queues, proc_queue>>
    /\ Goto(p, "trapret")
    /\ UNCHANGED <<panic, schedVars, run, priority, timeslice_left, wait_for_child,
                   preempted, treeVars, forkVars, devVars>>

Adopt_KeepsPpid(p) ==
    /\ children' = [children EXCEPT ![p] = <<>>,
                                    ![Root] = Reversed(children[p]) \o @]
    /\ UNCHANGED ppid

\* The children of p become the root process's.
Adopt(p) ==
    /\ children' = [children EXCEPT ![p] = <<>>,
                                    ![Root] = Reversed(children[p]) \o @]
    /\ ppid' = [c \in Procs |-> IF c \in Elems(children[p]) THEN Root ELSE ppid[c]]

\* exit(): the children go to the root process and the caller is marked
\* ZOMBLE, still running: it has its files to close.
Exit(p) ==
    /\ Runs(p, "exit") /\ p # Root
    /\ Adopt(p)
    /\ proc_queue' = [proc_queue EXCEPT ![p] = 0]
    /\ status' = [status EXCEPT ![p] = "ZOMBLE"]
    /\ Goto(p, "exit_close")
    /\ UNCHANGED <<panic, schedVars, run, queues, priority, timeslice_left, flagVars,
                   preempted, sleep_list, forkVars, devVars>>

ExitRoot(p) ==
    /\ Runs(p, "exit") /\ p = Root
    /\ panic' = "root exit"
    /\ UNCHANGED <<schedVars, queueVars, status, priority, timeslice_left, flagVars,
                   preempted, treeVars, sleep_list, pc, forkVars, devVars>>

\* The files are closed without waiting ...
ExitClose(p) ==
    /\ Runs(p, "exit_close")
    /\ Goto(p, "exit_end")
    /\ UNCHANGED <<panic, schedVars, queueVars, status, priority, timeslice_left,
                   flagVars, preempted, treeVars, sleep_list, forkVars, devVars>>

\* ... or closing one writes to the disk.
ExitCloseIo(p) ==
    /\ Runs(p, "exit_close") /\ "exit_io" \in Syscalls
    /\ io' = io \cup {p}
    /\ Sleep(p, Buf(p))
    /\ Goto(p, "exit_io")
    /\ UNCHANGED <<panic, queueVars, priority, timeslice_left, flagVars, preempted,
                   treeVars, forkVars, locked>>

\* The end of exit(): tell the parent and never come back.  sched() panics
\* when the process is RUNNING.
ExitEnd(p) ==
    /\ Runs(p, "exit_end")
    /\ IF ppid[p] \in wait_for_child THEN Wakeup(Alone(ppid[p])) ELSE UNCHANGED wakeVars
    /\ IF status[p] = "RUNNING"
       THEN panic' = "sched" /\ UNCHANGED <<schedVars, pc>>
       ELSE SwitchOut(p) /\ Goto(p, "dead") /\ UNCHANGED panic
    /\ UNCHANGED <<run, timeslice_left, flagVars, treeVars, forkVars, devVars>>

-----------------------------------------------------------------------------
(* Two clients of sleep and wakeup.                                         *)

SleepLock_NoTest(p) ==
    /\ Runs(p, "sl_lock")
    /\ locked' = TRUE /\ Goto(p, "sl_hold")
    /\ UNCHANGED <<panic, schedVars, queueVars, status, priority, timeslice_left,
                   flagVars, preempted, treeVars, sleep_list, forkVars, io>>

\* sleep_lock(): while (slk->locked) sleep(...)
SleepLock(p) ==
    /\ Runs(p, "sl_lock")
    /\ IF locked
       THEN Sleep(p, Slk) /\ UNCHANGED <<locked, pc>>
       ELSE locked' = TRUE /\ Goto(p, "sl_hold") /\ UNCHANGED <<status, sleep_list, schedVars>>
    /\ UNCHANGED <<panic, queueVars, priority, timeslice_left, flagVars, preempted,
                   treeVars, forkVars, io>>

SleepUnlock_NoWakeup(p) ==
    /\ Runs(p, "sl_hold")
    /\ locked' = FALSE /\ Goto(p, "trapret")
    /\ UNCHANGED <<panic, schedVars, queueVars, status, priority, timeslice_left,
                   flagVars, preempted, treeVars, sleep_list, forkVars, io>>

SleepUnlock(p) ==
    /\ Runs(p, "sl_hold")
    /\ locked' = FALSE
    /\ Wakeup(Slk)
    /\ Goto(p, "trapret")
    /\ UNCHANGED <<panic, schedVars, run, timeslice_left, flagVars, treeVars,
                   forkVars, io>>

\* ide_read_write(): the request is queued and the caller sleeps ...
IoSubmit(p) ==
    /\ Runs(p, "user") /\ "io" \in Syscalls
    /\ io' = io \cup {p}
    /\ Sleep(p, Buf(p))
    /\ Goto(p, "io")
    /\ UNCHANGED <<panic, queueVars, priority, timeslice_left, flagVars, preempted,
                   treeVars, forkVars, locked>>

\* ... until it is done.
IoRecheck(p) ==
    /\ \E at \in {"io", "exit_io", "boot_io"} :
         /\ Runs(p, at)
         /\ IF p \in io
            THEN Sleep(p, Buf(p)) /\ UNCHANGED pc
            ELSE /\ Goto(p, CASE at = "io" -> "trapret"
                              [] at = "exit_io" -> "exit_end"
                              [] at = "boot_io" -> "user")
                 /\ UNCHANGED <<status, sleep_list, schedVars>>
    /\ UNCHANGED <<panic, queueVars, priority, timeslice_left, flagVars, preempted,
                   treeVars, forkVars, devVars>>

-----------------------------------------------------------------------------
(* The specification.                                                       *)

\* WeiOS_first_process() has put the root process on the run queue and
\* scheduler() is about to begin.
Init ==
    /\ panic = "none"
    /\ cproc = NoProc /\ sp = NoProc /\ spc = "top"
    /\ run = 1
    /\ queues = [k \in 1 .. 2 |-> IF k = 1
                                  THEN add_proc_to_queue(EmptyQueue, Root, DEFAULT_USER_PRIO)
                                  ELSE EmptyQueue]
    /\ proc_queue = [p \in Procs |-> IF p = Root THEN 1 ELSE 0]
    /\ status = [p \in Procs |-> IF p = Root THEN "RUNNABLE" ELSE "FREE"]
    /\ priority = [p \in Procs |-> IF p = Root THEN DEFAULT_USER_PRIO ELSE 0]
    /\ timeslice_left = [p \in Procs |-> IF p = Root THEN DEFAULT_TIMESLICE ELSE 0]
    /\ killed = {} /\ preempted = {} /\ wait_for_child = {}
    /\ ppid = [p \in Procs |-> Root]
    /\ children = [p \in Procs |-> <<>>]
    /\ sleep_list = [c \in Chan |-> <<>>]
    /\ pc = [p \in Procs |-> IF p = Root THEN "forkret" ELSE "dead"]
    /\ son = [p \in Procs |-> NoProc]
    /\ half = [p \in Procs |-> 0]
    /\ locked = FALSE /\ io = {}

scheduler == SchedRequeue \/ SchedSkip \/ SchedPick \/ SchedIdle

\* What a process does in user mode, of its own will.
UserStep(p) == Enter(p) \/ IoSubmit(p) \/ \E t \in Procs : Kill(p, t)

\* The next step of a process that is executing in the kernel.
KernelStep(p) ==
    \/ TrapReturn(p) \/ TrapReturn2(p) \/ Forkret(p)
    \/ proc_alloc(p) \/ proc_alloc_failed(p)
    \/ ForkLoad(p) \/ ForkStore(p) \/ ForkHalve(p) \/ ForkTest(p) \/ ForkLink(p) \/ ForkFail(p)
    \/ WaitReap(p) \/ WaitSleep(p)
    \/ Exit(p) \/ ExitRoot(p) \/ ExitClose(p) \/ ExitCloseIo(p) \/ ExitEnd(p)
    \/ SleepLock(p) \/ SleepUnlock(p) \/ IoRecheck(p)

\* panic() never returns.
Halted == panic # "none" /\ UNCHANGED vars

Next ==
    \/ scheduler
    \/ TickIdle
    \/ \E p \in Procs : Tick(p) \/ ide_intr(p) \/ UserStep(p) \/ KernelStep(p)
    \/ Halted

Spec == Init /\ [][Next]_vars

\* The scheduler's code runs whenever no process does; the timer never stops
\* and its period is longer than any kernel path, so a process that gets the
\* CPU again and again executes its next kernel step and is charged a tick;
\* the disk answers.  Nothing makes a process leave user mode by itself.
Fairness ==
    /\ WF_vars(scheduler) /\ WF_vars(TickIdle)
    /\ \A p \in Procs : SF_vars(Tick(p)) /\ SF_vars(KernelStep(p)) /\ WF_vars(ide_intr(p))

FairSpec == Spec /\ Fairness

-----------------------------------------------------------------------------
(* Properties.                                                              *)

Status == {"RUNNABLE", "RUNNING", "READY", "SLEEPING", "ZOMBLE", "FREE"}

Where == {"user", "trapret", "trapret2", "forkret", "fork_alloc", "fork_load",
          "fork_store", "fork_test", "fork_link", "wait", "exit", "exit_close",
          "exit_io", "exit_end", "dead", "sl_lock", "sl_hold", "io", "boot_io"}

\* Every variable has the type its C declaration intends.
TypeOK ==
    /\ panic \in {"none", "sched", "root exit"}
    /\ cproc \in Procs \cup {NoProc} /\ sp \in Procs \cup {NoProc}
    /\ spc \in {"top", "pick", "swtch", "halt"}
    /\ run \in 1 .. 2
    /\ queues \in [1 .. 2 -> [list : Seq(Entry), bitmap : SUBSET Prio, n_procs : Int]]
    /\ proc_queue \in [Procs -> 0 .. 2]
    /\ status \in [Procs -> Status]
    /\ priority \in [Procs -> Prio]
    /\ timeslice_left \in [Procs -> Nat]
    /\ killed \subseteq Procs /\ preempted \subseteq Procs /\ wait_for_child \subseteq Procs
    /\ ppid \in [Procs -> Procs]
    /\ children \in [Procs -> Seq(Procs)]
    /\ sleep_list \in [Chan -> Seq(Procs)]
    /\ pc \in [Procs -> Where]
    /\ son \in [Procs -> Procs \cup {NoProc}]
    /\ half \in [Procs -> Nat]
    /\ locked \in BOOLEAN /\ io \subseteq Procs

Members(Q) == {Q.list[i].proc : i \in DOMAIN Q.list}

NoneTwice(Q) == \A i, j \in DOMAIN Q.list : Q.list[i].proc = Q.list[j].proc => i = j

OnceOnly(s) == \A i, j \in DOMAIN s : s[i] = s[j] => i = j

Asleep(p, c) == p \in Elems(sleep_list[c])

\* proc_queue says in which queue a process's kinds_list is, and nothing is
\* queued twice: the scheduler and wakeup never link a node that is linked.
QueuesMatchProcs ==
    \A k \in 1 .. 2 : /\ \A p \in Procs : p \in Members(queues[k]) <=> proc_queue[p] = k
                      /\ NoneTwice(queues[k])

\* The one link kinds_list of a process is where its status says: a queued
\* process is RUNNABLE, one on a wait list is SLEEPING, on one list and once.
KindsListMatchesStatus ==
    /\ \A p \in Procs : proc_queue[p] # 0 => status[p] = "RUNNABLE"
    /\ {p \in Procs : status[p] = "SLEEPING"} = UNION {Elems(sleep_list[c]) : c \in Chan}
    /\ \A c \in Chan : OnceOnly(sleep_list[c])
    /\ \A c \in Chan : \A p \in Elems(sleep_list[c]) : \A d \in Chan : Asleep(p, d) => c = d

BitmapOf(Q) ==
    /\ Q.bitmap = {Q.list[i].prio : i \in DOMAIN Q.list}
    /\ Q.n_procs = Len(Q.list)

\* The bitmap and n_procs, from which the scheduler decides, describe the
\* lists, and each process is in the list of its priority.
BitmapExact ==
    \A k \in 1 .. 2 :
        /\ BitmapOf(queues[k])
        /\ \A i \in DOMAIN queues[k].list :
              queues[k].list[i].prio = priority[queues[k].list[i].proc]

\* Only the current process is RUNNING, and the current process is RUNNING
\* or, inside exit(), ZOMBLE.
OneRunning ==
    /\ \A p \in Procs : status[p] = "RUNNING" => cproc = p
    /\ cproc # NoProc => status[cproc] \in {"RUNNING", "ZOMBLE"} /\ spc = "swtch"

\* A RUNNABLE process that was linked is in a queue or just switching out.
RunnableIsQueued ==
    \A p \in Procs : /\ status[p] = "RUNNABLE"
                     /\ \E r \in Procs : p \in Elems(children[r])
                     => proc_queue[p] # 0 \/ (sp = p /\ spc = "top")

\* No process waits for the CPU or has it with an empty slice, which the
\* unsigned decrement of the timer interrupt would turn into 2^32 - 1, whatever
\* ticks come inside fork().  The one exception is dup_proc_struct() translated
\* line by line, between its store of half a slice and the test for 0; a tick
\* there does wrap (SliceNeverWraps, below).
SliceNeverEmpty ==
    \A p \in Procs : \/ proc_queue[p] # 0 /\ sp # p
                     \/ cproc = p /\ pc[p] # "fork_test"
                     \/ status[p] = "SLEEPING"
                     => timeslice_left[p] > 0

\* sleep_alone holds its owner or nobody (include/proc.h).
SleepAloneIsOwn == \A p, r \in Procs : Asleep(r, Alone(p)) => r = p

\* At most one process is past sleep_lock(), and then the flag is set.
SleepLockExclusive ==
    /\ \A p, r \in Procs : pc[p] = "sl_hold" /\ pc[r] = "sl_hold" => p = r
    /\ locked <=> \E p \in Procs : pc[p] = "sl_hold"

\* Nobody sleeps for what has already happened: a free sleeplock has no
\* sleepers, a finished disk request has no waiter, and no parent but the
\* root sleeps in wait() over a child that is gone.
NoLostWakeup ==
    /\ ~locked => sleep_list[Slk] = <<>>
    /\ \A p \in Procs : sleep_list[Buf(p)] # <<>> => p \in io
    /\ \A p \in Procs \ {Root} : pc[p] = "wait" /\ status[p] = "SLEEPING"
          => \A c \in Elems(children[p]) : pc[c] # "dead"

\* The family tree: children and ppid agree (so no child has two parents),
\* nobody is listed twice, and a child's parent is neither free nor gone, so
\* that it can be reaped.
FamilyTree ==
    /\ \A p \in Procs : OnceOnly(children[p])
    /\ \A p \in Procs : \A c \in Elems(children[p]) :
          ppid[c] = p /\ c # Root /\ status[c] # "FREE" /\ pc[p] # "dead"
    /\ \A c \in Procs : status[c] = "ZOMBLE" => c \in Elems(children[ppid[c]])

\* What else the inductive invariant of the proofs says: where the scheduler
\* and the processes are, by status ...
ProcState ==
    /\ cproc # NoProc <=> spc = "swtch"
    /\ sp # NoProc => spc = "top"
    /\ \A p \in Procs :
          /\ status[p] = "FREE" => pc[p] = "dead"
          /\ pc[p] = "dead" => status[p] \in {"ZOMBLE", "FREE"} /\ cproc # p
          /\ status[p] = "ZOMBLE" => \/ pc[p] = "dead"
                                     \/ cproc = p /\ pc[p] \in {"exit_close", "exit_end"}

Forking(p) == pc[p] \in {"fork_load", "fork_store", "fork_test", "fork_link"}

\* ... and that a child being made is known to its parent alone.
ForkState ==
    \A p \in Procs : Forking(p) =>
        /\ son[p] \in Procs /\ son[p] # cproc /\ son[p] # sp
        /\ proc_queue[son[p]] = 0
        /\ status[son[p]] = IF pc[p] = "fork_link" THEN "RUNNABLE" ELSE "READY"
        /\ pc[p] = "fork_link" => timeslice_left[son[p]] > 0
        /\ \A q \in Procs : Forking(q) /\ son[q] = son[p] => q = p

IInv == /\ TypeOK /\ QueuesMatchProcs /\ BitmapExact /\ KindsListMatchesStatus
        /\ OneRunning /\ ProcState /\ ForkState
        /\ SliceNeverEmpty /\ SleepAloneIsOwn /\ SleepLockExclusive

\* A process that has exited never runs again: its descriptor stays ZOMBLE
\* until wait() frees it.
DeadStayDead ==
    [][\A p \in Procs : pc[p] = "dead" /\ status[p] = "ZOMBLE"
          => status'[p] \in {"ZOMBLE", "FREE"} /\ cproc' # p]_vars

\* A queued process gets the CPU, whatever the priorities and however often
\* others sleep, wake and fork.
NoStarvation ==
    \A p \in Procs : proc_queue[p] # 0 ~> (cproc = p \/ panic # "none")

-----------------------------------------------------------------------------
(* What the repository says of this code and the code does not do: the       *)
(* README tells for each how TLC refutes it.                                 *)

\* NoLostWakeup for the root process, which inherits children that are gone:
\* while it sleeps in wait() over one, some process is still in exit().
OrphansAreReaped ==
    pc[Root] = "wait" /\ status[Root] = "SLEEPING"
        => \/ \A c \in Elems(children[Root]) : pc[c] # "dead"
           \/ \E p \in Procs : pc[p] \in {"exit_close", "exit_io", "exit_end"}

\* fork() gives nobody CPU time (the comment in dup_proc_struct()): no step
\* but the scheduler's new slice, and no tick, makes a slice longer.
SliceNeverWraps ==
    [][\A p \in Procs : cproc = p /\ timeslice_left'[p] > timeslice_left[p]
          => timeslice_left'[p] <= DEFAULT_TIMESLICE]_vars

\* sched() is never entered by a RUNNING process (the panic of kern/sched.c).
NoSchedPanic == panic # "sched"

\* A killed process dies (README: at its next return to user mode, which the
\* clock brings about soon).
KilledDies ==
    \A p \in Procs : p \in killed /\ status[p] # "FREE"
                        ~> (status[p] \in {"ZOMBLE", "FREE"} \/ panic # "none")

\* RUNNABLE means waiting in a queue to be scheduled (README): a process that
\* is RUNNABLE gets the CPU or stops being RUNNABLE.
RunnableRuns ==
    \A p \in Procs : status[p] = "RUNNABLE" ~> (status[p] # "RUNNABLE" \/ panic # "none")

=============================================================================
