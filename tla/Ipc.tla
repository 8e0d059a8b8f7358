-------------------------------- MODULE Ipc --------------------------------
(***************************************************************************)
(* Messages between processes (ipc_try_send and ipc_recv of                *)
(* kern/sysfunc.c, ipc_send of kern/syscall.c) together with the calls     *)
(* that use the same wait list, sleep_alone, and the same descriptors:     *)
(* fork, wait, exit and kill.                                              *)
(*                                                                         *)
(* A process is a descriptor; programs name it by its id.  The root process *)
(* has id 0, which to pid2proc is the caller's.  A step is a stretch of code *)
(* under proc_table_lock; a tick may switch before the lock is taken.      *)
(* Descriptors go to the front of procs_desc_cache and are taken from      *)
(* there. The exchanged page itself is left out (see Vm for page_insert).  *)
(* mail is history: the messages a sender was told are delivered and no    *)
(* ipc_recv has returned with.                                             *)
(*                                                                         *)
(* An operator named Op_Why is a defective Op, kept to test that the       *)
(* properties notice the defect; no definition uses it.                    *)
(***************************************************************************)
EXTENDS Naturals, Sequences, FiniteSetsExt

CONSTANTS
    Procs, Root,
    Start,          \* bound: the processes there are to begin with, Root's children
    Values,         \* what is sent
    Pages,          \* bound: BOOLEAN, or {FALSE} when nobody sends or wants a page
    Calls,          \* bound: what programs do besides sending and receiving:
                    \* "fork", "exit", "wait", "kill"
    None

IpcAssumption ==
    /\ Root \in Procs /\ Start \subseteq Procs /\ Root \in Start
    /\ Calls \subseteq {"fork", "exit", "wait", "kill"}
    /\ None \notin {"send", "recv", "wait"}

VARIABLES
    status, pid, ppid,
    killed, wait_for_child,     \* sets of processes
    ipc_recving,                \* the processes with ipc_recving set
    ipc,                        \* ipc_value, ipc_from and whether a page came, of each
    wants_page,                 \* those with ipc_dstva below UTOP
    call,                       \* the system call a process is in
    procs_desc_cache,
    id_bitmap,                  \* the ids whose bit is set: free
    mail

family == <<pid, ppid, procs_desc_cache, id_bitmap>>
vars == <<status, family, killed, wait_for_child, ipc_recving, ipc, wants_page, call, mail>>

NoCall == [op |-> None, to |-> None, pid |-> 0, value |-> None, page |-> FALSE]
Send(d, n, v, page) == [op |-> "send", to |-> d, pid |-> n, value |-> v, page |-> page]
Receive == [NoCall EXCEPT !.op = "recv"]
Waiting == [NoCall EXCEPT !.op = "wait"]

\* p executes in user mode; one that was killed exits on its way there.
User(p) == status[p] = "RUNNING" /\ call[p] = NoCall /\ p \notin killed

-----------------------------------------------------------------------------

Wake_None(p) == status

\* wakeup(&p->sleep_alone): p is the only one who ever sleeps there.
Wake(p) == [status EXCEPT ![p] = IF @ = "SLEEPING" THEN "RUNNING" ELSE @]

\* The processes in proc_table.
Known == {d \in Procs : status[d] # "FREE"}

\* pid2proc: whom process p names with the id n of a process.
pid2proc(p, n) == IF n = 0 THEN p ELSE CHOOSE d \in Known : pid[d] = n

\* ipc_try_send up to the lock: pid2proc without check.
ipc_lookup(p) ==
    /\ User(p)
    /\ \E n \in {pid[d] : d \in Known}, v \in Values, page \in Pages :
          call' = [call EXCEPT ![p] = Send(pid2proc(p, n), n, v, page)]
    /\ UNCHANGED <<status, family, killed, wait_for_child, ipc_recving, ipc, wants_page, mail>>

ipc_try_send_Unchecked(p) ==
    LET d == call[p].to
        message == [value |-> call[p].value, from |-> pid[p], page |-> FALSE]
    IN  /\ call[p].op = "send" /\ status[p] = "RUNNING"
        /\ ipc_recving' = ipc_recving \ {d}
        /\ ipc' = [ipc EXCEPT ![d] = message]
        /\ mail' = [mail EXCEPT ![d] = Append(@, message)]
        /\ status' = Wake(d)
        /\ call' = [call EXCEPT ![p] = NoCall]
        /\ UNCHANGED <<family, killed, wait_for_child, wants_page>>

\* ipc_try_send under the lock.
ipc_try_send(p) ==
    LET d == call[p].to
        message == [value |-> call[p].value, from |-> pid[p], page |-> call[p].page /\ d \in wants_page]
    IN  /\ call[p].op = "send" /\ status[p] = "RUNNING" /\ d \in ipc_recving
        /\ ipc_recving' = ipc_recving \ {d}
        /\ ipc' = [ipc EXCEPT ![d] = message]
        /\ mail' = [mail EXCEPT ![d] = Append(@, message)]
        /\ status' = Wake(d)
        /\ call' = [call EXCEPT ![p] = NoCall]
        /\ UNCHANGED <<family, killed, wait_for_child, wants_page>>

\* Its refusals: the receiver is not receiving, or the page or the rights are
\* not in order.
ipc_refused(p) ==
    /\ call[p].op = "send" /\ status[p] = "RUNNING"
    /\ call[p].to \notin ipc_recving \/ (call[p].page /\ call[p].to \in wants_page)
    /\ call' = [call EXCEPT ![p] = NoCall]
    /\ UNCHANGED <<status, family, killed, wait_for_child, ipc_recving, ipc, wants_page, mail>>

\* ipc_recv up to its sleep.
ipc_recv(p) ==
    /\ User(p)
    /\ \E page \in Pages : wants_page' = IF page THEN wants_page \cup {p} ELSE wants_page \ {p}
    /\ ipc_recving' = ipc_recving \cup {p}
    /\ status' = [status EXCEPT ![p] = "SLEEPING"]
    /\ call' = [call EXCEPT ![p] = Receive]
    /\ UNCHANGED <<family, killed, wait_for_child, ipc, mail>>

\* The receiver was woken: it returns, whoever woke it.
ipc_recv_end(p) ==
    /\ call[p] = Receive /\ status[p] = "RUNNING"
    /\ call' = [call EXCEPT ![p] = NoCall]
    /\ mail' = [mail EXCEPT ![p] = <<>>]
    /\ UNCHANGED <<status, family, killed, wait_for_child, ipc_recving, ipc, wants_page>>

-----------------------------------------------------------------------------
(* The other users of sleep_alone and of the descriptors *)

get_pid_Kept == id_bitmap

\* get_pid takes the lowest id; what remains.
get_pid == id_bitmap \ {Min(id_bitmap)}

\* The id whose bit clear_pid sets: n itself only below 4 (ProcTable).
clear_pid(n) == 32 * (n \div 4) + (n % 4)

\* clone and proc_alloc: the descriptor is cleared.
Fork(p) ==
    LET d == Head(procs_desc_cache) IN
    /\ "fork" \in Calls /\ User(p) /\ procs_desc_cache # <<>>
    /\ procs_desc_cache' = Tail(procs_desc_cache)
    /\ pid' = [pid EXCEPT ![d] = Min(id_bitmap)]
    /\ id_bitmap' = get_pid
    /\ ppid' = [ppid EXCEPT ![d] = p]
    /\ status' = [status EXCEPT ![d] = "RUNNING"]
    /\ killed' = killed \ {d}
    /\ wait_for_child' = wait_for_child \ {d}
    /\ ipc_recving' = ipc_recving \ {d}
    /\ wants_page' = wants_page \ {d}
    /\ ipc' = [ipc EXCEPT ![d] = None]
    /\ mail' = [mail EXCEPT ![d] = <<>>]
    /\ UNCHANGED call

\* exit().  Its two sections under the lock are one step: when another process
\* gets the CPU between them, the caller is ZOMBLE no more and sched() panics
\* (Sched, ExitEnd).
Exit(p) ==
    /\ "exit" \in Calls /\ p # Root /\ status[p] = "RUNNING" /\ call[p] = NoCall
    /\ LET parent == ppid[p]
           woken == IF parent \in wait_for_child THEN Wake(parent) ELSE status
       IN  status' = [woken EXCEPT ![p] = "ZOMBLE"]
    /\ ppid' = [d \in Procs |-> IF ppid[d] = p THEN Root ELSE ppid[d]]
    /\ mail' = [mail EXCEPT ![p] = <<>>]
    /\ UNCHANGED <<pid, procs_desc_cache, id_bitmap, killed, wait_for_child, ipc_recving, ipc, wants_page, call>>

InWait(p) == "wait" \in Calls /\ (User(p) \/ (call[p] = Waiting /\ status[p] = "RUNNING"))
Zombies(p) == {d \in Procs : ppid[d] = p /\ status[d] = "ZOMBLE"}

wait_reap(p) ==
    /\ InWait(p)
    /\ \E d \in Zombies(p) :
          /\ procs_desc_cache' = <<d>> \o procs_desc_cache
          /\ id_bitmap' = id_bitmap \cup {clear_pid(pid[d])}
          /\ ppid' = [ppid EXCEPT ![d] = None]
          /\ status' = [status EXCEPT ![d] = "FREE"]
    /\ call' = [call EXCEPT ![p] = NoCall]
    /\ UNCHANGED <<pid, killed, wait_for_child, ipc_recving, ipc, wants_page, mail>>

\* wait_for_child is set here, and never cleared.
wait_sleep(p) ==
    /\ InWait(p) /\ Zombies(p) = {}
    /\ wait_for_child' = wait_for_child \cup {p}
    /\ status' = [status EXCEPT ![p] = "SLEEPING"]
    /\ call' = [call EXCEPT ![p] = Waiting]
    /\ UNCHANGED <<family, killed, ipc_recving, ipc, wants_page, mail>>

\* kill: pid2proc with check, so the caller or a child of its own.
kill(p) ==
    /\ "kill" \in Calls /\ User(p)
    /\ \E d \in {pid2proc(p, pid[c]) : c \in Known} :
          /\ d = p \/ ppid[d] = p
          /\ killed' = killed \cup {d}
          /\ status' = Wake(d)
    /\ UNCHANGED <<family, wait_for_child, ipc_recving, ipc, wants_page, call, mail>>

-----------------------------------------------------------------------------

Init ==
    /\ status = [p \in Procs |-> IF p \in Start THEN "RUNNING" ELSE "FREE"]
    /\ \E f \in [Start -> 0 .. Cardinality(Start) - 1] :
          /\ \A p, q \in Start : f[p] = f[q] => p = q
          /\ f[Root] = 0
          /\ pid = [p \in Procs |-> IF p \in Start THEN f[p] ELSE 0]
    /\ id_bitmap = Cardinality(Start) .. Cardinality(Procs) - 1
    /\ ppid = [p \in Procs |-> IF p \in Start \ {Root} THEN Root ELSE None]
    /\ procs_desc_cache \in {s \in [1 .. Cardinality(Procs \ Start) -> Procs \ Start] :
                                \A i, j \in DOMAIN s : s[i] = s[j] => i = j}
    /\ killed = {} /\ wait_for_child = {} /\ ipc_recving = {} /\ wants_page = {}
    /\ ipc = [p \in Procs |-> None]
    /\ call = [p \in Procs |-> NoCall]
    /\ mail = [p \in Procs |-> <<>>]

Next ==
    \E p \in Procs :
       \/ ipc_lookup(p)
       \/ ipc_try_send(p)
       \/ ipc_refused(p)
       \/ ipc_recv(p)
       \/ ipc_recv_end(p)
       \/ Fork(p)
       \/ Exit(p)
       \/ wait_reap(p)
       \/ wait_sleep(p)
       \/ kill(p)

Spec == Init /\ [][Next]_vars

-----------------------------------------------------------------------------
(* Properties *)

Message == [value : Values, from : Nat, page : BOOLEAN]

\* Types of the state.
TypeOK ==
    /\ status \in [Procs -> {"FREE", "RUNNING", "SLEEPING", "ZOMBLE"}]
    /\ pid \in [Procs -> Nat] /\ id_bitmap \subseteq Nat /\ ppid \in [Procs -> Procs \cup {None}]
    /\ killed \subseteq Procs /\ wait_for_child \subseteq Procs
    /\ ipc_recving \subseteq Procs /\ wants_page \subseteq Procs
    /\ ipc \in [Procs -> Message \cup {None}]
    /\ call \in [Procs -> [op : {None, "send", "recv", "wait"}, to : Procs \cup {None}, pid : Nat,
                           value : Values \cup {None}, page : BOOLEAN]]
    /\ procs_desc_cache \in Seq(Procs) /\ mail \in [Procs -> Seq(Message)]

Asleep(p) == call[p] = Receive /\ status[p] = "SLEEPING"

\* p's id means p, whoever uses it.
Named(p) == \A q \in Procs : pid2proc(q, pid[p]) = p

\* Whoever sleeps in ipc_recv, the root process apart, can still be sent to,
\* whatever was sent, killed, reaped or forked meanwhile: ipc_recving is set and
\* every process finds the sleeper under its id.  (The root process's id is 0:
\* see AnyoneCanReceive.)
SleeperCanReceive == \A p \in Procs \ {Root} : Asleep(p) => p \in ipc_recving /\ Named(p)

\* A message that was delivered is the one ipc_recv returns with: no other
\* sender replaces it first, and the receiver does not sleep over it.
DeliveredIsKept ==
    \A p \in Procs : Len(mail[p]) <= 1 /\ (mail[p] # <<>> => ipc[p] = mail[p][1] /\ ~Asleep(p))

-----------------------------------------------------------------------------
(* What the repository says of this code and the code does not do: the       *)
(* README tells for each how TLC refutes it.                                 *)

\* E_IPC_NOT_RECV, "Attempt to send to env that is not recving"
\* (include/error.h:15): a process that sleeps in ipc_recv can be sent to.
AnyoneCanReceive == \A p \in Procs : Asleep(p) => p \in ipc_recving /\ Named(p)

\* "Proc is blocked receiving?" (ipc_recving, include/proc.h:89).
RecvingIsBlocked == \A p \in ipc_recving : status[p] = "SLEEPING" /\ call[p] = Receive

\* E_BAD_PROC, "Environment doesn't exist or otherwise" (include/error.h:7):
\* what is sent to an id reaches the process with that id or nobody.
ReachesPid ==
    [][\A p \in Procs : ipc_try_send(p) /\ call[p].pid # 0
          => pid[call[p].to] = call[p].pid]_vars

=============================================================================
