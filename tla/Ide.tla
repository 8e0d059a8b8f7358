-------------------------------- MODULE Ide --------------------------------
(***************************************************************************)
(* The IDE driver (kern/ide.c): the request queue, the disk working on one *)
(* request, its interrupt, and the processes that wait for their blocks.   *)
(*                                                                         *)
(* The buffer cache has one buffer for a block, so a buffer is its block   *)
(* number, and only the buffer's owner asks for a transfer.  Code under    *)
(* ide_lock is one step; a process may be preempted between two steps, and *)
(* kill() makes a sleeper look at its condition again.  Both disks exist,  *)
(* and every block is below FSSIZE.                                        *)
(*                                                                         *)
(* An operator named Op_Why is a defective Op, kept to test that the       *)
(* properties notice the defect; no definition uses it.                    *)
(***************************************************************************)
EXTENDS Integers, SequencesExt, FiniteSetsExt

CONSTANTS
    Procs,
    Blocks,         \* the block numbers in use
    Idle,           \* the disk works on nothing
    FAULTS,         \* the results ide_wait(1) may have at an interrupt
    MAXDOZEN,       \* bound: buffers in one struct dozenbufs
    MAXCALLS        \* bound: calls of the driver

IdeAssumption ==
    /\ Blocks \subseteq Nat /\ IsFiniteSet(Blocks) /\ IsFiniteSet(Procs)
    /\ Idle \notin Blocks
    /\ FAULTS \subseteq BOOLEAN /\ FAULTS # {}
    /\ MAXDOZEN \in Nat /\ MAXCALLS \in Nat

VARIABLES
    ide_queue,
    n_requests,
    active,         \* the block the disk is transferring
    flag,           \* B_VALID and B_DIRTY of each buffer
    fresh,          \* the buffers whose contents the disk has really moved
    dozen_ptr,      \* the process whose dozenbufs a buffer points to, or {}
    n_request,      \* n_request of the dozenbufs of each process
    mine,           \* the buffers a process waits for
    pc,
    calls

vars == <<ide_queue, n_requests, active, flag, fresh, dozen_ptr, n_request, mine, pc, calls>>

-----------------------------------------------------------------------------
(* The queue.                                                               *)

\* Where update_idequeue puts b: behind the blocks up to b when b is larger
\* than the first; before the last one that is at least b when it is smaller.
Position(q, b) ==
    CASE q = <<>> -> 1
      [] q # <<>> /\ b > Head(q) -> Min({i \in 2 .. Len(q) : b < q[i]} \cup {Len(q) + 1})
      [] q # <<>> /\ b < Head(q) -> Max({i \in 1 .. Len(q) : b <= q[i]})
      [] OTHER -> 2

update_idequeue(q, b) == InsertAt(q, Position(q, b), b)

\* A write sends its data when it starts, a read fetches them when it ends.
ide_start(b) == active' = b

StartFirst_Single(n) == IF n_requests' = 1 THEN ide_start(Head(ide_queue')) ELSE UNCHANGED active

\* After n requests were queued: the disk is started if there are no others.
StartFirst(n) == IF n_requests' = n THEN ide_start(Head(ide_queue')) ELSE UNCHANGED active

StartNext_Never == active' = Idle

\* At the end of the interrupt.
StartNext == IF n_requests' = 0 THEN active' = Idle ELSE ide_start(Head(ide_queue'))

Answered_AtOne(b) == {r \in Procs : b \in mine[r] /\ n_request[r] # 1}

\* Whom the interrupt wakes: the owner of b, with a dozen only after the last.
Answered(b) == {r \in Procs : b \in mine[r] /\ n_request'[r] = 0}

\* The waiting processes P look again.
wakeup(P) == pc' = [r \in Procs |-> IF r \in P /\ pc[r] = "sleep" THEN "woken" ELSE pc[r]]

-----------------------------------------------------------------------------
(* The calls.                                                               *)

CanCall(p) == pc[p] = "idle" /\ calls < MAXCALLS

Owned == UNION {mine[p] : p \in Procs}

\* bread() of a block that is not valid, or bwrite(), by the buffer's new owner.
ide_read_write(p, b, f) ==
    /\ CanCall(p) /\ b \notin Owned
    /\ flag' = [flag EXCEPT ![b] = f]
    /\ fresh' = fresh \ {b}
    /\ ide_queue' = update_idequeue(ide_queue, b)
    /\ n_requests' = n_requests + 1
    /\ StartFirst(1)
    /\ mine' = [mine EXCEPT ![p] = {b}]
    /\ pc' = [pc EXCEPT ![p] = "sleep"]
    /\ calls' = calls + 1
    /\ UNCHANGED <<dozen_ptr, n_request>>

\* bwrite_dozens() of the log: all blocks of the array are queued at once.
ide_write_dozens(p, array) ==
    /\ CanCall(p) /\ array # <<>> /\ ToSet(array) \cap Owned = {}
    /\ flag' = [b \in Blocks |-> IF b \in ToSet(array) THEN {"DIRTY"} ELSE flag[b]]
    /\ fresh' = fresh \ ToSet(array)
    /\ ide_queue' = FoldLeft(update_idequeue, ide_queue, array)
    /\ n_requests' = n_requests + Len(array)
    /\ StartFirst(Len(array))
    /\ dozen_ptr' = [b \in Blocks |-> IF b \in ToSet(array) THEN {p} ELSE dozen_ptr[b]]
    /\ n_request' = [n_request EXCEPT ![p] = Len(array)]
    /\ mine' = [mine EXCEPT ![p] = ToSet(array)]
    /\ pc' = [pc EXCEPT ![p] = "sleep"]
    /\ calls' = calls + 1

\* The condition the two calls loop on: a single buffer by its flags, a
\* dozen by its counter.
Waits(p) == IF \E b \in Blocks : p \in dozen_ptr[b]
            THEN n_request[p] > 0
            ELSE \E b \in mine[p] : flag[b] # {"VALID"}

\* Back from sleep(): sleep again, or return and let go of the buffers.
Woken(p) ==
    /\ pc[p] = "woken"
    /\ IF Waits(p)
       THEN pc' = [pc EXCEPT ![p] = "sleep"] /\ UNCHANGED mine
       ELSE pc' = [pc EXCEPT ![p] = "idle"] /\ mine' = [mine EXCEPT ![p] = {}]
    /\ UNCHANGED <<ide_queue, n_requests, active, flag, fresh, dozen_ptr, n_request, calls>>

\* kill() of a process asleep in the driver.
kill(p) ==
    /\ pc[p] = "sleep"
    /\ wakeup({p})
    /\ UNCHANGED <<ide_queue, n_requests, active, flag, fresh, dozen_ptr, n_request, mine, calls>>

-----------------------------------------------------------------------------
(* The interrupt.                                                           *)

Charged_All(b) == [r \in Procs |-> n_request[r] - 1]

\* The counters of the dozens after b is done.
Charged(b) == [r \in Procs |-> n_request[r] - Cardinality({r} \cap dozen_ptr[b])]

\* The disk has finished active.  The handler takes the first of the queue
\* for it, whether it is or not, and takes no notice of a read error.
ide_intr(ok) ==
    /\ active # Idle
    /\ LET b == Head(ide_queue)
       IN  /\ ide_queue' = Tail(ide_queue)
           /\ n_requests' = n_requests - 1
           /\ fresh' = IF b = active /\ ("DIRTY" \in flag[b] \/ ok) THEN fresh \cup {b} ELSE fresh
           /\ flag' = [flag EXCEPT ![b] = {"VALID"}]
           /\ dozen_ptr' = [dozen_ptr EXCEPT ![b] = {}]
           /\ n_request' = Charged(b)
           /\ wakeup(Answered(b))
    /\ StartNext
    /\ UNCHANGED <<mine, calls>>

ide_init ==
    /\ ide_queue = <<>> /\ n_requests = 0 /\ active = Idle
    /\ flag = [b \in Blocks |-> {}] /\ fresh = {}
    /\ dozen_ptr = [b \in Blocks |-> {}] /\ n_request = [p \in Procs |-> 0]
    /\ mine = [p \in Procs |-> {}] /\ pc = [p \in Procs |-> "idle"]
    /\ calls = 0

Arrays == {s \in UNION {[1 .. n -> Blocks] : n \in 1 .. MAXDOZEN} : IsInjective(s)}

Next ==
    \/ \E p \in Procs, b \in Blocks, f \in {{}, {"DIRTY"}} : ide_read_write(p, b, f)
    \/ \E p \in Procs : \E array \in Arrays : ide_write_dozens(p, array)
    \/ \E p \in Procs : Woken(p)
    \/ \E p \in Procs : kill(p)
    \/ \E ok \in FAULTS : ide_intr(ok)

\* The disk answers, and a process that was woken runs again.
Fairness ==
    /\ WF_vars(\E ok \in FAULTS : ide_intr(ok))
    /\ \A p \in Procs : WF_vars(Woken(p))

Spec == ide_init /\ [][Next]_vars /\ Fairness

-----------------------------------------------------------------------------

TypeOK ==
    /\ ide_queue \in Seq(Blocks) /\ n_requests \in Nat /\ active \in Blocks \cup {Idle}
    /\ flag \in [Blocks -> SUBSET {"VALID", "DIRTY"}] /\ fresh \subseteq Blocks
    /\ dozen_ptr \in [Blocks -> SUBSET Procs] /\ n_request \in [Procs -> Nat]
    /\ mine \in [Procs -> SUBSET Blocks]
    /\ pc \in [Procs -> {"idle", "sleep", "woken"}] /\ calls \in 0 .. MAXCALLS

\* A request in the queue is never left without a transfer in progress, and
\* the disk never works with nothing queued: starting only the first request
\* of an empty queue, and the next one from the interrupt, is enough even
\* when a dozen requests arrive at once (ide.c:157, 177, 204).
DiskWorksWhileQueued ==
    /\ (active # Idle) <=> (ide_queue # <<>>)
    /\ ide_queue # <<>> => active \in ToSet(ide_queue)
    /\ n_requests = Len(ide_queue)

\* Every sleeper has a request that the disk will still answer; whoever's
\* last request was answered has been woken (ide.c:150-154).
NobodySleepsInVain ==
    \A p \in Procs : pc[p] = "sleep" => mine[p] \cap ToSet(ide_queue) # {}

\* The counter a dozen waits on is the number of its buffers still queued,
\* whatever else is queued between them (ide.c:150).
DozensCounted ==
    \A p \in Procs : n_request[p] = Cardinality({b \in ToSet(ide_queue) : p \in dozen_ptr[b]})

\* Every caller gets its answer once the calls stop coming (a smaller block
\* that arrives later is served first, so a stream of them starves the last).
EveryCallReturns == \A p \in Procs : (pc[p] # "idle") ~> (pc[p] = "idle")

-----------------------------------------------------------------------------
(* What the repository says of this code and the code does not do: the       *)
(* README tells for each how TLC refutes it.                                 *)

\* The comment at ide.c:124, "First queued buffer is the active request.":
\* the handler credits the first of the queue with the transfer.
FirstIsActive == ide_queue # <<>> => active = Head(ide_queue)

\* The comment at ide.c:141, a buffer is marked valid "because it is just
\* Fresh": a buffer that is valid has got its contents from the disk.
ValidIsFresh == \A b \in Blocks : "VALID" \in flag[b] => b \in fresh

=============================================================================
