----------------------------- MODULE BlockStore -----------------------------
(***************************************************************************)
(* What the buffer cache promises its users: every block is a register     *)
(* that at most one process has in its hands, and that keeps what the last *)
(* one wrote to it.                                                        *)
(***************************************************************************)
CONSTANTS Procs, Blocks, Values

VARIABLES
    owner,          \* the processes that hold a block: none or one
    val

Init ==
    /\ owner = [k \in Blocks |-> {}]
    /\ val \in [Blocks -> Values]

Acquire(p, k) ==
    /\ owner[k] = {} /\ owner' = [owner EXCEPT ![k] = {p}]
    /\ UNCHANGED val

Write(p, k, v) ==
    /\ owner[k] = {p} /\ val' = [val EXCEPT ![k] = v]
    /\ UNCHANGED owner

Release(p, k) ==
    /\ owner[k] = {p} /\ owner' = [owner EXCEPT ![k] = {}]
    /\ UNCHANGED val

Next == \E p \in Procs, k \in Blocks :
    Acquire(p, k) \/ Release(p, k) \/ \E v \in Values : Write(p, k, v)

Spec == Init /\ [][Next]_<<owner, val>>

=============================================================================
