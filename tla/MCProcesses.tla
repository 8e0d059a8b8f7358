---------------------------- MODULE MCProcesses ----------------------------
(***************************************************************************)
(* Three processes of Sched with two mixes of system calls.  All calls     *)
(* together are out of TLC's reach; a behaviour makes the calls of one     *)
(* mix.                                                                    *)
(***************************************************************************)
EXTENDS Sched, TLC

CONSTANTS r, a, b

VARIABLE mix    \* what the processes do: "family" or "blocking"

ThreeProcs == {r, a, b}

\* The processes other than the root process are interchangeable.
Twins == Permutations({a, b})

FamilyCalls == {"fork", "wait", "exit", "kill"}

BlockingCalls == {"fork", "slock", "murder"}

Blocking == INSTANCE Sched WITH Syscalls <- BlockingCalls

MCInit == Init /\ mix \in {"family", "blocking"}

MCNext ==
    \/ mix = "family" /\ Next /\ UNCHANGED mix
    \/ mix = "blocking" /\ Blocking!Next /\ UNCHANGED mix

MCSpec == MCInit /\ [][MCNext]_<<vars, mix>>

=============================================================================
