------------------------------ MODULE Memory ------------------------------
(***************************************************************************)
(* What fork, exec and page faults promise: every process has a memory of  *)
(* its own.  A step changes the memory of one process only, and a forked   *)
(* process receives its pages by copies of its parent's.                   *)
(***************************************************************************)
EXTENDS Naturals

CONSTANTS Procs, VPages, Vals, Zero, None

VARIABLE mem        \* mem[p][va]: contents of a page, None if there is none

Init == mem \in [Procs -> [VPages -> Vals \cup {None}]]

\* The program stores into a page it has.
Store(p) == \E va \in VPages, v \in Vals : mem[p][va] # None /\ mem' = [mem EXCEPT ![p][va] = v]

\* The heap grows by pages of zeros, or pages are given back.
Remap(p) ==
    \E S \in SUBSET VPages, x \in {Zero, None} :
       mem' = [mem EXCEPT ![p] = [va \in VPages |-> IF va \in S THEN x ELSE @[va]]]

\* Fork hands the child a copy of a page.
CopyPage(p, q) ==
    \E va \in VPages : mem[q][va] = None /\ mem[p][va] # None /\ mem' = [mem EXCEPT ![q][va] = mem[p][va]]

\* A new program is loaded, with the same contents in all its pages, or all
\* pages are given back.
Load(p) ==
    \E S \in SUBSET VPages, v \in Vals :
       mem' = [mem EXCEPT ![p] = [va \in VPages |-> IF va \in S THEN v ELSE None]]

Next ==
    \E p \in Procs :
       \/ Store(p)
       \/ Remap(p)
       \/ \E q \in Procs \ {p} : CopyPage(p, q)
       \/ Load(p)

Spec == Init /\ [][Next]_mem

=============================================================================
