------------------------------ MODULE MCBuddy ------------------------------
(* Instances of Buddy for TLC.                                             *)
EXTENDS Buddy

CONSTANTS p1, p2

TwoProcs == {p1, p2}

=============================================================================
