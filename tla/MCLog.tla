------------------------------- MODULE MCLog -------------------------------
(* Instances of Log for TLC.                                               *)
EXTENDS Log

CONSTANTS p1, k1, k2

OneProc == {p1}

TwoBlocks == {k1, k2}

=============================================================================
