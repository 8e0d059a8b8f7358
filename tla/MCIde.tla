------------------------------- MODULE MCIde -------------------------------
(* Instances of Ide for TLC.                                               *)
EXTENDS Ide

CONSTANTS p1, p2

TwoProcs == {p1, p2}

=============================================================================
