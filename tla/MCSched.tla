------------------------------ MODULE MCSched ------------------------------
(* Instances of Sched for TLC.                                              *)
EXTENDS Sched

CONSTANTS r, p1

TwoProcs == {r, p1}

AllCalls == {"fork", "wait", "exit", "kill", "slock", "murder", "getpid", "fork_fail", "io",
             "exit_io"}

=============================================================================
