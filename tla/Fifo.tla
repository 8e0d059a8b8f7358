-------------------------------- MODULE Fifo --------------------------------
(***************************************************************************)
(* What a pipe promises: a bounded queue of bytes.  A write appends bytes  *)
(* that fit, a read takes bytes from the front and returns exactly them.   *)
(***************************************************************************)
EXTENDS Naturals, Sequences

CONSTANTS Bytes,    \* the values of a byte
          Size      \* how many bytes the queue holds

VARIABLES q,        \* the bytes written and not yet read, oldest first
          got       \* the bytes the last read returned

Init == q = <<>> /\ got = <<>>

Put == \E s \in UNION {[1 .. n -> Bytes] : n \in 1 .. Size} :
          /\ Len(q) + Len(s) <= Size
          /\ q' = q \o s
          /\ UNCHANGED got

Get == \E n \in 0 .. Len(q) :
          /\ got' = SubSeq(q, 1, n)
          /\ q' = SubSeq(q, n + 1, Len(q))

Next == Put \/ Get

Spec == Init /\ [][Next]_<<q, got>>

=============================================================================
