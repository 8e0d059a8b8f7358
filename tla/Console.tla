------------------------------ MODULE Console ------------------------------
(***************************************************************************)
(* The console's input: kbd_intr (kern/kbd.c) fills write_buf, readers of  *)
(* the console device and the kernel monitor's getchar (kern/console.c)    *)
(* empty it.                                                               *)
(*                                                                         *)
(* Interrupts are off while a lock is held, so that a reader runs in one   *)
(* step up to its return or its sleep, and a key is one step.  Characters  *)
(* are abstracted to "x", a newline and end of file; what kbd_get_data     *)
(* makes of scan codes, the raw codes in read_buf, which nobody reads, and *)
(* the screen are left out.                                                *)
(*                                                                         *)
(* pending and seen are history: what a queue with the keys' editing would *)
(* hold, and whether readers have taken part of the line being typed.      *)
(*                                                                         *)
(* An operator named Op_Why is a defective Op, kept to test that the       *)
(* properties notice the defect; no definition uses it.                    *)
(***************************************************************************)
EXTENDS Integers, SequencesExt, FiniteSetsExt

CONSTANTS
    Readers,
    TTY_BUF,
    WRAP,           \* what rpos and wpos count modulo: 2^32 in the code
    MaxBytes,       \* bound: bytes a read asks for
    Monitor,        \* bound: whether the kernel monitor reads
    None

ConsoleAssumption ==
    /\ TTY_BUF \in Nat \ {0} /\ WRAP \in Nat /\ WRAP % TTY_BUF = 0 /\ TTY_BUF < WRAP
    /\ MaxBytes \in Nat /\ Monitor \in BOOLEAN

VARIABLES
    buf, rpos, wpos,    \* write_buf
    procs_list,         \* readers asleep
    nbytes, cnt,        \* of a reader's call; nbytes is None outside
    slept,              \* readers asleep or woken and not yet run
    killed,
    getchar,            \* the monitor is in getchar, holding console_lock
    panic,
    pending, seen

ring == <<buf, rpos, wpos>>
vars == <<ring, procs_list, nbytes, cnt, slept, killed, getchar, panic, pending, seen>>

Chars == {"x", "newline", "eof"}
Keys == Chars \cup {"kill", "backspace"}

-----------------------------------------------------------------------------

Inc_NoWrap(i) == i + 1

Inc(i) == (i + 1) % WRAP
Dec(i) == (i + WRAP - 1) % WRAP
Length == (wpos + WRAP - rpos) % WRAP
Contents == [i \in 1 .. Length |-> buf[(rpos + i - 1) % TTY_BUF]]

\* The length of a line after the last newline of a sequence.
Tail1(s) == {i \in DOMAIN s : \A j \in i .. Len(s) : s[j] # "newline"}
Unfinished(s) == Cardinality(Tail1(s))

KillLine == (wpos + WRAP - Unfinished(Contents)) % WRAP

HasRoom_Always == TRUE

HasRoom == Length < TTY_BUF

Wakes_Newline(c) == c = "newline"

\* Whether kbd_intr wakes the readers after it has stored c.
Wakes(c) == c = "newline" \/ Inc(wpos) = (rpos + TTY_BUF) % WRAP

\* kbd_intr on one key.
Handle(k) ==
    /\ CASE k = "kill" ->
              /\ wpos' = KillLine
              /\ pending' = SubSeq(pending, 1, Len(pending) - Unfinished(pending))
              /\ seen' = FALSE
              /\ UNCHANGED <<buf, procs_list>>
         [] k = "backspace" ->
              /\ IF wpos # rpos THEN wpos' = Dec(wpos) ELSE UNCHANGED wpos
              /\ pending' = SubSeq(pending, 1, Len(pending) - 1)
              /\ UNCHANGED <<buf, procs_list, seen>>
         [] OTHER ->
              IF HasRoom
              THEN /\ buf' = [buf EXCEPT ![wpos % TTY_BUF] = k]
                   /\ wpos' = Inc(wpos)
                   /\ procs_list' = IF Wakes(k) THEN {} ELSE procs_list
                   /\ pending' = IF Len(pending) < TTY_BUF THEN Append(pending, k) ELSE pending
                   /\ seen' = (k # "newline" /\ seen)
              ELSE UNCHANGED <<buf, wpos, procs_list, pending, seen>>
    /\ UNCHANGED rpos

\* The interrupt, which echoes through console_putc.
kbd_intr(k) ==
    /\ panic = None /\ ~getchar
    /\ Handle(k)
    /\ UNCHANGED <<nbytes, cnt, slept, killed, getchar, panic>>

-----------------------------------------------------------------------------

\* compatible_console_read
console_read(p) ==
    /\ panic = None /\ ~getchar /\ nbytes[p] = None
    /\ \E n \in 0 .. MaxBytes : nbytes' = [nbytes EXCEPT ![p] = n]
    /\ cnt' = [cnt EXCEPT ![p] = 0]
    /\ UNCHANGED <<ring, procs_list, slept, killed, getchar, panic, pending, seen>>

\* p takes n characters; the last of them may end the line.
Take(n) ==
    /\ rpos' = (rpos + n) % WRAP
    /\ pending' = SubSeq(pending, n + 1, Len(pending))
    /\ seen' = (seen \/ Unfinished(Contents) > Length - n)
    /\ UNCHANGED <<buf, wpos>>

\* The first character that ends a read.
Stops == {i \in 1 .. Length : Contents[i] \in {"newline", "eof"}}

\* The reader goes round its loop: to the end of its buffer or of a line, to
\* an end of file, which it leaves for the next call if it has something, or
\* to sleep when there is no more.
ReadLoop(p) ==
    LET want == nbytes[p] - cnt[p]
        near == {i \in Stops : i <= want}
        stop == Min(near)
        Return == /\ nbytes' = [nbytes EXCEPT ![p] = None]
                  /\ cnt' = [cnt EXCEPT ![p] = 0]
                  /\ slept' = slept \ {p} /\ killed' = killed \ {p}
                  /\ UNCHANGED procs_list
    IN  /\ panic = None /\ ~getchar /\ nbytes[p] # None /\ p \notin procs_list
        /\ p \notin killed \/ p \notin slept
        /\ \/ near # {} /\ Contents[stop] = "newline" /\ Take(stop) /\ Return
           \/ near # {} /\ Contents[stop] = "eof" /\ Take(IF cnt[p] + stop > 1 THEN stop - 1 ELSE stop) /\ Return
           \/ near = {} /\ Length >= want /\ Take(want) /\ Return
           \/ /\ near = {} /\ Length < want
              /\ Take(Length)
              /\ cnt' = [cnt EXCEPT ![p] = @ + Length]
              /\ procs_list' = procs_list \cup {p} /\ slept' = slept \cup {p}
              /\ UNCHANGED <<nbytes, killed>>
        /\ UNCHANGED <<getchar, panic>>

\* Killed before its sleep or in it, and awake again: -1.
ReadKilled(p) ==
    /\ panic = None /\ ~getchar /\ p \in killed \cap slept /\ p \notin procs_list
    /\ nbytes' = [nbytes EXCEPT ![p] = None]
    /\ cnt' = [cnt EXCEPT ![p] = 0]
    /\ killed' = killed \ {p} /\ slept' = slept \ {p}
    /\ UNCHANGED <<ring, procs_list, getchar, panic, pending, seen>>

\* kill() of a process in its call takes a sleeper out of the list.  killed is
\* tested after a sleep only.  Another process has its place once it is dead.
Kill(p) ==
    /\ panic = None /\ ~getchar /\ nbytes[p] # None
    /\ p \notin killed \/ p \in procs_list
    /\ killed' = killed \cup {p}
    /\ procs_list' = procs_list \ {p}
    /\ UNCHANGED <<ring, nbytes, cnt, slept, getchar, panic, pending, seen>>

-----------------------------------------------------------------------------

\* getchar takes console_lock and polls; nothing else runs.
GetcharStart ==
    /\ Monitor /\ panic = None /\ ~getchar
    /\ getchar' = TRUE
    /\ UNCHANGED <<ring, procs_list, nbytes, cnt, slept, killed, panic, pending, seen>>

\* console_getc finds a character.
GetcharEnd ==
    /\ panic = None /\ getchar /\ Length > 0
    /\ Take(1)
    /\ getchar' = FALSE
    /\ UNCHANGED <<procs_list, nbytes, cnt, slept, killed, panic>>

\* console_getc calls kbd_intr, and the echo of a character or of an erased
\* one takes console_lock again.
GetcharKey(k) ==
    /\ panic = None /\ getchar
    /\ IF \/ k \in Chars /\ HasRoom
          \/ k = "backspace" /\ Length > 0
          \/ k = "kill" /\ Unfinished(Contents) > 0
       THEN panic' = "Deadlock" /\ UNCHANGED <<ring, procs_list, pending, seen>>
       ELSE Handle(k) /\ UNCHANGED panic
    /\ UNCHANGED <<nbytes, cnt, slept, killed, getchar>>

-----------------------------------------------------------------------------

Init ==
    /\ buf = [i \in 0 .. TTY_BUF - 1 |-> None] /\ rpos = 0 /\ wpos = 0
    /\ procs_list = {} /\ slept = {} /\ killed = {}
    /\ nbytes = [p \in Readers |-> None] /\ cnt = [p \in Readers |-> 0]
    /\ getchar = FALSE /\ panic = None
    /\ pending = <<>> /\ seen = FALSE

Next ==
    \/ \E k \in Keys : kbd_intr(k) \/ GetcharKey(k)
    \/ \E p \in Readers : console_read(p) \/ ReadLoop(p) \/ ReadKilled(p) \/ Kill(p)
    \/ GetcharStart
    \/ GetcharEnd

Spec == Init /\ [][Next]_vars

-----------------------------------------------------------------------------
(* Properties *)

\* Types of the state; the positions stay 32-bit words.
TypeOK ==
    /\ buf \in [0 .. TTY_BUF - 1 -> Chars \cup {None}]
    /\ rpos \in 0 .. WRAP - 1 /\ wpos \in 0 .. WRAP - 1
    /\ procs_list \subseteq slept /\ slept \subseteq Readers /\ killed \subseteq Readers
    /\ nbytes \in [Readers -> 0 .. MaxBytes \cup {None}] /\ cnt \in [Readers -> 0 .. MaxBytes]
    /\ getchar \in BOOLEAN /\ panic \in {None, "Deadlock"}
    /\ pending \in Seq(Chars) /\ seen \in BOOLEAN

\* Between rpos and wpos the ring holds what was typed, less what was erased
\* and read, in order: also when it is full, empty, or the positions wrap.
RingIsQueue == Length <= TTY_BUF /\ Contents = pending

\* A reader does not sleep while there is a whole line or no room for more.
NobodySleepsInVain == procs_list # {} => Length < TTY_BUF /\ \A i \in 1 .. Length : Contents[i] # "newline"

-----------------------------------------------------------------------------
(* What the repository says of this code and the code does not do: the       *)
(* README tells for each how TLC refutes it.                                 *)

\* "kill line" (kbd.c:73): what was typed on the line is gone, and no reader
\* has any of it.
KillsLine == [][kbd_intr("kill") => ~seen]_vars

\* "spin_lock_irqsave(): Deadlock!!!" (lock.c:56) is not reached by typing to
\* the kernel monitor.
NoDeadlockPanic == panic # "Deadlock"

=============================================================================
