----------------------------- MODULE FileTable -----------------------------
(***************************************************************************)
(* Open files: the table of struct file (kern/file.c) and the descriptors  *)
(* of the processes (kern/sysfile.c, exit and fork in kern/sysfunc.c).     *)
(*                                                                         *)
(* A process changes only its own descriptors and the file table has a     *)
(* lock, so a call is one step, but for the loops of fork and exit, which  *)
(* take one for each entry.  What file_close() does with the inode or the  *)
(* pipe of a file's last reference is in modules Icache and Pipe.          *)
(*                                                                         *)
(* An operator named Op_Why is a defective Op, kept to test that the       *)
(* properties notice the defect; no definition uses it.                    *)
(***************************************************************************)
EXTENDS Integers, SequencesExt, FiniteSetsExt

CONSTANTS
    Procs,
    First,          \* the process that exists at the start
    Files,          \* the NFILE struct files
    NoFile,         \* an empty entry
    NOFILE,         \* descriptors of a process
    KMALLOC,        \* the results kmalloc() may have in pipe_alloc()
    Beyond,         \* bound: whether a run goes on after a pipe() that failed
    MaxRef          \* bound: the references pipe() leaks have no other limit

FileTableAssumption ==
    /\ First \in Procs /\ IsFiniteSet(Files) /\ NoFile \notin Files
    /\ NOFILE \in Nat \ {0} /\ KMALLOC \subseteq BOOLEAN /\ KMALLOC # {} /\ Beyond \in BOOLEAN /\ MaxRef \in Nat

Fd == 0 .. NOFILE - 1
NFILE == Cardinality(Files)

VARIABLES
    ft,             \* the file table: ref, flist, n (n_openfiles), corrupt (it panicked)
    open_file_table,
    n_opfiles,
    alive,
    loop,           \* of each process: {}, or the table a loop is at and its next entry
    spoiled         \* what pipe() did: "overrun" a descriptor table, or "failed"

vars == <<ft, open_file_table, n_opfiles, alive, loop, spoiled>>

-----------------------------------------------------------------------------
(* The file table, as functions from one state of it to the next.           *)

\* The file file_alloc() hands out.
Allocated(t) == Head(t.flist)

file_alloc(t) ==
    [t EXCEPT !.ref[Allocated(t)] = 1, !.flist = Tail(t.flist), !.n = t.n + 1]

file_dup_NoCount(t, f) == t

file_dup(t, f) ==
    IF t.ref[f] = 0 THEN [t EXCEPT !.corrupt = TRUE] ELSE [t EXCEPT !.ref[f] = @ + 1]

file_close_AnyRef(t, f) ==
    [t EXCEPT !.ref[f] = @ - 1, !.flist = <<f>> \o t.flist, !.n = t.n - 1]

file_close_NotCounted(t, f) ==
    CASE t.ref[f] = 0 -> [t EXCEPT !.corrupt = TRUE]
      [] t.ref[f] = 1 -> [t EXCEPT !.ref[f] = 0, !.flist = <<f>> \o t.flist]
      [] OTHER -> [t EXCEPT !.ref[f] = @ - 1]

file_close(t, f) ==
    CASE t.ref[f] = 0 -> [t EXCEPT !.corrupt = TRUE]
      [] t.ref[f] = 1 -> [t EXCEPT !.ref[f] = 0, !.flist = <<f>> \o t.flist, !.n = t.n - 1]
      [] OTHER -> [t EXCEPT !.ref[f] = @ - 1]

\* file_close of an entry that may be empty.
CloseEntry(t, f) == IF f = NoFile THEN t ELSE file_close(t, f)

-----------------------------------------------------------------------------
(* The calls.                                                               *)

\* Nothing has stopped the kernel or the run.
Up == ~ft.corrupt /\ "overrun" \notin spoiled /\ ("failed" \in spoiled => Beyond)

Runs(p) == Up /\ p \in alive /\ loop[p] = {} /\ \A f \in Files : ft.ref[f] <= MaxRef

Table(p) == open_file_table[p]

Used(p) == {fd \in Fd : Table(p)[fd] # NoFile}

SetFd(p, fd, f) == open_file_table' = [open_file_table EXCEPT ![p][fd] = f]

Count(p, n) == n_opfiles' = [n_opfiles EXCEPT ![p] = n]

\* The lowest free descriptor, if the process may have another one.
fd_alloc(p) == IF n_opfiles[p] = NOFILE \/ Used(p) = Fd THEN {} ELSE {Min(Fd \ Used(p))}

\* open(), once it has found its inode.
open(p) ==
    /\ Runs(p)
    /\ \E fd \in fd_alloc(p) :
          /\ ft.n # NFILE
          /\ ft' = file_alloc(ft)
          /\ SetFd(p, fd, Allocated(ft))
          /\ Count(p, n_opfiles[p] + 1)
    /\ UNCHANGED <<alive, loop, spoiled>>

dup(p, fd) ==
    /\ Runs(p) /\ fd \in Used(p)
    /\ \E fd2 \in fd_alloc(p) :
          /\ ft' = file_dup(ft, Table(p)[fd])
          /\ SetFd(p, fd2, Table(p)[fd])
          /\ Count(p, n_opfiles[p] + 1)
    /\ UNCHANGED <<alive, loop, spoiled>>

Entry(f) == IF f = NoFile THEN 0 ELSE 1

dup2_StillCounted(p, oldfd, newfd) ==
    /\ Runs(p) /\ oldfd # newfd
    /\ LET new == Table(p)[oldfd]
           t == CloseEntry(ft, Table(p)[newfd])
       IN  /\ ft' = IF new = NoFile THEN t ELSE file_dup(t, new)
           /\ SetFd(p, newfd, new)
           /\ Count(p, n_opfiles[p] + Entry(new))
    /\ UNCHANGED <<alive, loop, spoiled>>

\* newfd is closed and becomes a copy of oldfd, be that open or not.
dup2(p, oldfd, newfd) ==
    /\ Runs(p) /\ oldfd # newfd
    /\ LET new == Table(p)[oldfd]
           t == CloseEntry(ft, Table(p)[newfd])
       IN  /\ ft' = IF new = NoFile THEN t ELSE file_dup(t, new)
           /\ SetFd(p, newfd, new)
           /\ Count(p, n_opfiles[p] - Entry(Table(p)[newfd]) + Entry(new))
    /\ UNCHANGED <<alive, loop, spoiled>>

close(p, fd) ==
    /\ Runs(p) /\ fd \in Used(p)
    /\ ft' = file_close(ft, Table(p)[fd])
    /\ SetFd(p, fd, NoFile)
    /\ Count(p, n_opfiles[p] - 1)
    /\ UNCHANGED <<alive, loop, spoiled>>

-----------------------------------------------------------------------------
(* pipe.                                                                    *)

\* pipe_alloc(), whose two results are entries a and b of p's table.  On a
\* failure it closes whatever the two entries hold by then.
pipe_alloc(p, a, b, mem) ==
    LET t1 == file_alloc(ft)
        t2 == file_alloc(t1)
        f1 == Allocated(ft)
        f2 == Allocated(t1)
        Entry2(x, y) == open_file_table' = [open_file_table EXCEPT ![p][a] = x, ![p][b] = y]
    IN  CASE ft.n = NFILE     -> /\ ft' = CloseEntry(ft, Table(p)[b])
                                 /\ Entry2(NoFile, Table(p)[b])
          [] ft.n = NFILE - 1 -> /\ ft' = file_close(t1, f1)
                                 /\ Entry2(f1, NoFile)
          [] OTHER            -> /\ ft' = IF mem THEN t2 ELSE file_close(file_close(t2, f1), f2)
                                 /\ Entry2(f1, f2)

\* The two loops of pipe() stop at entries that are in use, or at the end of
\* the table.
pipe(p, mem) ==
    /\ Runs(p) /\ NOFILE - n_opfiles[p] >= 2
    /\ LET a == Min(Used(p) \cup {NOFILE})
           b == Min({fd \in Used(p) : fd > a} \cup {NOFILE})
       IN  IF b < NOFILE
           THEN /\ pipe_alloc(p, a, b, mem)
                /\ spoiled' = IF mem /\ ft.n < NFILE - 1 THEN spoiled ELSE spoiled \cup {"failed"}
           ELSE spoiled' = spoiled \cup {"overrun"} /\ UNCHANGED <<ft, open_file_table>>
    /\ UNCHANGED <<n_opfiles, alive, loop>>

-----------------------------------------------------------------------------
(* fork and exit.                                                           *)

\* The entries a loop of p has still to visit, of p's own table.
Left(p, i) == {fd \in Used(p) : fd >= i}

Visits(p, q, i) == loop' = [loop EXCEPT ![p] = {<<q, i>>}]

Ends(p) == loop' = [loop EXCEPT ![p] = {}]

\* Nobody uses or fills the table of q.
Idle(q) == q \notin alive /\ loop[q] = {} /\ \A r \in Procs : \A v \in loop[r] : v[1] # q

\* dup_proc_struct has a process descriptor and comes to the files.
fork(p, q) ==
    /\ Runs(p) /\ Idle(q)
    /\ Visits(p, q, 0)
    /\ UNCHANGED <<ft, open_file_table, n_opfiles, alive, spoiled>>

\* The loop up to the next file.
fork_dup(p) ==
    /\ Up
    /\ \E v \in loop[p] :
          /\ v[1] # p /\ Left(p, v[2]) # {}
          /\ LET fd == Min(Left(p, v[2]))
             IN  /\ ft' = file_dup(ft, Table(p)[fd])
                 /\ SetFd(v[1], fd, Table(p)[fd])
                 /\ Visits(p, v[1], fd + 1)
    /\ UNCHANGED <<n_opfiles, alive, spoiled>>

fork_end(p) ==
    /\ Up
    /\ \E v \in loop[p] :
          /\ v[1] # p /\ Left(p, v[2]) = {}
          /\ Count(v[1], n_opfiles[p])
          /\ alive' = alive \cup {v[1]}
    /\ Ends(p)
    /\ UNCHANGED <<ft, open_file_table, spoiled>>

\* exit() makes a process other than the first a zombie and comes to the files.
exit(p) ==
    /\ Runs(p) /\ p # First
    /\ Visits(p, p, 0)
    /\ alive' = alive \ {p}
    /\ UNCHANGED <<ft, open_file_table, n_opfiles, spoiled>>

\* It closes the next file and leaves the entry.
exit_close(p) ==
    /\ Up
    /\ \E v \in loop[p] :
          /\ v[1] = p /\ Left(p, v[2]) # {}
          /\ LET fd == Min(Left(p, v[2]))
             IN  ft' = file_close(ft, Table(p)[fd]) /\ Visits(p, p, fd + 1)
    /\ UNCHANGED <<open_file_table, n_opfiles, alive, spoiled>>

\* The entries are cleared before another process gets the descriptor
\* (get_proc_desc).
exit_end(p) ==
    /\ Up
    /\ \E v \in loop[p] : v[1] = p /\ Left(p, v[2]) = {}
    /\ open_file_table' = [open_file_table EXCEPT ![p] = [fd \in Fd |-> NoFile]]
    /\ Count(p, 0)
    /\ Ends(p)
    /\ UNCHANGED <<ft, alive, spoiled>>

ftable_init ==
    /\ ft = [ref |-> [f \in Files |-> 0], flist |-> SetToSeq(Files), n |-> 0, corrupt |-> FALSE]
    /\ open_file_table = [p \in Procs |-> [fd \in Fd |-> NoFile]]
    /\ n_opfiles = [p \in Procs |-> 0] /\ alive = {First} /\ loop = [p \in Procs |-> {}] /\ spoiled = {}

Next == \E p \in Procs :
    \/ open(p)
    \/ \E fd \in Fd : dup(p, fd)
    \/ \E oldfd, newfd \in Fd : dup2(p, oldfd, newfd)
    \/ \E fd \in Fd : close(p, fd)
    \/ \E mem \in KMALLOC : pipe(p, mem)
    \/ \E q \in Procs : fork(p, q)
    \/ fork_dup(p) \/ fork_end(p)
    \/ exit(p) \/ exit_close(p) \/ exit_end(p)

Spec == ftable_init /\ [][Next]_vars

-----------------------------------------------------------------------------

TypeOK ==
    /\ ft.ref \in [Files -> Nat] /\ ft.flist \in Seq(Files) /\ IsInjective(ft.flist)
    /\ ft.n \in 0 .. NFILE /\ ft.corrupt \in BOOLEAN
    /\ open_file_table \in [Procs -> [Fd -> Files \cup {NoFile}]]
    /\ n_opfiles \in [Procs -> Nat] /\ alive \subseteq Procs
    /\ \A p \in Procs : loop[p] = {} \/ \E v \in Procs \X (0 .. NOFILE) : loop[p] = {v}
    /\ spoiled \subseteq {"overrun", "failed"}

\* exit() has closed entry fd of p.
Closed(p, fd) == \E v \in loop[p] : v[1] = p /\ fd < v[2]

\* The descriptors of all processes that name f.
Naming(f) == {e \in Procs \X Fd : Table(e[1])[e[2]] = f /\ ~Closed(e[1], e[2])}

\* Every file a descriptor names is held for it: fork, dup, dup2, close and
\* exit in any order never free a file that somebody can still use, and the
\* free list is exactly the files without a reference (file.c:32-77).  After
\* a pipe() that failed, the entries it leaves behind may dangle.
NoDangling ==
    \A f \in Files : /\ "failed" \notin spoiled => ft.ref[f] >= Cardinality(Naming(f))
                     /\ Contains(ft.flist, f) <=> ft.ref[f] = 0

\* file_alloc() hands out a file whenever one is left: n_openfiles says how
\* many are in use, and the list has the others (file.c:37-46, 75-76).
OpenFilesCounted == ft.n = NFILE - Len(ft.flist)

\* n_opfiles, which decides whether a process may open another file, is the
\* number of its descriptors (sysfile.c:42, 69, 84-90, 118), unless a failed
\* pipe() has emptied an entry.
OpfilesCounted == spoiled = {} => \A p \in alive : n_opfiles[p] = Cardinality(Used(p))

-----------------------------------------------------------------------------
(* What the repository says of this code and the code does not do: the       *)
(* README tells for each how TLC refutes it.                                 *)

\* The panic of file.c:67, "file_close(): system corruption!!!": no file is
\* closed more often than it was opened.
NoCorruption == ~ft.corrupt

=============================================================================
