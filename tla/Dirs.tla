-------------------------------- MODULE Dirs --------------------------------
(***************************************************************************)
(* The tree of directories: walking a path, looking a name up and adding   *)
(* it (dirlookup, dirlink and namex in kern/inode.c), and the calls on     *)
(* names: link, unlink, creat, mknod, open, mkdir, chdir and the close of  *)
(* an open file (kern/sysfile.c).                                          *)
(*                                                                         *)
(* A step ends where the code may wait for an inode's lock.  A process     *)
(* that holds no other lock when it drops a reference does so in the same  *)
(* step; one that holds a lock does it in a step of its own, as iput()     *)
(* locks the inode again.  A directory's contents are a function from      *)
(* names to inode numbers, 0 for none.  The inode cache is taken to keep   *)
(* one slot per inode (module Icache) and the log to have room (Log).      *)
(*                                                                         *)
(* An operator named Op_Why is a defective Op, kept to test that the       *)
(* properties notice the defect; no definition uses it.                    *)
(***************************************************************************)
EXTENDS Integers, SequencesExt, FiniteSetsExt

CONSTANTS
    Procs,
    NoProc,
    NInodes,        \* inode numbers 1 .. NInodes, 1 is the root
    Names,          \* other than "." and ".."
    Dot, DotDot,
    Calls,          \* the calls a process may make, see Call
    MaxCalls        \* bound: how many calls each process makes

Ino == 1 .. NInodes
Root == 1
AllNames == Names \cup {Dot, DotDot}
Types == {"none", "file", "dir", "dev"}
Nothing == [n \in AllNames |-> 0]

\* link has two paths; abs: the path starts at the root.
Call == [op : {"link", "unlink", "creat", "mknod", "mkdir", "open", "chdir"},
         abs : BOOLEAN, path : Seq(AllNames), new : Seq(AllNames)]

DirsAssumption ==
    /\ NInodes \in Nat \ {0} /\ MaxCalls \in Nat /\ NoProc \notin Procs
    /\ \A c \in Calls : c \in Call

VARIABLES
    ino,            \* type, nlink and entries of each inode, and history: how many of
                    \* its names no lookup finds (lost)
    ref,
    lock,           \* who holds an inode's lock
    pwd,
    opened,         \* the inode a process has open, or 0
    pr              \* where a process is, see TypeOK

vars == <<ino, ref, lock, pwd, opened, pr>>

-----------------------------------------------------------------------------

Idle(p) == [pr[p] EXCEPT !.pc = "idle", !.cur = 0, !.i = 0, !.rest = <<>>]

At(p, l) == pr[p].pc = l

IsFree(i) == lock[i] = NoProc

Unlocked_Not(i) == lock

\* iunlock().
Unlocked(i) == [lock EXCEPT ![i] = NoProc]

\* dirlookup(): the inode number of name n in d, or 0.
dirlookup(d, n) == IF ino[d].type = "dir" THEN ino[d].ent[n] ELSE 0

Took_Not(r, i) == r

\* iget() and iref(): one reference more.
Took(r, i) == [r EXCEPT ![i] = @ + 1]

Dies_Early(t, r, i) == t[i].nlink = 0

\* iput() of i frees the inode: it has no name, and this is the last reference.
Dies(t, r, i) == t[i].nlink = 0 /\ r[i] = 1

Gone == [type |-> "none", nlink |-> 0, ent |-> Nothing, lost |-> 0]

\* iput() of i: t and r are the inodes and references before it.  Entries that
\* it still has are gone with it, without a change of what they name.
Inodes(t, r, i) ==
    IF Dies(t, r, i)
    THEN [j \in Ino |-> IF j = i THEN Gone
                        ELSE [t[j] EXCEPT !.lost = @ + Cardinality({n \in Names : t[i].type = "dir" /\ t[i].ent[n] = j})]]
    ELSE t

\* A name in what is no directory is lost at once.
Lost(di) == IF ino[di].type = "dir" THEN 0 ELSE 1

Refs(r, i) == [r EXCEPT ![i] = @ - 1]

\* The process ends its call and drops i, holding nothing else.
EndPut(p, t, r, i) ==
    /\ ino' = Inodes(t, r, i) /\ ref' = Refs(r, i)
    /\ pr' = [pr EXCEPT ![p] = Idle(p)]

\* A field that counts to 2^16 - 1.
Ushort(n) == n % 65536

-----------------------------------------------------------------------------
(* namex.                                                                   *)

\* Calls that want the last directory and the last name (namep).
OfParent(c, second) == second \/ c.op \in {"unlink", "creat", "mknod", "mkdir"}

WalkFrom(p, c, path, kept) ==
    LET start == IF c.abs THEN Root ELSE pwd[p]
    IN  /\ ref' = Took(ref, start)
        /\ pr' = [pr EXCEPT ![p] = [pc |-> IF path = <<>> THEN "at" ELSE "walk", call |-> c,
                                    cur |-> start, rest |-> path, i |-> kept,
                                    left |-> IF kept = 0 THEN @.left - 1 ELSE @.left]]

Begin(p, c) ==
    /\ At(p, "idle") /\ pr[p].left > 0
    /\ WalkFrom(p, c, c.path, 0)
    /\ UNCHANGED <<ino, lock, pwd, opened>>

\* One turn of namex's loop.  Failing, the second walk of link() goes on to
\* take the link back.
Walk(p) ==
    /\ At(p, "walk") /\ IsFree(pr[p].cur)
    /\ LET w == pr[p]
           next == dirlookup(w.cur, Head(w.rest))
           last == Len(w.rest) = 1
       IN  IF last /\ OfParent(w.call, w.i # 0)
           THEN pr' = [pr EXCEPT ![p].pc = "at"] /\ UNCHANGED <<ino, ref>>
           ELSE LET r == IF next = 0 THEN ref ELSE Took(ref, next)
                IN  IF next = 0 /\ w.i = 0
                    THEN EndPut(p, ino, ref, w.cur)
                    ELSE /\ ino' = Inodes(ino, r, w.cur) /\ ref' = Refs(r, w.cur)
                         /\ pr' = [pr EXCEPT ![p].pc = IF next = 0 THEN "unlink i"
                                                       ELSE IF last THEN "at" ELSE "walk",
                                             ![p].cur = next, ![p].rest = Tail(@)]
    /\ UNCHANGED <<lock, pwd, opened>>

\* The inode or the directory the walk has found, and the last name.
Found(p, ops) == At(p, "at") /\ pr[p].call.op \in ops /\ IsFree(pr[p].cur)

LastName(p) == Head(pr[p].rest)

-----------------------------------------------------------------------------
(* unlink.                                                                  *)

is_dir_empty(i) == \A n \in Names : ino[i].ent[n] = 0

\* Lock the directory and look the name up.
UnlinkDir(p) ==
    /\ Found(p, {"unlink"})
    /\ LET di == pr[p].cur
           i == dirlookup(di, LastName(p))
       IN  IF i = 0
           THEN EndPut(p, ino, ref, di) /\ UNCHANGED lock
           ELSE /\ lock' = [lock EXCEPT ![di] = p]
                /\ ref' = Took(ref, i)
                /\ pr' = [pr EXCEPT ![p].pc = "lock i", ![p].i = i]
                /\ UNCHANGED ino
    /\ UNCHANGED <<pwd, opened>>

\* The directory without the name, and with one link less if that was a
\* directory's.
WithoutName(di, n, i) ==
    [ino EXCEPT ![di].ent[n] = 0,
                ![di].nlink = IF ino[i].type = "dir" THEN Ushort(@ - 1) ELSE @]

\* Lock the inode, remove the name and unlock the directory, or refuse.
UnlinkName(p) ==
    /\ At(p, "lock i")
    /\ LET di == pr[p].cur
           i == pr[p].i
       IN  /\ IsFree(i)
           /\ IF ino[i].type = "dir" /\ ~is_dir_empty(i)
              THEN pr' = [pr EXCEPT ![p].pc = "put i"] /\ UNCHANGED <<ino, lock>>
              ELSE /\ ino' = WithoutName(di, LastName(p), i)
                   /\ lock' = [lock EXCEPT ![i] = p, ![di] = NoProc]
                   /\ pr' = [pr EXCEPT ![p].pc = "put di"]
    /\ UNCHANGED <<ref, pwd, opened>>

\* It refused: drop the inode while the directory is locked, then that.
UnlinkRefused(p) ==
    /\ At(p, "put i") /\ IsFree(pr[p].i)
    /\ LET di == pr[p].cur
           i == pr[p].i
       IN  /\ EndPut(p, Inodes(ino, ref, i), Refs(ref, i), di)
           /\ lock' = Unlocked(di)
    /\ UNCHANGED <<pwd, opened>>

\* Drop the directory while the inode is locked, then take the link away and
\* drop the inode.
UnlinkInode(p) ==
    /\ At(p, "put di") /\ pr[p].call.op = "unlink" /\ IsFree(pr[p].cur)
    /\ LET di == pr[p].cur
           i == pr[p].i
           t == Inodes(ino, ref, di)
       IN  /\ EndPut(p, [t EXCEPT ![i].nlink = Ushort(@ - 1)], Refs(ref, di), i)
           /\ lock' = Unlocked(i)
    /\ UNCHANGED <<pwd, opened>>

-----------------------------------------------------------------------------
(* creat: open with O_CREAT, mknod and mkdir.                               *)

NewType(op) == CASE op = "creat" -> "file" [] op = "mknod" -> "dev" [] op = "mkdir" -> "dir"

\* ialloc(): the lowest number that is free on disk.
ialloc == Min({i \in Ino : ino[i].type = "none"})

\* The inodes once i of type t has the name n in di.  dirlink() does not ask
\* whether di is a directory.
WithNew_NoParentLink(di, n, i, t) ==
    [ino EXCEPT ![i] = [type |-> t, nlink |-> 1, lost |-> Lost(di),
                        ent |-> IF t = "dir" THEN [Nothing EXCEPT ![Dot] = i, ![DotDot] = di] ELSE Nothing],
                ![di].ent[n] = i]

WithNew(di, n, i, t) ==
    [ino EXCEPT ![i] = [type |-> t, nlink |-> 1, lost |-> Lost(di),
                        ent |-> IF t = "dir" THEN [Nothing EXCEPT ![Dot] = i, ![DotDot] = di] ELSE Nothing],
                ![di].ent[n] = i,
                ![di].nlink = IF t = "dir" THEN Ushort(@ + 1) ELSE @]

\* Lock the directory; the name exists, or a new inode gets it.  The new one
\* stays locked while the directory is unlocked and dropped.  With no free
\* number creat() panics, and the process stays here.
creat(p) ==
    /\ Found(p, {"creat", "mknod", "mkdir"})
    /\ LET di == pr[p].cur
           i == dirlookup(di, LastName(p))
           r == Took(ref, i)
       IN  IF i # 0
           THEN /\ ino' = Inodes(ino, r, di) /\ ref' = Refs(r, di)
                /\ pr' = [pr EXCEPT ![p].pc = "exists", ![p].cur = 0, ![p].i = i]
                /\ UNCHANGED lock
           ELSE /\ \E j \in Ino : ino[j].type = "none"
                /\ ref' = Took(ref, ialloc)
                /\ ino' = WithNew(di, LastName(p), ialloc, NewType(pr[p].call.op))
                /\ lock' = [lock EXCEPT ![ialloc] = p]
                /\ pr' = [pr EXCEPT ![p].pc = "put di", ![p].i = ialloc]
    /\ UNCHANGED <<pwd, opened>>

\* The end of open(), mknod() and mkdir(): unlock the inode; open() keeps the
\* reference, the others drop it.  A second open finds no descriptor.
Finish(p, t, r, i) ==
    IF pr[p].call.op \in {"creat", "open"} /\ opened[p] = 0
    THEN /\ ino' = t /\ ref' = r /\ opened' = [opened EXCEPT ![p] = i]
         /\ pr' = [pr EXCEPT ![p] = Idle(p)]
    ELSE EndPut(p, t, r, i) /\ UNCHANGED opened

\* Drop the directory while the new inode is locked.
CreatEnd(p) ==
    /\ At(p, "put di") /\ pr[p].call.op # "unlink" /\ IsFree(pr[p].cur)
    /\ LET di == pr[p].cur IN Finish(p, Inodes(ino, ref, di), Refs(ref, di), pr[p].i)
    /\ lock' = Unlocked(pr[p].i)
    /\ UNCHANGED pwd

\* The name exists: only open() may have it, and only if it is a file.
CreatExists(p) ==
    /\ At(p, "exists") /\ IsFree(pr[p].i)
    /\ IF pr[p].call.op = "creat" /\ ino[pr[p].i].type = "file"
       THEN Finish(p, ino, ref, pr[p].i)
       ELSE EndPut(p, ino, ref, pr[p].i) /\ UNCHANGED opened
    /\ UNCHANGED <<lock, pwd>>

-----------------------------------------------------------------------------
(* open, chdir and close.                                                   *)

\* open() for reading; a process in the model has one file open at a time.
open(p) ==
    /\ Found(p, {"open"})
    /\ Finish(p, ino, ref, pr[p].cur)
    /\ UNCHANGED <<lock, pwd>>

close(p) ==
    /\ At(p, "idle") /\ opened[p] # 0 /\ IsFree(opened[p])
    /\ ino' = Inodes(ino, ref, opened[p]) /\ ref' = Refs(ref, opened[p])
    /\ opened' = [opened EXCEPT ![p] = 0]
    /\ UNCHANGED <<lock, pwd, pr>>

chdir(p) ==
    /\ Found(p, {"chdir"})
    /\ LET i == pr[p].cur
       IN  IF ino[i].type # "dir"
           THEN EndPut(p, ino, ref, i) /\ UNCHANGED pwd
           ELSE /\ IsFree(pwd[p])
                /\ EndPut(p, ino, ref, pwd[p])
                /\ pwd' = [pwd EXCEPT ![p] = i]
    /\ UNCHANGED <<lock, opened>>

-----------------------------------------------------------------------------
(* link.                                                                    *)

\* The inode gets its link before its name; then the second path.
LinkInode(p) ==
    /\ Found(p, {"link"}) /\ pr[p].i = 0
    /\ LET i == pr[p].cur
       IN  IF ino[i].type = "dir"
           THEN EndPut(p, ino, ref, i)
           ELSE /\ ino' = [ino EXCEPT ![i].nlink = Ushort(@ + 1)]
                /\ WalkFrom(p, pr[p].call, pr[p].call.new, i)
    /\ UNCHANGED <<lock, pwd, opened>>

\* Lock the directory; the name exists already, or the inode gets it.
LinkName(p) ==
    /\ Found(p, {"link"}) /\ pr[p].i # 0
    /\ LET di == pr[p].cur
           other == dirlookup(di, LastName(p))
       IN  /\ lock' = [lock EXCEPT ![di] = p]
           /\ IF other # 0
              THEN /\ ref' = Took(ref, other)
                   /\ pr' = [pr EXCEPT ![p].pc = "put other"]
                   /\ UNCHANGED ino
              ELSE /\ ino' = [ino EXCEPT ![di].ent[LastName(p)] = pr[p].i, ![pr[p].i].lost = @ + Lost(di)]
                   /\ pr' = [pr EXCEPT ![p].pc = "put linked"]
                   /\ UNCHANGED ref
    /\ UNCHANGED <<pwd, opened>>

\* dirlink() found the name: drop its inode while the directory is locked, then
\* that, and go on to take the link back.
LinkRefused(p) ==
    /\ At(p, "put other")
    /\ LET di == pr[p].cur
           other == dirlookup(di, LastName(p))
           t == Inodes(ino, ref, other)
           r == Refs(ref, other)
       IN  /\ IsFree(other)
           /\ ino' = Inodes(t, r, di) /\ ref' = Refs(r, di)
           /\ lock' = Unlocked(di)
    /\ pr' = [pr EXCEPT ![p].pc = "unlink i", ![p].cur = 0]
    /\ UNCHANGED <<pwd, opened>>

\* Drop the inode while the directory is locked, then that.
LinkEnd(p) ==
    /\ At(p, "put linked") /\ IsFree(pr[p].i)
    /\ EndPut(p, Inodes(ino, ref, pr[p].i), Refs(ref, pr[p].i), pr[p].cur)
    /\ lock' = Unlocked(pr[p].cur)
    /\ UNCHANGED <<pwd, opened>>

LinkFailed_KeepsLink(p) ==
    /\ At(p, "unlink i") /\ IsFree(pr[p].i)
    /\ EndPut(p, ino, ref, pr[p].i)
    /\ UNCHANGED <<lock, pwd, opened>>

\* The second path leads nowhere, or its name exists.
LinkFailed(p) ==
    /\ At(p, "unlink i") /\ IsFree(pr[p].i)
    /\ EndPut(p, [ino EXCEPT ![pr[p].i].nlink = Ushort(@ - 1)], ref, pr[p].i)
    /\ UNCHANGED <<lock, pwd, opened>>

-----------------------------------------------------------------------------

Init ==
    /\ ino = [i \in Ino |-> IF i = Root
                            THEN [type |-> "dir", nlink |-> 1, lost |-> 0,
                                  ent |-> [Nothing EXCEPT ![Dot] = Root, ![DotDot] = Root]]
                            ELSE Gone]
    /\ ref = [i \in Ino |-> IF i = Root THEN Cardinality(Procs) ELSE 0]
    /\ lock = [i \in Ino |-> NoProc]
    /\ pwd = [p \in Procs |-> Root]
    /\ opened = [p \in Procs |-> 0]
    /\ pr = [p \in Procs |-> [pc |-> "idle", call |-> CHOOSE c \in Calls : TRUE, cur |-> 0,
                              rest |-> <<>>, i |-> 0, left |-> MaxCalls]]

\* A process inside a call takes its next step.
Step(p) ==
    \/ Walk(p)
    \/ UnlinkDir(p) \/ UnlinkName(p) \/ UnlinkRefused(p) \/ UnlinkInode(p)
    \/ creat(p) \/ CreatEnd(p) \/ CreatExists(p)
    \/ open(p) \/ chdir(p)
    \/ LinkInode(p) \/ LinkName(p) \/ LinkRefused(p) \/ LinkEnd(p) \/ LinkFailed(p)

Next == \E p \in Procs : (\E c \in Calls : Begin(p, c)) \/ Step(p) \/ close(p)

Spec == Init /\ [][Next]_vars

\* A process that can go on does so.
FairSpec == Spec /\ \A p \in Procs : WF_vars(Step(p))

-----------------------------------------------------------------------------

TypeOK ==
    /\ ino \in [Ino -> [type : Types, nlink : 0 .. 65535, lost : Nat,
                       ent : [AllNames -> 0 .. NInodes]]]
    /\ ref \in [Ino -> Nat] /\ lock \in [Ino -> Procs \cup {NoProc}]
    /\ pwd \in [Procs -> Ino] /\ opened \in [Procs -> 0 .. NInodes]
    /\ \A p \in Procs :
          /\ pr[p].pc \in {"idle", "walk", "at", "lock i", "put i", "put di", "exists", "put other", "put linked",
                           "unlink i"}
          /\ pr[p].cur \in 0 .. NInodes /\ pr[p].i \in 0 .. NInodes /\ pr[p].left \in 0 .. MaxCalls
          /\ pr[p].rest \in Seq(AllNames) /\ pr[p].call \in Calls

\* The names of i in directories, and the subdirectories of i.
NamesOf(i) == {e \in Ino \X Names : ino[e[1]].type = "dir" /\ ino[e[1]].ent[e[2]] = i}
SubDirs(i) == {n \in Names : ino[i].ent[n] # 0 /\ ino[ino[i].ent[n]].type = "dir"}

\* The links that calls on their way hold: a link without its name yet, and a
\* name removed whose link is still there.
InTransit(i) ==
    {p \in Procs : pr[p].i = i /\ \/ pr[p].call.op = "link" /\ pr[p].pc \in {"walk", "at", "put other", "unlink i"}
                                  \/ pr[p].call.op = "unlink" /\ pr[p].pc = "put di"}

\* nlink is exactly the number of names, of links that calls half done hold, and
\* of a directory's subdirectories; names count on when
\* the directory they are in was removed while a process was on its way into it,
\* or when it is none (sysfile.c:149-171, 216-236, 264-284; ParentExists and
\* EntriesInDirectories, below).
LinksCounted ==
    \A i \in Ino \ {Root} : ino[i].type # "none" =>
       ino[i].nlink = Cardinality(NamesOf(i)) + Cardinality(InTransit(i)) + ino[i].lost
                      + (IF ino[i].type = "dir" THEN Cardinality(SubDirs(i)) ELSE 0)

\* Nobody frees an inode that a directory names or that a process is using:
\* walks, unlinks and creations in any interleaving (inode.c:265-287, 500-536).
UsedIsAllocated ==
    \A i \in Ino : ino[i].type = "none" =>
       /\ NamesOf(i) = {}
       /\ ref[i] = 0
       /\ \A p \in Procs : i \notin {pr[p].cur, pr[p].i, pwd[p], opened[p]}

\* "called at the end of each FS system call." (log.c:131): every call comes
\* to its end, where it closes its transaction.
EveryCallEnds == \A p \in Procs : pr[p].pc # "idle" ~> pr[p].pc = "idle"

-----------------------------------------------------------------------------
(* What the repository says of this code and the code does not do: the       *)
(* README tells for each how TLC refutes it.                                 *)

\* The panic of inode.c:180, "ilock die2!!!": a directory's entries, "." and
\* ".." included, name inodes that exist.
EntriesExist ==
    \A d \in Ino, n \in AllNames :
       ino[d].type = "dir" /\ ino[d].ent[n] # 0 => ino[ino[d].ent[n]].type # "none"

\* "Write a new directory entry (name, inum) into the directory dp."
\* (inode.c:466): only directories have entries.
EntriesInDirectories ==
    \A d \in Ino, n \in AllNames : ino[d].ent[n] # 0 => ino[d].type = "dir"

\* "parent dir does not exist!!!" (sysfile.c:248): creat() makes nothing in a
\* directory that is gone.
ParentExists ==
    \A d \in Ino, n \in Names : ino[d].type = "dir" /\ ino[d].nlink = 0 => ino[d].ent[n] = 0

=============================================================================
