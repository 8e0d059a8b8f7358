------------------------------ MODULE MCFiles ------------------------------
(***************************************************************************)
(* The file system above the log: the inode cache (Icache), the contents   *)
(* of files (FileData), the directories (Dirs) and the open files          *)
(* (FileTable).  The modules have no variable in common, so that a         *)
(* behaviour moves one part and leaves the others as they were             *)
(* initialised.                                                            *)
(***************************************************************************)
EXTENDS Icache, TLC

CONSTANTS p1, p2, n1, n2, root_proc, child, file1, file2, file3, NoFile, x, y, Dot, DotDot, NoProc

CONSTANTS OpenProcs, OpenFiles, NOFILE, MaxRef     \* the parameters of FileTable

TwoProcs == {p1, p2}

TwoInos == {n1, n2}

TwoOpen == {root_proc, child}

ThreeFiles == {file1, file2, file3}

VARIABLES
    part,           \* the part that moves
    d, dinode, offset, wr, data,
    dir_ino, dir_ref, lock, pwd, opened, pr,
    ft, open_file_table, n_opfiles, alive, loop, spoiled

dataVars == <<d, dinode, offset, wr, data>>
dirVars == <<dir_ino, dir_ref, lock, pwd, opened, pr>>
tableVars == <<ft, open_file_table, n_opfiles, alive, loop, spoiled>>

\* Two files, with one direct block of two bytes each, on a disk of five blocks.
Contents == INSTANCE FileData WITH
    Procs <- {child}, Files <- {1, 2}, Opens <- {1, 2}, Inode <- <<1, 2>>, Values <- {1, 2},
    SIZE <- 5, NDIRECT <- 1, BLKSIZE <- 2, MAXBYTES <- 2, Lengths <- {1, 2, 3}, MaxSize <- 4,
    WORDS <- {0}, FullOnce <- FALSE

Does(op, abs, path) == [op |-> op, abs |-> abs, path |-> path, new |-> <<>>]

\* Every call, on names in the current directory and in a directory below the
\* root; none removes "." or "..".
AllCalls ==
    {Does("mkdir", FALSE, <<x>>), Does("unlink", FALSE, <<x>>), Does("creat", FALSE, <<y>>),
     Does("unlink", FALSE, <<y>>), Does("mknod", TRUE, <<x, y>>), Does("unlink", TRUE, <<x, y>>),
     Does("open", FALSE, <<y>>), Does("chdir", FALSE, <<x>>), Does("chdir", FALSE, <<DotDot>>),
     [op |-> "link", abs |-> FALSE, path |-> <<y>>, new |-> <<x>>],
     [op |-> "link", abs |-> FALSE, path |-> <<y>>, new |-> <<x, y>>]}

Tree == INSTANCE Dirs WITH
    Procs <- TwoProcs, NInodes <- 3, Names <- {x, y}, Calls <- AllCalls, MaxCalls <- 3,
    ino <- dir_ino, ref <- dir_ref

Open == INSTANCE FileTable WITH
    Procs <- OpenProcs, First <- root_proc, Files <- OpenFiles, KMALLOC <- BOOLEAN, Beyond <- FALSE

ASSUME FilesAssumption == Contents!FileDataAssumption /\ Tree!DirsAssumption /\ Open!FileTableAssumption

MCInit ==
    /\ part \in {"inodes", "contents", "tree", "open"}
    /\ inode_init /\ Contents!Init /\ Tree!Init /\ Open!ftable_init

MCNext ==
    \/ part = "inodes" /\ Next /\ UNCHANGED <<part, dataVars, dirVars, tableVars>>
    \/ part = "contents" /\ Contents!Next /\ UNCHANGED <<part, vars, dirVars, tableVars>>
    \/ part = "tree" /\ Tree!Next /\ UNCHANGED <<part, vars, dataVars, tableVars>>
    \/ part = "open" /\ Open!Next /\ UNCHANGED <<part, vars, dataVars, dirVars>>

MCSpec == MCInit /\ [][MCNext]_<<part, vars, dataVars, dirVars, tableVars>>

\* Processes other than root_proc and its child are interchangeable, and the
\* struct files differ only in their place on the free list.
Twins == Permutations(TwoProcs) \cup Permutations(ThreeFiles)

-----------------------------------------------------------------------------

\* All variables of the four modules have the types their declarations intend.
TypesOK ==
    /\ part = "inodes" => TypeOK
    /\ part = "contents" => Contents!TypeOK
    /\ part = "tree" => Tree!TypeOK
    /\ part = "open" => Open!TypeOK

\* References to inodes are counted through lookups, sharing and releases in
\* any order, so that no slot is recycled under somebody who is about to lock
\* it (inode.c:99-160, 265-287).
InodesHeld == part = "inodes" => RefsCounted /\ NoDie1

\* The bitmap is exactly the blocks of files and metadata, and no block is in
\* two places (bio.c:221-262, inode.c:215-247, 304-343).
UsedIsOwned == part = "contents" => Contents!UsedIsOwned

\* Reading gives what was last written to each byte, and the inode on disk
\* misses no block that a write has mapped (inode.c:374-434).  The files of
\* this instance end before the doubly indirect blocks, where bmap uses
\* entries[r-1] (inode.c:360) and ReadsBack fails.
ReadsBack == part = "contents" => Contents!ReadsBack /\ Contents!InodeStored

\* nlink counts the names and what calls on their way hold, so that nobody
\* frees an inode that is named or in use (inode.c:265-287, 500-536,
\* sysfile.c:149-284).
LinksCounted == part = "tree" => Tree!LinksCounted /\ Tree!UsedIsAllocated

\* No struct file is freed while a descriptor names it, and n_openfiles and
\* n_opfiles, which decide whether another file may be opened, are exact
\* (file.c:32-77, sysfile.c:42-118).
FilesCounted ==
    part = "open" => Open!NoDangling /\ Open!OpenFilesCounted /\ Open!OpfilesCounted

=============================================================================
