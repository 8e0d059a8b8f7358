------------------------------ MODULE FileData ------------------------------
(***************************************************************************)
(* The contents of files: blocks and the bitmap (balloc, bzero and bfree   *)
(* in kern/bio.c), the map from a file's blocks to the disk's and reading  *)
(* and writing through it (bmap, readi, writei and ifree in kern/inode.c), *)
(* and the offsets of open files (file_read and file_write in kern/file.c).*)
(*                                                                         *)
(* readi, writei and ifree run with the inode locked and the bitmap is     *)
(* used with its buffer locked, so a call of them is one step; file_write  *)
(* drops the lock between its pieces.  A cell stands for a byte of a       *)
(* file's block and for an entry of an indirect block.  Files of type      *)
(* T_DEV are read and written by their device and are not here.            *)
(*                                                                         *)
(* An operator named Op_Why is a defective Op, kept to test that the       *)
(* properties notice the defect; no definition uses it.                    *)
(***************************************************************************)
EXTENDS Integers, SequencesExt, FiniteSetsExt

CONSTANTS
    Procs,          \* writers
    Files,          \* inodes
    Opens,          \* struct files
    Inode,          \* the inode of a struct file
    Values,         \* what a process writes
    SIZE,           \* blocks of the file system
    NDIRECT,
    BLKSIZE,        \* cells of a block, NINDIRECT too
    MAXBYTES,       \* what file_write writes in one transaction
    Lengths,        \* the sizes of reads and writes
    MaxSize,        \* bound: the size of a file
    WORDS,          \* what may be in memory in front of a buffer's data
    FullOnce        \* bound: whether a run goes on once the disk is full

NINDIRECT == BLKSIZE
NDINDIRECT == NINDIRECT * NINDIRECT
MAXFILESIZ == (NDIRECT + NINDIRECT + NDINDIRECT) * BLKSIZE

FileDataAssumption ==
    /\ IsFiniteSet(Files) /\ Inode \in [Opens -> Files]
    /\ SIZE \in Nat /\ SIZE > 2 /\ NDIRECT \in Nat \ {0} /\ BLKSIZE \in Nat \ {0}
    /\ MAXBYTES \in Nat \ {0} /\ Lengths \subseteq Nat /\ MaxSize \in Nat
    /\ Values \subseteq Nat /\ WORDS \subseteq 0 .. SIZE - 1 /\ FullOnce \in BOOLEAN

Block == 0 .. SIZE - 1
BitBlock == 1               \* the block with the bitmap
Metadata == {0, BitBlock}   \* the blocks mkfs marks as used
Cell == 0 .. BLKSIZE - 1
Zeros == [c \in Cell |-> 0]

VARIABLES
    d,              \* the disk and the inodes in memory, see Disk
    dinode,         \* the inodes on disk
    offset,         \* of each struct file
    wr,             \* what a process in file_write has left: file, bytes and value
    data            \* history: what was written to each file

vars == <<d, dinode, offset, wr, data>>

\* bits: blocks marked as used; blk: their contents; busy: buffers that were
\* never released; stuck: the call sleeps for such a buffer; full: balloc has
\* failed; word: what is in front of a buffer.
Disk ==
    [bits : SUBSET Block, blk : [Block -> [Cell -> Nat]], busy : SUBSET Block,
     stuck : BOOLEAN, full : BOOLEAN, word : Block,
     ino : [Files -> [addrs : [0 .. NDIRECT + 1 -> Block], size : Nat]]]

-----------------------------------------------------------------------------
(* Blocks.  Each operator takes a disk and returns the next one, or a pair  *)
(* of that and a block number.                                              *)

bread(s, b) == IF b \in s.busy THEN [s EXCEPT !.stuck = TRUE] ELSE s

\* The lowest block whose bit is clear.
FirstFree(s) == Min(Block \ s.bits)

bzero_Not(s, b) == s

bzero(s, b) == [s EXCEPT !.blk[b] = Zeros]

balloc(s) ==
    IF s.stuck \/ BitBlock \in s.busy THEN <<[s EXCEPT !.stuck = TRUE], 0>>
    ELSE IF s.bits = Block THEN <<[s EXCEPT !.full = TRUE], 0>>
    ELSE LET b == FirstFree(s) IN <<bzero([s EXCEPT !.bits = @ \cup {b}], b), b>>

bfree(s, b) ==
    IF s.stuck \/ BitBlock \in s.busy THEN [s EXCEPT !.stuck = TRUE]
    ELSE IF b \notin s.bits THEN [s EXCEPT !.busy = @ \cup {BitBlock}]
    ELSE [s EXCEPT !.bits = @ \ {b}]

-----------------------------------------------------------------------------
(* bmap.                                                                    *)

\* Entry k of the inode, allocated when it is empty.
InodeEntry(s, f, k) ==
    LET a == s.ino[f].addrs[k]
        r == balloc(s)
    IN  IF a # 0 THEN <<s, a>> ELSE <<[r[1] EXCEPT !.ino[f].addrs[k] = r[2]], r[2]>>

\* Entry k of block b, the word in front of the buffer if k is -1.  When there
\* is no block for it, the buffer of b is not released.
BlockEntry(s, b, k) ==
    LET t == bread(s, b)
        a == IF k = -1 THEN s.word ELSE s.blk[b][k]
        r == balloc(t)
    IN  CASE a # 0   -> <<t, a>>
          [] r[2] = 0 -> <<[r[1] EXCEPT !.busy = @ \cup {b}], 0>>
          [] OTHER    -> <<IF k = -1 THEN [r[1] EXCEPT !.word = r[2]]
                                     ELSE [r[1] EXCEPT !.blk[b][k] = r[2]], r[2]>>

\* op, unless the step before found no block.
Then(r, op(_, _)) == IF r[2] = 0 THEN r ELSE op(r[1], r[2])

bmap(s, f, lblkno) ==
    LET l1 == lblkno - NDIRECT
        l2 == l1 - NINDIRECT
    IN  CASE l1 < 0 -> InodeEntry(s, f, lblkno)
          [] l1 >= 0 /\ l2 < 0 ->
               Then(InodeEntry(s, f, NDIRECT), LAMBDA t, b : BlockEntry(t, b, l1))
          [] l2 >= 0 /\ l2 < NDINDIRECT ->
               Then(Then(InodeEntry(s, f, NDIRECT + 1),
                         LAMBDA t, b : BlockEntry(t, b, l2 \div NINDIRECT)),
                    LAMBDA t, b : BlockEntry(t, b, (l2 % NINDIRECT) - 1))
          [] OTHER -> <<s, 0>>

-----------------------------------------------------------------------------
(* readi, writei and ifree.                                                 *)

Least(a, b) == IF a < b THEN a ELSE b

\* The blocks that bytes off .. off + n - 1 of a file lie in, in order.
Blocks(off, n) ==
    IF n = 0 THEN <<>>
    ELSE LET first == off \div BLKSIZE
         IN  [i \in 1 .. (off + n - 1) \div BLKSIZE - first + 1 |-> first + i - 1]

ToEnd_Not(s, f, off, n) == IF off <= s.ino[f].size THEN n ELSE 0

\* How many of n bytes there are at off.
ToEnd(s, f, off, n) == Least(n, s.ino[f].size - off)

\* What readi() of n bytes at off returns, and the disk after it.
readi(s, f, off, n) ==
    LET len == ToEnd(s, f, off, n)
        Piece(l) == {c \in Cell : l * BLKSIZE + c >= off /\ l * BLKSIZE + c < off + len}
        Read(r, l) == LET m == bmap(r[1], f, l)
                          t == bread(m[1], m[2])
                      IN  <<t, r[2] \o SetToSortSeq({<<c, t.blk[m[2]][c]>> : c \in Piece(l)},
                                                    LAMBDA x, y : x[1] < y[1])>>
        r == FoldLeft(Read, <<s, <<>>>>, Blocks(off, len))
    IN  <<r[1], [i \in 1 .. Len(r[2]) |-> r[2][i][2]]>>

\* How many of n bytes writei() writes at off.
Room(off, n) == Least(n, MAXFILESIZ - off)

\* The end of writei: the size, if the file grew.
writei_Size(s, f, end) == IF end > s.ino[f].size THEN [s EXCEPT !.ino[f].size = end] ELSE s

writei(s, f, off, n, v) ==
    LET len == Room(off, n)
        Piece(l) == {c \in Cell : l * BLKSIZE + c >= off /\ l * BLKSIZE + c < off + len}
        Write(t, l) == LET m == bmap(t, f, l)
                           u == bread(m[1], m[2])
                       IN  IF t.stuck \/ u.stuck THEN u
                           ELSE [u EXCEPT !.blk[m[2]] = [c \in Cell |-> IF c \in Piece(l) THEN v ELSE @[c]]]
    IN  writei_Size(FoldLeft(Write, s, Blocks(off, len)), f, off + len)

Entries(s, b) == SelectSeq([i \in 1 .. NINDIRECT |-> s.blk[b][i - 1]], LAMBDA a : a # 0)

\* The blocks an indirect block and a doubly indirect block give back.
Indirect_Kept(s, b) == IF b = 0 THEN <<>> ELSE Entries(s, b)

Indirect(s, b) == IF b = 0 THEN <<>> ELSE Append(Entries(s, b), b)

Doubly(s, b) ==
    IF b = 0 THEN <<>>
    ELSE Append(FlattenSeq([i \in DOMAIN Entries(s, b) |-> Indirect(s, Entries(s, b)[i])]), b)

ifree(s, f) ==
    LET a == s.ino[f].addrs
        direct == SelectSeq([i \in 1 .. NDIRECT |-> a[i - 1]], LAMBDA x : x # 0)
        all == direct \o Indirect(s, a[NDIRECT]) \o Doubly(s, a[NDIRECT + 1])
        t == FoldLeft(bfree, FoldLeft(bread, s, all), all)
    IN  [t EXCEPT !.ino[f] = [addrs |-> [k \in 0 .. NDIRECT + 1 |-> 0], size |-> 0]]

-----------------------------------------------------------------------------
(* Calls on open files.                                                     *)

Goes == ~d.stuck /\ (d.full => FullOnce)

iupdate_Lost(s, f) == dinode' = [dinode EXCEPT ![f].size = s.ino[f].size]

\* iupdate(), at the end of ifree and of a writei that grew the file.
iupdate(s, f) == dinode' = [dinode EXCEPT ![f] = s.ino[f]]

file_read(o, n, w) ==
    /\ Goes
    /\ LET f == Inode[o]
           r == readi([d EXCEPT !.word = w], f, offset[o], n)
       IN  /\ offset[o] <= d.ino[f].size
           /\ d' = r[1]
           /\ offset' = [offset EXCEPT ![o] = @ + Len(r[2])]
    /\ UNCHANGED <<dinode, wr, data>>

\* A process enters file_write.
file_write(p, o, n, v) ==
    /\ Goes /\ wr[p].left = 0
    /\ wr' = [wr EXCEPT ![p] = [o |-> o, left |-> n, v |-> v]]
    /\ UNCHANGED <<d, dinode, offset, data>>

Overwritten(s, off, n, v) ==
    [i \in 1 .. (IF off + n > Len(s) THEN off + n ELSE Len(s)) |->
        IF i > off /\ i <= off + n THEN v ELSE s[i]]

\* One turn of its loop: a transaction with one writei at the file's offset.
\* Writing less than asked for ends the call with -1.
WritePiece(p, w) ==
    /\ Goes /\ wr[p].left > 0
    /\ LET o == wr[p].o
           f == Inode[o]
           perop == Least(wr[p].left, MAXBYTES)
           len == Room(offset[o], perop)
           s == writei([d EXCEPT !.word = w], f, offset[o], perop, wr[p].v)
       IN  /\ IF offset[o] > d.ino[f].size
              THEN wr' = [wr EXCEPT ![p].left = 0] /\ UNCHANGED <<d, dinode, offset, data>>
              ELSE /\ offset[o] + len <= MaxSize
                   /\ d' = s
                   /\ IF s.ino[f].size > d.ino[f].size THEN iupdate(s, f) ELSE UNCHANGED dinode
                   /\ offset' = [offset EXCEPT ![o] = @ + len]
                   /\ data' = [data EXCEPT ![f] = Overwritten(@, offset[o], len, wr[p].v)]
                   /\ wr' = [wr EXCEPT ![p].left = IF len = perop THEN @ - len ELSE 0]

\* Opening the file anew starts at its beginning.
Reopen(o) ==
    /\ Goes /\ \A p \in Procs : wr[p].left = 0 \/ wr[p].o # o
    /\ offset' = [offset EXCEPT ![o] = 0]
    /\ UNCHANGED <<d, dinode, wr, data>>

\* The last name and the last reference are gone: iput frees the blocks, and
\* the inode number may serve another file.
Delete(f, w) ==
    /\ Goes /\ \A p \in Procs : wr[p].left = 0 \/ Inode[wr[p].o] # f
    /\ LET s == ifree([d EXCEPT !.word = w], f) IN d' = s /\ iupdate(s, f)
    /\ offset' = [o \in Opens |-> IF Inode[o] = f THEN 0 ELSE offset[o]]
    /\ data' = [data EXCEPT ![f] = <<>>]
    /\ UNCHANGED wr

Init ==
    /\ d = [bits |-> Metadata, blk |-> [b \in Block |-> Zeros], busy |-> {}, stuck |-> FALSE,
            full |-> FALSE, word |-> 0,
            ino |-> [f \in Files |-> [addrs |-> [k \in 0 .. NDIRECT + 1 |-> 0], size |-> 0]]]
    /\ dinode = d.ino
    /\ offset = [o \in Opens |-> 0]
    /\ wr = [p \in Procs |-> [o |-> CHOOSE o \in Opens : TRUE, left |-> 0, v |-> 0]]
    /\ data = [f \in Files |-> <<>>]

Next ==
    \/ \E o \in Opens, n \in Lengths, w \in WORDS : file_read(o, n, w)
    \/ \E p \in Procs, o \in Opens, n \in Lengths, v \in Values : file_write(p, o, n, v)
    \/ \E p \in Procs, w \in WORDS : WritePiece(p, w)
    \/ \E o \in Opens : Reopen(o)
    \/ \E f \in Files, w \in WORDS : Delete(f, w)

Spec == Init /\ [][Next]_vars

-----------------------------------------------------------------------------

TypeOK ==
    /\ d \in Disk
    /\ dinode \in [Files -> [addrs : [0 .. NDIRECT + 1 -> Block], size : 0 .. MaxSize]]
    /\ offset \in [Opens -> 0 .. MaxSize]
    /\ \A p \in Procs : wr[p].o \in Opens /\ wr[p].left \in Nat
    /\ data \in [Files -> Seq(Values)]

\* The blocks that a file names, directly or in its indirect block.
Held(f) ==
    LET a == d.ino[f].addrs
        inode == [i \in 1 .. NDIRECT + 2 |-> a[i - 1]]
        entries == IF a[NDIRECT] = 0 THEN <<>> ELSE [i \in 1 .. NINDIRECT |-> d.blk[a[NDIRECT]][i - 1]]
    IN  SelectSeq(inode \o entries, LAMBDA b : b # 0)

\* No block belongs to two files, or to one file twice, and exactly the blocks
\* of files and the metadata are marked as used: writing, extending through
\* the indirect block and deleting in any order neither share a block nor
\* lose one, also when the disk fills up (bio.c:221-262, inode.c:215-247,
\* 304-343).
UsedIsOwned ==
    LET held == FoldLeft(LAMBDA q, f : q \o Held(f), <<>>, SetToSeq(Files))
    IN  IsInjective(held) /\ d.bits = Metadata \cup ToSet(held)

\* Reading a file from its beginning gives what was last written to each of
\* its bytes, whatever was deleted and reused since (inode.c:374-434), unless
\* the disk was full.  It fails for bytes in doubly indirect blocks, where bmap
\* uses entries[r-1] (inode.c:360): the README has the instance.
ReadsBack ==
    ~d.full => \A f \in Files : readi(d, f, 0, d.ino[f].size)[2] = data[f]

\* writei() stores the inode only when the file grew; with the disk not full,
\* the inode on disk never misses a block that a write has mapped
\* (inode.c:430-433).
InodeStored == ~d.full => dinode = d.ino

-----------------------------------------------------------------------------
(* What the repository says of this code and the code does not do: the       *)
(* README tells for each how TLC refutes it.                                 *)

\* "write data in src to disk." (inode.c:402): what a write reported as
\* written can be read back.
WriteDataToDisk == \A f \in Files : readi(d, f, 0, d.ino[f].size)[2] = data[f]

=============================================================================
