----------------------------- MODULE LogProofs -----------------------------
(***************************************************************************)
(* Proofs about Log, for any number of processes, blocks, transactions and *)
(* crashes and for every size of the log.                                  *)
(***************************************************************************)
EXTENDS Log, FiniteSetTheorems, SequenceTheorems, TLAPS

-----------------------------------------------------------------------------
(* The inductive invariant.                                                 *)

InTx == {p \in Procs : pc[p] \in {"in", "log_write"}}

\* The places of a commit, and those of a boot.
Commit == {"copy", "log", "header", "install", "clear", "end"}
Boot == {"boot", "recover", "recovered"}

\* The types, with the lengths that keep all positions in the log.
TypeInv ==
    /\ TypeOK
    /\ Len(lheader) <= LOGSIZE /\ Len(hdr) <= LOGSIZE
    /\ \A p \in Procs : pc[p] = "log_write" => left[p] < MAXOPBLOCKS

\* One process commits while the others are outside, and all boot together.
Phases ==
    /\ n_occupiers = Cardinality(InTx)
    /\ committing <=> \E p \in Procs : pc[p] \in Commit
    /\ committing => InTx = {}
    /\ \A p, r \in Procs : pc[p] \in Commit /\ pc[r] \in Commit => p = r
    /\ \A p \in Procs : pc[p] # "panic"
    /\ \A p, r \in Procs : pc[p] \in Boot => pc[r] \in Boot
    /\ \A p, r \in Procs : pc[p] \in Boot \ {"boot"} /\ pc[r] \in Boot \ {"boot"} => p = r
    /\ \A p \in Procs : pc[p] = "log_write" <=> busy[p] # {}

\* The log blocks that operations may still use: number i of process p.
Claims == {c \in Procs \X (1 .. MAXOPBLOCKS) :
              \/ c[2] <= left[c[1]] /\ pc[c[1]] \in {"in", "log_write"}
              \/ c[2] = left[c[1]] + 1 /\ pc[c[1]] = "log_write"}

\* The log has room for all of them.
Room == Len(lheader) + Cardinality(Claims) <= LOGSIZE

\* The commit holds copies of what the buffers have.
Copied == \A i \in 1 .. Len(buf_ptrs) : buf_ptrs[i] = mem[lheader[i]]

\* How far p is with its commit or its recovery.
ProgressOf(p) ==
    /\ pc[p] \in {"copy", "log", "header", "install", "recover"} => todo \subseteq 1 .. Len(lheader)
    /\ pc[p] \in {"copy", "header"} => todo = 1 .. Len(lheader)
    /\ pc[p] \in {"copy", "log", "header", "install"} => Copied
    /\ pc[p] = "copy" => Len(buf_ptrs) < Len(lheader)
    /\ pc[p] \in {"log", "header", "install"} => Len(buf_ptrs) = Len(lheader)
    /\ pc[p] = "log" => \A i \in (1 .. Len(lheader)) \ todo : slot[i] = buf_ptrs[i]
    /\ pc[p] \in {"header", "install"} => \A i \in 1 .. Len(lheader) : slot[i] = buf_ptrs[i]
    /\ pc[p] \in {"install", "recover"} =>
          \A i \in (1 .. Len(lheader)) \ todo : home[lheader[i]] >= stable[lheader[i]]
    /\ pc[p] \in {"clear", "recovered"} => \A b \in Blocks : home[b] >= stable[b]
    /\ pc[p] \in {"install", "clear", "recover", "recovered"} => hdr = lheader

\* While the system is up, the header on disk is empty but for the installation.
HeaderClear ==
    \A p \in Procs :
        pc[p] \notin Boot => hdr = <<>> \/ \E r \in Procs : pc[r] \in {"install", "clear"}

Progress == HeaderClear /\ \A p \in Procs : ProgressOf(p)

\* Nothing falls behind what is committed, on the disk or in the buffers.
Kept ==
    /\ \A b \in Blocks : ~InLog(hdr, b) => home[b] >= stable[b]
    /\ \A i \in 1 .. Len(hdr) : slot[i] >= stable[hdr[i]]
    /\ \A p \in Procs : pc[p] \notin Boot => \A b \in Blocks : mem[b] >= stable[b]
    /\ \A b \in dirty : mem[b] >= stable[b]
    /\ \A b \in Blocks : ver >= mem[b] /\ ver >= stable[b]

\* No version is newer than the last write, wherever it is kept.
Versions ==
    /\ \A b \in Blocks : ver >= home[b]
    /\ \A i \in 1 .. LOGSIZE : ver >= slot[i]
    /\ \A i \in 1 .. Len(buf_ptrs) : ver >= buf_ptrs[i]

LInv == TypeInv /\ Phases /\ Room /\ Progress /\ Versions /\ Kept

-----------------------------------------------------------------------------
(* Types.                                                                   *)

\* A header with one more block, where log_write finds room.
LEMMA AppendHeader ==
  ASSUME NEW h \in Seq(Blocks), NEW b \in Blocks
  PROVE  /\ Append(h, b) \in Seq(Blocks) /\ Len(Append(h, b)) = Len(h) + 1
         /\ \A i \in 1 .. Len(h) : Append(h, b)[i] = h[i]
         /\ Append(h, b)[Len(h) + 1] = b
BY AppendProperties

\* There are finitely many claims.
LEMMA ClaimsFinite ==
  ASSUME LogAssumption
  PROVE  IsFiniteSet(Claims) /\ Cardinality(Claims) \in Nat
<1>1. IsFiniteSet(1 .. MAXOPBLOCKS)
  BY FS_Interval DEF LogAssumption
<1>2. IsFiniteSet(Procs \X (1 .. MAXOPBLOCKS))
  BY <1>1, FS_Product DEF LogAssumption
<1>3. Claims \in SUBSET (Procs \X (1 .. MAXOPBLOCKS))
  BY DEF Claims
<1>4. QED BY <1>2, <1>3, FS_Subset, FS_CardinalityType

\* A block that a process is about to log has a claim behind it.
LEMMA RoomForOne ==
  ASSUME LogAssumption, TypeInv, Room, NEW p \in Procs, pc[p] = "log_write"
  PROVE  Len(lheader) < LOGSIZE
<1>1. <<p, left[p] + 1>> \in Claims
  BY DEF LogAssumption, TypeInv, TypeOK, Claims
<1>2. IsFiniteSet(Claims) /\ Cardinality(Claims) \in Nat
  BY ClaimsFinite
<1>3. Cardinality(Claims) # 0
  BY <1>1, <1>2, FS_EmptySet
<1>4. QED BY <1>2, <1>3 DEF LogAssumption, TypeInv, TypeOK, Room

\* An operation that ends was counted.
LEMMA OccupiersPositive ==
  ASSUME LogAssumption, Phases, NEW p \in InTx
  PROVE  n_occupiers \in Nat \ {0}
<1>1. IsFiniteSet(InTx)
  BY FS_Subset DEF InTx, LogAssumption
<1>2. Cardinality(InTx) \in Nat /\ Cardinality(InTx) # 0
  BY <1>1, FS_CardinalityType, FS_EmptySet
<1>3. QED BY <1>2 DEF Phases

LEMMA InitLInv == ASSUME LogAssumption PROVE log_init => LInv
<1> SUFFICES ASSUME log_init PROVE LInv
  OBVIOUS
<1> USE DEF log_init
<1>0. Flags
  BY DEF Flags
<1>1. TypeInv
  BY <1>0 DEF LogAssumption, TypeInv, TypeOK
<1>2. InTx = {} /\ Claims = {}
  BY DEF InTx, Claims
<1>3. Cardinality({}) = 0
  BY FS_EmptySet
<1>4. Phases
  BY <1>2, <1>3 DEF Phases, Commit, Boot
<1>5. Room
  BY <1>2, <1>3 DEF Room, LogAssumption
<1>6. Progress
  BY DEF Progress, ProgressOf, HeaderClear
<1>7. Versions /\ Kept
  BY DEF Versions, Kept, InLog, LogAssumption
<1>8. QED BY <1>1, <1>4, <1>5, <1>6, <1>7 DEF LInv

\* The two flags stay flags.
LEMMA FlagsStep == ASSUME TypeOK, [Next]_vars PROVE Flags'
<1> Flags
  BY DEF TypeOK
<1> USE DEF Flags
<1>1. ASSUME NEW p \in Procs, Step(p) PROVE Flags'
  BY <1>1, Zenon DEF Step, BeginLoop, log_write, end_transaction, commit, CopyBlock, write_log_blk,
        write_log_header, keep_consistent_on_disk, ClearLog, CommitEnd, txVars
<1>2. ASSUME NEW p \in Procs, begin_transaction(p) \/ Recover(p) PROVE Flags'
  BY <1>2 DEF begin_transaction, Recover, read_log_header, RecoverBlock, recover_from_log, txVars
<1>3. ASSUME NEW p \in Procs, NEW b \in Blocks, Write(p, b) PROVE Flags'
  BY <1>3 DEF Write, txVars
<1>4. ASSUME NEW b \in Blocks, Read(b) PROVE Flags'
  BY <1>4 DEF Read, txVars
<1>5. CASE Crash
  BY <1>5 DEF Crash
<1>6. CASE UNCHANGED vars
  BY <1>6 DEF vars, txVars
<1>7. QED BY <1>1, <1>2, <1>3, <1>4, <1>5, <1>6 DEF Next

\* The blocks of the header have places in the log.
LEMMA LogRange == ASSUME LogAssumption, TypeInv PROVE 1 .. Len(lheader) \subseteq 1 .. LOGSIZE
BY DEF LogAssumption, TypeInv, TypeOK

\* What one block of a dozen leaves to do, and where the process is after it.
LEMMA DozenTypes ==
  ASSUME LogAssumption, TypeInv, NEW p \in Procs, NEW i \in todo, NEW next, DozenStep(p, i, next)
  PROVE  /\ todo' \subseteq 1 .. LOGSIZE
         /\ pc' = [pc EXCEPT ![p] = next] \/ pc' = pc
<1> USE DEF LogAssumption, TypeInv, TypeOK
<1>1. 1 .. Len(lheader) \subseteq 1 .. LOGSIZE
  BY LogRange
<1>2. todo' = 1 .. Len(lheader) \/ todo' = todo \ {i}
  BY DEF DozenStep
<1>3. QED BY <1>1, <1>2 DEF DozenStep, Goto

\* Every step keeps the types; log_write finds room for its block because of
\* the claims.
LEMMA TypeStep == ASSUME LogAssumption, LInv, [Next]_vars PROVE TypeInv'
<1>a. 1 .. Len(lheader) \subseteq 1 .. LOGSIZE
  BY LogRange DEF LInv
<1>b. \A p \in Procs, i \in todo, next \in {"header", "clear", "recovered"} :
         DozenStep(p, i, next) => /\ todo' \subseteq 1 .. LOGSIZE
                                  /\ pc' = [pc EXCEPT ![p] = next] \/ pc' = pc
  BY DozenTypes DEF LInv
<1> USE DEF LogAssumption, TypeInv, TypeOK
<1> TypeInv
  BY DEF LInv
<1>0. Flags'
  BY FlagsStep
<1> Flags'
  BY <1>0
<1>1. ASSUME NEW p \in Procs, begin_transaction(p) PROVE TypeInv'
  BY <1>1, SMTT(40) DEF begin_transaction, Goto, diskVars, txVars
<1>2. ASSUME NEW p \in Procs, BeginLoop(p) PROVE TypeInv'
  <2>1. CASE Admits
    <3>1. MAXOPBLOCKS \in 0 .. MAXOPBLOCKS
      OBVIOUS
    <3>2. left' \in [Procs -> 0 .. MAXOPBLOCKS]
      BY <1>2, <2>1, <3>1 DEF BeginLoop
    <3>3. /\ pc' = [pc EXCEPT ![p] = "in"] /\ n_occupiers' = n_occupiers + 1
          /\ left' = [left EXCEPT ![p] = MAXOPBLOCKS]
          /\ UNCHANGED <<home, slot, hdr, mem, dirty, lheader, buf_ptrs, todo, busy, stable, ver, bounds>>
      BY <1>2, <2>1 DEF BeginLoop, Goto, diskVars
    <3>4. QED BY <3>2, <3>3, SMTT(40) DEF bounds
  <2>2. CASE ~Admits
    BY <1>2, <2>2 DEF BeginLoop, Goto, diskVars, bounds
  <2>3. QED BY <2>1, <2>2
<1>3. ASSUME NEW p \in Procs, log_write(p) PROVE TypeInv'
  <2>1. PICK b \in busy[p] : /\ lheader' = IF InLog(lheader, b) THEN lheader ELSE Append(lheader, b)
                             /\ dirty' = dirty \cup {b}
    BY <1>3 DEF log_write
  <2>2. b \in Blocks
    BY <2>1
  <2>3. lheader' \in Seq(Blocks) /\ Len(lheader') <= Len(lheader) + 1
    BY <2>1, <2>2, AppendHeader
  <2>4. Len(lheader) < LOGSIZE
    BY <1>3, RoomForOne DEF LInv, log_write
  <2>5. Len(lheader') <= LOGSIZE
    BY <2>3, <2>4
  <2>6. dirty' \subseteq Blocks /\ busy' \in [Procs -> SUBSET Blocks]
    BY <1>3, <2>1, <2>2 DEF log_write
  <2>7. QED BY <1>3, <2>3, <2>5, <2>6 DEF log_write, Goto, diskVars, bounds
<1>4. ASSUME NEW p \in Procs, end_transaction(p) PROVE TypeInv'
  <2>1. n_occupiers' \in Nat
    BY <1>4, OccupiersPositive DEF LInv, end_transaction, InTx
  <2>2. 0 \in 0 .. MAXOPBLOCKS
    OBVIOUS
  <2>3. left' \in [Procs -> 0 .. MAXOPBLOCKS]
    BY <1>4, <2>2 DEF end_transaction
  <2>4. \/ \E l \in {"panic", "end", "copy"} : pc' = [pc EXCEPT ![p] = l]
        \/ WakeAndGoto(p, "user")
    BY <1>4 DEF end_transaction, Goto
  <2>5. pc' \in [Procs -> {"user", "begin", "sleep", "in", "log_write", "copy", "log", "header",
                           "install", "clear", "end", "panic", "boot", "recover", "recovered"}]
    BY <2>4 DEF WakeAndGoto
  <2>6. \A r \in Procs : pc'[r] = "log_write" => left'[r] < MAXOPBLOCKS
    BY <1>4, <2>4 DEF end_transaction, WakeAndGoto
  <2>7. (todo' = todo \/ todo' = 1 .. Len(lheader)) /\ (buf_ptrs' = buf_ptrs \/ buf_ptrs' = <<>>)
    BY <1>4 DEF end_transaction
  <2>8. todo' \subseteq 1 .. LOGSIZE
    BY <1>a, <2>7
  <2>9. buf_ptrs' \in Seq(Nat)
    BY <2>7, EmptySeq
  <2>10. QED BY <1>4, <2>1, <2>3, <2>5, <2>6, <2>8, <2>9 DEF end_transaction, diskVars, bounds
<1>5. ASSUME NEW p \in Procs, CopyBlock(p) PROVE TypeInv'
  <2>1. Len(buf_ptrs) < Len(lheader)
    BY <1>5 DEF LInv, Progress, ProgressOf, CopyBlock
  <2>2. lheader[Len(buf_ptrs) + 1] \in Blocks
    BY <2>1
  <2> DEFINE b == lheader[Len(buf_ptrs) + 1]
  <2>a. Bread(b) /\ dirty' = dirty \ {b} /\ buf_ptrs' = Append(buf_ptrs, mem[b])
    BY <1>5 DEF CopyBlock
  <2> HIDE DEF b
  <2>b. b \in Blocks
    BY <2>2 DEF b
  <2>3. home' \in [Blocks -> Nat] /\ dirty' \subseteq Blocks
    BY <2>a, <2>b DEF Bread
  <2>c. buf_ptrs' \in Seq(Nat)
    BY <2>a, <2>b, AppendProperties
  <2>4. pc' = [pc EXCEPT ![p] = "log"] \/ pc' = pc
    BY <1>5 DEF CopyBlock, Goto
  <2>5. QED BY <1>5, <2>a, <2>3, <2>c, <2>4 DEF CopyBlock, Bread, txVars, bounds
<1>6. ASSUME NEW p \in Procs, write_log_blk(p) PROVE TypeInv'
  <2>1. PICK i \in todo : slot' = [slot EXCEPT ![i] = buf_ptrs[i]] /\ DozenStep(p, i, "header")
    BY <1>6 DEF write_log_blk
  <2>2. i \in 1 .. Len(buf_ptrs)
    BY <1>6 DEF LInv, Progress, ProgressOf, write_log_blk
  <2>3. slot' \in [1 .. LOGSIZE -> Nat]
    BY <2>1, <2>2, SMTT(40)
  <2>4. UNCHANGED <<home, hdr, mem, dirty, lheader, n_occupiers, buf_ptrs, left, busy, stable, ver, bounds>>
    BY <1>6 DEF write_log_blk, txVars
  <2>5. todo' \subseteq 1 .. LOGSIZE /\ (pc' = [pc EXCEPT ![p] = "header"] \/ pc' = pc)
    BY <1>b, <2>1
  <2>6. QED BY <2>3, <2>4, <2>5 DEF bounds
<1>7. ASSUME NEW p \in Procs, write_log_header(p) PROVE TypeInv'
  BY <1>7 DEF write_log_header, Goto, txVars, bounds
<1>8. ASSUME NEW p \in Procs, keep_consistent_on_disk(p) PROVE TypeInv'
  <2>1. PICK i \in todo : /\ home' = [home EXCEPT ![lheader[i]] = buf_ptrs[i]]
                          /\ mem' = [mem EXCEPT ![lheader[i]] = buf_ptrs[i]]
                          /\ dirty' = dirty \ {lheader[i]}
                          /\ DozenStep(p, i, "clear")
    BY <1>8 DEF keep_consistent_on_disk
  <2>2. i \in 1 .. Len(lheader) /\ Len(buf_ptrs) = Len(lheader)
    BY <1>8 DEF LInv, Progress, ProgressOf, keep_consistent_on_disk
  <2>a. lheader[i] \in Blocks /\ buf_ptrs[i] \in Nat
    BY <2>2, ElementOfSeq
  <2>3. home' \in [Blocks -> Nat] /\ mem' \in [Blocks -> Nat] /\ dirty' \subseteq Blocks
    BY <2>1, <2>a
  <2>4. UNCHANGED <<slot, hdr, lheader, n_occupiers, buf_ptrs, left, busy, stable, ver, bounds>>
    BY <1>8 DEF keep_consistent_on_disk, txVars
  <2>5. todo' \subseteq 1 .. LOGSIZE /\ (pc' = [pc EXCEPT ![p] = "clear"] \/ pc' = pc)
    BY <1>b, <2>1
  <2>6. QED BY <2>3, <2>4, <2>5 DEF bounds
<1>9. ASSUME NEW p \in Procs, ClearLog(p) PROVE TypeInv'
  BY <1>9 DEF ClearLog, Goto, bounds
<1>10. ASSUME NEW p \in Procs, CommitEnd(p) PROVE TypeInv'
  <2>1. /\ WakeAndGoto(p, "user") /\ committing' = FALSE
        /\ UNCHANGED <<diskVars, mem, dirty, lheader, n_occupiers, buf_ptrs, todo, left, busy, stable, ver, refused, bounds>>
    BY <1>10 DEF CommitEnd
  <2>2. pc' \in [Procs -> {"user", "begin", "sleep", "in", "log_write", "copy", "log", "header",
                           "install", "clear", "end", "panic", "boot", "recover", "recovered"}]
    BY <2>1 DEF WakeAndGoto
  <2>3. \A r \in Procs : pc'[r] = "log_write" => pc[r] = "log_write"
    BY <2>1 DEF WakeAndGoto
  <2>4. UNCHANGED <<home, slot, hdr, mem, dirty, lheader, n_occupiers, buf_ptrs, todo, left, busy, stable, ver, refused, ntx, ncrash>>
    BY <2>1 DEF diskVars, bounds
  <2>5. Flags'
    BY <2>1, <2>4
  <2>6. QED BY <2>2, <2>3, <2>4, <2>5
<1>11. ASSUME NEW p \in Procs, read_log_header(p) PROVE TypeInv'
  BY <1>11 DEF read_log_header, Goto, diskVars, bounds
<1>12. ASSUME NEW p \in Procs, RecoverBlock(p) PROVE TypeInv'
  <2>1. PICK i \in todo : /\ home' = [home EXCEPT ![lheader[i]] = slot[i]]
                          /\ DozenStep(p, i, "recovered")
    BY <1>12 DEF RecoverBlock
  <2>2. i \in 1 .. Len(lheader)
    BY <1>12 DEF LInv, Progress, ProgressOf, RecoverBlock
  <2>3. home' \in [Blocks -> Nat]
    BY <2>1, <2>2
  <2>4. UNCHANGED <<slot, hdr, mem, dirty, lheader, n_occupiers, buf_ptrs, left, busy, stable, ver, bounds>>
    BY <1>12 DEF RecoverBlock, txVars
  <2>5. todo' \subseteq 1 .. LOGSIZE /\ (pc' = [pc EXCEPT ![p] = "recovered"] \/ pc' = pc)
    BY <1>b, <2>1
  <2>6. QED BY <2>3, <2>4, <2>5 DEF bounds
<1>13. ASSUME NEW p \in Procs, recover_from_log(p) PROVE TypeInv'
  BY <1>13 DEF recover_from_log, bounds
<1>14. ASSUME NEW p \in Procs, NEW b \in Blocks, Write(p, b) PROVE TypeInv'
  <2>1. left[p] - 1 \in 0 .. MAXOPBLOCKS /\ left[p] - 1 < MAXOPBLOCKS
    BY <1>14, SMTT(40) DEF Write
  <2>2. left' \in [Procs -> 0 .. MAXOPBLOCKS] /\ left'[p] < MAXOPBLOCKS
    BY <1>14, <2>1 DEF Write
  <2>3. \A r \in Procs : r # p => left'[r] = left[r]
    BY <1>14 DEF Write
  <2>4. home' \in [Blocks -> Nat] /\ mem' \in [Blocks -> Nat] /\ dirty' \subseteq Blocks
    BY <1>14, SMTT(40) DEF Write, Bread
  <2>5. \/ UNCHANGED <<busy, pc>>
        \/ busy' = [busy EXCEPT ![p] = {b}] /\ pc' = [pc EXCEPT ![p] = "log_write"]
    BY <1>14 DEF Write, Goto
  <2>6. ver' = ver + 1 /\ UNCHANGED <<slot, hdr, lheader, n_occupiers, buf_ptrs, todo, stable, bounds>>
    BY <1>14 DEF Write, Bread, txVars
  <2>7. CASE UNCHANGED <<busy, pc>>
    <3>1. \A r \in Procs : pc'[r] = "log_write" => left'[r] < MAXOPBLOCKS
      BY <2>2, <2>3, <2>7
    <3>2. ver' \in Nat /\ UNCHANGED <<ntx, ncrash>>
      BY <2>6 DEF bounds
    <3>3. /\ slot' \in [1 .. LOGSIZE -> Nat] /\ hdr' \in Seq(Blocks) /\ stable' \in [Blocks -> Nat]
          /\ lheader' \in Seq(Blocks) /\ n_occupiers' \in Nat
          /\ buf_ptrs' \in Seq(Nat) /\ todo' \subseteq 1 .. LOGSIZE
          /\ Len(lheader') <= LOGSIZE /\ Len(hdr') <= LOGSIZE
      BY <2>6
    <3>4. /\ pc' \in [Procs -> {"user", "begin", "sleep", "in", "log_write", "copy", "log", "header",
                               "install", "clear", "end", "panic", "boot", "recover", "recovered"}]
          /\ busy' \in [Procs -> SUBSET Blocks]
      BY <2>7
    <3>5. QED BY <2>2, <2>4, <3>1, <3>2, <3>3, <3>4
  <2>8. CASE busy' = [busy EXCEPT ![p] = {b}] /\ pc' = [pc EXCEPT ![p] = "log_write"]
    <3>1. \A r \in Procs : pc'[r] = "log_write" => left'[r] < MAXOPBLOCKS
      BY <2>2, <2>3, <2>8
    <3>2. busy' \in [Procs -> SUBSET Blocks]
      BY <2>8
    <3>3. pc' \in [Procs -> {"user", "begin", "sleep", "in", "log_write", "copy", "log", "header",
                             "install", "clear", "end", "panic", "boot", "recover", "recovered"}]
      BY <2>8
    <3>4. ver' \in Nat
      BY <2>6
    <3>5. QED BY <2>2, <2>4, <2>6, <3>1, <3>2, <3>3, <3>4 DEF bounds
  <2>9. QED BY <2>5, <2>7, <2>8
<1>15. ASSUME NEW b \in Blocks, Read(b) PROVE TypeInv'
  BY <1>15 DEF Read, Bread, txVars, bounds
<1>16. CASE Crash
  BY <1>16 DEF Crash, diskVars
<1>17. CASE UNCHANGED vars
  BY <1>17 DEF vars, diskVars, txVars, bounds
<1>18. QED
  BY <1>1, <1>2, <1>3, <1>4, <1>5, <1>6, <1>7, <1>8, <1>9, <1>10, <1>11, <1>12, <1>13, <1>14,
     <1>15, <1>16, <1>17 DEF Next, Step, commit, Recover

-----------------------------------------------------------------------------
(* Who is where.                                                            *)

\* A step after which every process is in the same kind of place.
LEMMA SameKinds ==
  ASSUME Phases, UNCHANGED <<n_occupiers, committing>>,
         \A r \in Procs :
            /\ pc'[r] \in {"in", "log_write"} <=> pc[r] \in {"in", "log_write"}
            /\ pc'[r] \in Commit <=> pc[r] \in Commit
            /\ pc'[r] \in Boot <=> pc[r] \in Boot
            /\ pc'[r] = "boot" <=> pc[r] = "boot"
            /\ pc'[r] # "panic"
            /\ pc'[r] = "log_write" <=> busy'[r] # {}
  PROVE  Phases'
<1>1. InTx' = InTx
  BY DEF InTx
<1>2. n_occupiers' = Cardinality(InTx')
  BY <1>1 DEF Phases
<1>3. committing' <=> \E r \in Procs : pc'[r] \in Commit
  BY DEF Phases
<1>4. committing' => InTx' = {}
  BY <1>1 DEF Phases
<1>5. QED BY <1>2, <1>3, <1>4 DEF Phases

\* The steps that move a process within its kind of place.
LEMMA SamePlace ==
  ASSUME TypeInv, Phases, NEW p \in Procs, UNCHANGED <<n_occupiers, committing, busy>>,
         NEW K \in {{"user", "begin", "sleep"}, Commit, {"recover", "recovered"}}, NEW l \in K, pc[p] \in K,
         pc' = [pc EXCEPT ![p] = l] \/ pc' = pc
  PROVE  Phases'
<1>1. pc'[p] \in K /\ \A r \in Procs : r # p => pc'[r] = pc[r]
  BY DEF TypeInv, TypeOK
<1>2. busy[p] = {}
  BY DEF Phases, Commit
<1>3. \A r \in Procs :
            /\ pc'[r] \in {"in", "log_write"} <=> pc[r] \in {"in", "log_write"}
            /\ pc'[r] \in Commit <=> pc[r] \in Commit
            /\ pc'[r] \in Boot <=> pc[r] \in Boot
            /\ pc'[r] = "boot" <=> pc[r] = "boot"
            /\ pc'[r] # "panic"
            /\ pc'[r] = "log_write" <=> busy'[r] # {}
  <2> TAKE r \in Procs
  <2>1. CASE r # p
    BY <1>1, <2>1 DEF Phases
  <2>2. CASE r = p
    BY <1>1, <1>2, <2>2 DEF Commit, Boot
  <2>3. QED BY <2>1, <2>2
<1>4. QED BY <1>3, SameKinds

LEMMA PhasesStep == ASSUME LogAssumption, LInv, [Next]_vars PROVE Phases'
<1> TypeInv /\ Phases
  BY DEF LInv
<1>1. ASSUME NEW p \in Procs, begin_transaction(p) PROVE Phases'
  BY <1>1, SamePlace DEF begin_transaction, Goto, txVars
<1>2. ASSUME NEW p \in Procs, BeginLoop(p) PROVE Phases'
  <2>1. CASE Admits
    <3>1. /\ pc' = [pc EXCEPT ![p] = "in"] /\ n_occupiers' = n_occupiers + 1
          /\ pc[p] = "begin" /\ ~committing /\ UNCHANGED <<committing, busy>>
      BY <1>2, <2>1 DEF BeginLoop, Goto, Admits
    <3>2. InTx' = InTx \cup {p} /\ p \notin InTx
      BY <3>1 DEF InTx, TypeInv, TypeOK
    <3>3. IsFiniteSet(InTx)
      BY FS_Subset DEF InTx, LogAssumption
    <3>4. n_occupiers' = Cardinality(InTx')
      BY <3>1, <3>2, <3>3, FS_AddElement DEF Phases
    <3>5. \A r \in Procs : pc'[r] = IF r = p THEN "in" ELSE pc[r]
      BY <3>1 DEF TypeInv, TypeOK
    <3>6. ~committing' /\ ~(\E r \in Procs : pc'[r] \in Commit)
      BY <3>1, <3>5 DEF Phases, Commit
    <3>7. \A r \in Procs : pc[r] \notin Boot
      BY <3>1 DEF Phases, Boot
    <3>8. \A r \in Procs : pc'[r] \notin Boot /\ pc'[r] # "panic" /\ (pc'[r] = "log_write" <=> busy'[r] # {})
      BY <3>1, <3>5, <3>7 DEF Phases, Boot
    <3>9. QED BY <3>4, <3>6, <3>8 DEF Phases
  <2>2. CASE ~Admits
    BY <1>2, <2>2, SamePlace DEF BeginLoop, Goto
  <2>3. QED BY <2>1, <2>2
<1>3. ASSUME NEW p \in Procs, log_write(p) PROVE Phases'
  <2>1. \A r \in Procs : /\ pc'[r] = IF r = p THEN "in" ELSE pc[r]
                         /\ busy'[r] = IF r = p THEN {} ELSE busy[r]
    BY <1>3 DEF log_write, Goto, TypeInv, TypeOK
  <2>2. pc[p] = "log_write" /\ UNCHANGED <<n_occupiers, committing>>
    BY <1>3 DEF log_write
  <2>3. QED BY <2>1, <2>2, SameKinds DEF Phases, Commit, Boot
<1>4. ASSUME NEW p \in Procs, end_transaction(p) PROVE Phases'
  <2>1. pc[p] = "in" /\ p \in InTx /\ ~committing /\ n_occupiers' = n_occupiers - 1 /\ UNCHANGED busy
    BY <1>4 DEF end_transaction, Phases, InTx
  <2>2. IsFiniteSet(InTx)
    BY FS_Subset DEF InTx, LogAssumption
  <2>3. Cardinality(InTx \ {p}) = n_occupiers - 1 /\ n_occupiers \in Nat
    BY <2>1, <2>2, FS_RemoveElement DEF Phases, TypeInv, TypeOK
  <2>4. \A r \in Procs : pc[r] \notin Commit /\ pc[r] \notin Boot
    BY <2>1 DEF Phases, Boot
  <2>5. CASE n_occupiers = 1
    <3>1. committing' = TRUE /\ \E l \in {"end", "copy"} : pc' = [pc EXCEPT ![p] = l]
      BY <1>4, <2>1, <2>5 DEF end_transaction, Goto
    <3>2. PICK l \in {"end", "copy"} : \A r \in Procs : pc'[r] = IF r = p THEN l ELSE pc[r]
      BY <3>1 DEF TypeInv, TypeOK
    <3>3. InTx' = InTx \ {p}
      BY <3>2 DEF InTx
    <3>4. InTx' = {}
      <4>1. IsFiniteSet(InTx \ {p}) /\ Cardinality(InTx \ {p}) = 0
        BY <2>2, <2>3, <2>5, FS_RemoveElement
      <4>2. QED BY <3>3, <4>1, FS_EmptySet
    <3>5. n_occupiers' = Cardinality(InTx')
      BY <2>1, <2>3, <3>3
    <3>a. pc'[p] \in Commit
      BY <3>2 DEF Commit
    <3>b. committing'
      BY <3>1
    <3>6. committing' <=> \E r \in Procs : pc'[r] \in Commit
      BY <3>a, <3>b
    <3>7. \A r \in Procs : /\ pc'[r] \notin Boot /\ pc'[r] # "panic" /\ (pc'[r] = "log_write" <=> busy'[r] # {})
                           /\ pc'[r] \in Commit => r = p
      BY <2>1, <2>4, <3>2 DEF Phases, Boot
    <3>8. QED BY <3>4, <3>5, <3>6, <3>7 DEF Phases
  <2>6. CASE n_occupiers # 1
    <3>1. WakeAndGoto(p, "user") /\ UNCHANGED committing
      BY <1>4, <2>1, <2>6 DEF end_transaction
    <3>2. \A r \in Procs : pc'[r] = IF r = p THEN "user" ELSE IF pc[r] = "sleep" THEN "begin" ELSE pc[r]
      BY <3>1 DEF WakeAndGoto
    <3>3. InTx' = InTx \ {p}
      BY <3>2 DEF InTx
    <3>4. n_occupiers' = Cardinality(InTx')
      BY <2>1, <2>3, <3>3
    <3>5. ~committing' /\ ~(\E r \in Procs : pc'[r] \in Commit)
      BY <2>1, <2>4, <3>1, <3>2 DEF Commit
    <3>6. \A r \in Procs : pc'[r] \notin Boot /\ pc'[r] # "panic" /\ (pc'[r] = "log_write" <=> busy'[r] # {})
      BY <2>1, <2>4, <3>2 DEF Phases, Boot
    <3>7. QED BY <3>4, <3>5, <3>6 DEF Phases
  <2>7. QED BY <2>5, <2>6
<1>5. ASSUME NEW p \in Procs, CopyBlock(p) PROVE Phases'
  BY <1>5, SamePlace DEF CopyBlock, Goto, txVars, Commit
<1>6. ASSUME NEW p \in Procs, write_log_blk(p) PROVE Phases'
  BY <1>6, SamePlace DEF write_log_blk, DozenStep, Goto, txVars, Commit
<1>7. ASSUME NEW p \in Procs, write_log_header(p) PROVE Phases'
  BY <1>7, SamePlace DEF write_log_header, Goto, txVars, Commit
<1>8. ASSUME NEW p \in Procs, keep_consistent_on_disk(p) PROVE Phases'
  BY <1>8, SamePlace DEF keep_consistent_on_disk, DozenStep, Goto, txVars, Commit
<1>9. ASSUME NEW p \in Procs, ClearLog(p) PROVE Phases'
  BY <1>9, SamePlace DEF ClearLog, Goto, Commit
<1>10. ASSUME NEW p \in Procs, CommitEnd(p) PROVE Phases'
  <2>1. pc[p] = "end" /\ ~committing' /\ UNCHANGED <<n_occupiers, busy>>
    BY <1>10 DEF CommitEnd
  <2>2. \A r \in Procs : pc'[r] = IF r = p THEN "user" ELSE IF pc[r] = "sleep" THEN "begin" ELSE pc[r]
    BY <1>10 DEF CommitEnd, WakeAndGoto
  <2>3. InTx' = InTx
    BY <2>1, <2>2 DEF InTx
  <2>4. \A r \in Procs : pc[r] \in Commit => r = p
    BY <2>1 DEF Phases, Commit
  <2>5. \A r \in Procs : pc[r] \notin Boot
    BY <2>1 DEF Phases, Boot
  <2>6. \A r \in Procs : /\ pc'[r] \notin Commit /\ pc'[r] \notin Boot /\ pc'[r] # "panic"
                         /\ pc'[r] = "log_write" <=> busy'[r] # {}
    BY <2>1, <2>2, <2>4, <2>5 DEF Phases, Commit, Boot
  <2>7. n_occupiers' = Cardinality(InTx')
    BY <2>1, <2>3 DEF Phases
  <2>8. QED BY <2>1, <2>6, <2>7 DEF Phases
<1>11. ASSUME NEW p \in Procs, read_log_header(p) PROVE Phases'
  <2>1. PICK l \in {"recover", "recovered"} : \A r \in Procs : pc'[r] = IF r = p THEN l ELSE pc[r]
    BY <1>11 DEF read_log_header, Goto, TypeInv, TypeOK
  <2>2. (\A r \in Procs : pc[r] = "boot") /\ UNCHANGED <<n_occupiers, committing, busy>>
    BY <1>11 DEF read_log_header
  <2>3. InTx' = InTx
    BY <2>1, <2>2 DEF InTx
  <2>4. ~(\E r \in Procs : pc'[r] \in Commit) /\ ~(\E r \in Procs : pc[r] \in Commit)
    BY <2>1, <2>2 DEF Commit
  <2>5. ~committing'
    BY <2>2, <2>4 DEF Phases
  <2>6. n_occupiers' = Cardinality(InTx')
    BY <2>2, <2>3 DEF Phases
  <2>7. \A r \in Procs : /\ pc'[r] \in Boot /\ pc'[r] # "panic" /\ (pc'[r] = "log_write" <=> busy'[r] # {})
                         /\ pc'[r] # "boot" => r = p
    BY <2>1, <2>2 DEF Phases, Boot
  <2>8. QED BY <2>4, <2>5, <2>6, <2>7 DEF Phases
<1>12. ASSUME NEW p \in Procs, RecoverBlock(p) PROVE Phases'
  BY <1>12, SamePlace DEF RecoverBlock, DozenStep, Goto, txVars
<1>13. ASSUME NEW p \in Procs, recover_from_log(p) PROVE Phases'
  <2>1. \A r \in Procs : pc'[r] = "user"
    BY <1>13 DEF recover_from_log
  <2>2. \A r \in Procs : pc[r] \in Boot
    BY <1>13 DEF recover_from_log, Phases, Boot
  <2>3. InTx' = InTx /\ UNCHANGED <<n_occupiers, committing, busy>>
    BY <1>13, <2>1, <2>2 DEF InTx, Boot, recover_from_log
  <2>4. ~(\E r \in Procs : pc'[r] \in Commit) /\ ~(\E r \in Procs : pc[r] \in Commit)
    BY <2>1, <2>2 DEF Commit, Boot
  <2>5. ~committing'
    BY <2>3, <2>4 DEF Phases
  <2>6. n_occupiers' = Cardinality(InTx')
    BY <2>3 DEF Phases
  <2>7. \A r \in Procs : pc'[r] \notin Boot /\ pc'[r] # "panic" /\ (pc'[r] = "log_write" <=> busy'[r] # {})
    BY <2>1, <2>2, <2>3 DEF Phases, Boot
  <2>8. QED BY <2>4, <2>5, <2>6, <2>7 DEF Phases
<1>14. ASSUME NEW p \in Procs, NEW b \in Blocks, Write(p, b) PROVE Phases'
  <2>1. pc[p] = "in" /\ UNCHANGED <<n_occupiers, committing>>
    BY <1>14 DEF Write, txVars
  <2>2. \/ UNCHANGED <<busy, pc>>
        \/ busy' = [busy EXCEPT ![p] = {b}] /\ pc' = [pc EXCEPT ![p] = "log_write"]
    BY <1>14 DEF Write, Goto
  <2>3. \A r \in Procs : \/ pc'[r] = pc[r] /\ busy'[r] = busy[r]
                         \/ r = p /\ pc'[r] = "log_write" /\ busy'[r] # {}
    BY <2>2 DEF TypeInv, TypeOK
  <2>4. QED BY <2>1, <2>3, SameKinds DEF Phases, Commit, Boot
<1>15. ASSUME NEW b \in Blocks, Read(b) PROVE Phases'
  BY <1>15, SameKinds DEF Read, txVars, Phases
<1>16. CASE Crash
  <2>1. \A r \in Procs : pc'[r] = "boot" /\ busy'[r] = {}
    BY <1>16 DEF Crash
  <2>2. InTx' = {} /\ n_occupiers' = 0 /\ ~committing'
    BY <1>16, <2>1 DEF InTx, Crash
  <2>3. n_occupiers' = Cardinality(InTx')
    BY <2>2, FS_EmptySet
  <2>4. QED BY <2>1, <2>2, <2>3 DEF Phases, Commit, Boot
<1>17. CASE UNCHANGED vars
  BY <1>17, SameKinds DEF vars, txVars, Phases
<1>18. QED
  BY <1>1, <1>2, <1>3, <1>4, <1>5, <1>6, <1>7, <1>8, <1>9, <1>10, <1>11, <1>12, <1>13, <1>14,
     <1>15, <1>16, <1>17 DEF Next, Step, commit, Recover

-----------------------------------------------------------------------------
(* Room in the log.                                                         *)

\* Claims only go, and the header is not longer.
LEMMA FewerClaims ==
  ASSUME LogAssumption, TypeInv, TypeInv', Room, Claims' \subseteq Claims, Len(lheader') <= Len(lheader)
  PROVE  Room'
<1>1. IsFiniteSet(Claims) /\ Cardinality(Claims) \in Nat
  BY ClaimsFinite
<1>2. Cardinality(Claims') <= Cardinality(Claims) /\ Cardinality(Claims') \in Nat
  BY <1>1, FS_Subset, FS_CardinalityType
<1>3. Len(lheader) \in Nat /\ Len(lheader') \in Nat /\ LOGSIZE \in Nat
  BY LenProperties DEF TypeInv, TypeOK, LogAssumption
<1>4. QED BY <1>1, <1>2, <1>3 DEF Room

\* An operation that is let in claims all it may write: everybody together
\* then claims at most MAXOPBLOCKS each.
LEMMA AllClaims ==
  LogAssumption /\ TypeInv /\ Phases =>
     Cardinality(Claims) <= n_occupiers * MAXOPBLOCKS /\ Cardinality(Claims) \in Nat
<1> SUFFICES ASSUME LogAssumption, TypeInv, Phases
             PROVE  Cardinality(Claims) <= n_occupiers * MAXOPBLOCKS /\ Cardinality(Claims) \in Nat
  OBVIOUS
<1>f. InTx \in SUBSET Procs /\ IsFiniteSet(Procs)
  BY DEF InTx, LogAssumption
<1>g. MAXOPBLOCKS \in Nat /\ 1 \in Int /\ MAXOPBLOCKS \in Int /\ 1 <= MAXOPBLOCKS
  BY DEF LogAssumption
<1>h. IsFiniteSet(InTx)
  BY <1>f, FS_Subset
<1>i. /\ IsFiniteSet(1 .. MAXOPBLOCKS)
      /\ Cardinality(1 .. MAXOPBLOCKS) = IF 1 > MAXOPBLOCKS THEN 0 ELSE MAXOPBLOCKS - 1 + 1
  BY <1>g, FS_Interval
<1>1. IsFiniteSet(InTx) /\ IsFiniteSet(1 .. MAXOPBLOCKS)
  BY <1>h, <1>i
<1>2. Cardinality(1 .. MAXOPBLOCKS) = MAXOPBLOCKS
  BY <1>g, <1>i
<1>a. n_occupiers = Cardinality(InTx)
  BY DEF Phases
<1>3. /\ IsFiniteSet(InTx \X (1 .. MAXOPBLOCKS))
      /\ Cardinality(InTx \X (1 .. MAXOPBLOCKS)) = n_occupiers * MAXOPBLOCKS
  BY <1>1, <1>2, <1>a, FS_Product
<1>4. Claims \in SUBSET (InTx \X (1 .. MAXOPBLOCKS))
  BY DEF Claims, InTx
<1>5. QED BY <1>3, <1>4, FS_Subset, FS_CardinalityType

\* Where nobody is in a transaction there is no claim.
LEMMA NoClaims == LogAssumption /\ TypeInv /\ InTx = {} => Room
<1> SUFFICES ASSUME LogAssumption, TypeInv, InTx = {} PROVE Room
  OBVIOUS
<1>1. Claims = {}
  BY DEF Claims, InTx
<1>2. QED BY <1>1, FS_EmptySet DEF Room, TypeInv, TypeOK, LogAssumption

LEMMA RoomStep == ASSUME LogAssumption, LInv, [Next]_vars, TypeInv', Phases' PROVE Room'
<1> TypeInv /\ Phases /\ Room
  BY DEF LInv
<1>0. Len(lheader) \in Nat
  BY DEF TypeInv, TypeOK
<1>a. ASSUME UNCHANGED <<lheader, left>>,
             \A r \in Procs : pc'[r] = pc[r] \/ pc'[r] \notin {"in", "log_write"}
      PROVE  Room'
  <2>1. Claims' \subseteq Claims
    BY <1>a DEF Claims
  <2>2. QED BY <1>a, <1>0, <2>1, FewerClaims
<1>b. InTx' = {} => Room'
  <2>1. (LogAssumption /\ TypeInv /\ InTx = {} => Room)'
    BY NoClaims, PTL
  <2>2. QED BY <2>1 DEF LogAssumption
<1>1. ASSUME NEW p \in Procs, begin_transaction(p) PROVE Room'
  <2>1. \A r \in Procs : pc'[r] = pc[r] \/ pc'[r] = "begin"
    BY <1>1 DEF begin_transaction, Goto, TypeInv, TypeOK
  <2>2. QED BY <1>1, <1>a, <2>1 DEF begin_transaction, txVars
<1>2. ASSUME NEW p \in Procs, BeginLoop(p) PROVE Room'
  <2>1. CASE Admits
    <3>1. Len(lheader) + (n_occupiers + 1) * MAXOPBLOCKS <= LOGSIZE /\ n_occupiers' = n_occupiers + 1
      BY <1>2, <2>1 DEF BeginLoop, Admits
    <3>2. (LogAssumption /\ TypeInv /\ Phases =>
             Cardinality(Claims) <= n_occupiers * MAXOPBLOCKS /\ Cardinality(Claims) \in Nat)'
      BY AllClaims, PTL
    <3>3. Cardinality(Claims') <= n_occupiers' * MAXOPBLOCKS /\ Cardinality(Claims') \in Nat
      BY <3>2 DEF LogAssumption
    <3>4. (n_occupiers + 1) * MAXOPBLOCKS \in Nat /\ n_occupiers' * MAXOPBLOCKS = (n_occupiers + 1) * MAXOPBLOCKS
      BY <3>1 DEF TypeInv, TypeOK, LogAssumption
    <3>5. lheader' = lheader /\ Len(lheader) \in Nat
      BY <1>2 DEF BeginLoop, TypeInv, TypeOK
    <3>6. QED BY <3>1, <3>2, <3>3, <3>4, <3>5 DEF Room, LogAssumption
  <2>2. CASE ~Admits
    <3>1. \A r \in Procs : pc'[r] = pc[r] \/ pc'[r] = "sleep"
      BY <1>2, <2>2 DEF BeginLoop, Goto, TypeInv, TypeOK
    <3>2. QED BY <1>2, <2>2, <1>a, <3>1 DEF BeginLoop
  <2>3. QED BY <2>1, <2>2
<1>3. ASSUME NEW p \in Procs, log_write(p) PROVE Room'
  <2> DEFINE c == <<p, left[p] + 1>>
  <2>1. \A r \in Procs : pc'[r] = IF r = p THEN "in" ELSE pc[r]
    BY <1>3 DEF log_write, Goto, TypeInv, TypeOK
  <2>2. pc[p] = "log_write" /\ UNCHANGED left
    BY <1>3 DEF log_write
  <2>a. left[p] + 1 \in 1 .. MAXOPBLOCKS
    <3>1. left[p] \in 0 .. MAXOPBLOCKS
      BY DEF TypeInv, TypeOK
    <3>2. left[p] < MAXOPBLOCKS
      BY <2>2 DEF TypeInv
    <3>3. QED BY <3>1, <3>2 DEF LogAssumption
  <2>3. c \in Claims
    BY <2>2, <2>a DEF Claims
  <2>4. Claims' \subseteq Claims \ {c}
    BY <2>1, <2>2, SMTT(40) DEF Claims, TypeInv, TypeOK
  <2>5. IsFiniteSet(Claims) /\ Cardinality(Claims) \in Nat
    BY ClaimsFinite
  <2>6. IsFiniteSet(Claims \ {c}) /\ Cardinality(Claims \ {c}) = Cardinality(Claims) - 1
    BY <2>3, <2>5, FS_RemoveElement
  <2>7. Cardinality(Claims') <= Cardinality(Claims) - 1 /\ Cardinality(Claims') \in Nat
    BY <2>4, <2>6, FS_Subset, FS_CardinalityType
  <2>8. Len(lheader') <= Len(lheader) + 1
    BY <1>3, AppendHeader DEF log_write, TypeInv, TypeOK
  <2>b. Len(lheader') \in Nat
    BY DEF TypeInv, TypeOK
  <2>9. QED BY <1>0, <2>5, <2>7, <2>8, <2>b DEF Room, LogAssumption
<1>4. ASSUME NEW p \in Procs, end_transaction(p) PROVE Room'
  <2>1. \A r \in Procs : \/ pc'[r] = pc[r] /\ left'[r] = left[r]
                         \/ pc'[r] \notin {"in", "log_write"}
    <3>1. /\ left' = [left EXCEPT ![p] = 0]
          /\ \/ \E l \in {"panic", "end", "copy"} : pc' = [pc EXCEPT ![p] = l]
             \/ WakeAndGoto(p, "user")
      BY <1>4 DEF end_transaction, Goto
    <3>2. DOMAIN left = Procs /\ DOMAIN pc = Procs
      BY DEF TypeInv, TypeOK
    <3>3. \A r \in Procs : r # p => left'[r] = left[r]
      BY <3>1, <3>2
    <3>4. CASE WakeAndGoto(p, "user")
      BY <3>3, <3>4 DEF WakeAndGoto
    <3>5. CASE \E l \in {"panic", "end", "copy"} : pc' = [pc EXCEPT ![p] = l]
      BY <3>2, <3>3, <3>5
    <3>6. QED BY <3>1, <3>4, <3>5
  <2>2. Claims' \subseteq Claims
    BY <2>1 DEF Claims
  <2>3. lheader' = lheader
    BY <1>4 DEF end_transaction
  <2>4. QED BY <1>0, <2>2, <2>3, FewerClaims
<1>5. ASSUME NEW p \in Procs, commit(p) PROVE Room'
  <2>1. pc[p] \in Commit
    BY <1>5 DEF commit, CopyBlock, write_log_blk, write_log_header, keep_consistent_on_disk, ClearLog,
                CommitEnd, Commit
  <2>2. InTx = {}
    BY <2>1 DEF Phases
  <2>a. \/ WakeAndGoto(p, "user") \/ pc' = pc
        \/ \E l \in Commit : pc' = [pc EXCEPT ![p] = l]
    BY <1>5 DEF commit, CopyBlock, write_log_blk, write_log_header, keep_consistent_on_disk, ClearLog,
                CommitEnd, DozenStep, Goto, Commit
  <2>3. \A r \in Procs : pc'[r] = pc[r] \/ pc'[r] \notin {"in", "log_write"}
    BY <2>a DEF WakeAndGoto, Commit, TypeInv, TypeOK
  <2>4. InTx' = {}
    BY <2>2, <2>3 DEF InTx
  <2>5. QED BY <2>4, <1>b
<1>6. ASSUME NEW p \in Procs, Recover(p) PROVE Room'
  <2>1. pc[p] \in Boot
    BY <1>6 DEF Recover, read_log_header, RecoverBlock, recover_from_log, Boot
  <2>2. \A r \in Procs : pc[r] \in Boot
    BY <2>1 DEF Phases
  <2>3. \A r \in Procs : pc'[r] = pc[r] \/ pc'[r] \notin {"in", "log_write"}
    <3>1. \/ pc' = pc \/ pc' = [r \in Procs |-> "user"]
          \/ pc' = [pc EXCEPT ![p] = "recover"] \/ pc' = [pc EXCEPT ![p] = "recovered"]
      BY <1>6 DEF Recover, read_log_header, RecoverBlock, recover_from_log, DozenStep, Goto
    <3>2. QED BY <3>1 DEF TypeInv, TypeOK
  <2>4. InTx' = {}
    BY <2>2, <2>3 DEF InTx, Boot
  <2>5. QED BY <2>4, <1>b
<1>7. ASSUME NEW p \in Procs, NEW b \in Blocks, Write(p, b) PROVE Room'
  <2>1. \A r \in Procs : \/ pc'[r] = pc[r] /\ left'[r] <= left[r]
                         \/ r = p /\ pc'[r] = "log_write" /\ left'[r] = left[r] - 1
    <3>1. left' = [left EXCEPT ![p] = left[p] - 1] /\ (pc' = pc \/ pc' = [pc EXCEPT ![p] = "log_write"])
      BY <1>7 DEF Write, Goto
    <3>2. \A r \in Procs : left'[r] = IF r = p THEN left[r] - 1 ELSE left[r]
      BY <3>1 DEF TypeInv, TypeOK
    <3>a. \A r \in Procs : left[r] \in 0 .. MAXOPBLOCKS
      BY DEF TypeInv, TypeOK
    <3>3. \A r \in Procs : left[r] \in Nat
      BY <3>a DEF LogAssumption
    <3>4. ASSUME NEW r \in Procs PROVE pc'[r] = pc[r] \/ (r = p /\ pc'[r] = "log_write")
      <4>1. pc \in [Procs -> {pc[q] : q \in Procs}]
        BY DEF TypeInv, TypeOK
      <4>2. QED BY <3>1, <4>1
    <3>5. QED BY <3>2, <3>3, <3>4
  <2>2. pc[p] = "in"
    BY <1>7 DEF Write
  <2>3. \A r \in Procs : left[r] \in Nat /\ left'[r] \in Nat
    BY DEF TypeInv, TypeOK
  <2>4. Claims' \subseteq Claims
    <3> SUFFICES ASSUME NEW r \in Procs, NEW i \in 1 .. MAXOPBLOCKS, <<r, i>> \in Claims'
                 PROVE  <<r, i>> \in Claims
      BY DEF Claims
    <3>1. \/ i <= left'[r] /\ pc'[r] \in {"in", "log_write"}
          \/ i = left'[r] + 1 /\ pc'[r] = "log_write"
      BY DEF Claims
    <3>2. CASE r # p
      BY <2>1, <2>3, <3>1, <3>2 DEF Claims
    <3>3. CASE r = p
      BY <2>1, <2>2, <2>3, <3>1, <3>3 DEF Claims
    <3>4. QED BY <3>2, <3>3
  <2>5. lheader' = lheader
    BY <1>7 DEF Write, txVars
  <2>6. QED BY <1>0, <2>4, <2>5, FewerClaims
<1>8. ASSUME NEW b \in Blocks, Read(b) PROVE Room'
  BY <1>8, <1>a DEF Read, txVars
<1>9. CASE Crash
  <2>1. InTx' = {}
    BY <1>9 DEF Crash, InTx
  <2>2. QED BY <2>1, <1>b
<1>10. CASE UNCHANGED vars
  BY <1>10, <1>a DEF vars, txVars
<1>11. QED
  BY <1>1, <1>2, <1>3, <1>4, <1>5, <1>6, <1>7, <1>8, <1>9, <1>10 DEF Next, Step

-----------------------------------------------------------------------------
(* How far the commit and the recovery are.                                 *)

\* Nobody commits and nobody boots.
LEMMA ProgressIdle ==
  ASSUME \A r \in Procs : pc'[r] \notin Commit /\ pc'[r] \notin Boot, hdr' = <<>>
  PROVE  Progress'
BY DEF Progress, ProgressOf, HeaderClear, Commit, Boot

\* Only p commits or recovers.
LEMMA ProgressOne ==
  ASSUME NEW p \in Procs, ProgressOf(p)',
         \A r \in Procs : r # p => pc'[r] \notin Commit /\ pc'[r] \notin Boot \ {"boot"},
         hdr' = <<>> \/ pc'[p] \in {"install", "clear"} \/ \A r \in Procs : pc'[r] \in Boot
  PROVE  Progress'
<1>1. \A r \in Procs : r # p => ProgressOf(r)'
  BY DEF ProgressOf, Commit, Boot
<1>2. HeaderClear'
  BY DEF HeaderClear
<1>3. QED BY <1>1, <1>2 DEF Progress

\* What commits or recovers stays as it is, and blocks may only get newer.
LEMMA ProgressFrame ==
  ASSUME TypeInv, Progress, UNCHANGED <<lheader, buf_ptrs, todo, slot, hdr, stable, mem>>,
         \A r \in Procs : \/ pc'[r] = pc[r]
                          \/ /\ pc'[r] \notin Commit /\ pc'[r] \notin Boot
                             /\ pc[r] \notin Commit /\ pc[r] \notin Boot,
         \A b \in Blocks : home'[b] = home[b] \/ home'[b] >= stable[b]
  PROVE  Progress'
<1>1. ASSUME NEW r \in Procs PROVE ProgressOf(r)'
  <2>1. CASE pc'[r] \notin Commit /\ pc'[r] \notin Boot
    BY <2>1 DEF ProgressOf, Commit, Boot
  <2>2. CASE pc'[r] = pc[r]
    <3>1. ProgressOf(r)
      BY DEF Progress
    <3>2. \A i \in 1 .. Len(lheader) : lheader[i] \in Blocks
      BY ElementOfSeq DEF TypeInv, TypeOK
    <3>3. Copied' <=> Copied
      BY DEF Copied
    <3>4. QED BY <2>2, <3>1, <3>2, <3>3 DEF ProgressOf
  <2>3. QED BY <2>1, <2>2
<1>2. HeaderClear'
  <2> SUFFICES ASSUME NEW q \in Procs, pc'[q] \notin Boot
               PROVE  hdr = <<>> \/ \E r \in Procs : pc'[r] \in {"install", "clear"}
    BY DEF HeaderClear
  <2>1. pc[q] \notin Boot
    OBVIOUS
  <2>2. hdr = <<>> \/ \E r \in Procs : pc[r] \in {"install", "clear"}
    BY <2>1 DEF Progress, HeaderClear
  <2>3. \A r \in Procs : pc[r] \in {"install", "clear"} => pc'[r] = pc[r]
    BY DEF Commit
  <2>4. QED BY <2>2, <2>3
<1>3. QED BY <1>1, <1>2 DEF Progress

\* While p commits, the others neither commit nor boot.
LEMMA OnlyCommitter ==
  ASSUME Phases, NEW p \in Procs, pc[p] \in Commit
  PROVE  \A r \in Procs : pc[r] \notin Boot /\ (r # p => pc[r] \notin Commit)
BY DEF Phases, Commit, Boot

\* With somebody in a transaction there is no commit, and the header is empty.
LEMMA NoCommitter ==
  ASSUME LInv, NEW p \in InTx
  PROVE  hdr = <<>> /\ \A r \in Procs : pc[r] \notin Boot /\ pc[r] \notin Commit
<1>1. p \in Procs /\ pc[p] \notin Boot /\ Phases
  BY DEF InTx, Boot, LInv
<1>2. \A r \in Procs : pc[r] \notin Boot /\ pc[r] \notin Commit
  BY <1>1 DEF Phases
<1>3. QED BY <1>1, <1>2 DEF LInv, Progress, HeaderClear, Commit

\* What a dozen leaves: all blocks but one, or a fresh list and the next place.
LEMMA DozenCases ==
  ASSUME TypeInv, NEW p \in Procs, NEW i \in todo, NEW next, DozenStep(p, i, next)
  PROVE  /\ \A r \in Procs : r # p => pc'[r] = pc[r]
         /\ \/ todo = {i} /\ todo' = 1 .. Len(lheader) /\ pc'[p] = next
            \/ todo' = todo \ {i} /\ pc'[p] = pc[p]
BY DEF DozenStep, Goto, TypeInv, TypeOK

LEMMA ProgressStep == ASSUME LogAssumption, LInv, [Next]_vars, TypeInv', Phases' PROVE Progress'
<1> TypeInv /\ Phases /\ Progress /\ Kept
  BY DEF LInv
<1>1. ASSUME NEW p \in Procs, begin_transaction(p) PROVE Progress'
  <2>1. pc[p] = "user" /\ \A r \in Procs : pc'[r] = IF r = p THEN "begin" ELSE pc[r]
    BY <1>1 DEF begin_transaction, Goto, TypeInv, TypeOK
  <2>2. QED BY <1>1, <2>1, ProgressFrame DEF begin_transaction, diskVars, txVars, Commit, Boot
<1>2. ASSUME NEW p \in Procs, BeginLoop(p) PROVE Progress'
  <2>1. pc[p] = "begin" /\ \E l \in {"in", "sleep"} : \A r \in Procs : pc'[r] = IF r = p THEN l ELSE pc[r]
    BY <1>2 DEF BeginLoop, Goto, TypeInv, TypeOK
  <2>2. UNCHANGED <<lheader, buf_ptrs, todo, slot, hdr, stable, mem, home>>
    BY <1>2 DEF BeginLoop, diskVars
  <2>3. QED BY <2>1, <2>2, ProgressFrame DEF Commit, Boot
<1>3. ASSUME NEW p \in Procs, log_write(p) PROVE Progress'
  <2>1. p \in InTx /\ UNCHANGED hdr
    BY <1>3 DEF log_write, InTx, diskVars
  <2>2. \A r \in Procs : pc'[r] = IF r = p THEN "in" ELSE pc[r]
    BY <1>3 DEF log_write, Goto, TypeInv, TypeOK
  <2>3. QED BY <2>1, <2>2, NoCommitter, ProgressIdle DEF Commit, Boot
<1>4. ASSUME NEW p \in Procs, end_transaction(p) PROVE Progress'
  <2>1. p \in InTx /\ UNCHANGED <<hdr, lheader>> /\ ~committing
    BY <1>4 DEF end_transaction, InTx, diskVars, Phases
  <2>2. hdr = <<>> /\ \A r \in Procs : pc[r] \notin Boot /\ pc[r] \notin Commit
    BY <2>1, NoCommitter
  <2>3. CASE n_occupiers = 1 /\ lheader # <<>>
    <3>1. pc' = [pc EXCEPT ![p] = "copy"] /\ todo' = 1 .. Len(lheader) /\ buf_ptrs' = <<>>
      BY <1>4, <2>1, <2>3 DEF end_transaction, Goto
    <3>2. \A r \in Procs : pc'[r] = IF r = p THEN "copy" ELSE pc[r]
      BY <3>1 DEF TypeInv, TypeOK
    <3>3. Len(lheader) \in Nat /\ Len(lheader) # 0
      BY <2>3, EmptySeq DEF TypeInv, TypeOK
    <3>4. Copied' /\ Len(buf_ptrs') = 0
      BY <3>1 DEF Copied
    <3>5. ProgressOf(p)'
      BY <2>1, <3>1, <3>2, <3>3, <3>4 DEF ProgressOf
    <3>6. QED BY <2>1, <2>2, <3>2, <3>5, ProgressOne
  <2>4. CASE ~(n_occupiers = 1 /\ lheader # <<>>)
    <3>1. WakeAndGoto(p, "user") \/ pc' = [pc EXCEPT ![p] = "end"]
      BY <1>4, <2>1, <2>4 DEF end_transaction, Goto
    <3>2. \A r \in Procs : IF r = p THEN pc'[r] \in {"user", "end"}
                            ELSE pc'[r] = pc[r] \/ pc'[r] = "begin"
      BY <3>1 DEF WakeAndGoto, TypeInv, TypeOK
    <3>3. ProgressOf(p)'
      BY <3>2 DEF ProgressOf
    <3>4. QED BY <2>1, <2>2, <3>2, <3>3, ProgressOne DEF Commit, Boot
  <2>5. QED BY <2>3, <2>4
<1>5. ASSUME NEW p \in Procs, CopyBlock(p) PROVE Progress'
  <2> DEFINE n == Len(buf_ptrs)
             b == lheader[n + 1]
  <2>1. pc[p] = "copy" /\ UNCHANGED <<mem, lheader, slot, hdr, stable, todo>>
    BY <1>5 DEF CopyBlock, Bread, txVars
  <2>2. buf_ptrs' = Append(buf_ptrs, mem[b])
    BY <1>5 DEF CopyBlock
  <2>3. IF n + 1 = Len(lheader) THEN pc' = [pc EXCEPT ![p] = "log"] ELSE pc' = pc
    BY <1>5 DEF CopyBlock, Goto
  <2>4. ProgressOf(p)
    BY DEF Progress
  <2>a. n \in Nat /\ Len(lheader) \in Nat
    BY LenProperties DEF TypeInv, TypeOK
  <2>b. n < Len(lheader) /\ Copied
    BY <2>1, <2>4 DEF ProgressOf
  <2>5. n \in Nat /\ Len(lheader) \in Nat /\ n < Len(lheader) /\ Copied
    BY <2>a, <2>b
  <2>6. Len(buf_ptrs') = n + 1 /\ (\A i \in 1 .. n : buf_ptrs'[i] = buf_ptrs[i]) /\ buf_ptrs'[n + 1] = mem[b]
    <3>1. buf_ptrs \in Seq(Nat) /\ mem[b] \in Nat
      <4>1. b \in Blocks
        BY <2>5, ElementOfSeq, SMTT(40) DEF TypeInv, TypeOK
      <4>2. QED BY <4>1 DEF TypeInv, TypeOK
    <3>2. QED BY <2>2, <3>1, AppendProperties
  <2>7. Copied'
    <3> SUFFICES ASSUME NEW i \in 1 .. n + 1 PROVE buf_ptrs'[i] = mem[lheader[i]]
      BY <2>1, <2>6 DEF Copied
    <3>1. CASE i = n + 1
      BY <2>6, <3>1
    <3>2. CASE i # n + 1
      BY <2>5, <2>6, <3>2 DEF Copied
    <3>3. QED BY <3>1, <3>2
  <2>8. \A r \in Procs : pc'[r] = IF r = p /\ n + 1 = Len(lheader) THEN "log" ELSE pc[r]
    BY <2>3 DEF TypeInv, TypeOK
  <2> HIDE DEF n, b
  <2>9. ProgressOf(p)'
    <3>1. CASE n + 1 = Len(lheader)
      BY <2>1, <2>4, <2>6, <2>7, <2>8, <3>1 DEF ProgressOf
    <3>2. CASE n + 1 # Len(lheader)
      BY <2>1, <2>4, <2>5, <2>6, <2>7, <2>8, <3>2 DEF ProgressOf
    <3>3. QED BY <3>1, <3>2
  <2>10. \A r \in Procs : pc[r] \notin Boot /\ (r # p => pc[r] \notin Commit)
    BY <2>1, OnlyCommitter DEF Commit
  <2>11. hdr = <<>>
    BY <2>1, <2>10 DEF Progress, HeaderClear, Commit, Boot
  <2>12. QED BY <2>1, <2>8, <2>9, <2>10, <2>11, ProgressOne
<1>6. ASSUME NEW p \in Procs, write_log_blk(p) PROVE Progress'
  <2>1. pc[p] = "log" /\ UNCHANGED <<mem, lheader, home, hdr, stable, buf_ptrs>>
    BY <1>6 DEF write_log_blk, txVars
  <2>2. PICK i \in todo : slot' = [slot EXCEPT ![i] = buf_ptrs[i]] /\ DozenStep(p, i, "header")
    BY <1>6 DEF write_log_blk
  <2>3. /\ \A r \in Procs : r # p => pc'[r] = pc[r]
        /\ \/ todo = {i} /\ todo' = 1 .. Len(lheader) /\ pc'[p] = "header"
           \/ todo' = todo \ {i} /\ pc'[p] = "log"
    BY <2>1, <2>2, DozenCases
  <2>4. ProgressOf(p) /\ (Copied' <=> Copied)
    BY <2>1 DEF Progress, Copied
  <2>5. \A j \in 1 .. Len(lheader) : j \notin todo \ {i} => slot'[j] = buf_ptrs[j]
    <3>1. \A j \in 1 .. Len(lheader) : slot'[j] = IF j = i THEN buf_ptrs[i] ELSE slot[j]
      BY <2>2, LogRange DEF TypeInv, TypeOK
    <3>2. QED BY <2>1, <2>4, <3>1 DEF ProgressOf
  <2>6. ProgressOf(p)'
    BY <2>1, <2>3, <2>4, <2>5 DEF ProgressOf
  <2>7. \A r \in Procs : pc[r] \notin Boot /\ (r # p => pc[r] \notin Commit)
    BY <2>1, OnlyCommitter DEF Commit
  <2>8. hdr = <<>>
    BY <2>1, <2>7 DEF Progress, HeaderClear, Commit, Boot
  <2>9. QED BY <2>1, <2>3, <2>6, <2>7, <2>8, ProgressOne
<1>7. ASSUME NEW p \in Procs, write_log_header(p) PROVE Progress'
  <2>1. pc[p] = "header" /\ hdr' = lheader /\ UNCHANGED <<mem, lheader, home, slot, buf_ptrs, todo>>
    BY <1>7 DEF write_log_header, txVars
  <2>2. \A r \in Procs : pc'[r] = IF r = p THEN "install" ELSE pc[r]
    BY <1>7 DEF write_log_header, Goto, TypeInv, TypeOK
  <2>3. ProgressOf(p) /\ (Copied' <=> Copied)
    BY <2>1 DEF Progress, Copied
  <2>4. ProgressOf(p)'
    BY <2>1, <2>2, <2>3 DEF ProgressOf
  <2>5. \A r \in Procs : pc[r] \notin Boot /\ (r # p => pc[r] \notin Commit)
    BY <2>1, OnlyCommitter DEF Commit
  <2>6. QED BY <2>2, <2>4, <2>5, ProgressOne
<1>8. ASSUME NEW p \in Procs, keep_consistent_on_disk(p) PROVE Progress'
  <2>1. pc[p] = "install" /\ UNCHANGED <<lheader, slot, hdr, stable, buf_ptrs>>
    BY <1>8 DEF keep_consistent_on_disk, txVars
  <2>2. PICK i \in todo : /\ home' = [home EXCEPT ![lheader[i]] = buf_ptrs[i]]
                          /\ mem' = [mem EXCEPT ![lheader[i]] = buf_ptrs[i]]
                          /\ DozenStep(p, i, "clear")
    BY <1>8 DEF keep_consistent_on_disk
  <2>3. /\ \A r \in Procs : r # p => pc'[r] = pc[r]
        /\ \/ todo = {i} /\ todo' = 1 .. Len(lheader) /\ pc'[p] = "clear"
           \/ todo' = todo \ {i} /\ pc'[p] = "install"
    BY <2>1, <2>2, DozenCases
  <2>4. ProgressOf(p)
    BY DEF Progress
  <2>5. i \in 1 .. Len(lheader) /\ buf_ptrs[i] = mem[lheader[i]] /\ lheader[i] \in Blocks
    BY <2>1, <2>4, ElementOfSeq DEF ProgressOf, Copied, TypeInv, TypeOK
  <2>6. mem' = mem
    BY <2>2, <2>5 DEF TypeInv, TypeOK
  <2>7. \A c \in Blocks : home'[c] = IF c = lheader[i] THEN mem[c] ELSE home[c]
    BY <2>2, <2>5 DEF TypeInv, TypeOK
  <2>8. pc[p] \notin Boot /\ \A c \in Blocks : mem[c] >= stable[c]
    BY <2>1 DEF Kept, Boot
  <2>9. \A j \in 1 .. Len(lheader) : j \notin todo \ {i} => home'[lheader[j]] >= stable[lheader[j]]
    <3> TAKE j \in 1 .. Len(lheader)
    <3>1. lheader[j] \in Blocks
      BY ElementOfSeq DEF TypeInv, TypeOK
    <3>2. QED BY <2>1, <2>4, <2>7, <2>8, <3>1 DEF ProgressOf
  <2>10. ASSUME todo = {i} PROVE \A c \in Blocks : home'[c] >= stable[c]
    <3> TAKE c \in Blocks
    <3>1. CASE InLog(hdr, c)
      BY <2>1, <2>4, <2>9, <2>10, <3>1 DEF InLog, ProgressOf
    <3>2. CASE ~InLog(hdr, c)
      BY <2>7, <2>8, <3>2 DEF Kept
    <3>3. QED BY <3>1, <3>2
  <2>11. Copied' <=> Copied
    BY <2>1, <2>6 DEF Copied
  <2>12. ProgressOf(p)'
    BY <2>1, <2>3, <2>4, <2>9, <2>10, <2>11 DEF ProgressOf
  <2>13. \A r \in Procs : pc[r] \notin Boot /\ (r # p => pc[r] \notin Commit)
    BY <2>1, OnlyCommitter DEF Commit
  <2>14. QED BY <2>3, <2>12, <2>13, ProgressOne
<1>9. ASSUME NEW p \in Procs, ClearLog(p) PROVE Progress'
  <2>1. pc[p] = "clear" /\ hdr' = <<>>
    BY <1>9 DEF ClearLog
  <2>2. \A r \in Procs : pc'[r] = IF r = p THEN "end" ELSE pc[r]
    BY <1>9 DEF ClearLog, Goto, TypeInv, TypeOK
  <2>3. ProgressOf(p)'
    BY <2>2 DEF ProgressOf
  <2>4. QED BY <2>1, <2>2, <2>3, OnlyCommitter, ProgressOne DEF Commit, Boot
<1>10. ASSUME NEW p \in Procs, CommitEnd(p) PROVE Progress'
  <2>1. pc[p] = "end" /\ hdr' = hdr
    BY <1>10 DEF CommitEnd, diskVars
  <2>2. \A r \in Procs : pc'[r] = IF r = p THEN "user" ELSE IF pc[r] = "sleep" THEN "begin" ELSE pc[r]
    BY <1>10 DEF CommitEnd, WakeAndGoto
  <2>3. \A r \in Procs : pc[r] \notin Boot /\ (r # p => pc[r] \notin Commit)
    BY <2>1, OnlyCommitter DEF Commit
  <2>4. hdr = <<>>
    BY <2>1, <2>3 DEF Progress, HeaderClear, Commit, Boot
  <2>5. QED BY <2>1, <2>2, <2>3, <2>4, ProgressIdle DEF Commit, Boot
<1>11. ASSUME NEW p \in Procs, read_log_header(p) PROVE Progress'
  <2>1. /\ \A r \in Procs : pc[r] = "boot"
        /\ lheader' = hdr /\ todo' = 1 .. Len(hdr) /\ UNCHANGED <<hdr, home, stable>>
    BY <1>11 DEF read_log_header, diskVars
  <2>2. pc' = [pc EXCEPT ![p] = IF hdr = <<>> THEN "recovered" ELSE "recover"]
    BY <1>11 DEF read_log_header, Goto
  <2>3. \A r \in Procs : pc'[r] = IF r = p THEN (IF hdr = <<>> THEN "recovered" ELSE "recover") ELSE "boot"
    BY <2>1, <2>2 DEF TypeInv, TypeOK
  <2>4. hdr = <<>> => \A b \in Blocks : home[b] >= stable[b]
    BY DEF Kept, InLog
  <2>5. ProgressOf(p)'
    BY <2>1, <2>3, <2>4 DEF ProgressOf
  <2>6. QED BY <2>3, <2>5, ProgressOne DEF Commit, Boot
<1>12. ASSUME NEW p \in Procs, RecoverBlock(p) PROVE Progress'
  <2>1. pc[p] = "recover" /\ UNCHANGED <<lheader, slot, hdr, stable, buf_ptrs, mem>>
    BY <1>12 DEF RecoverBlock, txVars
  <2>2. PICK i \in todo : home' = [home EXCEPT ![lheader[i]] = slot[i]] /\ DozenStep(p, i, "recovered")
    BY <1>12 DEF RecoverBlock
  <2>3. /\ \A r \in Procs : r # p => pc'[r] = pc[r]
        /\ \/ todo = {i} /\ todo' = 1 .. Len(lheader) /\ pc'[p] = "recovered"
           \/ todo' = todo \ {i} /\ pc'[p] = "recover"
    BY <2>1, <2>2, DozenCases
  <2>4. ProgressOf(p)
    BY DEF Progress
  <2>5. i \in 1 .. Len(lheader) /\ lheader[i] \in Blocks /\ hdr = lheader
    BY <2>1, <2>4, ElementOfSeq DEF ProgressOf, TypeInv, TypeOK
  <2>6. slot[i] >= stable[lheader[i]]
    BY <2>5 DEF Kept
  <2>7. \A c \in Blocks : home'[c] = IF c = lheader[i] THEN slot[i] ELSE home[c]
    BY <2>2, <2>5 DEF TypeInv, TypeOK
  <2>8. \A j \in 1 .. Len(lheader) : j \notin todo \ {i} => home'[lheader[j]] >= stable[lheader[j]]
    <3> TAKE j \in 1 .. Len(lheader)
    <3>1. lheader[j] \in Blocks
      BY ElementOfSeq DEF TypeInv, TypeOK
    <3>2. QED BY <2>1, <2>4, <2>6, <2>7, <3>1 DEF ProgressOf
  <2>9. ASSUME todo = {i} PROVE \A c \in Blocks : home'[c] >= stable[c]
    <3> TAKE c \in Blocks
    <3>1. CASE InLog(hdr, c)
      BY <2>5, <2>8, <2>9, <3>1 DEF InLog
    <3>2. CASE ~InLog(hdr, c)
      BY <2>5, <2>6, <2>7, <3>2 DEF Kept
    <3>3. QED BY <3>1, <3>2
  <2>10. ProgressOf(p)'
    BY <2>1, <2>3, <2>4, <2>8, <2>9 DEF ProgressOf
  <2>11. \A r \in Procs : pc[r] \in Boot /\ (r # p => pc[r] = "boot")
    BY <2>1 DEF Phases, Boot
  <2>12. QED BY <2>3, <2>10, <2>11, ProgressOne DEF Commit, Boot
<1>13. ASSUME NEW p \in Procs, recover_from_log(p) PROVE Progress'
  BY <1>13, ProgressIdle DEF recover_from_log, Commit, Boot
<1>14. ASSUME NEW p \in Procs, NEW b \in Blocks, Write(p, b) PROVE Progress'
  <2>1. p \in InTx /\ UNCHANGED hdr
    BY <1>14 DEF Write, InTx, Bread
  <2>2. pc' = pc \/ pc' = [pc EXCEPT ![p] = "log_write"]
    BY <1>14 DEF Write, Goto
  <2>3. \A r \in Procs : pc'[r] = pc[r] \/ pc'[r] = "log_write"
    BY <2>2 DEF TypeInv, TypeOK
  <2>4. QED BY <2>1, <2>3, NoCommitter, ProgressIdle DEF Commit, Boot
<1>15. ASSUME NEW b \in Blocks, Read(b) PROVE Progress'
  <2>1. /\ b \in dirty /\ UNCHANGED <<lheader, buf_ptrs, todo, slot, hdr, stable, mem, pc>>
        /\ home' = [home EXCEPT ![b] = mem[b]]
    BY <1>15 DEF Read, Bread, txVars
  <2>2. \A c \in Blocks : home'[c] = home[c] \/ home'[c] >= stable[c]
    BY <2>1 DEF Kept, TypeInv, TypeOK
  <2>3. QED BY <2>1, <2>2, ProgressFrame
<1>16. CASE Crash
  BY <1>16 DEF Crash, Progress, ProgressOf, HeaderClear, Boot
<1>17. CASE UNCHANGED vars
  BY <1>17, ProgressFrame DEF vars, diskVars, txVars
<1>18. QED
  BY <1>1, <1>2, <1>3, <1>4, <1>5, <1>6, <1>7, <1>8, <1>9, <1>10, <1>11, <1>12, <1>13, <1>14,
     <1>15, <1>16, <1>17 DEF Next, Step, commit, Recover

-----------------------------------------------------------------------------
(* What is committed is kept.                                               *)

\* Blocks and buffers get newer and the committed contents stay.
LEMMA KeptFrame ==
  ASSUME TypeInv, Kept, UNCHANGED <<slot, hdr, stable, mem, ver>>, dirty' \subseteq dirty,
         \A b \in Blocks : home'[b] = home[b] \/ home'[b] >= stable[b],
         \A r \in Procs : pc'[r] \notin Boot => pc[r] \notin Boot
  PROVE  Kept'
<1>1. \A b \in Blocks : ~InLog(hdr, b) => home'[b] >= stable[b]
  BY DEF Kept
<1>2. QED BY <1>1 DEF Kept, InLog

\* bread() in a running system brings home nothing older than the last commit.
LEMMA BreadKeeps ==
  ASSUME TypeInv, Kept, NEW b \in Blocks, Bread(b)
  PROVE  \A c \in Blocks : home'[c] = home[c] \/ home'[c] >= stable[c]
BY DEF Bread, Kept, TypeInv, TypeOK

LEMMA KeptStep == ASSUME LogAssumption, LInv, [Next]_vars, TypeInv' PROVE Kept'
<1> TypeInv /\ Phases /\ Progress /\ Versions /\ Kept
  BY DEF LInv
<1>1. ASSUME NEW p \in Procs, begin_transaction(p) PROVE Kept'
  <2>1. \A r \in Procs : pc'[r] \notin Boot => pc[r] \notin Boot
    BY <1>1 DEF begin_transaction, Goto, TypeInv, TypeOK, Boot
  <2>2. QED BY <1>1, <2>1, KeptFrame DEF begin_transaction, diskVars, txVars
<1>2. ASSUME NEW p \in Procs, BeginLoop(p) PROVE Kept'
  <2>1. pc[p] = "begin" /\ \A r \in Procs : r # p => pc'[r] = pc[r]
    BY <1>2 DEF BeginLoop, Goto, TypeInv, TypeOK
  <2>2. UNCHANGED <<slot, hdr, stable, mem, ver, home, dirty>>
    BY <1>2 DEF BeginLoop, diskVars
  <2>3. QED BY <2>1, <2>2, KeptFrame DEF Boot
<1>3. ASSUME NEW p \in Procs, log_write(p) PROVE Kept'
  <2>1. p \in InTx /\ UNCHANGED <<home, slot, hdr, stable, mem, ver>>
    BY <1>3 DEF log_write, InTx, diskVars
  <2>2. PICK b \in busy[p] : dirty' = dirty \cup {b}
    BY <1>3 DEF log_write
  <2>3. pc[p] \notin Boot /\ b \in Blocks
    BY <1>3, <2>2 DEF log_write, Boot, TypeInv, TypeOK
  <2>4. \A c \in dirty' : mem[c] >= stable[c]
    BY <2>2, <2>3 DEF Kept
  <2>5. \A c \in Blocks : mem[c] >= stable[c]
    BY <2>3 DEF Kept
  <2>6. QED BY <2>1, <2>4, <2>5 DEF Kept, InLog
<1>4. ASSUME NEW p \in Procs, end_transaction(p) PROVE Kept'
  <2>1. p \in InTx /\ UNCHANGED <<home, slot, hdr, stable, mem, ver, dirty>>
    BY <1>4 DEF end_transaction, InTx, diskVars
  <2>2. \A r \in Procs : pc[r] \notin Boot
    BY <2>1, NoCommitter
  <2>3. QED BY <2>1, <2>2, KeptFrame
<1>5. ASSUME NEW p \in Procs, CopyBlock(p) PROVE Kept'
  <2>1. pc[p] = "copy" /\ UNCHANGED <<slot, hdr, stable, mem, ver>>
    BY <1>5 DEF CopyBlock, Bread
  <2>2. \E b \in Blocks : Bread(b) /\ dirty' = dirty \ {b}
    <3>a. Len(buf_ptrs) < Len(lheader)
      BY <2>1 DEF LInv, Progress, ProgressOf
    <3>b. Len(buf_ptrs) \in Nat /\ Len(lheader) \in Nat
      BY LenProperties DEF LInv, TypeInv, TypeOK
    <3>1. Len(buf_ptrs) + 1 \in 1 .. Len(lheader)
      BY <3>a, <3>b
    <3>2. lheader[Len(buf_ptrs) + 1] \in Blocks
      BY <3>1, ElementOfSeq DEF TypeInv, TypeOK
    <3>3. QED BY <1>5, <3>2 DEF CopyBlock
  <2>3. \A c \in Blocks : home'[c] = home[c] \/ home'[c] >= stable[c]
    BY <2>2, BreadKeeps
  <2>4. \A r \in Procs : pc[r] \notin Boot
    BY <2>1, OnlyCommitter DEF Commit
  <2>5. QED BY <2>1, <2>2, <2>3, <2>4, KeptFrame
<1>6. ASSUME NEW p \in Procs, write_log_blk(p) PROVE Kept'
  <2>1. pc[p] = "log" /\ UNCHANGED <<mem, dirty, home, hdr, stable, ver>>
    BY <1>6 DEF write_log_blk, txVars
  <2>2. \A r \in Procs : pc[r] \notin Boot /\ (r # p => pc[r] \notin Commit)
    BY <2>1, OnlyCommitter DEF Commit
  <2>3. hdr = <<>>
    BY <2>1, <2>2 DEF Progress, HeaderClear, Commit, Boot
  <2>4. \A b \in Blocks : mem[b] >= stable[b]
    BY <2>2 DEF Kept
  <2>5. QED BY <2>1, <2>3, <2>4 DEF Kept, InLog
<1>7. ASSUME NEW p \in Procs, write_log_header(p) PROVE Kept'
  <2>1. pc[p] = "header" /\ hdr' = lheader /\ UNCHANGED <<mem, dirty, home, slot, ver, lheader>>
    BY <1>7 DEF write_log_header, txVars
  <2>2. stable' = [b \in Blocks |-> IF InLog(lheader, b) THEN mem[b] ELSE stable[b]]
    BY <1>7 DEF write_log_header
  <2>3. \A r \in Procs : pc[r] \notin Boot /\ (r # p => pc[r] \notin Commit)
    BY <2>1, OnlyCommitter DEF Commit
  <2>4. hdr = <<>>
    BY <2>1, <2>3 DEF Progress, HeaderClear, Commit, Boot
  <2>5. ProgressOf(p)
    BY DEF Progress
  <2>6. \A i \in 1 .. Len(lheader) : lheader[i] \in Blocks /\ InLog(lheader, lheader[i])
    BY ElementOfSeq DEF TypeInv, TypeOK, InLog
  <2>7. \A i \in 1 .. Len(lheader) : slot[i] = mem[lheader[i]]
    BY <2>1, <2>5 DEF ProgressOf, Copied
  <2>8. \A i \in 1 .. Len(lheader) : slot[i] >= stable'[lheader[i]]
    <3> TAKE i \in 1 .. Len(lheader)
    <3>1. slot[i] = stable'[lheader[i]] /\ slot[i] \in Nat
      BY <2>2, <2>6, <2>7 DEF TypeInv, TypeOK
    <3>2. QED BY <3>1
  <2>9. \A b \in Blocks : ~InLog(lheader, b) => home[b] >= stable'[b]
    BY <2>2, <2>4 DEF Kept, InLog
  <2>10. \A b \in Blocks : mem[b] >= stable'[b] /\ ver >= mem[b] /\ ver >= stable'[b]
    <3> TAKE b \in Blocks
    <3>1. mem[b] \in Nat /\ mem[b] >= stable[b] /\ ver >= mem[b] /\ ver >= stable[b]
      BY <2>1, <2>3 DEF Kept, TypeInv, TypeOK
    <3>2. QED BY <2>2, <3>1
  <2>11. dirty \subseteq Blocks
    BY DEF TypeInv, TypeOK
  <2>12. QED BY <2>1, <2>8, <2>9, <2>10, <2>11 DEF Kept, InLog
<1>8. ASSUME NEW p \in Procs, keep_consistent_on_disk(p) PROVE Kept'
  <2>1. pc[p] = "install" /\ UNCHANGED <<slot, hdr, stable, ver>>
    BY <1>8 DEF keep_consistent_on_disk, txVars
  <2>2. PICK i \in todo : /\ home' = [home EXCEPT ![lheader[i]] = buf_ptrs[i]]
                          /\ mem' = [mem EXCEPT ![lheader[i]] = buf_ptrs[i]]
                          /\ dirty' = dirty \ {lheader[i]}
    BY <1>8 DEF keep_consistent_on_disk
  <2>3. i \in 1 .. Len(lheader) /\ buf_ptrs[i] = mem[lheader[i]]
    BY <2>1 DEF Progress, ProgressOf, Copied
  <2>4. lheader[i] \in Blocks
    BY <2>3, ElementOfSeq DEF TypeInv, TypeOK
  <2>5. mem' = mem
    BY <2>2, <2>3, <2>4 DEF TypeInv, TypeOK
  <2>6. \A r \in Procs : pc[r] \notin Boot
    BY <2>1, OnlyCommitter DEF Commit
  <2>7. \A c \in Blocks : home'[c] = home[c] \/ home'[c] >= stable[c]
    <3> TAKE c \in Blocks
    <3>1. home'[c] = IF c = lheader[i] THEN mem[c] ELSE home[c]
      BY <2>2, <2>3, <2>4 DEF TypeInv, TypeOK
    <3>2. mem[c] >= stable[c]
      BY <2>6 DEF Kept
    <3>3. QED BY <3>1, <3>2
  <2>8. QED BY <2>1, <2>2, <2>5, <2>6, <2>7, KeptFrame
<1>9. ASSUME NEW p \in Procs, ClearLog(p) PROVE Kept'
  <2>1. pc[p] = "clear" /\ hdr' = <<>> /\ UNCHANGED <<home, slot, mem, dirty, stable, ver>>
    BY <1>9 DEF ClearLog
  <2>2. \A b \in Blocks : home[b] >= stable[b]
    BY <2>1 DEF Progress, ProgressOf
  <2>3. \A b \in Blocks : mem[b] >= stable[b]
    BY <2>1 DEF Kept, Boot
  <2>4. QED BY <2>1, <2>2, <2>3 DEF Kept, InLog
<1>10. ASSUME NEW p \in Procs, CommitEnd(p) PROVE Kept'
  <2>1. pc[p] = "end" /\ UNCHANGED <<home, slot, hdr, stable, mem, ver, dirty>>
    BY <1>10 DEF CommitEnd, diskVars
  <2>2. \A r \in Procs : pc[r] \notin Boot
    BY <2>1, OnlyCommitter DEF Commit
  <2>3. QED BY <2>1, <2>2, KeptFrame
<1>11. ASSUME NEW p \in Procs, read_log_header(p) PROVE Kept'
  <2>1. \A r \in Procs : pc'[r] \in Boot
    BY <1>11 DEF read_log_header, Goto, TypeInv, TypeOK, Boot
  <2>2. QED BY <1>11, <2>1, KeptFrame DEF read_log_header, diskVars
<1>12. ASSUME NEW p \in Procs, RecoverBlock(p) PROVE Kept'
  <2>1. pc[p] = "recover" /\ UNCHANGED <<slot, hdr, stable, mem, dirty, ver>>
    BY <1>12 DEF RecoverBlock
  <2>2. PICK i \in todo : home' = [home EXCEPT ![lheader[i]] = slot[i]] /\ DozenStep(p, i, "recovered")
    BY <1>12 DEF RecoverBlock
  <2>3. i \in 1 .. Len(lheader) /\ hdr = lheader
    BY <2>1 DEF Progress, ProgressOf
  <2>4. lheader[i] \in Blocks /\ slot[i] >= stable[lheader[i]]
    BY <2>3, ElementOfSeq DEF TypeInv, TypeOK, Kept
  <2>5. \A c \in Blocks : home'[c] = home[c] \/ home'[c] >= stable[c]
    BY <2>2, <2>4 DEF TypeInv, TypeOK
  <2>6. \A r \in Procs : pc'[r] \in Boot
    <3>1. \A r \in Procs : pc[r] \in Boot
      BY <2>1 DEF Phases, Boot
    <3>2. \A r \in Procs : pc'[r] = pc[r] \/ pc'[r] = "recovered"
      BY <2>2, DozenCases
    <3>3. QED BY <3>1, <3>2 DEF Boot
  <2>7. QED BY <2>1, <2>5, <2>6, KeptFrame
<1>13. ASSUME NEW p \in Procs, recover_from_log(p) PROVE Kept'
  <2>1. pc[p] = "recovered" /\ hdr' = <<>> /\ mem' = home /\ UNCHANGED <<home, slot, dirty, stable, ver>>
    BY <1>13 DEF recover_from_log
  <2>2. \A b \in Blocks : home[b] >= stable[b]
    BY <2>1 DEF Progress, ProgressOf
  <2>3. \A b \in Blocks : ver >= home[b]
    BY DEF Versions
  <2>4. dirty \subseteq Blocks
    BY DEF TypeInv, TypeOK
  <2>5. QED BY <2>1, <2>2, <2>3, <2>4 DEF Kept, InLog
<1>14. ASSUME NEW p \in Procs, NEW b \in Blocks, Write(p, b) PROVE Kept'
  <2>1. p \in InTx /\ ver' = ver + 1 /\ dirty' = dirty \ {b} /\ UNCHANGED <<slot, hdr, stable>>
    BY <1>14 DEF Write, InTx, Bread
  <2>2. hdr = <<>> /\ \A r \in Procs : pc[r] \notin Boot
    BY <2>1, NoCommitter
  <2>3. \A c \in Blocks : home'[c] = home[c] \/ home'[c] >= stable[c]
    BY <1>14, BreadKeeps DEF Write
  <2>4. \A c \in Blocks : mem'[c] = IF c = b THEN ver + 1 ELSE mem[c]
    BY <1>14 DEF Write, TypeInv, TypeOK
  <2>5. ver \in Nat /\ \A c \in Blocks : mem[c] \in Nat /\ stable[c] \in Nat
    BY DEF TypeInv, TypeOK
  <2>6. \A c \in Blocks : mem[c] >= stable[c] /\ ver >= mem[c] /\ ver >= stable[c] /\ home[c] >= stable[c]
    BY <2>1, <2>2 DEF Kept, InLog, InTx
  <2>7. \A c \in Blocks : mem'[c] >= stable[c] /\ ver + 1 >= mem'[c] /\ ver + 1 >= stable[c] /\ home'[c] >= stable[c]
    BY <2>3, <2>4, <2>5, <2>6
  <2>8. dirty \subseteq Blocks
    BY DEF TypeInv, TypeOK
  <2>9. QED BY <2>1, <2>2, <2>7, <2>8 DEF Kept, InLog
<1>15. ASSUME NEW b \in Blocks, Read(b) PROVE Kept'
  <2>1. UNCHANGED <<slot, hdr, stable, mem, ver, pc>> /\ dirty' = dirty \ {b}
    BY <1>15 DEF Read, Bread
  <2>2. \A c \in Blocks : home'[c] = home[c] \/ home'[c] >= stable[c]
    BY <1>15, BreadKeeps DEF Read
  <2>3. QED BY <2>1, <2>2, KeptFrame
<1>16. CASE Crash
  <2>1. /\ UNCHANGED <<home, slot, hdr, stable, ver>> /\ dirty' = {}
        /\ \A b \in Blocks : mem'[b] = 0
        /\ \A r \in Procs : pc'[r] \in Boot
    BY <1>16 DEF Crash, diskVars, Boot
  <2>2. \A b \in Blocks : ver >= 0
    BY DEF TypeInv, TypeOK
  <2>3. QED BY <2>1, <2>2 DEF Kept, InLog
<1>17. CASE UNCHANGED vars
  BY <1>17, KeptFrame DEF vars, diskVars, txVars
<1>18. QED
  BY <1>1, <1>2, <1>3, <1>4, <1>5, <1>6, <1>7, <1>8, <1>9, <1>10, <1>11, <1>12, <1>13, <1>14,
     <1>15, <1>16, <1>17 DEF Next, Step, commit, Recover

-----------------------------------------------------------------------------
(* The versions.                                                            *)

\* Blocks change to versions there were before.
LEMMA VersionsFrame ==
  ASSUME TypeInv, TypeInv', Versions, ver' \in {ver, ver + 1},
         \A b \in Blocks : home'[b] = home[b] \/ ver >= home'[b],
         \A i \in 1 .. LOGSIZE : slot'[i] = slot[i] \/ ver >= slot'[i],
         buf_ptrs' = buf_ptrs \/ buf_ptrs' = <<>>
  PROVE  Versions'
<1>1. ver \in Nat /\ \A b \in Blocks : home'[b] \in Nat
  BY DEF TypeInv, TypeOK
<1>2. \A i \in 1 .. LOGSIZE : slot'[i] \in Nat
  BY DEF TypeInv, TypeOK
<1>3. \A i \in 1 .. Len(buf_ptrs') : buf_ptrs'[i] \in Nat
  BY ElementOfSeq DEF TypeInv, TypeOK
<1>4. \A b \in Blocks : ver >= home'[b]
  BY DEF Versions
<1>5. \A i \in 1 .. LOGSIZE : ver >= slot'[i]
  BY DEF Versions
<1>6. \A i \in 1 .. Len(buf_ptrs') : ver >= buf_ptrs'[i]
  BY DEF Versions
<1>7. QED BY <1>1, <1>2, <1>3, <1>4, <1>5, <1>6 DEF Versions

\* bread() brings home a version there is in a buffer.
LEMMA BreadVersions ==
  ASSUME TypeInv, Kept, NEW b \in Blocks, Bread(b)
  PROVE  \A c \in Blocks : home'[c] = home[c] \/ ver >= home'[c]
BY DEF Bread, Kept, TypeInv, TypeOK

LEMMA VersionsStep == ASSUME LogAssumption, LInv, [Next]_vars, TypeInv' PROVE Versions'
<1> TypeInv /\ Phases /\ Progress /\ Versions /\ Kept
  BY DEF LInv
<1>1. ASSUME NEW p \in Procs, begin_transaction(p) \/ BeginLoop(p) \/ log_write(p) PROVE Versions'
  BY <1>1, VersionsFrame DEF begin_transaction, BeginLoop, log_write, diskVars
<1>2. ASSUME NEW p \in Procs, end_transaction(p) PROVE Versions'
  BY <1>2, VersionsFrame DEF end_transaction, diskVars
<1>3. ASSUME NEW p \in Procs, CopyBlock(p) PROVE Versions'
  <2> DEFINE b == lheader[Len(buf_ptrs) + 1]
  <2>1. b \in Blocks
    <3>1. pc[p] = "copy"
      BY <1>3 DEF CopyBlock
    <3>2. Len(buf_ptrs) < Len(lheader)
      BY <3>1 DEF Progress, ProgressOf
    <3>a. Len(buf_ptrs) \in Nat /\ Len(lheader) \in Nat
      BY LenProperties DEF TypeInv, TypeOK
    <3>3. Len(buf_ptrs) + 1 \in 1 .. Len(lheader)
      BY <3>2, <3>a
    <3>4. QED BY <3>3, ElementOfSeq DEF TypeInv, TypeOK
  <2>2. Bread(b) /\ ver' = ver /\ buf_ptrs' = Append(buf_ptrs, mem[b])
    BY <1>3 DEF CopyBlock
  <2>3. \A c \in Blocks : home'[c] = home[c] \/ ver >= home'[c]
    BY <2>1, <2>2, BreadVersions
  <2>4. \A c \in Blocks : ver >= home'[c]
    BY <2>3 DEF Versions
  <2>5. mem[b] \in Nat /\ ver >= mem[b]
    BY <2>1 DEF Kept, TypeInv, TypeOK
  <2>6. /\ Len(buf_ptrs') = Len(buf_ptrs) + 1 /\ buf_ptrs'[Len(buf_ptrs) + 1] = mem[b]
        /\ \A i \in 1 .. Len(buf_ptrs) : buf_ptrs'[i] = buf_ptrs[i]
    BY <2>2, <2>5, AppendProperties DEF TypeInv, TypeOK
  <2>a. Len(buf_ptrs) \in Nat
    BY LenProperties DEF TypeInv, TypeOK
  <2>7. \A i \in 1 .. Len(buf_ptrs') : ver >= buf_ptrs'[i]
    <3> SUFFICES ASSUME NEW i \in 1 .. Len(buf_ptrs) + 1 PROVE ver >= buf_ptrs'[i]
      BY <2>6
    <3>1. i \in 1 .. Len(buf_ptrs) \/ i = Len(buf_ptrs) + 1
      BY <2>a
    <3>2. QED BY <2>5, <2>6, <3>1 DEF Versions
  <2>8. slot' = slot
    BY <2>2 DEF Bread
  <2>9. QED BY <2>2, <2>4, <2>7, <2>8 DEF Versions
<1>4. ASSUME NEW p \in Procs, write_log_blk(p) PROVE Versions'
  <2>1. pc[p] = "log" /\ UNCHANGED <<home, ver, buf_ptrs>>
    BY <1>4 DEF write_log_blk
  <2>2. PICK i \in todo : slot' = [slot EXCEPT ![i] = buf_ptrs[i]]
    BY <1>4 DEF write_log_blk
  <2>3. i \in 1 .. Len(buf_ptrs)
    BY <2>1 DEF Progress, ProgressOf
  <2>4. ver >= buf_ptrs[i]
    BY <2>3 DEF Versions
  <2>5. \A j \in 1 .. LOGSIZE : slot'[j] = slot[j] \/ ver >= slot'[j]
    BY <2>2, <2>4 DEF TypeInv, TypeOK
  <2>6. QED BY <2>1, <2>5, VersionsFrame
<1>5. ASSUME NEW p \in Procs, write_log_header(p) \/ CommitEnd(p) PROVE Versions'
  BY <1>5, VersionsFrame DEF write_log_header, CommitEnd, diskVars
<1>6. ASSUME NEW p \in Procs, keep_consistent_on_disk(p) PROVE Versions'
  <2>1. pc[p] = "install" /\ UNCHANGED <<slot, ver, buf_ptrs>>
    BY <1>6 DEF keep_consistent_on_disk
  <2>2. PICK i \in todo : home' = [home EXCEPT ![lheader[i]] = buf_ptrs[i]]
    BY <1>6 DEF keep_consistent_on_disk
  <2>3. i \in 1 .. Len(buf_ptrs)
    BY <2>1 DEF Progress, ProgressOf
  <2>4. ver >= buf_ptrs[i]
    BY <2>3 DEF Versions
  <2>5. \A c \in Blocks : home'[c] = home[c] \/ ver >= home'[c]
    BY <2>2, <2>4 DEF TypeInv, TypeOK
  <2>6. QED BY <2>1, <2>5, VersionsFrame
<1>7. ASSUME NEW p \in Procs, ClearLog(p) PROVE Versions'
  BY <1>7, VersionsFrame DEF ClearLog
<1>8. ASSUME NEW p \in Procs, read_log_header(p) \/ recover_from_log(p) PROVE Versions'
  BY <1>8, VersionsFrame DEF read_log_header, recover_from_log, diskVars
<1>9. ASSUME NEW p \in Procs, RecoverBlock(p) PROVE Versions'
  <2>1. UNCHANGED <<slot, ver, buf_ptrs>>
    BY <1>9 DEF RecoverBlock
  <2>2. PICK i \in todo : home' = [home EXCEPT ![lheader[i]] = slot[i]]
    BY <1>9 DEF RecoverBlock
  <2>3. i \in 1 .. LOGSIZE
    BY DEF TypeInv, TypeOK
  <2>4. ver >= slot[i]
    BY <2>3 DEF Versions
  <2>5. \A c \in Blocks : home'[c] = home[c] \/ ver >= home'[c]
    BY <2>2, <2>4 DEF TypeInv, TypeOK
  <2>6. QED BY <2>1, <2>5, VersionsFrame
<1>10. ASSUME NEW p \in Procs, NEW b \in Blocks, Write(p, b) PROVE Versions'
  <2>1. Bread(b) /\ ver' = ver + 1 /\ UNCHANGED <<slot, buf_ptrs>>
    BY <1>10 DEF Write, Bread
  <2>2. \A c \in Blocks : home'[c] = home[c] \/ ver >= home'[c]
    BY <2>1, BreadVersions
  <2>3. QED BY <2>1, <2>2, VersionsFrame
<1>11. ASSUME NEW b \in Blocks, Read(b) PROVE Versions'
  <2>1. Bread(b) /\ UNCHANGED <<ver, slot, buf_ptrs>>
    BY <1>11 DEF Read, Bread
  <2>2. \A c \in Blocks : home'[c] = home[c] \/ ver >= home'[c]
    BY <2>1, BreadVersions
  <2>3. QED BY <2>1, <2>2, VersionsFrame
<1>12. CASE Crash
  BY <1>12, VersionsFrame DEF Crash, diskVars
<1>13. CASE UNCHANGED vars
  BY <1>13, VersionsFrame DEF vars, diskVars
<1>14. QED
  BY <1>1, <1>2, <1>3, <1>4, <1>5, <1>6, <1>7, <1>8, <1>9, <1>10, <1>11, <1>12, <1>13
     DEF Next, Step, commit, Recover

-----------------------------------------------------------------------------
(* The theorems.                                                            *)

\* One step of anything, a crash included, keeps the invariant.
LEMMA StepLInv == ASSUME LogAssumption, LInv, [Next]_vars PROVE LInv'
<1>1. TypeInv'
  BY TypeStep
<1>2. Phases'
  BY PhasesStep
<1>3. QED BY <1>1, <1>2, RoomStep, ProgressStep, VersionsStep, KeptStep DEF LInv

\* What the invariant says of the properties.
LEMMA LInvImplies ==
  ASSUME LogAssumption, LInv
  PROVE  TypeOK /\ CommitsAlone /\ HeaderFits /\ Durable
<1>1. TypeOK /\ HeaderFits
  BY DEF LInv, TypeInv, HeaderFits
<1>2. CommitsAlone
  <2>1. InTx = {p \in Procs : pc[p] \in {"in", "log_write"}}
    BY DEF InTx
  <2>2. committing => n_occupiers = 0
    BY FS_EmptySet DEF LInv, Phases
  <2>3. QED BY <2>1, <2>2 DEF LInv, Phases, CommitsAlone
<1>3. Durable
  <2> SUFFICES ASSUME NEW b \in Blocks PROVE Recovered(b) >= stable[b]
    BY DEF Durable
  <2>1. CASE InLog(hdr, b)
    <3> DEFINE i == CHOOSE i \in 1 .. Len(hdr) : hdr[i] = b
    <3>1. i \in 1 .. Len(hdr) /\ hdr[i] = b
      BY <2>1 DEF InLog
    <3>2. slot[i] >= stable[hdr[i]]
      BY <3>1 DEF LInv, Kept
    <3>3. QED BY <2>1, <3>1, <3>2 DEF Recovered
  <2>2. CASE ~InLog(hdr, b)
    BY <2>2 DEF Recovered, LInv, Kept
  <2>3. QED BY <2>1, <2>2
<1>4. QED BY <1>1, <1>2, <1>3

\* The invariant holds in every behaviour.
THEOREM LogInvariance == ASSUME LogAssumption PROVE Spec => []LInv
BY InitLInv, StepLInv, PTL DEF Spec

\* No crash, at any disk write of a commit, of an installation or of a
\* recovery, and no number of crashes takes back what was committed
\* (commit and recover_from_log, log.c:100-240).
THEOREM LogDurable == ASSUME LogAssumption PROVE Spec => []Durable
BY LogInvariance, LInvImplies, PTL

\* A commit runs alone and end_transaction's panic is not reached, whatever
\* the number of operations and sleepers (log.c:108-160).
THEOREM LogCommitsAlone == ASSUME LogAssumption PROVE Spec => []CommitsAlone
BY LogInvariance, LInvImplies, PTL

\* The header array is never overrun, although log_write tests its limit
\* outside the lock (log.c:117-123, 213-232).
THEOREM LogHeaderFits == ASSUME LogAssumption PROVE Spec => []HeaderFits
BY LogInvariance, LInvImplies, PTL

=============================================================================
