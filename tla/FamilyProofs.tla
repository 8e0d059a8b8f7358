---------------------------- MODULE FamilyProofs ----------------------------
(* Proofs about the family tree of Sched and about its sleepers, on top of *)
(* the invariant of SchedProofs: fork, wait, exit and kill keep children   *)
(* and ppid in step, and no wakeup is lost.                                *)
EXTENDS SchedProofs

-----------------------------------------------------------------------------
(* The inductive invariant.                                                 *)

\* Past the point in exit() where the children are given away.
Exiting == {"exit_close", "exit_io", "exit_end"}

\* A process the scheduler, a wait list or wait() may come across.
Known(c) == proc_queue[c] # 0 \/ cproc = c \/ sp = c \/ status[c] \in {"SLEEPING", "ZOMBLE"}

Lists == \A p \in Procs : OnceOnly(children[p])

Listed ==
  \A p, c \in Procs : c \in Elems(children[p]) =>
     ppid[c] = p /\ c # Root /\ status[c] # "FREE" /\ pc[p] # "dead"

Linked == \A c \in Procs : c # Root /\ Known(c) => c \in Elems(children[ppid[c]])

\* A child in the making is on no list, and its ppid is right before it is linked.
Unborn ==
  \A p \in Procs : Forking(p) =>
     /\ son[p] # Root
     /\ \A r \in Procs : son[p] \notin Elems(children[r])
     /\ pc[p] = "fork_link" => ppid[son[p]] = p

RootLives ==
  /\ status[Root] \notin {"FREE", "READY", "ZOMBLE"}
  /\ pc[Root] \notin Exiting \cup {"dead"}

Childless == \A p \in Procs : pc[p] \in Exiting => children[p] = <<>>

Family == Lists /\ Listed /\ Linked /\ Unborn /\ RootLives /\ Childless /\ RunnableIsQueued

LockWaits == ~locked => sleep_list[Slk] = <<>>

BufWaits == \A p \in Procs : sleep_list[Buf(p)] # <<>> => p \in io

\* wait() has set its flag and sleeps on its own list, so that exit() of a
\* child will find it there.
Waiting ==
  \A p \in Procs \ {Root} : pc[p] = "wait" /\ status[p] = "SLEEPING" =>
     /\ p \in wait_for_child /\ Asleep(p, Alone(p))
     /\ \A c \in Procs : c \in Elems(children[p]) => pc[c] # "dead"

Sleepers == LockWaits /\ BufWaits /\ Waiting

FInv == Inv /\ Family /\ Sleepers

-----------------------------------------------------------------------------
(* What most steps do to the tree and to the parents that wait.             *)

\* A step that leaves the tree alone and moves processes in ways it allows.
Plain ==
  /\ ppid' = ppid /\ children' = children
  /\ \A c \in Procs : c # Root /\ Known(c)' => Known(c)
  /\ \A c \in Procs : status'[c] \in {"FREE", "READY", "ZOMBLE"} => status[c] = status'[c]
  /\ \A c \in Procs : pc'[c] \in Exiting \cup {"dead"} => pc[c] = pc'[c] \/ pc[c] \in Exiting
  /\ \A c \in Procs : Forking(c)' => /\ Forking(c) /\ son'[c] = son[c]
                                     /\ pc'[c] = "fork_link" => pc[c] = "fork_link"
  /\ \A c \in Procs : status'[c] = "RUNNABLE" =>
        \/ proc_queue'[c] # 0 \/ (sp' = c /\ spc' = "top")
        \/ status[c] = "RUNNABLE" /\ proc_queue[c] = 0 /\ ~(sp = c /\ spc = "top")

LEMMA PlainFamily ==
  ASSUME Family, Plain PROVE Family'
<1>1. ppid' = ppid /\ children' = children
  BY DEF Plain
<1>2. Lists'
  BY <1>1 DEF Family, Lists
<1>3. Listed'
  <2>1. ASSUME NEW p \in Procs, NEW c \in Procs, c \in Elems(children'[p])
        PROVE  ppid'[c] = p /\ c # Root /\ status'[c] # "FREE" /\ pc'[p] # "dead"
    <3>1. ppid[c] = p /\ c # Root /\ status[c] # "FREE" /\ pc[p] # "dead"
      BY <1>1, <2>1 DEF Family, Listed
    <3>2. status'[c] # "FREE"
      BY <3>1 DEF Plain
    <3>3. children[p] # <<>>
      BY <1>1, <2>1, EmptyList
    <3>4. pc[p] \notin Exiting
      BY <3>3 DEF Family, Childless
    <3>5. pc'[p] # "dead"
      BY <3>1, <3>4 DEF Plain
    <3>6. QED BY <1>1, <3>1, <3>2, <3>5
  <2>2. QED BY <2>1 DEF Listed
<1>4. Linked'
  <2>1. \A c \in Procs : c # Root /\ Known(c)' => c \in Elems(children[ppid[c]])
    BY DEF Family, Linked, Plain
  <2>2. QED BY <1>1, <2>1 DEF Linked
<1>5. Unborn'
  <2>1. ASSUME NEW p \in Procs, Forking(p)'
        PROVE  /\ son'[p] # Root
               /\ \A r \in Procs : son'[p] \notin Elems(children[r])
               /\ pc'[p] = "fork_link" => ppid[son'[p]] = p
    <3>1. Forking(p) /\ son'[p] = son[p] /\ (pc'[p] = "fork_link" => pc[p] = "fork_link")
      BY <2>1 DEF Plain
    <3>2. /\ son[p] # Root /\ \A r \in Procs : son[p] \notin Elems(children[r])
          /\ pc[p] = "fork_link" => ppid[son[p]] = p
      BY <3>1 DEF Family, Unborn
    <3>3. QED BY <3>1, <3>2
  <2>2. QED BY <1>1, <2>1 DEF Unborn
<1>6. RootLives'
  <2>1. Root \in Procs
    BY ProcsAssumption
  <2>2. status'[Root] \notin {"FREE", "READY", "ZOMBLE"}
    BY <2>1 DEF Family, RootLives, Plain
  <2>3. pc'[Root] \notin Exiting \cup {"dead"}
    BY <2>1 DEF Family, RootLives, Plain
  <2>4. QED BY <2>2, <2>3 DEF RootLives
<1>7. Childless'
  <2>1. \A p \in Procs : pc'[p] \in Exiting => pc[p] \in Exiting
    BY DEF Plain
  <2>2. QED BY <1>1, <2>1 DEF Family, Childless
<1>8. RunnableIsQueued'
  <2>1. ASSUME NEW p \in Procs, status'[p] = "RUNNABLE",
               \E r \in Procs : p \in Elems(children[r])
        PROVE  proc_queue'[p] # 0 \/ (sp' = p /\ spc' = "top")
    BY <2>1 DEF Family, RunnableIsQueued, Plain
  <2>2. QED BY <1>1, <2>1 DEF RunnableIsQueued
<1>9. QED BY <1>2, <1>3, <1>4, <1>5, <1>6, <1>7, <1>8 DEF Family

\* A step that puts nobody to sleep in wait() and gives a sleeper no child
\* that is gone.
Waits ==
  /\ \A r \in Procs : pc'[r] = "wait" /\ status'[r] = "SLEEPING" =>
        /\ pc[r] = "wait" /\ status[r] = "SLEEPING"
        /\ r \in wait_for_child => r \in wait_for_child'
        /\ r \in Elems(sleep_list[Alone(r)]) => r \in Elems(sleep_list'[Alone(r)])
        /\ \A c \in Procs : r # Root /\ c \in Elems(children'[r]) => c \in Elems(children[r])
  /\ \A c \in Procs : pc'[c] = "dead" => pc[c] = "dead"

LEMMA WaitsWaiting ==
  ASSUME Waiting, Waits PROVE Waiting'
<1>1. ASSUME NEW p \in Procs, p # Root, pc'[p] = "wait", status'[p] = "SLEEPING"
      PROVE  /\ p \in wait_for_child' /\ p \in Elems(sleep_list'[Alone(p)])
             /\ \A c \in Procs : c \in Elems(children'[p]) => pc'[c] # "dead"
  <2>1. /\ p \in wait_for_child /\ p \in Elems(sleep_list[Alone(p)])
        /\ \A c \in Procs : c \in Elems(children[p]) => pc[c] # "dead"
    BY <1>1 DEF Waits, Waiting, Asleep
  <2>2. QED BY <1>1, <2>1 DEF Waits
<1>2. Alone(Root)' = Alone(Root) /\ \A p \in Procs : Alone(p)' = Alone(p)
  BY DEF Alone
<1>3. QED BY <1>1 DEF Waiting, Asleep, Alone

\* The wait lists a process can be in are different lists.
LEMMA BufFacts ==
  /\ \A p \in Procs : Buf(p) # Slk
  /\ \A p, r \in Procs : Buf(p) = Buf(r) => p = r
  BY ProcsAssumption DEF Buf, Slk

-----------------------------------------------------------------------------
(* The kinds of plain steps.                                                *)

\* The current process moves on, and nothing else that matters here changes.
LEMMA MoveFam ==
  ASSUME FInv, NEW p \in Procs, cproc = p, NEW at \in Where, pc' = [pc EXCEPT ![p] = at],
         at # "dead", at \in Exiting => pc[p] \in Exiting,
         at \in {"fork_load", "fork_store", "fork_test", "fork_link"} =>
            Forking(p) /\ son' = son /\ (at = "fork_link" => pc[p] = "fork_link"),
         UNCHANGED <<cproc, sp, spc, proc_queue, status, ppid, children, sleep_list>>,
         UNCHANGED wait_for_child,
         son' = son \/ son' = [son EXCEPT ![p] = NoProc],
         locked' = locked \/ locked' = TRUE, io \subseteq io'
  PROVE  Family' /\ Sleepers'
<1>1. /\ pc'[p] = at /\ \A r \in Procs : r # p => pc'[r] = pc[r] /\ son'[r] = son[r]
      /\ status[p] \in {"RUNNING", "ZOMBLE"}
  BY CurrentFacts DEF FInv, Inv, TypeOK
<1>2. Plain
  <2>1. \A c \in Procs : Known(c)' <=> Known(c)
    BY DEF Known
  <2>2. \A c \in Procs : Forking(c)' => /\ Forking(c) /\ son'[c] = son[c]
                                        /\ pc'[c] = "fork_link" => pc[c] = "fork_link"
    BY <1>1 DEF Forking
  <2>3. \A c \in Procs : pc'[c] \in Exiting \cup {"dead"} => pc[c] = pc'[c] \/ pc[c] \in Exiting
    BY <1>1
  <2>4. ASSUME NEW c \in Procs, status'[c] = "RUNNABLE"
        PROVE  \/ proc_queue'[c] # 0 \/ (sp' = c /\ spc' = "top")
               \/ status[c] = "RUNNABLE" /\ proc_queue[c] = 0 /\ ~(sp = c /\ spc = "top")
    BY <2>4
  <2>5. QED BY <2>1, <2>2, <2>3, <2>4 DEF Plain
<1>3. Waits
  BY <1>1 DEF Waits
<1>4. Waiting'
  BY <1>3, WaitsWaiting DEF FInv, Sleepers
<1>5. LockWaits' /\ BufWaits'
  BY DEF FInv, Sleepers, LockWaits, BufWaits, Buf, Slk
<1>6. QED BY <1>2, <1>4, <1>5, PlainFamily DEF FInv, Sleepers

\* The current process goes to sleep.
LEMMA SleepFam ==
  ASSUME FInv, Inv', NEW p \in Procs, cproc = p, NEW at \in Where, pc' = [pc EXCEPT ![p] = at],
         at # "dead", at \notin {"fork_load", "fork_store", "fork_test", "fork_link"},
         at \in Exiting => pc[p] \in Exiting,
         NEW c \in Chan, Sleep(p, c),
         at = "wait" => /\ c = Alone(p) /\ p \in wait_for_child'
                        /\ \A k \in DOMAIN children[p] : status[children[p][k]] # "ZOMBLE",
         \/ c = Alone(p)
         \/ c = Slk /\ locked
         \/ c = Buf(p) /\ p \in io',
         UNCHANGED <<proc_queue, ppid, children, son, locked>>,
         wait_for_child \subseteq wait_for_child', io \subseteq io'
  PROVE  Family' /\ Sleepers'
<1>0. /\ p # NoProc /\ sp = NoProc /\ status[p] \in {"RUNNING", "ZOMBLE"} /\ pc[p] # "dead"
  <2>1. Inv
    BY DEF FInv
  <2>2. pc[p] # "dead"
    BY <2>1 DEF Inv, ProcState
  <2>3. QED BY <2>1, <2>2, CurrentFacts
<1>1. /\ pc'[p] = at /\ \A r \in Procs : r # p => pc'[r] = pc[r]
      /\ status'[p] = "SLEEPING" /\ \A r \in Procs : r # p => status'[r] = status[r]
      /\ cproc' = NoProc /\ sp' = p /\ spc' = "top" /\ p # NoProc /\ sp = NoProc
      /\ status[p] \in {"RUNNING", "ZOMBLE"} /\ pc[p] # "dead"
  BY <1>0 DEF FInv, Inv, TypeOK, Sleep, SwitchOut
<1>2. /\ sleep_list'[c] = Append(sleep_list[c], p)
      /\ \A d \in Chan : d # c => sleep_list'[d] = sleep_list[d]
  <2>1. sleep_list \in [Chan -> Seq(Procs)]
    BY DEF FInv, Inv, TypeOK
  <2>2. sleep_list' = [sleep_list EXCEPT ![c] = Append(sleep_list[c], p)]
    BY DEF Sleep
  <2>3. QED BY <2>1, <2>2
<1>3. \A d \in Chan : \A r \in Procs : r \in Elems(sleep_list[d]) => r \in Elems(sleep_list'[d])
  <2>1. sleep_list[c] \in Seq(Procs) /\ OnceOnly(sleep_list[c]) /\ p \notin Elems(sleep_list[c])
    BY <1>1 DEF FInv, Inv, SInv, SOK
  <2>2. Elems(Append(sleep_list[c], p)) = Elems(sleep_list[c]) \cup {p}
    BY <2>1, AppendList
  <2>3. QED BY <1>2, <2>2
<1>4. Plain
  <2>1. \A r \in Procs : r # Root /\ Known(r)' => Known(r)
    BY <1>1, ProcsAssumption DEF Known
  <2>2. \A r \in Procs : Forking(r)' => /\ Forking(r) /\ son'[r] = son[r]
                                        /\ pc'[r] = "fork_link" => pc[r] = "fork_link"
    BY <1>1 DEF Forking
  <2>3. \A r \in Procs : pc'[r] \in Exiting \cup {"dead"} => pc[r] = pc'[r] \/ pc[r] \in Exiting
    BY <1>1
  <2>4. ASSUME NEW r \in Procs, status'[r] = "RUNNABLE"
        PROVE  \/ proc_queue'[r] # 0 \/ (sp' = r /\ spc' = "top")
               \/ status[r] = "RUNNABLE" /\ proc_queue[r] = 0 /\ ~(sp = r /\ spc = "top")
    BY <1>1, <2>4, ProcsAssumption
  <2>5. \A r \in Procs : status'[r] \in {"FREE", "READY", "ZOMBLE"} => status[r] = status'[r]
    BY <1>1
  <2>6. QED BY <2>1, <2>2, <2>3, <2>4, <2>5 DEF Plain
<1>5. Waiting'
  <2>1. ASSUME NEW r \in Procs, r # Root, pc'[r] = "wait", status'[r] = "SLEEPING"
        PROVE  /\ r \in wait_for_child' /\ r \in Elems(sleep_list'[Alone(r)])
               /\ \A d \in Procs : d \in Elems(children'[r]) => pc'[d] # "dead"
    <3>1. CASE r # p
      <4>1. /\ r \in wait_for_child /\ r \in Elems(sleep_list[Alone(r)])
            /\ \A d \in Procs : d \in Elems(children[r]) => pc[d] # "dead"
        BY <1>1, <2>1, <3>1 DEF FInv, Sleepers, Waiting, Asleep
      <4>2. QED BY <1>1, <1>3, <4>1, ChanFacts
    <3>2. CASE r = p
      <4>1. c = Alone(p) /\ p \in wait_for_child'
            /\ \A k \in DOMAIN children[p] : status[children[p][k]] # "ZOMBLE"
        BY <1>1, <2>1, <3>2
      <4>2. \A d \in Procs : d \in Elems(children[p]) => status[d] # "ZOMBLE" /\ status[d] # "FREE"
        BY <4>1 DEF Elems, FInv, Family, Listed
      <4>3. \A d \in Procs : d \in Elems(children[p]) => pc'[d] # "dead"
        BY <1>1, <4>2 DEF FInv, Inv, ProcState
      <4>4. p \in Elems(sleep_list'[Alone(p)])
        <5>1. \E d \in Chan : p \in Elems(sleep_list'[d])
          BY <1>1 DEF Inv, SInv, SOK
        <5>2. \A d \in Chan : d # c => p \notin Elems(sleep_list'[d])
          BY <1>1, <1>2 DEF FInv, Inv, SInv, SOK
        <5>3. QED BY <4>1, <5>1, <5>2
      <4>5. QED BY <3>2, <4>1, <4>3, <4>4
    <3>3. QED BY <3>1, <3>2
  <2>2. QED BY <2>1 DEF Waiting, Asleep, Alone
<1>6. LockWaits'
  BY <1>2, ChanFacts, BufFacts DEF FInv, Sleepers, LockWaits, Slk
<1>7. BufWaits'
  <2>1. ASSUME NEW r \in Procs, sleep_list'[Buf(r)] # <<>> PROVE r \in io'
    <3>1. CASE Buf(r) = c
      BY <3>1, ChanFacts, BufFacts
    <3>2. CASE Buf(r) # c
      BY <1>2, <2>1, <3>2, ChanFacts DEF FInv, Sleepers, BufWaits
    <3>3. QED BY <3>1, <3>2
  <2>2. QED BY <2>1 DEF BufWaits, Buf
<1>8. QED BY <1>4, <1>5, <1>6, <1>7, PlainFamily DEF FInv, Sleepers

\* The current process gives way.
LEMMA YieldFam ==
  ASSUME FInv, NEW p \in Procs, cproc = p, NEW at \in Where, pc' = [pc EXCEPT ![p] = at],
         at # "dead", at \in Exiting => pc[p] \in Exiting,
         at \in {"fork_load", "fork_store", "fork_test", "fork_link"} => at = pc[p],
         yield(p),
         UNCHANGED <<proc_queue, ppid, children, sleep_list, wait_for_child, son, locked, io>>
  PROVE  Family' /\ Sleepers'
<1>1. /\ pc'[p] = at /\ \A r \in Procs : r # p => pc'[r] = pc[r]
      /\ status'[p] = "RUNNABLE" /\ \A r \in Procs : r # p => status'[r] = status[r]
      /\ cproc' = NoProc /\ sp' = p /\ spc' = "top" /\ p # NoProc /\ sp = NoProc
      /\ status[p] \in {"RUNNING", "ZOMBLE"}
  BY CurrentFacts DEF FInv, Inv, TypeOK, yield, SwitchOut
<1>2. Plain
  <2>1. \A r \in Procs : r # Root /\ Known(r)' => Known(r)
    BY <1>1, ProcsAssumption DEF Known
  <2>2. \A r \in Procs : Forking(r)' => /\ Forking(r) /\ son'[r] = son[r]
                                        /\ pc'[r] = "fork_link" => pc[r] = "fork_link"
    BY <1>1 DEF Forking
  <2>3. \A r \in Procs : pc'[r] \in Exiting \cup {"dead"} => pc[r] = pc'[r] \/ pc[r] \in Exiting
    BY <1>1
  <2>4. ASSUME NEW r \in Procs, status'[r] = "RUNNABLE"
        PROVE  \/ proc_queue'[r] # 0 \/ (sp' = r /\ spc' = "top")
               \/ status[r] = "RUNNABLE" /\ proc_queue[r] = 0 /\ ~(sp = r /\ spc = "top")
    BY <1>1, <2>4, ProcsAssumption
  <2>5. \A r \in Procs : status'[r] \in {"FREE", "READY", "ZOMBLE"} => status[r] = status'[r]
    BY <1>1
  <2>6. QED BY <2>1, <2>2, <2>3, <2>4, <2>5 DEF Plain
<1>3. Waits
  BY <1>1 DEF Waits
<1>4. Waiting'
  BY <1>3, WaitsWaiting DEF FInv, Sleepers
<1>5. LockWaits' /\ BufWaits'
  BY DEF FInv, Sleepers, LockWaits, BufWaits, Buf, Slk
<1>6. QED BY <1>2, <1>4, <1>5, PlainFamily DEF FInv, Sleepers

\* The processes of W, all asleep, are made RUNNABLE and queued.
Wakes(W) ==
  /\ W \subseteq Procs /\ \A r \in W : status[r] = "SLEEPING"
  /\ \A r \in Procs : status'[r] = IF r \in W THEN "RUNNABLE" ELSE status[r]
  /\ \A r \in Procs : r \in W => proc_queue'[r] # 0
  /\ \A r \in Procs : r \notin W => proc_queue'[r] = proc_queue[r]
  /\ \A d \in Chan, r \in Procs : r \notin W =>
        (r \in Elems(sleep_list[d]) => r \in Elems(sleep_list'[d]))
  /\ \A d \in Chan : sleep_list[d] = <<>> => sleep_list'[d] = <<>>

LEMMA WakeFam ==
  ASSUME FInv, NEW W, Wakes(W),
         \A r \in Procs : pc'[r] = pc[r] \/ (pc[r] \in {"sl_hold", "user"} /\ pc'[r] = "trapret"),
         UNCHANGED <<cproc, sp, ppid, children, wait_for_child, son>>,
         sp \in Procs => spc' = spc
  PROVE  Family' /\ Waiting'
<1>1. /\ \A r \in W : status[r] = "SLEEPING" /\ status'[r] = "RUNNABLE" /\ proc_queue'[r] # 0
      /\ \A r \in Procs : r \in W \/ (status'[r] = status[r] /\ proc_queue'[r] = proc_queue[r])
      /\ W \subseteq Procs
  BY DEF Wakes
<1>2. Plain
  <2>1. \A r \in Procs : r # Root /\ Known(r)' => Known(r)
    BY <1>1 DEF Known
  <2>2. \A r \in Procs : Forking(r)' => /\ Forking(r) /\ son'[r] = son[r]
                                        /\ pc'[r] = "fork_link" => pc[r] = "fork_link"
    BY DEF Forking
  <2>3. \A r \in Procs : pc'[r] \in Exiting \cup {"dead"} => pc[r] = pc'[r] \/ pc[r] \in Exiting
    BY DEF Exiting
  <2>4. ASSUME NEW r \in Procs, status'[r] = "RUNNABLE"
        PROVE  \/ proc_queue'[r] # 0 \/ (sp' = r /\ spc' = "top")
               \/ status[r] = "RUNNABLE" /\ proc_queue[r] = 0 /\ ~(sp = r /\ spc = "top")
    BY <1>1, <2>4
  <2>5. \A r \in Procs : status'[r] \in {"FREE", "READY", "ZOMBLE"} => status[r] = status'[r]
    BY <1>1
  <2>6. QED BY <2>1, <2>2, <2>3, <2>4, <2>5 DEF Plain
<1>3. Waits
  <2>1. ASSUME NEW r \in Procs, pc'[r] = "wait", status'[r] = "SLEEPING"
        PROVE  /\ pc[r] = "wait" /\ status[r] = "SLEEPING" /\ r \notin W
               /\ r \in Elems(sleep_list[Alone(r)]) => r \in Elems(sleep_list'[Alone(r)])
    <3>1. r \notin W /\ pc[r] = "wait" /\ status[r] = "SLEEPING"
      BY <1>1, <2>1
    <3>2. QED BY <3>1, ChanFacts DEF Wakes
  <2>2. \A r \in Procs : pc'[r] = "dead" => pc[r] = "dead"
    OBVIOUS
  <2>3. QED BY <2>1, <2>2 DEF Waits
<1>4. QED BY <1>2, <1>3, PlainFamily, WaitsWaiting DEF FInv, Sleepers

\* wakeup() in these terms.
LEMMA WakeupWakes ==
  ASSUME Inv, NEW c \in Chan, Wakeup(c)
  PROVE  /\ Wakes(Elems(sleep_list[c]))
         /\ sleep_list'[c] = <<>> /\ \A d \in Chan : d # c => sleep_list'[d] = sleep_list[d]
<1> DEFINE W == Elems(sleep_list[c])
<1>1. /\ W \subseteq Procs /\ \A r \in W : status[r] = "SLEEPING"
      /\ \A r \in Procs : status'[r] = IF r \in W THEN "RUNNABLE" ELSE status[r]
      /\ \A r \in Procs : proc_queue'[r] = IF r \in W THEN run ELSE proc_queue[r]
  BY WakeFacts
<1>2. sleep_list' = [sleep_list EXCEPT ![c] = <<>>]
  BY DEF Wakeup
<1>3. sleep_list'[c] = <<>> /\ \A d \in Chan : d # c => sleep_list'[d] = sleep_list[d]
  BY <1>2 DEF Inv, TypeOK
<1>4. run # 0
  <2>1. run \in 1 .. 2
    BY DEF Inv, TypeOK
  <2>2. QED BY <2>1
<1>5. \A d \in Chan, r \in Procs : r \notin W =>
         (r \in Elems(sleep_list[d]) => r \in Elems(sleep_list'[d]))
  BY <1>3
<1> HIDE DEF W
<1>6. Wakes(W)
  BY <1>1, <1>3, <1>4, <1>5 DEF Wakes
<1>7. QED BY <1>3, <1>6 DEF W

-----------------------------------------------------------------------------
(* Every plain action.                                                      *)

\* The steps that only move the process.
LEMMA MovesFam ==
  ASSUME FInv, NEW p \in Procs,
         \/ Enter(p) \/ TrapReturn2(p) \/ proc_alloc_failed(p) \/ ForkFail(p)
         \/ ExitClose(p) \/ ForkLoad(p) \/ ForkHalve(p) \/ ExitRoot(p)
  PROVE  Family' /\ Sleepers'
<1>1. cproc = p /\ pc \in [Procs -> Where]
  BY DEF Enter, TrapReturn2, proc_alloc_failed, ForkFail, ExitClose, ForkLoad, ForkHalve, ExitRoot,
         Runs, FInv, Inv, TypeOK
<1>2. /\ UNCHANGED <<cproc, sp, spc, proc_queue, status, ppid, children, sleep_list>>
      /\ UNCHANGED wait_for_child
      /\ son' = son \/ son' = [son EXCEPT ![p] = NoProc]
      /\ locked' = locked \/ locked' = TRUE
      /\ io \subseteq io'
  BY DEF Enter, TrapReturn2, proc_alloc_failed, ForkFail, ExitClose, ForkLoad, ForkHalve, ExitRoot,
         schedVars, queueVars, flagVars, treeVars, forkVars, devVars
<1>3. CASE Enter(p) \/ TrapReturn2(p) \/ proc_alloc_failed(p) \/ ForkFail(p)
  <2>1. PICK at \in Where : /\ pc' = [pc EXCEPT ![p] = at] /\ at # "dead" /\ at \notin Exiting
                            /\ at \notin {"fork_load", "fork_store", "fork_test", "fork_link"}
    BY <1>3 DEF Enter, TrapReturn2, proc_alloc_failed, ForkFail, Goto, Where, Exiting
  <2>2. QED BY <1>1, <1>2, <2>1, MoveFam
<1>4. CASE ExitClose(p)
  <2>1. /\ pc' = [pc EXCEPT ![p] = "exit_end"] /\ "exit_end" \in Where /\ pc[p] \in Exiting
        /\ "exit_end" # "dead"
        /\ "exit_end" \notin {"fork_load", "fork_store", "fork_test", "fork_link"}
    BY <1>4 DEF ExitClose, Runs, Goto, Where, Exiting
  <2>2. QED BY <1>1, <1>2, <2>1, MoveFam
<1>5. CASE ForkLoad(p) \/ ForkHalve(p)
  <2>1. PICK at \in {"fork_store", "fork_test"} : pc' = [pc EXCEPT ![p] = at]
    BY <1>5 DEF ForkLoad, ForkHalve, Goto
  <2>2. at \in Where /\ at # "dead" /\ at # "fork_link" /\ at \notin Exiting
    BY DEF Where, Exiting
  <2>3. Forking(p) /\ son' = son
    BY <1>5 DEF ForkLoad, ForkHalve, Runs, Forking
  <2>4. QED BY <1>1, <1>2, <2>1, <2>2, <2>3, MoveFam
<1>6. CASE ExitRoot(p)
  <2>1. /\ pc' = [pc EXCEPT ![p] = "exit"] /\ "exit" \in Where /\ "exit" \notin Exiting
    BY <1>1, <1>6 DEF ExitRoot, Runs, Where, Exiting
  <2>2. QED BY <1>1, <1>2, <2>1, MoveFam
<1>7. QED BY <1>3, <1>4, <1>5, <1>6

LEMMA TrapReturnFam ==
  ASSUME FInv, NEW p \in Procs, TrapReturn(p) PROVE Family' /\ Sleepers'
<1>1. cproc = p
  BY DEF TrapReturn, Runs
<1>2. UNCHANGED <<proc_queue, ppid, children, sleep_list, wait_for_child, son, locked, io>>
  BY DEF TrapReturn, queueVars, flagVars, treeVars, forkVars, devVars
<1>3. CASE p \notin killed /\ p \in preempted
  <2>1. yield(p) /\ pc' = [pc EXCEPT ![p] = "trapret2"]
    BY <1>3 DEF TrapReturn, Goto
  <2>2. "trapret2" \in Where /\ "trapret2" \notin Exiting
    BY DEF Where, Exiting
  <2>3. QED BY <1>1, <1>2, <2>1, <2>2, YieldFam
<1>4. CASE ~(p \notin killed /\ p \in preempted)
  <2>1. PICK at \in {"exit", "user"} : pc' = [pc EXCEPT ![p] = at]
    BY <1>4 DEF TrapReturn, Goto
  <2>2. at \in Where /\ at # "dead" /\ at \notin Exiting
        /\ at \notin {"fork_load", "fork_store", "fork_test", "fork_link"}
    BY <2>1 DEF Where, Exiting
  <2>3. UNCHANGED <<cproc, sp, spc, status>>
    BY <1>4 DEF TrapReturn, schedVars
  <2>4. QED BY <1>1, <1>2, <2>1, <2>2, <2>3, MoveFam
<1>5. QED BY <1>3, <1>4

LEMMA TickFam ==
  ASSUME FInv, NEW p \in Procs, Tick(p) PROVE Family' /\ Sleepers'
<1> DEFINE t == IF timeslice_left[p] = 0 THEN WORD - 1 ELSE timeslice_left[p] - 1
<1>1. cproc = p
  BY DEF Tick
<1>2. UNCHANGED <<proc_queue, ppid, children, sleep_list, wait_for_child, son, locked, io>>
  BY DEF Tick, queueVars, flagVars, treeVars, forkVars, devVars
<1>3. pc[p] \in Where /\ pc[p] # "dead"
  BY <1>1 DEF FInv, Inv, TypeOK, ProcState
<1>4. PICK at \in Where : /\ pc' = [pc EXCEPT ![p] = at]
                          /\ at = pc[p] \/ at = "trapret"
  BY <1>3 DEF Tick, Goto, Where
<1>5. /\ at # "dead" /\ (at \in Exiting => pc[p] \in Exiting)
      /\ at \in {"fork_load", "fork_store", "fork_test", "fork_link"} => at = pc[p]
      /\ at \in {"fork_load", "fork_store", "fork_test", "fork_link"} =>
            Forking(p) /\ son' = son /\ (at = "fork_link" => pc[p] = "fork_link")
  BY <1>2, <1>3, <1>4 DEF Exiting, Forking
<1>6. CASE t = 0
  <2>1. yield(p)
    BY <1>6 DEF Tick
  <2>2. QED BY <1>1, <1>2, <1>4, <1>5, <2>1, YieldFam
<1>7. CASE t # 0
  <2>1. UNCHANGED <<cproc, sp, spc, status>>
    BY <1>7 DEF Tick, schedVars
  <2>2. QED BY <1>1, <1>2, <1>4, <1>5, <2>1, MoveFam
<1>8. QED BY <1>6, <1>7

LEMMA WaitSleepFam ==
  ASSUME FInv, Inv', NEW p \in Procs, WaitSleep(p) PROVE Family' /\ Sleepers'
<1>1. /\ cproc = p /\ pc' = [pc EXCEPT ![p] = "wait"] /\ Sleep(p, Alone(p))
      /\ \A k \in DOMAIN children[p] : status[children[p][k]] # "ZOMBLE"
      /\ p \in wait_for_child' /\ wait_for_child \subseteq wait_for_child'
      /\ UNCHANGED <<proc_queue, ppid, children, son, locked>> /\ io \subseteq io'
  BY DEF WaitSleep, Runs, FInv, Inv, TypeOK, queueVars, treeVars, forkVars, devVars
<1>2. Alone(p) \in Chan /\ "wait" \in Where /\ "wait" \notin Exiting
  BY ChanFacts DEF Where, Exiting
<1>3. QED BY <1>1, <1>2, SleepFam

\* The steps that wait for the disk.
LEMMA DiskSleepFam ==
  ASSUME FInv, Inv', NEW p \in Procs, NEW at \in {"io", "exit_io", "boot_io"},
         cproc = p, pc' = [pc EXCEPT ![p] = at], at = "exit_io" => pc[p] \in Exiting,
         Sleep(p, Buf(p)), p \in io', io \subseteq io',
         UNCHANGED <<proc_queue, ppid, children, son, locked, wait_for_child>>
  PROVE  Family' /\ Sleepers'
<1>1. /\ Buf(p) \in Chan /\ at \in Where /\ at # "dead" /\ at # "wait"
      /\ at \notin {"fork_load", "fork_store", "fork_test", "fork_link"} /\ (at \in Exiting => pc[p] \in Exiting)
  BY ChanFacts DEF Where, Exiting
<1>2. QED BY <1>1, SleepFam

LEMMA DiskFam ==
  ASSUME FInv, Inv', NEW p \in Procs, IoSubmit(p) \/ ExitCloseIo(p)
  PROVE  Family' /\ Sleepers'
<1>1. /\ cproc = p /\ Sleep(p, Buf(p)) /\ p \in io' /\ io \subseteq io'
      /\ UNCHANGED <<proc_queue, ppid, children, son, locked, wait_for_child>>
  BY DEF IoSubmit, ExitCloseIo, Runs, queueVars, flagVars, treeVars, forkVars
<1>2. PICK at \in {"io", "exit_io", "boot_io"} :
         pc' = [pc EXCEPT ![p] = at] /\ (at = "exit_io" => pc[p] \in Exiting)
  BY DEF IoSubmit, ExitCloseIo, Runs, Goto, Exiting
<1>3. QED BY <1>1, <1>2, DiskSleepFam

LEMMA ForkretFam ==
  ASSUME FInv, Inv', NEW p \in Procs, Forkret(p) PROVE Family' /\ Sleepers'
<1>1. /\ cproc = p /\ UNCHANGED <<proc_queue, ppid, children, son, locked, wait_for_child>>
  BY DEF Forkret, Runs, queueVars, flagVars, treeVars, forkVars
<1>2. CASE p = Root
  <2>1. /\ Sleep(p, Buf(p)) /\ p \in io' /\ io \subseteq io' /\ pc' = [pc EXCEPT ![p] = "boot_io"]
    BY <1>2 DEF Forkret, Goto
  <2>2. QED BY <1>1, <2>1, DiskSleepFam
<1>3. CASE p # Root
  <2>1. /\ UNCHANGED <<io, status, sleep_list, cproc, sp, spc>>
        /\ pc' = [pc EXCEPT ![p] = "user"] /\ "user" \in Where /\ "user" \notin Exiting
    BY <1>3 DEF Forkret, Goto, schedVars, Where, Exiting
  <2>2. QED BY <1>1, <2>1, MoveFam
<1>4. QED BY <1>2, <1>3

LEMMA IoRecheckFam ==
  ASSUME FInv, Inv', NEW p \in Procs, IoRecheck(p) PROVE Family' /\ Sleepers'
<1>1. UNCHANGED <<proc_queue, ppid, children, son, locked, io, wait_for_child>>
  BY DEF IoRecheck, queueVars, flagVars, treeVars, forkVars, devVars
<1>2. PICK from \in {"io", "exit_io", "boot_io"} :
         /\ Runs(p, from)
         /\ IF p \in io
            THEN Sleep(p, Buf(p)) /\ UNCHANGED pc
            ELSE /\ Goto(p, CASE from = "io" -> "trapret"
                              [] from = "exit_io" -> "exit_end"
                              [] from = "boot_io" -> "user")
                 /\ UNCHANGED <<status, sleep_list, schedVars>>
  BY DEF IoRecheck
<1>3. cproc = p /\ pc[p] = from
  BY <1>2 DEF Runs
<1>4. CASE p \in io
  <2>1. Sleep(p, Buf(p)) /\ pc' = [pc EXCEPT ![p] = from]
    BY <1>2, <1>3, <1>4 DEF FInv, Inv, TypeOK
  <2>2. from = "exit_io" => pc[p] \in Exiting
    BY <1>3 DEF Exiting
  <2>3. QED BY <1>1, <1>3, <1>4, <2>1, <2>2, DiskSleepFam
<1>5. CASE p \notin io
  <2>1. PICK at : at = CASE from = "io" -> "trapret"
                         [] from = "exit_io" -> "exit_end"
                         [] from = "boot_io" -> "user"
    OBVIOUS
  <2>2. /\ from = "io" => at = "trapret"
        /\ from = "exit_io" => at = "exit_end"
        /\ from = "boot_io" => at = "user"
    BY <2>1
  <2>3. /\ at \in Where /\ at # "dead" /\ (at \in Exiting => pc[p] \in Exiting)
        /\ at \notin {"fork_load", "fork_store", "fork_test", "fork_link"}
    BY <1>2, <1>3, <2>2 DEF Where, Exiting
  <2>4. pc' = [pc EXCEPT ![p] = at] /\ UNCHANGED <<status, sleep_list, cproc, sp, spc>>
    BY <1>2, <1>5, <2>1 DEF Goto, schedVars
  <2>5. QED BY <1>1, <1>3, <2>3, <2>4, MoveFam
<1>6. QED BY <1>4, <1>5

LEMMA SleepLockFam ==
  ASSUME FInv, Inv', NEW p \in Procs, SleepLock(p) PROVE Family' /\ Sleepers'
<1>1. /\ cproc = p /\ pc[p] = "sl_lock"
      /\ UNCHANGED <<proc_queue, ppid, children, son, io, wait_for_child>>
  BY DEF SleepLock, Runs, queueVars, flagVars, treeVars, forkVars
<1>2. CASE locked
  <2>1. /\ Sleep(p, Slk) /\ locked' = locked /\ pc' = [pc EXCEPT ![p] = "sl_lock"]
    BY <1>1, <1>2 DEF SleepLock, FInv, Inv, TypeOK
  <2>2. Slk \in Chan /\ "sl_lock" \in Where /\ "sl_lock" \notin Exiting
    BY ChanFacts DEF Where, Exiting
  <2>3. QED BY <1>1, <1>2, <2>1, <2>2, SleepFam
<1>3. CASE ~locked
  <2>1. /\ locked' = TRUE /\ UNCHANGED <<status, sleep_list, cproc, sp, spc>>
        /\ pc' = [pc EXCEPT ![p] = "sl_hold"] /\ "sl_hold" \in Where /\ "sl_hold" \notin Exiting
    BY <1>3 DEF SleepLock, Goto, schedVars, Where, Exiting
  <2>2. QED BY <1>1, <2>1, MoveFam
<1>4. QED BY <1>2, <1>3

LEMMA SleepUnlockFam ==
  ASSUME FInv, NEW p \in Procs, SleepUnlock(p) PROVE Family' /\ Sleepers'
<1>1. /\ Wakeup(Slk) /\ Slk \in Chan /\ pc[p] = "sl_hold" /\ pc' = [pc EXCEPT ![p] = "trapret"]
      /\ UNCHANGED <<cproc, sp, spc, ppid, children, wait_for_child, son, io>>
  BY ChanFacts DEF SleepUnlock, Runs, Goto, schedVars, flagVars, treeVars, forkVars
<1>2. /\ Wakes(Elems(sleep_list[Slk])) /\ sleep_list'[Slk] = <<>>
      /\ \A d \in Chan : d # Slk => sleep_list'[d] = sleep_list[d]
  BY <1>1, WakeupWakes DEF FInv
<1>3. \A r \in Procs : pc'[r] = pc[r] \/ (pc[r] = "sl_hold" /\ pc'[r] = "trapret")
  BY <1>1 DEF FInv, Inv, TypeOK
<1>4. Family' /\ Waiting'
  BY <1>1, <1>2, <1>3, WakeFam
<1>5. LockWaits'
  BY <1>2 DEF LockWaits, Slk
<1>6. BufWaits'
  BY <1>1, <1>2, ChanFacts, BufFacts DEF FInv, Sleepers, BufWaits, Buf
<1>7. QED BY <1>4, <1>5, <1>6 DEF Sleepers

LEMMA ide_intrFam ==
  ASSUME FInv, NEW p \in Procs, ide_intr(p) PROVE Family' /\ Sleepers'
<1>1. /\ Wakeup(Buf(p)) /\ Buf(p) \in Chan /\ io' = io \ {p}
      /\ spc' = (IF spc = "halt" THEN "top" ELSE spc)
      /\ UNCHANGED <<cproc, sp, ppid, children, wait_for_child, son, locked>>
      /\ \A r \in Procs : pc'[r] = pc[r] \/ (pc[r] = "user" /\ pc'[r] = "trapret")
  BY ChanFacts DEF ide_intr, flagVars, treeVars, forkVars
<1>2. /\ Wakes(Elems(sleep_list[Buf(p)])) /\ sleep_list'[Buf(p)] = <<>>
      /\ \A d \in Chan : d # Buf(p) => sleep_list'[d] = sleep_list[d]
  BY <1>1, WakeupWakes DEF FInv
<1>3. sp \in Procs => spc' = spc
  <2>1. sp \in Procs => spc = "top"
    BY ProcsAssumption DEF FInv, Inv, ProcState
  <2>2. QED BY <1>1, <2>1
<1>4. Family' /\ Waiting'
  BY <1>1, <1>2, <1>3, WakeFam
<1>5. LockWaits'
  BY <1>1, <1>2, ChanFacts, BufFacts DEF FInv, Sleepers, LockWaits, Slk
<1>6. BufWaits'
  <2>1. ASSUME NEW r \in Procs, sleep_list'[Buf(r)] # <<>> PROVE r \in io'
    <3>1. Buf(r) # Buf(p) /\ sleep_list'[Buf(r)] = sleep_list[Buf(r)]
      BY <1>2, <2>1, ChanFacts
    <3>2. r \in io /\ r # p
      BY <2>1, <3>1 DEF FInv, Sleepers, BufWaits
    <3>3. QED BY <1>1, <3>2
  <2>2. QED BY <2>1 DEF BufWaits, Buf
<1>7. QED BY <1>4, <1>5, <1>6 DEF Sleepers

\* exit() wakes its parent if the flag says so, or wakes nobody.
LEMMA ExitEndWakes ==
  ASSUME FInv, NEW p \in Procs, ExitEnd(p)
  PROVE  \E W \in SUBSET Procs :
            /\ Wakes(W)
            /\ \A r \in Procs : r = ppid[p] /\ r \in wait_for_child =>
                                (r \in Elems(sleep_list[Alone(r)]) => r \in W)
            /\ LockWaits' /\ BufWaits'
<1>1. /\ ppid[p] \in Procs /\ Alone(ppid[p]) \in Chan /\ UNCHANGED <<locked, io>>
  BY ChanFacts DEF FInv, Inv, TypeOK, ExitEnd, devVars
<1>2. CASE ppid[p] \in wait_for_child
  <2> DEFINE c == Alone(ppid[p])
  <2>1. Wakeup(c) /\ c \in Chan
    BY <1>1, <1>2 DEF ExitEnd
  <2>2. /\ Wakes(Elems(sleep_list[c])) /\ sleep_list'[c] = <<>>
        /\ \A d \in Chan : d # c => sleep_list'[d] = sleep_list[d]
    <3> HIDE DEF c
    <3>1. QED BY <2>1, WakeupWakes DEF FInv
  <2>3. Elems(sleep_list[c]) \in SUBSET Procs
    BY <2>2 DEF Wakes
  <2>4. LockWaits'
    BY <1>1, <2>2, ChanFacts DEF FInv, Sleepers, LockWaits, Slk
  <2>5. BufWaits'
    <3>1. ASSUME NEW r \in Procs, sleep_list'[Buf(r)] # <<>> PROVE r \in io'
      <4>1. sleep_list'[Buf(r)] = sleep_list[Buf(r)]
        BY <1>1, <2>2, ChanFacts
      <4>2. QED BY <1>1, <3>1, <4>1 DEF FInv, Sleepers, BufWaits
    <3>2. QED BY <3>1 DEF BufWaits, Buf
  <2>6. QED BY <2>2, <2>3, <2>4, <2>5
<1>3. CASE ppid[p] \notin wait_for_child
  <2>1. UNCHANGED <<sleep_list, status, proc_queue>>
    BY <1>3 DEF ExitEnd, wakeVars
  <2>2. Wakes({})
    BY <2>1 DEF Wakes
  <2>3. LockWaits' /\ BufWaits'
    BY <1>1, <2>1 DEF FInv, Sleepers, LockWaits, BufWaits, Buf, Slk
  <2>4. {} \in SUBSET Procs
    OBVIOUS
  <2>5. QED BY <1>3, <2>2, <2>3, <2>4
<1>4. QED BY <1>2, <1>3

LEMMA ExitEndFam ==
  ASSUME FInv, Inv', NEW p \in Procs, ExitEnd(p) PROVE Family' /\ Sleepers'
<1>1. /\ cproc = p /\ pc[p] = "exit_end"
      /\ UNCHANGED <<ppid, children, wait_for_child, son, locked, io>>
  BY DEF ExitEnd, Runs, flagVars, treeVars, forkVars, devVars
<1>2. PICK W \in SUBSET Procs :
         /\ Wakes(W)
         /\ \A r \in Procs : r = ppid[p] /\ r \in wait_for_child =>
                             (r \in Elems(sleep_list[Alone(r)]) => r \in W)
         /\ LockWaits' /\ BufWaits'
  BY ExitEndWakes
<1>3. CASE status[p] = "RUNNING"
  <2>1. UNCHANGED <<cproc, sp, spc, pc>>
    BY <1>3 DEF ExitEnd, schedVars
  <2>2. Family' /\ Waiting'
    BY <1>1, <1>2, <2>1, WakeFam
  <2>3. QED BY <1>2, <2>2 DEF Sleepers
<1>4. CASE status[p] # "RUNNING"
  <2>0. /\ p # NoProc /\ sp = NoProc /\ status[p] = "ZOMBLE"
    <3>1. Inv
      BY DEF FInv
    <3>2. QED BY <1>1, <1>4, <3>1, CurrentFacts
  <2>1. /\ cproc' = NoProc /\ sp' = p /\ spc' = "top" /\ pc'[p] = "dead"
        /\ \A r \in Procs : r # p => pc'[r] = pc[r]
    BY <1>4 DEF ExitEnd, SwitchOut, Goto, FInv, Inv, TypeOK
  <2>2. /\ \A r \in W : status[r] = "SLEEPING" /\ status'[r] = "RUNNABLE" /\ proc_queue'[r] # 0
        /\ \A r \in Procs : r \in W \/ (status'[r] = status[r] /\ proc_queue'[r] = proc_queue[r])
    BY <1>2 DEF Wakes
  <2>3. Plain
    <3>1. \A r \in Procs : r # Root /\ Known(r)' => Known(r)
      BY <1>1, <2>0, <2>1, <2>2, ProcsAssumption DEF Known
    <3>2. \A r \in Procs : Forking(r)' => /\ Forking(r) /\ son'[r] = son[r]
                                          /\ pc'[r] = "fork_link" => pc[r] = "fork_link"
      BY <1>1, <2>1 DEF Forking
    <3>3. \A r \in Procs : pc'[r] \in Exiting \cup {"dead"} => pc[r] = pc'[r] \/ pc[r] \in Exiting
      BY <1>1, <2>1 DEF Exiting
    <3>4. ASSUME NEW r \in Procs, status'[r] = "RUNNABLE"
          PROVE  \/ proc_queue'[r] # 0 \/ (sp' = r /\ spc' = "top")
                 \/ status[r] = "RUNNABLE" /\ proc_queue[r] = 0 /\ ~(sp = r /\ spc = "top")
      BY <2>0, <2>2, <3>4, ProcsAssumption
    <3>5. \A r \in Procs : status'[r] \in {"FREE", "READY", "ZOMBLE"} => status[r] = status'[r]
      BY <2>2
    <3>6. QED BY <1>1, <3>1, <3>2, <3>3, <3>4, <3>5 DEF Plain
  <2>4. ASSUME NEW r \in Procs, r # Root, pc'[r] = "wait", status'[r] = "SLEEPING"
        PROVE  /\ r \in wait_for_child' /\ r \in Elems(sleep_list'[Alone(r)])
               /\ \A d \in Procs : d \in Elems(children'[r]) => pc'[d] # "dead"
    <3>1. r \notin W /\ r # p /\ pc[r] = "wait" /\ status[r] = "SLEEPING"
      BY <2>1, <2>2, <2>4
    <3>2. /\ r \in wait_for_child /\ r \in Elems(sleep_list[Alone(r)])
          /\ \A d \in Procs : d \in Elems(children[r]) => pc[d] # "dead"
      BY <2>4, <3>1 DEF FInv, Sleepers, Waiting, Asleep
    <3>3. r \in Elems(sleep_list'[Alone(r)])
      BY <1>2, <3>1, <3>2, ChanFacts DEF Wakes
    <3>4. ppid[p] # r
      BY <1>2, <3>1, <3>2
    <3>5. p \notin Elems(children[r])
      BY <3>4 DEF FInv, Family, Listed
    <3>6. QED BY <1>1, <2>1, <3>2, <3>3, <3>5
  <2>5. Waiting'
    BY <2>4 DEF Waiting, Asleep, Alone
  <2>6. QED BY <1>2, <2>3, <2>5, PlainFamily DEF FInv, Sleepers
<1>5. QED BY <1>3, <1>4

LEMMA KillFam ==
  ASSUME FInv, NEW p \in Procs, NEW t \in Procs, Kill(p, t) PROVE Family' /\ Sleepers'
<1>1. /\ cproc = p /\ pc[p] = "user" /\ pc' = [pc EXCEPT ![p] = "trapret"]
      /\ UNCHANGED <<cproc, sp, spc, ppid, children, wait_for_child, son, locked, io>>
  BY DEF Kill, Runs, Goto, schedVars, treeVars, forkVars, devVars
<1>2. CASE status[t] # "SLEEPING"
  <2>1. UNCHANGED <<status, sleep_list, proc_queue>>
    BY <1>2 DEF Kill, MustWake
  <2>2. "trapret" \in Where /\ "trapret" \notin Exiting
    BY DEF Where, Exiting
  <2>3. QED BY <1>1, <2>1, <2>2, MoveFam
<1>3. CASE status[t] = "SLEEPING"
  <2>1. /\ status' = [status EXCEPT ![t] = "RUNNABLE"]
        /\ sleep_list' = [c \in Chan |-> Without(sleep_list[c], t)]
        /\ proc_queue' = [proc_queue EXCEPT ![t] = run]
    BY <1>3 DEF Kill, MustWake
  <2>2. run # 0
    <3>1. run \in 1 .. 2
      BY DEF FInv, Inv, TypeOK
    <3>2. QED BY <3>1
  <2>3. /\ status'[t] = "RUNNABLE" /\ proc_queue'[t] # 0
        /\ \A r \in Procs : r # t => status'[r] = status[r] /\ proc_queue'[r] = proc_queue[r]
    BY <2>1, <2>2 DEF FInv, Inv, TypeOK
  <2>4. \A d \in Chan : sleep_list[d] \in Seq(Procs) /\ OnceOnly(sleep_list[d])
    BY DEF FInv, Inv, SInv, SOK
  <2>5. \A d \in Chan : Elems(sleep_list'[d]) = Elems(sleep_list[d]) \ {t}
    BY <2>1, <2>4, WithoutList
  <2>6. \A d \in Chan : sleep_list[d] = <<>> => sleep_list'[d] = <<>>
    BY <2>1, EmptyList DEF Without
  <2>8. \A r \in Procs : r # p => pc'[r] = pc[r]
    BY <1>1 DEF FInv, Inv, TypeOK
  <2>9. pc'[p] = "trapret"
    BY <1>1 DEF FInv, Inv, TypeOK
  <2>10. Plain
    <3>1. \A r \in Procs : r # Root /\ Known(r)' => Known(r)
      BY <1>1, <1>3, <2>3 DEF Known
    <3>2. \A r \in Procs : Forking(r)' => /\ Forking(r) /\ son'[r] = son[r]
                                          /\ pc'[r] = "fork_link" => pc[r] = "fork_link"
      BY <1>1, <2>8, <2>9 DEF Forking
    <3>3. \A r \in Procs : pc'[r] \in Exiting \cup {"dead"} => pc[r] = pc'[r] \/ pc[r] \in Exiting
      BY <2>8, <2>9 DEF Exiting
    <3>4. ASSUME NEW r \in Procs, status'[r] = "RUNNABLE"
          PROVE  \/ proc_queue'[r] # 0 \/ (sp' = r /\ spc' = "top")
                 \/ status[r] = "RUNNABLE" /\ proc_queue[r] = 0 /\ ~(sp = r /\ spc = "top")
      BY <1>1, <2>3, <3>4
    <3>5. \A r \in Procs : status'[r] \in {"FREE", "READY", "ZOMBLE"} => status[r] = status'[r]
      BY <2>3
    <3>6. QED BY <1>1, <3>1, <3>2, <3>3, <3>4, <3>5 DEF Plain
  <2>11. Waits
    <3>1. ASSUME NEW r \in Procs, pc'[r] = "wait", status'[r] = "SLEEPING"
          PROVE  /\ pc[r] = "wait" /\ status[r] = "SLEEPING"
                 /\ r \in Elems(sleep_list[Alone(r)]) => r \in Elems(sleep_list'[Alone(r)])
      BY <2>3, <2>5, <2>8, <2>9, <3>1, ChanFacts
    <3>2. \A r \in Procs : pc'[r] = "dead" => pc[r] = "dead"
      BY <2>8, <2>9
    <3>3. QED BY <1>1, <3>1, <3>2 DEF Waits
  <2>12. Waiting'
    BY <2>11, WaitsWaiting DEF FInv, Sleepers
  <2>13. LockWaits' /\ BufWaits'
    BY <1>1, <2>6, ChanFacts DEF FInv, Sleepers, LockWaits, BufWaits, Buf, Slk
  <2>14. QED BY <2>10, <2>12, <2>13, PlainFamily DEF FInv, Sleepers
<1>4. QED BY <1>2, <1>3

\* The scheduler's steps.
LEMMA SchedFam ==
  ASSUME FInv,
         UNCHANGED <<pc, ppid, children, sleep_list, wait_for_child, son, locked, io>>,
         \A c \in Procs : Known(c)' => Known(c),
         \A c \in Procs : status'[c] = status[c] \/ (status[c] = "RUNNABLE" /\ status'[c] = "RUNNING"),
         \A c \in Procs : status[c] = "RUNNABLE" /\ status'[c] = "RUNNABLE" =>
            /\ proc_queue[c] # 0 => proc_queue'[c] # 0
            /\ sp = c => proc_queue'[c] # 0
  PROVE  Family' /\ Sleepers'
<1>1. Plain
  <2>1. ASSUME NEW r \in Procs, status'[r] = "RUNNABLE"
        PROVE  \/ proc_queue'[r] # 0 \/ (sp' = r /\ spc' = "top")
               \/ status[r] = "RUNNABLE" /\ proc_queue[r] = 0 /\ ~(sp = r /\ spc = "top")
    BY <2>1
  <2>2. \A r \in Procs : status'[r] \in {"FREE", "READY", "ZOMBLE"} => status[r] = status'[r]
    OBVIOUS
  <2>3. \A r \in Procs : Forking(r)' => /\ Forking(r) /\ son'[r] = son[r]
                                        /\ pc'[r] = "fork_link" => pc[r] = "fork_link"
    BY DEF Forking
  <2>4. QED BY <2>1, <2>2, <2>3 DEF Plain
<1>2. Waits
  BY DEF Waits
<1>3. Waiting' /\ LockWaits' /\ BufWaits'
  BY <1>2, WaitsWaiting DEF FInv, Sleepers, LockWaits, BufWaits, Buf, Slk
<1>4. QED BY <1>1, <1>3, PlainFamily DEF FInv, Sleepers

LEMMA SchedulerFam ==
  ASSUME FInv, Inv', SchedRequeue \/ SchedSkip \/ SchedPick \/ SchedIdle \/ TickIdle
  PROVE  Family' /\ Sleepers'
<1>1. /\ cproc = NoProc /\ sp \in Procs \cup {NoProc}
      /\ UNCHANGED <<pc, ppid, children, sleep_list, wait_for_child, son, locked, io>>
      /\ proc_queue \in [Procs -> 0 .. 2] /\ status \in [Procs -> Status]
  BY DEF SchedRequeue, SchedSkip, SchedPick, SchedIdle, TickIdle, FInv, Inv, ProcState, TypeOK,
         flagVars, treeVars, forkVars, devVars
<1>2. CASE SchedRequeue
  <2>1. PICK k : /\ proc_queue' = [proc_queue EXCEPT ![sp] = k]
                 /\ sp # NoProc /\ sp' = NoProc /\ UNCHANGED <<cproc, status>>
    BY <1>2 DEF SchedRequeue
  <2>2. sp \in Procs /\ proc_queue'[sp] = k /\ \A r \in Procs : r # sp => proc_queue'[r] = proc_queue[r]
    BY <1>1, <2>1
  <2>3. proc_queue'[sp] # 0
    <3>1. proc_queue' = [proc_queue EXCEPT ![sp] = IF timeslice_left[sp] = 0 THEN exhausted ELSE run]
      BY <1>2 DEF SchedRequeue
    <3>2. run \in 1 .. 2
      BY DEF FInv, Inv, TypeOK
    <3>3. exhausted # 0 /\ run # 0
      BY <3>2 DEF exhausted
    <3>4. QED BY <1>1, <2>2, <3>1, <3>3
  <2>4. \A c \in Procs : Known(c)' => Known(c)
    BY <1>1, <2>1, <2>2, ProcsAssumption DEF Known
  <2>5. QED BY <1>1, <2>1, <2>2, <2>3, <2>4, SchedFam
<1>3. CASE SchedPick
  <2>1. PICK p : /\ proc_queue' = [proc_queue EXCEPT ![p] = 0]
                 /\ cproc' = p /\ status' = [status EXCEPT ![p] = "RUNNING"] /\ UNCHANGED sp
    BY <1>3 DEF SchedPick
  <2>2. sp = NoProc /\ spc' = "swtch" /\ cproc' # NoProc
    BY <1>3 DEF SchedPick, FInv, Inv, ProcState
  <2>3. p \in Procs
    BY <2>1, <2>2 DEF Inv, TypeOK
  <2>4. proc_queue[p] # 0
    <3>1. PICK Q : /\ Q = queues[NextRun] /\ Q.bitmap # {}
                   /\ p = FirstOf(Q, find_first_set(Q))
      BY <1>3, <2>1 DEF SchedPick
    <3>2. NextRun \in 1 .. 2 /\ QOK(queues, proc_queue, priority)
      BY NextRunType DEF FInv, Inv, TypeOK, QInv
    <3>3. GoodQueue(Q)
      BY <3>1, <3>2 DEF QOK
    <3>4. p \in Members(Q)
      BY <3>1, <3>3, FirstProps
    <3>5. proc_queue[p] = NextRun
      BY <2>3, <3>1, <3>2, <3>4 DEF QOK
    <3>6. QED BY <3>2, <3>5
  <2>5. status[p] = "RUNNABLE"
    BY <2>3, <2>4 DEF FInv, Inv, Queued
  <2>6. /\ status'[p] = "RUNNING"
        /\ \A r \in Procs : r # p => status'[r] = status[r] /\ proc_queue'[r] = proc_queue[r]
    BY <1>1, <2>1, <2>3
  <2>7. \A c \in Procs : Known(c)' => Known(c)
    BY <2>1, <2>2, <2>4, <2>6 DEF Known
  <2>8. QED BY <1>1, <2>2, <2>5, <2>6, <2>7, ProcsAssumption, SchedFam
<1>4. CASE SchedSkip \/ SchedIdle \/ TickIdle
  <2>1. UNCHANGED <<cproc, proc_queue, status>> /\ (sp' = sp \/ sp' = NoProc)
    BY <1>4 DEF SchedSkip, SchedIdle, TickIdle, queueVars
  <2>2. \A c \in Procs : sp = c => status[c] # "RUNNABLE"
    BY <1>4, ProcsAssumption DEF SchedSkip, SchedIdle, TickIdle, FInv, Inv, ProcState
  <2>3. \A c \in Procs : Known(c)' => Known(c)
    BY <2>1, ProcsAssumption DEF Known
  <2>4. QED BY <1>1, <2>1, <2>2, <2>3, SchedFam
<1>5. QED BY <1>2, <1>3, <1>4

-----------------------------------------------------------------------------
(* The steps that change the tree: fork, wait() and exit().                 *)

LEMMA proc_allocFam ==
  ASSUME FInv, NEW p \in Procs, proc_alloc(p) PROVE Family' /\ Sleepers'
<1>1. PICK s \in Procs :
         /\ status[s] = "FREE"
         /\ son' = [son EXCEPT ![p] = s]
         /\ status' = [status EXCEPT ![s] = "READY"]
         /\ wait_for_child' = wait_for_child \ {s}
         /\ proc_queue' = [proc_queue EXCEPT ![s] = 0]
         /\ ppid' = [ppid EXCEPT ![s] = Root]
         /\ children' = [children EXCEPT ![s] = <<>>]
         /\ sleep_list' = [sleep_list EXCEPT ![Alone(s)] = <<>>]
         /\ pc' = [pc EXCEPT ![p] = "fork_load", ![s] = "forkret"]
  BY DEF proc_alloc
<1>2. /\ cproc = p /\ pc[p] = "fork_alloc" /\ UNCHANGED <<cproc, sp, spc, locked, io>>
  BY DEF proc_alloc, Runs, schedVars, devVars
<1>3. Inv /\ Family /\ Sleepers
  BY DEF FInv
<1>4. /\ p # NoProc /\ sp = NoProc /\ status[p] \in {"RUNNING", "ZOMBLE"}
  BY <1>2, <1>3, CurrentFacts
<1>5. s # p /\ s # Root /\ pc[s] = "dead" /\ ~Known(s)
  BY <1>1, <1>2, <1>3, <1>4, ProcsAssumption DEF Inv, Queued, ProcState, Family, RootLives, Known
<1>6. /\ pc'[p] = "fork_load" /\ pc'[s] = "forkret"
      /\ \A r \in Procs : r # p /\ r # s => pc'[r] = pc[r]
  BY <1>1, <1>3, <1>5 DEF Inv, TypeOK
<1>7. /\ status'[s] = "READY" /\ proc_queue'[s] = 0 /\ ppid'[s] = Root /\ children'[s] = <<>>
      /\ \A r \in Procs : r # s => /\ status'[r] = status[r] /\ proc_queue'[r] = proc_queue[r]
                                   /\ ppid'[r] = ppid[r] /\ children'[r] = children[r]
      /\ son'[p] = s /\ \A r \in Procs : r # p => son'[r] = son[r]
  BY <1>1, <1>3 DEF Inv, TypeOK
<1>8. \A r \in Procs : s \notin Elems(children[r])
  BY <1>1, <1>3 DEF Family, Listed
<1>9. children[s] = <<>> \/ \A c \in Procs : c \notin Elems(children[s])
  BY <1>3, <1>5 DEF Family, Listed
<1>10. \A r, c \in Procs : c \in Elems(children'[r]) => r # s /\ c # s /\ c \in Elems(children[r])
  BY <1>7, <1>8, EmptyList
<1>11. Lists'
  BY <1>3, <1>7, EmptyList DEF Family, Lists
<1>12. Listed'
  BY <1>3, <1>5, <1>6, <1>7, <1>10 DEF Family, Listed
<1>13. Linked'
  <2>1. ASSUME NEW c \in Procs, c # Root, Known(c)' PROVE c \in Elems(children'[ppid'[c]])
    <3>1. c # s
      BY <1>2, <1>4, <1>5, <1>7, <2>1, ProcsAssumption DEF Known
    <3>2. Known(c) /\ ppid'[c] = ppid[c] /\ ppid[c] \in Procs
      BY <1>2, <1>3, <1>7, <2>1, <3>1 DEF Known, Inv, TypeOK
    <3>3. c \in Elems(children[ppid[c]])
      BY <1>3, <2>1, <3>2 DEF Family, Linked
    <3>4. ppid[c] # s
      BY <1>3, <1>5, <3>3, <3>2 DEF Family, Listed
    <3>5. QED BY <1>7, <3>2, <3>3, <3>4
  <2>2. QED BY <2>1 DEF Linked
<1>14. Unborn'
  <2>1. ASSUME NEW r \in Procs, Forking(r)'
        PROVE  /\ son'[r] # Root
               /\ \A q \in Procs : son'[r] \notin Elems(children'[q])
               /\ pc'[r] = "fork_link" => ppid'[son'[r]] = r
    <3>1. CASE r = p
      <4>1. \A q \in Procs : s \notin Elems(children'[q])
        BY <1>7, <1>8, EmptyList
      <4>2. QED BY <1>5, <1>6, <1>7, <3>1, <4>1
    <3>2. CASE r # p
      <4>1. r # s /\ Forking(r) /\ pc'[r] = pc[r] /\ son'[r] = son[r]
        BY <1>6, <1>7, <2>1, <3>2 DEF Forking
      <4>2. /\ son[r] # Root /\ \A q \in Procs : son[r] \notin Elems(children[q])
            /\ pc[r] = "fork_link" => ppid[son[r]] = r
        BY <1>3, <4>1 DEF Family, Unborn
      <4>3. son[r] \in Procs /\ status[son[r]] # "FREE"
        BY <1>3, <4>1 DEF Inv, ForkState
      <4>4. \A q \in Procs : son[r] \notin Elems(children'[q])
        BY <1>10, <4>2, <4>3
      <4>5. QED BY <1>1, <1>7, <4>1, <4>2, <4>3, <4>4
    <3>3. QED BY <3>1, <3>2
  <2>2. QED BY <2>1 DEF Unborn
<1>15. RootLives'
  <2>1. status'[Root] \notin {"FREE", "READY", "ZOMBLE"}
    BY <1>3, <1>5, <1>7, ProcsAssumption DEF Family, RootLives
  <2>2. pc'[Root] \notin Exiting \cup {"dead"}
    BY <1>3, <1>5, <1>6, ProcsAssumption DEF Family, RootLives, Exiting
  <2>3. QED BY <2>1, <2>2 DEF RootLives
<1>16. Childless'
  BY <1>3, <1>6, <1>7 DEF Family, Childless, Exiting
<1>17. RunnableIsQueued'
  <2>1. ASSUME NEW r \in Procs, status'[r] = "RUNNABLE", NEW q \in Procs, r \in Elems(children'[q])
        PROVE  proc_queue'[r] # 0 \/ (sp' = r /\ spc' = "top")
    <3>1. r # s /\ status[r] = "RUNNABLE" /\ r \in Elems(children[q])
      BY <1>7, <1>10, <2>1
    <3>2. proc_queue[r] # 0 \/ (sp = r /\ spc = "top")
      BY <1>3, <3>1 DEF Family, RunnableIsQueued
    <3>3. QED BY <1>2, <1>7, <3>1, <3>2
  <2>2. QED BY <2>1 DEF RunnableIsQueued
<1>18. /\ sleep_list'[Alone(s)] = <<>>
       /\ \A d \in Chan : d # Alone(s) => sleep_list'[d] = sleep_list[d]
  BY <1>1, <1>3, ChanFacts DEF Inv, TypeOK
<1>19. Waits
  <2>1. ASSUME NEW r \in Procs, pc'[r] = "wait", status'[r] = "SLEEPING"
        PROVE  /\ pc[r] = "wait" /\ status[r] = "SLEEPING"
               /\ r \in wait_for_child => r \in wait_for_child'
               /\ r \in Elems(sleep_list[Alone(r)]) => r \in Elems(sleep_list'[Alone(r)])
               /\ \A c \in Procs : c \in Elems(children'[r]) => c \in Elems(children[r])
    <3>1. r # s /\ r # p /\ pc[r] = "wait" /\ status[r] = "SLEEPING"
      BY <1>6, <1>7, <2>1
    <3>2. Alone(r) # Alone(s) /\ Alone(r) \in Chan
      BY <3>1, ChanFacts
    <3>3. QED BY <1>1, <1>10, <1>18, <3>1, <3>2
  <2>2. \A r \in Procs : pc'[r] = "dead" => pc[r] = "dead"
    BY <1>6
  <2>3. QED BY <2>1, <2>2 DEF Waits
<1>20. Waiting' /\ LockWaits' /\ BufWaits'
  <2>1. Waiting'
    BY <1>3, <1>19, WaitsWaiting DEF Sleepers
  <2>2. LockWaits'
    BY <1>2, <1>3, <1>18, ChanFacts DEF Sleepers, LockWaits, Slk
  <2>3. BufWaits'
    <3>1. \A r \in Procs : sleep_list'[Buf(r)] = sleep_list[Buf(r)]
      BY <1>18, ChanFacts
    <3>2. QED BY <1>2, <1>3, <3>1 DEF Sleepers, BufWaits, Buf
  <2>4. QED BY <2>1, <2>2, <2>3
<1>21. QED BY <1>11, <1>12, <1>13, <1>14, <1>15, <1>16, <1>17, <1>20 DEF Family, Sleepers

LEMMA ForkStoreFam ==
  ASSUME FInv, NEW p \in Procs, ForkStore(p) \/ ForkTest(p) PROVE Family' /\ Sleepers'
<1> DEFINE s == son[p]
<1>0. /\ cproc = p /\ Forking(p) /\ pc[p] # "fork_link"
      /\ \E t \in {half[p], timeslice_left[p]} : ForkChild(p, AtLeastOne(t))
  BY DEF ForkStore, ForkTest, Runs, Forking
<1>1. /\ cproc = p /\ Forking(p) /\ pc[p] # "fork_link" /\ pc' = [pc EXCEPT ![p] = "fork_link"]
      /\ ppid' = [ppid EXCEPT ![s] = p]
      /\ status' = [status EXCEPT ![s] = "RUNNABLE"]
      /\ UNCHANGED <<cproc, sp, spc, proc_queue, wait_for_child, children, sleep_list, son>>
      /\ UNCHANGED <<locked, io>>
  BY <1>0 DEF ForkChild, Goto, schedVars, queueVars, flagVars, devVars
<1>2. Inv /\ Family /\ Sleepers
  BY DEF FInv
<1>3. /\ s \in Procs /\ s # p /\ proc_queue[s] = 0 /\ status[s] = "READY" /\ sp # s
      /\ \A r \in Procs : Forking(r) /\ son[r] = s => r = p
  BY <1>1, <1>2 DEF Inv, ForkState, Forking
<1>4. s # Root /\ \A r \in Procs : s \notin Elems(children[r])
  BY <1>1, <1>2 DEF Family, Unborn, Forking
<1>s. son'[p] = s /\ \A r \in Procs : son'[r] = son[r]
  BY <1>1
<1> HIDE DEF s
<1>5. /\ pc'[p] = "fork_link" /\ \A r \in Procs : r # p => pc'[r] = pc[r]
      /\ status'[s] = "RUNNABLE" /\ \A r \in Procs : r # s => status'[r] = status[r]
      /\ ppid'[s] = p /\ \A r \in Procs : r # s => ppid'[r] = ppid[r]
  BY <1>1, <1>2, <1>3 DEF Inv, TypeOK
<1>6. Lists'
  BY <1>1, <1>2 DEF Family, Lists
<1>7. Listed'
  BY <1>1, <1>2, <1>4, <1>5 DEF Family, Listed
<1>8. Linked'
  <2>1. ASSUME NEW c \in Procs, c # Root, Known(c)' PROVE c \in Elems(children[ppid'[c]])
    <3>1. c # s /\ Known(c)
      BY <1>1, <1>3, <1>5, <2>1 DEF Known
    <3>2. QED BY <1>2, <1>5, <2>1, <3>1 DEF Family, Linked
  <2>2. QED BY <1>1, <2>1 DEF Linked
<1>9. Unborn'
  <2>1. ASSUME NEW r \in Procs, Forking(r)'
        PROVE  /\ son'[r] # Root
               /\ \A q \in Procs : son'[r] \notin Elems(children[q])
               /\ pc'[r] = "fork_link" => ppid'[son'[r]] = r
    <3>1. CASE r = p
      BY <1>4, <1>5, <1>s, <3>1
    <3>2. CASE r # p
      <4>1. Forking(r) /\ pc'[r] = pc[r] /\ son[r] # s
        BY <1>3, <1>5, <2>1, <3>2 DEF Forking
      <4>2. /\ son[r] # Root /\ \A q \in Procs : son[r] \notin Elems(children[q])
            /\ pc[r] = "fork_link" => ppid[son[r]] = r
        BY <1>2, <4>1 DEF Family, Unborn
      <4>3. son[r] \in Procs
        BY <1>2, <4>1 DEF Inv, ForkState
      <4>4. QED BY <1>5, <1>s, <4>1, <4>2, <4>3
    <3>3. QED BY <3>1, <3>2
  <2>2. QED BY <1>1, <2>1 DEF Unborn
<1>10. RootLives'
  <2>1. status'[Root] \notin {"FREE", "READY", "ZOMBLE"}
    BY <1>2, <1>4, <1>5, ProcsAssumption DEF Family, RootLives
  <2>2. pc'[Root] \notin Exiting \cup {"dead"}
    BY <1>2, <1>5, ProcsAssumption DEF Family, RootLives, Exiting
  <2>3. QED BY <2>1, <2>2 DEF RootLives
<1>11. Childless'
  BY <1>1, <1>2, <1>5 DEF Family, Childless, Exiting
<1>12. RunnableIsQueued'
  BY <1>1, <1>2, <1>4, <1>5 DEF Family, RunnableIsQueued
<1>13. Waits
  BY <1>1, <1>5 DEF Waits
<1>14. Waiting' /\ LockWaits' /\ BufWaits'
  BY <1>1, <1>2, <1>13, WaitsWaiting DEF Sleepers, LockWaits, BufWaits, Buf, Slk
<1>15. QED BY <1>6, <1>7, <1>8, <1>9, <1>10, <1>11, <1>12, <1>14 DEF Family, Sleepers

LEMMA ForkLinkFam ==
  ASSUME FInv, NEW p \in Procs, ForkLink(p) PROVE Family' /\ Sleepers'
<1> DEFINE s == son[p]
<1>1. /\ cproc = p /\ pc[p] = "fork_link" /\ pc' = [pc EXCEPT ![p] = "trapret"]
      /\ children' = [children EXCEPT ![p] = Append(@, s)]
      /\ proc_queue' = [proc_queue EXCEPT ![s] = run]
      /\ son' = [son EXCEPT ![p] = NoProc]
      /\ UNCHANGED <<cproc, sp, spc, status, wait_for_child, ppid, sleep_list>>
      /\ UNCHANGED <<locked, io>>
  BY DEF ForkLink, Runs, Goto, schedVars, flagVars, devVars
<1>2. Inv /\ Family /\ Sleepers
  BY DEF FInv
<1>3. /\ s \in Procs /\ s # p /\ status[s] = "RUNNABLE"
      /\ \A r \in Procs : Forking(r) /\ son[r] = s => r = p
  BY <1>1, <1>2 DEF Inv, ForkState, Forking
<1>4. s # Root /\ ppid[s] = p /\ \A r \in Procs : s \notin Elems(children[r])
  BY <1>1, <1>2 DEF Family, Unborn, Forking
<1> HIDE DEF s
<1>5. children[p] \in Seq(Procs) /\ OnceOnly(children[p])
  BY <1>2 DEF Inv, TypeOK, Family, Lists
<1>6. Elems(Append(children[p], s)) = Elems(children[p]) \cup {s} /\ OnceOnly(Append(children[p], s))
  BY <1>3, <1>4, <1>5, AppendList
<1>7. /\ pc'[p] = "trapret" /\ \A r \in Procs : r # p => pc'[r] = pc[r] /\ son'[r] = son[r]
      /\ children'[p] = Append(children[p], s)
      /\ \A r \in Procs : r # p => children'[r] = children[r]
  BY <1>1, <1>2 DEF Inv, TypeOK
<1>8. proc_queue'[s] # 0 /\ \A r \in Procs : r # s => proc_queue'[r] = proc_queue[r]
  <2>1. run \in 1 .. 2
    BY <1>2 DEF Inv, TypeOK
  <2>2. proc_queue'[s] = run /\ \A r \in Procs : r # s => proc_queue'[r] = proc_queue[r]
    BY <1>1, <1>2, <1>3 DEF Inv, TypeOK
  <2>3. QED BY <2>1, <2>2
<1>9. \A r, c \in Procs : c \in Elems(children'[r]) <=> c \in Elems(children[r]) \/ (r = p /\ c = s)
  BY <1>6, <1>7
<1>10. Lists'
  BY <1>2, <1>6, <1>7 DEF Family, Lists
<1>11. Listed'
  <2>1. ASSUME NEW r \in Procs, NEW c \in Procs, c \in Elems(children'[r])
        PROVE  ppid'[c] = r /\ c # Root /\ status'[c] # "FREE" /\ pc'[r] # "dead"
    BY <1>1, <1>2, <1>3, <1>4, <1>7, <1>9, <2>1 DEF Family, Listed
  <2>2. QED BY <2>1 DEF Listed
<1>12. Linked'
  <2>1. ASSUME NEW c \in Procs, c # Root, Known(c)' PROVE c \in Elems(children'[ppid'[c]])
    <3>1. ppid[c] \in Procs /\ ppid'[c] = ppid[c]
      BY <1>1, <1>2 DEF Inv, TypeOK
    <3>2. CASE c = s
      BY <1>4, <1>9, <3>1, <3>2
    <3>3. CASE c # s
      <4>1. Known(c)
        BY <1>1, <1>8, <2>1, <3>3 DEF Known
      <4>2. QED BY <1>2, <1>9, <2>1, <3>1, <4>1 DEF Family, Linked
    <3>4. QED BY <3>2, <3>3
  <2>2. QED BY <2>1 DEF Linked
<1>13. Unborn'
  <2>1. ASSUME NEW r \in Procs, Forking(r)'
        PROVE  /\ son'[r] # Root
               /\ \A q \in Procs : son'[r] \notin Elems(children'[q])
               /\ pc'[r] = "fork_link" => ppid'[son'[r]] = r
    <3>1. r # p /\ Forking(r) /\ pc'[r] = pc[r] /\ son'[r] = son[r] /\ son[r] # s
      BY <1>3, <1>7, <2>1 DEF Forking
    <3>2. /\ son[r] # Root /\ \A q \in Procs : son[r] \notin Elems(children[q])
          /\ pc[r] = "fork_link" => ppid[son[r]] = r
      BY <1>2, <3>1 DEF Family, Unborn
    <3>3. son[r] \in Procs
      BY <1>2, <3>1 DEF Inv, ForkState
    <3>4. QED BY <1>1, <1>9, <3>1, <3>2, <3>3
  <2>2. QED BY <2>1 DEF Unborn
<1>14. RootLives'
  BY <1>1, <1>2, <1>7, ProcsAssumption DEF Family, RootLives, Exiting
<1>15. Childless'
  BY <1>2, <1>7 DEF Family, Childless, Exiting
<1>16. RunnableIsQueued'
  BY <1>1, <1>2, <1>8, <1>9 DEF Family, RunnableIsQueued
<1>17. Waits
  <2>1. \A r \in Procs : pc'[r] = "wait" => r # p /\ pc[r] = "wait"
    BY <1>7
  <2>2. \A r \in Procs : pc'[r] = "dead" => pc[r] = "dead"
    BY <1>7
  <2>3. QED BY <1>1, <1>7, <2>1, <2>2 DEF Waits
<1>18. Waiting' /\ LockWaits' /\ BufWaits'
  BY <1>1, <1>2, <1>17, WaitsWaiting DEF Sleepers, LockWaits, BufWaits, Buf, Slk
<1>19. QED BY <1>10, <1>11, <1>12, <1>13, <1>14, <1>15, <1>16, <1>18 DEF Family, Sleepers

LEMMA WaitReapFam ==
  ASSUME FInv, NEW p \in Procs, WaitReap(p) PROVE Family' /\ Sleepers'
<1>1. PICK k \in DOMAIN children[p] :
         /\ status[children[p][k]] = "ZOMBLE"
         /\ status' = [status EXCEPT ![children[p][k]] = "FREE"]
         /\ children' = [children EXCEPT ![p] = DelAt(@, k)]
  BY DEF WaitReap, ZombleAt
<1> DEFINE s == children[p][k]
<1>2. /\ cproc = p /\ pc[p] = "wait" /\ pc' = [pc EXCEPT ![p] = "trapret"]
      /\ status[s] = "ZOMBLE" /\ status' = [status EXCEPT ![s] = "FREE"]
      /\ UNCHANGED <<cproc, sp, spc, proc_queue, wait_for_child, ppid, sleep_list, son>>
      /\ UNCHANGED <<locked, io>>
  BY <1>1 DEF WaitReap, Runs, Goto, schedVars, queueVars, flagVars, forkVars, devVars
<1>3. Inv /\ Family /\ Sleepers
  BY DEF FInv
<1>4. children[p] \in Seq(Procs) /\ OnceOnly(children[p])
  BY <1>3 DEF Inv, TypeOK, Family, Lists
<1>5. s \in Procs /\ s \in Elems(children[p])
  BY <1>4, LenProperties, ElementOfSeq DEF Elems
<1>6. Elems(DelAt(children[p], k)) = Elems(children[p]) \ {s} /\ OnceOnly(DelAt(children[p], k))
  BY <1>4, DelAtElems DEF OnceOnly
<1> HIDE DEF s
<1>7. /\ ppid[s] = p /\ s # Root /\ s # p /\ sp = NoProc /\ proc_queue[s] = 0
  <2>1. sp = NoProc
    BY <1>2, <1>3, CurrentFacts
  <2>2. ppid[s] = p /\ s # Root
    BY <1>3, <1>5 DEF Family, Listed
  <2>3. s # p /\ proc_queue[s] = 0
    BY <1>2, <1>3, <1>5 DEF Inv, ProcState, Queued
  <2>4. QED BY <2>1, <2>2, <2>3
<1>8. /\ pc'[p] = "trapret" /\ \A r \in Procs : r # p => pc'[r] = pc[r]
      /\ children'[p] = DelAt(children[p], k)
      /\ \A r \in Procs : r # p => children'[r] = children[r]
      /\ status'[s] = "FREE" /\ \A r \in Procs : r # s => status'[r] = status[r]
  BY <1>1, <1>2, <1>3, <1>5 DEF Inv, TypeOK
<1>9. \A r, c \in Procs : c \in Elems(children'[r]) <=> c \in Elems(children[r]) /\ c # s
  <2>1. \A r \in Procs : s \in Elems(children[r]) => r = p
    BY <1>3, <1>5, <1>7 DEF Family, Listed
  <2>2. QED BY <1>6, <1>8, <2>1
<1>10. Lists'
  BY <1>3, <1>6, <1>8 DEF Family, Lists
<1>11. Listed'
  <2>1. ASSUME NEW r \in Procs, NEW c \in Procs, c \in Elems(children'[r])
        PROVE  ppid'[c] = r /\ c # Root /\ status'[c] # "FREE" /\ pc'[r] # "dead"
    BY <1>2, <1>3, <1>8, <1>9, <2>1 DEF Family, Listed
  <2>2. QED BY <2>1 DEF Listed
<1>12. Linked'
  <2>1. ASSUME NEW c \in Procs, c # Root, Known(c)' PROVE c \in Elems(children'[ppid'[c]])
    <3>1. ppid[c] \in Procs /\ ppid'[c] = ppid[c]
      BY <1>2, <1>3 DEF Inv, TypeOK
    <3>2. c # s /\ Known(c)
      BY <1>2, <1>5, <1>7, <1>8, <2>1, ProcsAssumption DEF Known
    <3>3. QED BY <1>3, <1>9, <2>1, <3>1, <3>2 DEF Family, Linked
  <2>2. QED BY <2>1 DEF Linked
<1>13. Unborn'
  <2>1. ASSUME NEW r \in Procs, Forking(r)'
        PROVE  /\ son'[r] # Root
               /\ \A q \in Procs : son'[r] \notin Elems(children'[q])
               /\ pc'[r] = "fork_link" => ppid'[son'[r]] = r
    <3>1. r # p /\ Forking(r) /\ pc'[r] = pc[r] /\ son'[r] = son[r]
      BY <1>2, <1>8, <2>1 DEF Forking
    <3>2. /\ son[r] # Root /\ \A q \in Procs : son[r] \notin Elems(children[q])
          /\ pc[r] = "fork_link" => ppid[son[r]] = r
      BY <1>3, <3>1 DEF Family, Unborn
    <3>3. son[r] \in Procs
      BY <1>3, <3>1 DEF Inv, ForkState
    <3>4. QED BY <1>2, <1>9, <3>1, <3>2, <3>3
  <2>2. QED BY <2>1 DEF Unborn
<1>14. RootLives'
  <2>1. status'[Root] \notin {"FREE", "READY", "ZOMBLE"}
    BY <1>3, <1>7, <1>8, ProcsAssumption DEF Family, RootLives
  <2>2. pc'[Root] \notin Exiting \cup {"dead"}
    BY <1>3, <1>8, ProcsAssumption DEF Family, RootLives, Exiting
  <2>3. QED BY <2>1, <2>2 DEF RootLives
<1>15. Childless'
  BY <1>3, <1>8 DEF Family, Childless, Exiting
<1>16. RunnableIsQueued'
  BY <1>2, <1>3, <1>8, <1>9 DEF Family, RunnableIsQueued
<1>17. Waits
  <2>1. \A r \in Procs : pc'[r] = "wait" /\ status'[r] = "SLEEPING" =>
           r # p /\ pc[r] = "wait" /\ status[r] = "SLEEPING"
    BY <1>8
  <2>2. \A r \in Procs : pc'[r] = "dead" => pc[r] = "dead"
    BY <1>8
  <2>3. QED BY <1>2, <1>9, <2>1, <2>2 DEF Waits
<1>18. Waiting' /\ LockWaits' /\ BufWaits'
  BY <1>2, <1>3, <1>17, WaitsWaiting DEF Sleepers, LockWaits, BufWaits, Buf, Slk
<1>19. QED BY <1>10, <1>11, <1>12, <1>13, <1>14, <1>15, <1>16, <1>18 DEF Family, Sleepers

\* The list of the root process when it adopts the children of another.
LEMMA AdoptList ==
  ASSUME NEW s \in Seq(Procs), NEW t \in Seq(Procs), NEW L, L = Reversed(s) \o t,
         OnceOnly(s), OnceOnly(t), \A x \in Procs : ~(x \in Elems(s) /\ x \in Elems(t))
  PROVE  /\ OnceOnly(L)
         /\ \A x \in Procs : x \in Elems(L) <=> x \in Elems(s) \/ x \in Elems(t)
<1> DEFINE n == Len(s)
           m == Len(t)
<1>0. /\ Len(s) \in Nat /\ DOMAIN s = 1 .. Len(s) /\ Len(t) \in Nat /\ DOMAIN t = 1 .. Len(t)
      /\ L \in Seq(Procs) /\ DOMAIN L = 1 .. Len(s) + Len(t)
      /\ \A i \in 1 .. Len(s) : L[i] = s[Len(s) + 1 - i]
      /\ \A j \in 1 .. Len(t) : L[j + Len(s)] = t[j]
  <2>1. /\ Len(s) \in Nat /\ DOMAIN s = 1 .. Len(s) /\ Len(t) \in Nat /\ DOMAIN t = 1 .. Len(t)
    BY LenProperties
  <2>2. PICK r \in Seq(Procs) : r = Reversed(s)
    BY ReversedSeq
  <2>3. /\ DOMAIN r = 1 .. Len(s) /\ \A i \in 1 .. Len(s) : r[i] = s[Len(s) + 1 - i]
    BY <2>1, <2>2 DEF Reversed
  <2>4. Len(r) = Len(s)
    <3>1. Len(r) \in Nat /\ DOMAIN r = 1 .. Len(r)
      BY LenProperties
    <3>2. QED BY <2>1, <2>3, <3>1
  <2>5. L = r \o t
    BY <2>2
  <2>6. /\ L \in Seq(Procs) /\ Len(L) = Len(r) + Len(t)
        /\ \A i \in 1 .. Len(r) + Len(t) : L[i] = IF i <= Len(r) THEN r[i] ELSE t[i - Len(r)]
    BY <2>5, ConcatProperties, ZenonT(60)
  <2>7. DOMAIN L = 1 .. Len(s) + Len(t)
    BY <2>4, <2>6, LenProperties
  <2>8. \A i \in 1 .. Len(s) : L[i] = s[Len(s) + 1 - i]
    <3>1. \A i \in 1 .. Len(s) : i \in 1 .. Len(s) + Len(t) /\ i <= Len(s)
      BY <2>1
    <3>2. QED BY <2>3, <2>4, <2>6, <3>1
  <2>9. ASSUME NEW j \in 1 .. Len(t) PROVE L[j + Len(s)] = t[j]
    <3>1. j + Len(s) \in 1 .. Len(s) + Len(t) /\ ~(j + Len(s) <= Len(s)) /\ (j + Len(s)) - Len(s) = j
      BY <2>1
    <3>2. QED BY <2>4, <2>6, <3>1
  <2>10. QED BY <2>1, <2>6, <2>7, <2>8, <2>9
<1>1. /\ n \in Nat /\ DOMAIN s = 1 .. n /\ m \in Nat /\ DOMAIN t = 1 .. m
      /\ L \in Seq(Procs) /\ DOMAIN L = 1 .. n + m
      /\ \A i \in 1 .. n : L[i] = s[n + 1 - i]
      /\ \A j \in 1 .. m : L[j + n] = t[j]
  BY <1>0
<1> HIDE DEF n, m
<1>2. \A i \in 1 .. n : n + 1 - i \in 1 .. n /\ n + 1 - (n + 1 - i) = i
  BY <1>1
<1>3. \A i \in 1 .. n + m : i \in 1 .. n \/ (i - n \in 1 .. m /\ (i - n) + n = i)
  BY <1>1
<1>4. \A i \in 1 .. n : i \in 1 .. n + m
  BY <1>1
<1>5. \A j \in 1 .. m : j + n \in 1 .. n + m
  BY <1>1
<1>6. \A i \in 1 .. n + m : \/ i \in 1 .. n /\ L[i] = s[n + 1 - i]
                            \/ i - n \in 1 .. m /\ L[i] = t[i - n]
  <2>1. ASSUME NEW i \in 1 .. n + m, i - n \in 1 .. m, (i - n) + n = i PROVE L[i] = t[i - n]
    <3>1. L[(i - n) + n] = t[i - n]
      BY <1>1, <2>1
    <3>2. QED BY <2>1, <3>1
  <2>2. QED BY <1>1, <1>3, <2>1
<1>7. ASSUME NEW x \in Procs PROVE x \in Elems(L) <=> x \in Elems(s) \/ x \in Elems(t)
  <2>1. x \in Elems(L) => x \in Elems(s) \/ x \in Elems(t)
    <3>1. SUFFICES ASSUME NEW i \in 1 .. n + m, L[i] = x
                   PROVE  x \in Elems(s) \/ x \in Elems(t)
      BY <1>1 DEF Elems
    <3>2. CASE i \in 1 .. n /\ L[i] = s[n + 1 - i]
      BY <1>1, <1>2, <3>1, <3>2 DEF Elems
    <3>3. CASE i - n \in 1 .. m /\ L[i] = t[i - n]
      BY <1>1, <3>1, <3>3 DEF Elems
    <3>4. QED BY <1>6, <3>2, <3>3
  <2>2. ASSUME NEW i \in 1 .. n, s[i] = x PROVE x \in Elems(L)
    <3>1. n + 1 - i \in 1 .. n + m /\ L[n + 1 - i] = s[n + 1 - (n + 1 - i)]
      BY <1>1, <1>2, <1>4
    <3>2. L[n + 1 - i] = x
      BY <1>2, <2>2, <3>1
    <3>3. QED BY <1>1, <3>1, <3>2 DEF Elems
  <2>3. ASSUME NEW j \in 1 .. m, t[j] = x PROVE x \in Elems(L)
    BY <1>1, <1>5, <2>3 DEF Elems
  <2>4. QED BY <1>1, <2>1, <2>2, <2>3 DEF Elems
<1>8. ASSUME NEW i \in 1 .. n + m, NEW j \in 1 .. n + m, L[i] = L[j] PROVE i = j
  <2>1. \A a \in 1 .. n : \A b \in 1 .. m : s[a] # t[b]
    <3>1. \A a \in 1 .. n : s[a] \in Procs /\ s[a] \in Elems(s)
      BY <1>1, ElementOfSeq DEF Elems, n
    <3>2. \A b \in 1 .. m : t[b] \in Elems(t)
      BY <1>1 DEF Elems
    <3>3. QED BY <3>1, <3>2
  <2>2. \A a, b \in 1 .. n : s[a] = s[b] => a = b
    BY <1>1 DEF OnceOnly
  <2>3. \A a, b \in 1 .. m : t[a] = t[b] => a = b
    BY <1>1 DEF OnceOnly
  <2>4. CASE i \in 1 .. n /\ L[i] = s[n + 1 - i] /\ j \in 1 .. n /\ L[j] = s[n + 1 - j]
    <3>a. n + 1 - i \in 1 .. n /\ n + 1 - j \in 1 .. n
      BY <1>2, <2>4
    <3>b. s[n + 1 - i] = s[n + 1 - j]
      BY <1>8, <2>4
    <3>1. n + 1 - i = n + 1 - j
      BY <2>2, <3>a, <3>b, Zenon
    <3>2. QED BY <1>1, <2>4, <3>1
  <2>5. CASE i - n \in 1 .. m /\ L[i] = t[i - n] /\ j - n \in 1 .. m /\ L[j] = t[j - n]
    <3>1. i - n = j - n
      BY <1>8, <2>3, <2>5
    <3>2. QED BY <1>1, <3>1
  <2>6. CASE i \in 1 .. n /\ L[i] = s[n + 1 - i] /\ j - n \in 1 .. m /\ L[j] = t[j - n]
    BY <1>2, <1>8, <2>1, <2>6
  <2>7. CASE i - n \in 1 .. m /\ L[i] = t[i - n] /\ j \in 1 .. n /\ L[j] = s[n + 1 - j]
    BY <1>2, <1>8, <2>1, <2>7
  <2>8. QED BY <1>6, <2>4, <2>5, <2>6, <2>7
<1>9. QED BY <1>1, <1>7, <1>8 DEF OnceOnly

LEMMA ExitFam ==
  ASSUME FInv, NEW p \in Procs, Exit(p) PROVE Family' /\ Sleepers'
<1>1. /\ cproc = p /\ pc[p] = "exit" /\ p # Root /\ pc' = [pc EXCEPT ![p] = "exit_close"]
      /\ children' = [children EXCEPT ![p] = <<>>,
                                      ![Root] = Reversed(children[p]) \o @]
      /\ ppid' = [c \in Procs |-> IF c \in Elems(children[p]) THEN Root ELSE ppid[c]]
      /\ proc_queue' = [proc_queue EXCEPT ![p] = 0]
      /\ status' = [status EXCEPT ![p] = "ZOMBLE"]
      /\ UNCHANGED <<cproc, sp, spc, wait_for_child, sleep_list, son, locked, io>>
  BY DEF Exit, Adopt, Runs, Goto, schedVars, flagVars, forkVars, devVars
<1>2. Inv /\ Family /\ Sleepers /\ Root \in Procs
  BY ProcsAssumption DEF FInv
<1>3. /\ children \in [Procs -> Seq(Procs)] /\ children[p] \in Seq(Procs)
      /\ children[Root] \in Seq(Procs) /\ OnceOnly(children[p]) /\ OnceOnly(children[Root])
  BY <1>2 DEF Inv, TypeOK, Family, Lists
<1>4. PICK L : L = Reversed(children[p]) \o children[Root]
  OBVIOUS
<1>5. /\ OnceOnly(L)
      /\ \A x \in Procs : x \in Elems(L) <=> x \in Elems(children[p]) \/ x \in Elems(children[Root])
  <2>1. \A x \in Procs : ~(x \in Elems(children[p]) /\ x \in Elems(children[Root]))
    BY <1>1, <1>2 DEF Family, Listed
  <2>2. PICK a \in Seq(Procs) : a = children[p]
    BY <1>3
  <2>3. PICK b \in Seq(Procs) : b = children[Root]
    BY <1>3
  <2>4. /\ L = Reversed(a) \o b /\ OnceOnly(a) /\ OnceOnly(b)
        /\ \A x \in Procs : ~(x \in Elems(a) /\ x \in Elems(b))
    BY <1>3, <1>4, <2>1, <2>2, <2>3
  <2>5. /\ OnceOnly(L)
        /\ \A x \in Procs : x \in Elems(L) <=> x \in Elems(a) \/ x \in Elems(b)
    BY <2>4, AdoptList
  <2>6. QED BY <2>2, <2>3, <2>5
<1>6. /\ children'[p] = <<>> /\ children'[Root] = L
      /\ \A r \in Procs : r # p /\ r # Root => children'[r] = children[r]
  <2>1. children' = [children EXCEPT ![p] = <<>>, ![Root] = L]
    BY <1>1, <1>2, <1>3, <1>4
  <2>2. QED BY <1>1, <1>2, <1>3, <2>1
<1>7. /\ pc'[p] = "exit_close" /\ \A r \in Procs : r # p => pc'[r] = pc[r]
      /\ status'[p] = "ZOMBLE" /\ \A r \in Procs : r # p => status'[r] = status[r]
      /\ \A r \in Procs : r # p => proc_queue'[r] = proc_queue[r]
      /\ \A c \in Procs : c \in Elems(children[p]) => ppid'[c] = Root
      /\ \A c \in Procs : c \notin Elems(children[p]) => ppid'[c] = ppid[c]
  BY <1>1, <1>2 DEF Inv, TypeOK
<1>8. \A c \in Procs : \A r \in Procs : c \in Elems(children'[r]) <=>
         \/ r = Root /\ (c \in Elems(children[p]) \/ c \in Elems(children[Root]))
         \/ r # p /\ r # Root /\ c \in Elems(children[r])
  BY <1>1, <1>2, <1>5, <1>6, EmptyList
<1>9. Lists'
  BY <1>2, <1>5, <1>6, EmptyList DEF Family, Lists
<1>10. Listed'
  <2>1. ASSUME NEW r \in Procs, NEW c \in Procs, c \in Elems(children'[r])
        PROVE  ppid'[c] = r /\ c # Root /\ status'[c] # "FREE" /\ pc'[r] # "dead"
    <3>1. pc'[Root] # "dead"
      BY <1>1, <1>2, <1>7 DEF Family, RootLives
    <3>2. CASE r = Root /\ c \in Elems(children[p])
      <4>1. c # Root /\ status[c] # "FREE"
        BY <1>2, <3>2 DEF Family, Listed
      <4>2. QED BY <1>7, <3>1, <3>2, <4>1
    <3>3. CASE r # p /\ c \in Elems(children[r])
      <4>1. ppid[c] = r /\ c # Root /\ status[c] # "FREE" /\ pc[r] # "dead"
        BY <1>2, <3>3 DEF Family, Listed
      <4>2. c \notin Elems(children[p])
        BY <1>2, <3>3, <4>1 DEF Family, Listed
      <4>3. QED BY <1>7, <3>3, <4>1, <4>2
    <3>4. QED BY <1>1, <1>8, <2>1, <3>2, <3>3
  <2>2. QED BY <2>1 DEF Listed
<1>11. Linked'
  <2>1. ASSUME NEW c \in Procs, c # Root, Known(c)' PROVE c \in Elems(children'[ppid'[c]])
    <3>1. Known(c) /\ ppid[c] \in Procs
      BY <1>1, <1>2, <1>7, <2>1 DEF Known, Inv, TypeOK
    <3>2. c \in Elems(children[ppid[c]])
      BY <1>2, <2>1, <3>1 DEF Family, Linked
    <3>3. CASE c \in Elems(children[p])
      BY <1>2, <1>7, <1>8, <3>3
    <3>4. CASE c \notin Elems(children[p])
      <4>1. ppid'[c] = ppid[c] /\ ppid[c] # p
        BY <1>7, <3>2, <3>4
      <4>2. QED BY <1>8, <3>1, <3>2, <4>1
    <3>5. QED BY <3>3, <3>4
  <2>2. QED BY <2>1 DEF Linked
<1>12. Unborn'
  <2>1. ASSUME NEW r \in Procs, Forking(r)'
        PROVE  /\ son'[r] # Root
               /\ \A q \in Procs : son'[r] \notin Elems(children'[q])
               /\ pc'[r] = "fork_link" => ppid'[son'[r]] = r
    <3>1. r # p /\ Forking(r) /\ pc'[r] = pc[r] /\ son'[r] = son[r]
      BY <1>1, <1>7, <2>1 DEF Forking
    <3>2. /\ son[r] # Root /\ \A q \in Procs : son[r] \notin Elems(children[q])
          /\ pc[r] = "fork_link" => ppid[son[r]] = r
      BY <1>2, <3>1 DEF Family, Unborn
    <3>3. son[r] \in Procs
      BY <1>2, <3>1 DEF Inv, ForkState
    <3>4. \A q \in Procs : son[r] \notin Elems(children'[q])
      BY <1>2, <1>8, <3>2, <3>3
    <3>5. QED BY <1>7, <3>1, <3>2, <3>3, <3>4
  <2>2. QED BY <2>1 DEF Unborn
<1>13. RootLives'
  <2>1. status'[Root] \notin {"FREE", "READY", "ZOMBLE"}
    BY <1>1, <1>2, <1>7 DEF Family, RootLives
  <2>2. pc'[Root] \notin Exiting \cup {"dead"}
    BY <1>1, <1>2, <1>7 DEF Family, RootLives
  <2>3. QED BY <2>1, <2>2 DEF RootLives
<1>14. Childless'
  <2>1. ASSUME NEW r \in Procs, pc'[r] \in Exiting PROVE children'[r] = <<>>
    <3>1. CASE r = p
      BY <1>6, <3>1
    <3>2. CASE r # p
      <4>1. pc[r] \in Exiting /\ r # Root
        BY <1>2, <1>7, <2>1, <3>2 DEF Family, RootLives
      <4>2. QED BY <1>2, <1>6, <3>2, <4>1 DEF Family, Childless
    <3>3. QED BY <3>1, <3>2
  <2>2. QED BY <2>1 DEF Childless
<1>15. RunnableIsQueued'
  <2>1. ASSUME NEW r \in Procs, status'[r] = "RUNNABLE", NEW q \in Procs, r \in Elems(children'[q])
        PROVE  proc_queue'[r] # 0 \/ (sp' = r /\ spc' = "top")
    <3>1. r # p /\ status[r] = "RUNNABLE" /\ \E h \in Procs : r \in Elems(children[h])
      BY <1>2, <1>7, <1>8, <2>1
    <3>2. proc_queue[r] # 0 \/ (sp = r /\ spc = "top")
      BY <1>2, <3>1 DEF Family, RunnableIsQueued
    <3>3. QED BY <1>1, <1>7, <3>1, <3>2
  <2>2. QED BY <2>1 DEF RunnableIsQueued
<1>16. Waits
  <2>1. ASSUME NEW r \in Procs, pc'[r] = "wait", status'[r] = "SLEEPING"
        PROVE  /\ pc[r] = "wait" /\ status[r] = "SLEEPING"
               /\ \A c \in Procs : r # Root /\ c \in Elems(children'[r]) => c \in Elems(children[r])
    <3>1. r # p /\ pc[r] = "wait" /\ status[r] = "SLEEPING"
      BY <1>7, <2>1
    <3>2. QED BY <1>8, <3>1
  <2>2. \A r \in Procs : pc'[r] = "dead" => pc[r] = "dead"
    BY <1>7
  <2>3. QED BY <1>1, <2>1, <2>2 DEF Waits
<1>17. Waiting' /\ LockWaits' /\ BufWaits'
  BY <1>1, <1>2, <1>16, WaitsWaiting DEF Sleepers, LockWaits, BufWaits, Buf, Slk
<1>18. QED BY <1>9, <1>10, <1>11, <1>12, <1>13, <1>14, <1>15, <1>17 DEF Family, Sleepers

-----------------------------------------------------------------------------
(* The theorems.                                                            *)

LEMMA InitFam == Init => FInv
<1> SUFFICES ASSUME Init PROVE FInv
  OBVIOUS
<1>1. Inv
  BY InitInv
<1>2. /\ \A p \in Procs : children[p] = <<>> /\ ppid[p] = Root
      /\ \A p \in Procs : p # Root => /\ status[p] = "FREE" /\ proc_queue[p] = 0
                                      /\ pc[p] = "dead"
      /\ status[Root] = "RUNNABLE" /\ pc[Root] = "forkret"
      /\ \A c \in Chan : sleep_list[c] = <<>>
      /\ cproc = NoProc /\ sp = NoProc
  BY ProcsAssumption DEF Init
<1>3. Lists /\ Listed /\ Childless
  BY <1>2, EmptyList DEF Lists, Listed, Childless
<1>4. Linked
  BY <1>2, ProcsAssumption DEF Linked, Known
<1>5. Unborn
  BY <1>2 DEF Unborn, Forking
<1>6. RootLives
  BY <1>2 DEF RootLives, Exiting
<1>7. RunnableIsQueued
  BY <1>2, EmptyList DEF RunnableIsQueued
<1>8. Sleepers
  BY <1>2, ChanFacts DEF Sleepers, LockWaits, BufWaits, Waiting
<1>9. QED BY <1>1, <1>3, <1>4, <1>5, <1>6, <1>7, <1>8 DEF FInv, Family

LEMMA NextFam == FInv /\ [Next]_vars => FInv'
<1> SUFFICES ASSUME FInv, [Next]_vars PROVE FInv'
  OBVIOUS
<1>0. Inv'
  BY NextInv DEF FInv
<1>1. CASE scheduler \/ TickIdle
  BY <1>0, <1>1, SchedulerFam DEF scheduler, FInv
<1>2. ASSUME NEW p \in Procs, Tick(p) \/ ide_intr(p) \/ UserStep(p) PROVE FInv'
  <2>1. CASE Tick(p)
    BY <1>0, <2>1, TickFam DEF FInv
  <2>2. CASE ide_intr(p)
    BY <1>0, <2>2, ide_intrFam DEF FInv
  <2>3. CASE Enter(p)
    BY <1>0, <2>3, MovesFam DEF FInv
  <2>4. CASE IoSubmit(p)
    BY <1>0, <2>4, DiskFam DEF FInv
  <2>5. ASSUME NEW t \in Procs, Kill(p, t) PROVE FInv'
    BY <1>0, <2>5, KillFam DEF FInv
  <2>6. QED BY <1>2, <2>1, <2>2, <2>3, <2>4, <2>5 DEF UserStep
<1>3. ASSUME NEW p \in Procs, KernelStep(p) PROVE FInv'
  <2>1. CASE \/ TrapReturn2(p) \/ proc_alloc_failed(p) \/ ForkFail(p)
             \/ ExitClose(p) \/ ForkLoad(p) \/ ForkHalve(p) \/ ExitRoot(p)
    BY <1>0, <2>1, MovesFam DEF FInv
  <2>2. CASE TrapReturn(p) \/ Forkret(p) \/ IoRecheck(p)
    BY <1>0, <2>2, TrapReturnFam, ForkretFam, IoRecheckFam DEF FInv
  <2>3. CASE proc_alloc(p) \/ ForkStore(p) \/ ForkTest(p) \/ ForkLink(p)
    BY <1>0, <2>3, proc_allocFam, ForkStoreFam, ForkLinkFam DEF FInv
  <2>4. CASE WaitReap(p) \/ WaitSleep(p)
    BY <1>0, <2>4, WaitReapFam, WaitSleepFam DEF FInv
  <2>5. CASE Exit(p) \/ ExitCloseIo(p) \/ ExitEnd(p)
    BY <1>0, <2>5, ExitFam, DiskFam, ExitEndFam DEF FInv
  <2>6. CASE SleepLock(p) \/ SleepUnlock(p)
    BY <1>0, <2>6, SleepLockFam, SleepUnlockFam DEF FInv
  <2>7. QED BY <1>3, <2>1, <2>2, <2>3, <2>4, <2>5, <2>6 DEF KernelStep
<1>4. CASE UNCHANGED vars
  <2>1. /\ UNCHANGED <<cproc, spc, sp, proc_queue, status, wait_for_child, ppid, children>>
        /\ UNCHANGED <<sleep_list, pc, son, locked, io>>
    BY <1>4 DEF vars, schedVars, queueVars, flagVars, treeVars, forkVars, devVars
  <2>2. Family' /\ Sleepers'
    <3>1. Lists' /\ Listed' /\ RootLives' /\ Childless' /\ RunnableIsQueued'
      BY <2>1 DEF FInv, Family, Lists, Listed, RootLives, Childless, RunnableIsQueued
    <3>2. Linked' /\ Unborn'
      BY <2>1 DEF FInv, Family, Linked, Known, Unborn, Forking
    <3>3. Sleepers'
      BY <2>1 DEF FInv, Sleepers, LockWaits, BufWaits, Waiting, Asleep, Alone, Buf, Slk
    <3>4. QED BY <3>1, <3>2, <3>3 DEF Family
  <2>3. QED BY <1>0, <2>2 DEF FInv
<1>5. QED BY <1>1, <1>2, <1>3, <1>4 DEF Next, Halted

\* The invariant of the tree and the sleepers holds in every reachable state,
\* for any number of processes and any mix of system calls.
THEOREM FamilyInvariance == Spec => []FInv
  BY InitFam, NextFam, PTL DEF Spec

\* children and ppid agree, nobody is listed twice, and every process that is
\* gone is on the list of a parent that can still reap it, whatever order
\* fork, wait, exit and kill of the family come in.
THEOREM TreeConsistent == Spec => []FamilyTree
<1>1. ASSUME FInv PROVE FamilyTree
  <2>1. /\ children \in [Procs -> Seq(Procs)]
        /\ \A p \in Procs : \A i \in DOMAIN children[p] : children[p][i] \in Procs
    <3>1. children \in [Procs -> Seq(Procs)]
      BY <1>1 DEF FInv, Inv, TypeOK
    <3>2. QED BY <3>1, LenProperties, ElementOfSeq
  <2>2. \A p \in Procs : OnceOnly(children[p])
    BY <1>1 DEF FInv, Family, Lists
  <2>3. \A p \in Procs : \A c \in Elems(children[p]) : c \in Procs
    BY <2>1 DEF Elems
  <2>4. \A p \in Procs : \A c \in Elems(children[p]) :
           ppid[c] = p /\ c # Root /\ status[c] # "FREE" /\ pc[p] # "dead"
    BY <1>1, <2>3 DEF FInv, Family, Listed
  <2>5. \A c \in Procs : status[c] = "ZOMBLE" => c \in Elems(children[ppid[c]])
    BY <1>1 DEF FInv, Family, Linked, RootLives, Known
  <2>6. QED BY <2>2, <2>4, <2>5 DEF FamilyTree
<1>2. QED BY <1>1, FamilyInvariance, PTL

\* A RUNNABLE process that its parent has linked is in a queue or about to be
\* put there: the scheduler cannot forget one.
THEOREM NobodyForgotten == Spec => []RunnableIsQueued
<1>1. FInv => RunnableIsQueued
  BY DEF FInv, Family
<1>2. QED BY <1>1, FamilyInvariance, PTL

\* Nobody sleeps for what has already happened: sleeplock, disk and wait()
\* all test and sleep in one critical section, and every waker empties the list.
THEOREM WakeupsArrive == Spec => []NoLostWakeup
<1>1. ASSUME FInv PROVE NoLostWakeup
  <2>1. children \in [Procs -> Seq(Procs)]
    BY <1>1 DEF FInv, Inv, TypeOK
  <2>2. \A p \in Procs : \A c \in Elems(children[p]) : c \in Procs
    BY <2>1, LenProperties, ElementOfSeq DEF Elems
  <2>3. QED BY <1>1, <2>2 DEF FInv, Sleepers, LockWaits, BufWaits, Waiting, NoLostWakeup
<1>2. QED BY <1>1, FamilyInvariance, PTL

\* A process that is gone stays where it is.
LEMMA DeadStep ==
  ASSUME Inv, [Next]_vars, NEW p \in Procs, pc[p] = "dead", status[p] = "ZOMBLE"
  PROVE  pc'[p] = "dead"
<1>1. cproc # p /\ pc \in [Procs -> Where]
  BY DEF Inv, ProcState, TypeOK
<1>2. CASE scheduler \/ TickIdle \/ UNCHANGED vars
  BY <1>2 DEF scheduler, SchedRequeue, SchedSkip, SchedPick, SchedIdle, TickIdle, vars
<1>3. ASSUME NEW q \in Procs, Tick(q) \/ ide_intr(q) \/ UserStep(q) PROVE pc'[p] = "dead"
  BY <1>1, <1>3 DEF Tick, ide_intr, UserStep, Enter, IoSubmit, Kill, Runs, Goto
<1>4. ASSUME NEW q \in Procs, KernelStep(q) PROVE pc'[p] = "dead"
  <2>1. CASE proc_alloc(q)
    <3>1. PICK s \in Procs : /\ status[s] = "FREE"
                             /\ pc' = [pc EXCEPT ![q] = "fork_load", ![s] = "forkret"]
      BY <2>1 DEF proc_alloc
    <3>2. q # p
      BY <1>1, <2>1 DEF proc_alloc, Runs
    <3>3. QED BY <1>1, <3>1, <3>2
  <2>2. CASE TrapReturn(q) \/ TrapReturn2(q) \/ Forkret(q) \/ proc_alloc_failed(q)
    BY <1>1, <2>2 DEF TrapReturn, TrapReturn2, Forkret, proc_alloc_failed, Runs, Goto
  <2>3. CASE \/ ForkLoad(q) \/ ForkStore(q) \/ ForkHalve(q) \/ ForkTest(q)
             \/ ForkLink(q) \/ ForkFail(q)
    BY <1>1, <2>3
       DEF ForkLoad, ForkStore, ForkHalve, ForkTest, ForkChild, ForkLink, ForkFail, Runs, Goto
  <2>4. CASE WaitReap(q) \/ WaitSleep(q)
    BY <1>1, <2>4 DEF WaitReap, WaitSleep, Runs, Goto
  <2>5. CASE Exit(q) \/ ExitRoot(q) \/ ExitClose(q) \/ ExitCloseIo(q) \/ ExitEnd(q)
    BY <1>1, <2>5 DEF Exit, ExitRoot, ExitClose, ExitCloseIo, ExitEnd, Runs, Goto
  <2>6. CASE SleepLock(q) \/ SleepUnlock(q) \/ IoRecheck(q)
    BY <1>1, <2>6 DEF SleepLock, SleepUnlock, IoRecheck, Runs, Goto
  <2>7. QED BY <1>4, <2>1, <2>2, <2>3, <2>4, <2>5, <2>6 DEF KernelStep
<1>5. QED BY <1>2, <1>3, <1>4 DEF Next, Halted

\* A process that has exited never gets the CPU again, and its descriptor
\* changes only from ZOMBLE to FREE, in wait().
THEOREM GoneForGood == Spec => DeadStayDead
<1>1. Inv /\ Inv' /\ [Next]_vars =>
         [\A p \in Procs : pc[p] = "dead" /\ status[p] = "ZOMBLE"
             => status'[p] \in {"ZOMBLE", "FREE"} /\ cproc' # p]_vars
  <2>1. ASSUME Inv, Inv', [Next]_vars, NEW p \in Procs, pc[p] = "dead", status[p] = "ZOMBLE"
        PROVE  status'[p] \in {"ZOMBLE", "FREE"} /\ cproc' # p
    <3>1. pc'[p] = "dead"
      BY <2>1, DeadStep
    <3>2. QED BY <2>1, <3>1 DEF Inv, ProcState
  <2>2. QED BY <2>1
<1>2. Spec => []FInv
  BY FamilyInvariance
<1>3. FInv => Inv
  BY DEF FInv
<1>4. QED BY <1>1, <1>2, <1>3, PTL DEF Spec, DeadStayDead

=============================================================================
