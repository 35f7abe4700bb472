---------------------------- MODULE TableProofs -----------------------------
(***************************************************************************)
(* Proofs about the pages that processes own and the sleep of wait() and   *)
(* join(), for any size of the table and of memory, any number of CPUs and *)
(* any interleaving of the system calls, by user programs that keep the    *)
(* thread rule of Proc (the hypothesis Disciplined).                       *)
(***************************************************************************)
EXTENDS ProcProofs, FiniteSetTheorems

\* A process has no threads.
Single(s) == \A t \in Slots : parent[t] = s => pgdir[t] # pgdir[s]

\* What the thread rule of the user programs keeps true.
ThreadInv ==
    \A s \in Slots :
        /\ IsThread(s) => ~IsThread(parent[s])
        /\ killed[s] \/ pc[s] \in {"exec", "wait", "exit"} => Single(s)
        /\ pc[s] \in {"clone", "share"} => ~killed[s]
        /\ pc[s] \in {"clone", "share", "exec"} => ~IsThread(s)

\* No page has two uses: the free list, one kernel stack, one image that exec()
\* builds, or one address space, which a process shares with its threads.
ApartPages ==
    \A s, t \in Slots :
        /\ kstack[s] \notin free
        /\ newdir[s] \notin free
        /\ InTree(s) => pgdir[s] \notin free
        /\ kstack[s] # Nil /\ kstack[s] = kstack[t] => s = t
        /\ newdir[s] # Nil /\ newdir[s] = newdir[t] => s = t
        /\ kstack[s] # Nil => kstack[s] # newdir[t]
        /\ InTree(t) => pgdir[t] # kstack[s] /\ pgdir[t] # newdir[s]
        /\ InTree(s) /\ InTree(t) /\ ~IsThread(s) /\ ~IsThread(t) /\ pgdir[s] = pgdir[t] => s = t

\* And every page has a use.
NoLeak ==
    \A g \in Pages :
        \/ g \in free
        \/ \E s \in Slots : kstack[s] = g \/ newdir[s] = g \/ (InTree(s) /\ pgdir[s] = g)

\* A child that s looks at while it sleeps in wait() or join().
Kid(s, t) == parent[t] = s /\ (pc[s] = "wait" \/ pgdir[t] = pgdir[s])

\* NoMissedWakeup, child by child.
SleepInv ==
    \A s \in Slots : state[s] = "SLEEPING" =>
        /\ ~killed[s]
        /\ \E t \in Slots : Kid(s, t)
        /\ \A t \in Slots : Kid(s, t) => state[t] # "ZOMBIE"

TableInv == BaseInv /\ ThreadInv /\ ApartPages /\ NoLeak /\ SleepInv

-----------------------------------------------------------------------------
(* Helpers *)

\* Whoever runs, or waits to, is in the tree.
LEMMA AliveInTree == ASSUME BaseInv, NEW s \in Slots, state[s] \in Alive PROVE InTree(s)
BY Zenon DEF BaseInv, TreeInv, HasVM, Alive

\* Having no threads, in terms of the children.
LEMMA SingleIs ==
    ASSUME NEW s \in Slots
    PROVE  Single(s) <=> \A t \in Slots : parent[t] = s => ~IsThread(t)
BY Zenon, NotNil DEF Single, IsThread

\* ThreadsOf(), child by child.
LEMMA NoThreads == ASSUME NEW s \in Slots, ThreadsOf(s) = {} PROVE Single(s)
BY Zenon DEF ThreadsOf, Children, Single

\* An address space whose process is no thread and has none is used by it alone.
LEMMA SoleUser ==
    ASSUME BaseInv, ThreadInv, ApartPages, NEW s \in Slots, InTree(s), ~IsThread(s), Single(s),
           NEW t \in Slots, InTree(t), pgdir[t] = pgdir[s]
    PROVE  t = s
<1>1. CASE ~IsThread(t)
  BY Zenon, <1>1 DEF ApartPages
<1>2. CASE IsThread(t)
  <2>1. PICK q : q = parent[t]
    OBVIOUS
  <2>2. q \in Slots /\ q # Nil /\ pgdir[q] = pgdir[s]
    BY Zenon, <1>2, <2>1, NotNil DEF IsThread, BaseInv, TypeOK
  <2>3. ~IsThread(q) /\ state[q] \in Alive
    BY Zenon, <1>2, <2>1, <2>2 DEF ThreadInv, BaseInv, TreeInv
  <2>4. q = s
    BY Zenon, <2>2, <2>3, AliveInTree DEF ApartPages
  <2> QED BY Zenon, <2>1, <2>2, <2>4 DEF Single
<1> QED BY Zenon, <1>1, <1>2

\* Steps that move no page and leave every process in the tree, or out of it, and a
\* thread or not.
LEMMA PagesSame ==
    ASSUME TableInv, UNCHANGED <<kstack, newdir, free, pgdir>>,
           \A s \in Slots : (InTree(s)' <=> InTree(s)) /\ (IsThread(s)' <=> IsThread(s))
    PROVE  ApartPages' /\ NoLeak'
<1>1. ApartPages'
  BY ZenonT(30) DEF TableInv, ApartPages
<1>2. NoLeak'
  BY Zenon DEF TableInv, NoLeak
<1> QED BY Zenon, <1>1, <1>2

\* Steps that give the pages of F back and move no other page.
LEMMA FreedPages ==
    ASSUME TableInv, NEW F, free' = free \cup F, UNCHANGED pgdir,
           \A s \in Slots :
              /\ kstack'[s] \in {kstack[s], Nil} \ F /\ (kstack'[s] # kstack[s] => kstack[s] \in F)
              /\ newdir'[s] \in {newdir[s], Nil} \ F /\ (newdir'[s] # newdir[s] => newdir[s] \in F)
              /\ InTree(s)' => InTree(s) /\ pgdir[s] \notin F /\ (IsThread(s)' <=> IsThread(s))
              /\ InTree(s) => pgdir[s] \in F \/ \E t \in Slots : InTree(t)' /\ pgdir[t] = pgdir[s]
    PROVE  ApartPages' /\ NoLeak'
<1>1. Nil \notin free /\ \A s \in Slots : InTree(s) => pgdir[s] # Nil
  BY Zenon, NotNil DEF TableInv, BaseInv, TreeInv, TypeOK
<1>2. ASSUME NEW s \in Slots, NEW t \in Slots
      PROVE  /\ kstack'[s] \notin free' /\ newdir'[s] \notin free'
             /\ InTree(s)' => pgdir'[s] \notin free'
             /\ kstack'[s] # Nil /\ kstack'[s] = kstack'[t] => s = t
             /\ newdir'[s] # Nil /\ newdir'[s] = newdir'[t] => s = t
    BY SMTT(30), <1>1 DEF TableInv, ApartPages
<1>3. ASSUME NEW s \in Slots, NEW t \in Slots
      PROVE  /\ kstack'[s] # Nil => kstack'[s] # newdir'[t]
             /\ InTree(t)' => pgdir'[t] # kstack'[s] /\ pgdir'[t] # newdir'[s]
    BY <1>1 DEF TableInv, ApartPages
<1>4. \A s, t \in Slots :
        InTree(s)' /\ InTree(t)' /\ ~IsThread(s)' /\ ~IsThread(t)' /\ pgdir'[s] = pgdir'[t] => s = t
    BY Zenon DEF TableInv, ApartPages
<1>5. ApartPages'
  BY SMTT(30), <1>2, <1>3, <1>4 DEF ApartPages
<1>6. NoLeak'
  <2>1. ASSUME NEW g \in Pages, g \notin free'
        PROVE  \E s \in Slots : kstack'[s] = g \/ newdir'[s] = g \/ (InTree(s)' /\ pgdir'[s] = g)
    <3>1. PICK s \in Slots : kstack[s] = g \/ newdir[s] = g \/ (InTree(s) /\ pgdir[s] = g)
      BY Zenon, <2>1 DEF TableInv, NoLeak
    <3> QED BY ZenonT(30), <2>1, <3>1
  <2> QED BY Zenon, <2>1 DEF NoLeak
<1> QED BY Zenon, <1>5, <1>6

\* Steps that make no thread and no parent.
LEMMA ThreadsSame ==
    ASSUME TableInv, UNCHANGED parent, \A s \in Slots : IsThread(s)' <=> IsThread(s),
           \A s \in Slots :
              /\ killed'[s] \/ pc'[s] \in {"exec", "wait", "exit"} =>
                   killed[s] \/ pc[s] \in {"exec", "wait", "exit"} \/ Single(s)
              /\ pc'[s] \in {"clone", "share"} =>
                   \/ pc[s] \in {"clone", "share"} /\ (killed'[s] => killed[s])
                   \/ ~killed'[s] /\ ~IsThread(s)
              /\ pc'[s] = "exec" => pc[s] = "exec" \/ ~IsThread(s)
    PROVE  ThreadInv'
<1>1. \A s \in Slots : Single(s)' <=> Single(s)
  <2>1. ASSUME NEW s \in Slots PROVE Single(s)' <=> Single(s)
    <3>1. Single(s)' <=> \A t \in Slots : parent'[t] = s => ~IsThread(t)'
      BY SMTT(30), NotNil DEF Single, IsThread
    <3> QED BY Zenon, <3>1, SingleIs
  <2> QED BY Zenon, <2>1
<1>2. \A s \in Slots : IsThread(s) => parent[s] \in Slots
  BY DEF TableInv, BaseInv, TypeOK, IsThread
<1>3. ASSUME NEW s \in Slots, IsThread(s)' PROVE ~IsThread(parent[s])'
  <2>1. PICK q : q = parent[s]
    OBVIOUS
  <2>2. IsThread(s) /\ q \in Slots
    BY Zenon, <1>2, <1>3, <2>1
  <2>3. ~IsThread(q)'
    BY Zenon, <2>1, <2>2 DEF TableInv, ThreadInv
  <2> QED BY Zenon, <2>1, <2>3
<1>4. ASSUME NEW s \in Slots, killed'[s] \/ pc'[s] \in {"exec", "wait", "exit"} PROVE Single(s)'
  BY Zenon, <1>1, <1>4 DEF TableInv, ThreadInv
<1>5. ASSUME NEW s \in Slots, pc'[s] \in {"clone", "share"} PROVE ~killed'[s] /\ ~IsThread(s)'
  BY Zenon, <1>5 DEF TableInv, ThreadInv
<1>6. ASSUME NEW s \in Slots, pc'[s] = "exec" PROVE ~IsThread(s)'
  BY Zenon, <1>6 DEF TableInv, ThreadInv
<1> QED BY Zenon, <1>3, <1>4, <1>5, <1>6 DEF ThreadInv

\* Steps that put nobody to sleep, make no zombie and leave a sleeper its children.
LEMMA SleepSame ==
    ASSUME TableInv,
           \A s \in Slots : state'[s] = "SLEEPING" =>
              /\ state[s] = "SLEEPING" /\ (killed'[s] => killed[s])
              /\ \A t \in Slots : Kid(s, t)' <=> Kid(s, t),
           \A t \in Slots : state'[t] = "ZOMBIE" => state[t] = "ZOMBIE"
    PROVE  SleepInv'
BY Zenon DEF TableInv, SleepInv

\* Steps of the scheduler, of trap() and of exit() up to its lock, that neither
\* change the tree nor move a page.
LEMMA TableLocal ==
    ASSUME Disciplined, TableInv, BaseInv', NEW c \in CPUs,
           \/ EnterExit(c) \/ KilledTrap(c) \/ Ret(c)
           \/ Timer(c) \/ Sched(c) \/ SchedPick(c) \/ SchedPassEnd(c) \/ Resume(c)
    PROVE  TableInv'
<1>0. PICK p : p = cur[c]
  OBVIOUS
<1>1. UNCHANGED <<parent, kstack, pgdir, newdir, free>> /\ pc \in [Slots -> PCs] /\ state \in [Slots -> States]
  BY Zenon DEF EnterExit, KilledTrap, Ret, Timer, Sched, SchedPick, SchedPassEnd, Resume, memory, table,
         locals, TableInv, BaseInv, TypeOK
<1>2. \A s \in Slots : (InTree(s)' <=> InTree(s)) /\ (IsThread(s)' <=> IsThread(s))
  BY Zenon, <1>1 DEF InTree, IsThread
<1>3. ApartPages' /\ NoLeak'
  BY Zenon, <1>1, <1>2, PagesSame
<1>4. \A s \in Slots :
         /\ killed'[s] => killed[s] \/ Single(s)
         /\ pc'[s] = pc[s] \/ pc'[s] \in {"user", "ret"} \/ (pc'[s] = "exit" /\ (killed[s] \/ Single(s)))
         /\ state[s] = "SLEEPING" => pc'[s] = pc[s] /\ killed'[s] = killed[s]
         /\ pc[s] # "user" => killed'[s] = killed[s]
  <2>1. CASE EnterExit(c)
    <3>1. p \in Slots /\ Single(p) /\ pc[p] = "user" /\ state[p] = "RUNNING"
      BY Zenon, <1>0, <2>1, NoThreads DEF EnterExit, Syscall, At, MayCall, TableInv, BaseInv, RunInv, CpuInv
    <3>2. /\ killed' = killed \/ killed' = [killed EXCEPT ![p] = TRUE]
          /\ pc' = [pc EXCEPT ![p] = "exit"] /\ killed \in [Slots -> BOOLEAN]
      BY Zenon, <1>0, <2>1 DEF EnterExit, TableInv, BaseInv, TypeOK
    <3>3. \A s \in Slots \ {p} : killed'[s] = killed[s] /\ pc'[s] = pc[s]
      BY Zenon, <1>1, <3>1, <3>2
    <3> QED BY Zenon, <1>1, <3>1, <3>2, <3>3
  <2>2. CASE KilledTrap(c) \/ Ret(c)
    <3>1. /\ p \in Slots /\ killed' = killed /\ state[p] = "RUNNING"
          /\ \/ killed[p] /\ pc' = [pc EXCEPT ![p] = "exit"]
             \/ pc' = [pc EXCEPT ![p] = "user"]
      BY Zenon, <1>0, <2>2 DEF KilledTrap, Ret, At, table, TableInv, BaseInv, RunInv, CpuInv
    <3> QED BY Zenon, <1>1, <3>1
  <2>3. CASE Timer(c)
    <3>1. p \in Slots /\ killed' = killed /\ pc' = [pc EXCEPT ![p] = IF @ = "user" THEN "ret" ELSE @]
          /\ state[p] = "RUNNING"
      BY Zenon, <1>0, <2>3 DEF Timer, TableInv, BaseInv, RunInv, CpuInv
    <3> QED BY Zenon, <1>1, <3>1
  <2>4. CASE Sched(c) \/ SchedPick(c) \/ SchedPassEnd(c) \/ Resume(c)
    BY Zenon, <2>4 DEF Sched, SchedPick, SchedPassEnd, Resume, table, locals
  <2> QED BY Zenon, <2>1, <2>2, <2>3, <2>4
<1>5. ThreadInv'
  BY Zenon, <1>1, <1>2, <1>4, ThreadsSame
<1>6. \A s \in Slots : /\ state'[s] = "SLEEPING" => state[s] = "SLEEPING"
                       /\ state'[s] = "ZOMBIE" => state[s] = "ZOMBIE"
  <2>1. CASE EnterExit(c) \/ KilledTrap(c) \/ Ret(c) \/ Sched(c) \/ SchedPassEnd(c) \/ Resume(c)
    BY Zenon, <2>1 DEF EnterExit, KilledTrap, Ret, Sched, SchedPassEnd, Resume, table
  <2>2. CASE Timer(c)
    BY Zenon, <1>1, <2>2 DEF Timer
  <2>3. CASE SchedPick(c)
    BY Zenon, <1>1, <2>3 DEF SchedPick
  <2> QED BY Zenon, <2>1, <2>2, <2>3
<1>7. SleepInv'
  BY Zenon, <1>1, <1>4, <1>6, SleepSame DEF Kid
<1> QED BY Zenon, <1>3, <1>5, <1>7 DEF TableInv

\* kill() marks nobody that has threads, and wakes what it marks.
LEMMA TableKill ==
    ASSUME Disciplined, TableInv, BaseInv', NEW c \in CPUs, NEW k \in KillPids, Kill(c, k)
    PROVE  TableInv'
<1>0. PICK p, t : p = cur[c] /\ t = Min({s \in Slots : pid[s] = k})
  OBVIOUS
<1>1. /\ UNCHANGED <<np, parent, kstack, pgdir, newdir, free>>
      /\ state \in [Slots -> States] /\ pc \in [Slots -> PCs] /\ killed \in [Slots -> BOOLEAN]
      /\ p \in Slots /\ state[p] = "RUNNING" /\ pc[p] = "user" /\ pc' = [pc EXCEPT ![p] = "ret"]
  BY Zenon, <1>0 DEF Kill, Syscall, At, memory, TableInv, BaseInv, TypeOK, RunInv, CpuInv
<1>2. \A s \in Slots : (InTree(s)' <=> InTree(s)) /\ (IsThread(s)' <=> IsThread(s))
  BY Zenon, <1>1 DEF InTree, IsThread
<1>3. ApartPages' /\ NoLeak'
  BY Zenon, <1>1, <1>2, PagesSame
<1>4. \/ UNCHANGED <<killed, state>>
      \/ /\ t \in Slots /\ Single(t) /\ pc[t] \notin {"clone", "share"}
         /\ killed' = [killed EXCEPT ![t] = TRUE]
         /\ state' = [state EXCEPT ![t] = IF state[t] = "SLEEPING" THEN "RUNNABLE" ELSE state[t]]
  <2>1. CASE {s \in Slots : pid[s] = k} = {}
    BY Zenon, <2>1 DEF Kill
  <2>2. CASE {s \in Slots : pid[s] = k} # {}
    <3>1. {s \in Slots : pid[s] = k} \in SUBSET Nat
      BY ProcAssumption DEF Slots
    <3>2. t \in Slots /\ pid[t] = k
      BY Zenon, <1>0, <2>2, <3>1, MinIn
    <3>3. Single(t) /\ pc[t] \notin {"clone", "share"}
      BY Zenon, <3>2, NoThreads DEF Kill, MayKill
    <3> QED BY Zenon, <1>0, <2>2, <3>2, <3>3 DEF Kill, StateAfterKill
  <2> QED BY Zenon, <2>1, <2>2
<1>5. /\ pc'[p] = "ret" /\ \A s \in Slots \ {p} : pc'[s] = pc[s]
      /\ \A s \in Slots : killed'[s] = killed[s] \/ (Single(s) /\ pc[s] \notin {"clone", "share"})
      /\ \A s \in Slots : state'[s] = "SLEEPING" => state[s] = "SLEEPING" /\ killed'[s] = killed[s]
      /\ \A s \in Slots : state'[s] = "ZOMBIE" => state[s] = "ZOMBIE"
  BY Zenon, <1>1, <1>4
<1>6. ThreadInv'
  BY Zenon, <1>1, <1>2, <1>5, ThreadsSame
<1>7. SleepInv'
  BY Zenon, <1>1, <1>5, SleepSame DEF Kid
<1> QED BY Zenon, <1>3, <1>6, <1>7 DEF TableInv

\* allocproc() and the last step of fork() and clone(), and allocproc()'s error
\* path: a slot comes and goes outside the tree.
LEMMA TableSlot ==
    ASSUME Disciplined, TableInv, BaseInv', NEW c \in CPUs,
           (\E call \in {"fork", "clone"} : Allocproc(c, call)) \/ NoKstack(c) \/ Start(c)
    PROVE  TableInv'
<1>0. PICK p, s : p = cur[c] /\ s = np[p]
  OBVIOUS
<1>1. /\ UNCHANGED <<parent, kstack, pgdir, newdir, free, killed>> /\ pc \in [Slots -> PCs]
      /\ state \in [Slots -> States] /\ p \in Slots /\ state[p] = "RUNNING" /\ mode[c] = "proc"
      /\ pc[p] \in {"user", "nokstack", "start"}
  BY Zenon, <1>0 DEF Allocproc, NoKstack, Start, Syscall, At, memory, TableInv, BaseInv, TypeOK, RunInv, CpuInv
<1>2. \A t \in Slots : (InTree(t)' <=> InTree(t)) /\ (IsThread(t)' <=> IsThread(t))
  BY Zenon, <1>1 DEF InTree, IsThread
<1>3. ApartPages' /\ NoLeak'
  BY Zenon, <1>1, <1>2, PagesSame
<1>4. /\ pc'[p] \in {"ret", "fork"} \/ (pc'[p] = "clone" /\ ~IsThread(p) /\ ~killed[p])
      /\ \A t \in Slots \ {p} : pc'[t] = pc[t] \/ (pc'[t] = "user" /\ state[t] = "EMBRYO")
      /\ \A t \in Slots : state'[t] = state[t] \/ state'[t] \in {"EMBRYO", "UNUSED", "RUNNABLE"}
  <2>1. CASE \E call \in {"fork", "clone"} : Allocproc(c, call)
    BY Zenon, <1>0, <1>1, <2>1 DEF Allocproc, Syscall, MayCall
  <2>2. CASE NoKstack(c)
    BY Zenon, <1>0, <1>1, <2>2 DEF NoKstack
  <2>3. CASE Start(c)
    <3>1. s \in Slots /\ s # p /\ state[s] = "EMBRYO"
      BY Zenon, <1>0, <1>1, <2>3, Maker DEF Start, At, Making, TableInv
    <3> QED BY Zenon, <1>0, <1>1, <2>3, <3>1 DEF Start
  <2> QED BY Zenon, <2>1, <2>2, <2>3
<1>5. ThreadInv'
  BY Zenon, <1>1, <1>2, <1>4, ThreadsSame
<1>6. \A t \in Slots : state'[t] = "SLEEPING" => state[t] = "SLEEPING" /\ pc'[t] = pc[t]
  BY Zenon, <1>1, <1>4
<1>7. SleepInv'
  BY Zenon, <1>1, <1>4, <1>6, SleepSame DEF Kid
<1> QED BY Zenon, <1>3, <1>5, <1>7 DEF TableInv

\* kalloc() of a kernel stack in allocproc(), and its return on fork()'s error path.
LEMMA TableKstack ==
    ASSUME Disciplined, TableInv, BaseInv', NEW c \in CPUs, AllocKstack(c) \/ NoPgdir(c)
    PROVE  TableInv'
<1>0. PICK p, s : p = cur[c] /\ s = np[p]
  OBVIOUS
<1>1. /\ UNCHANGED <<parent, pgdir, newdir, killed>> /\ pc \in [Slots -> PCs]
      /\ state \in [Slots -> States] /\ kstack \in [Slots -> Pages \cup {Nil}] /\ free \subseteq Pages
      /\ p \in Slots /\ state[p] = "RUNNING" /\ mode[c] = "proc" /\ pc[p] \in {"fork", "clone", "nopgdir"}
  BY Zenon, <1>0 DEF AllocKstack, NoPgdir, At, table, TableInv, BaseInv, TypeOK, RunInv, CpuInv
<1>2. s \in Slots /\ s # p /\ s # initproc /\ state[s] = "EMBRYO"
  BY Zenon, <1>0, <1>1, Maker DEF Making, TableInv
<1>3. parent[s] = Nil /\ ~InTree(s)
  BY Zenon, <1>0, <1>1, <1>2 DEF TableInv, BaseInv, EmbryoInv, InTree
<1>4. \A t \in Slots : (InTree(t)' <=> InTree(t)) /\ (IsThread(t)' <=> IsThread(t))
  BY Zenon, <1>1 DEF InTree, IsThread
<1>5. \/ /\ kstack[s] = Nil /\ free # {} /\ kstack' = [kstack EXCEPT ![s] = kalloc] /\ free' = free \ {kalloc}
      \/ UNCHANGED <<kstack, free>>
      \/ kstack[s] # Nil /\ kstack' = [kstack EXCEPT ![s] = Nil] /\ free' = free \cup {kstack[s]}
  <2>1. pc[p] \in {"fork", "clone"} => kstack[s] = Nil
    BY Zenon, <1>0, <1>1 DEF TableInv, BaseInv, EmbryoInv
  <2>2. pc[p] = "nopgdir" => kstack[s] # Nil
    BY Zenon, <1>0, <1>1 DEF TableInv, BaseInv, EmbryoInv
  <2>3. CASE AllocKstack(c)
    BY SMTT(30), <1>0, <1>1, <1>2, <2>1, <2>3 DEF AllocKstack, At
  <2>4. CASE NoPgdir(c)
    BY Zenon, <1>0, <2>2, <2>4 DEF NoPgdir, At
  <2> QED BY Zenon, <2>3, <2>4
<1>6. ApartPages' /\ NoLeak'
  <2>1. CASE /\ kstack[s] = Nil /\ free # {} /\ kstack' = [kstack EXCEPT ![s] = kalloc]
             /\ free' = free \ {kalloc}
    <3>1. PICK g : g = kalloc
      OBVIOUS
    <3>2. g \in free /\ g # Nil
      BY Zenon, <2>1, <3>1, KallocIn DEF TableInv, BaseInv
    <3>3. kstack'[s] = g /\ \A t \in Slots \ {s} : kstack'[t] = kstack[t]
      BY Zenon, <1>1, <1>2, <2>1, <3>1
    <3>4. ApartPages'
      BY SMTT(30), <1>1, <1>2, <1>4, <2>1, <3>1, <3>2, <3>3 DEF TableInv, ApartPages
    <3>5. NoLeak'
      BY SMTT(30), <1>1, <1>2, <1>4, <2>1, <3>1, <3>3, NotNil DEF TableInv, NoLeak
    <3> QED BY Zenon, <3>4, <3>5
  <2>2. CASE UNCHANGED <<kstack, free>>
    BY Zenon, <1>1, <1>4, <2>2, PagesSame
  <2>3. CASE kstack[s] # Nil /\ kstack' = [kstack EXCEPT ![s] = Nil] /\ free' = free \cup {kstack[s]}
    <3>1. kstack'[s] = Nil /\ \A t \in Slots \ {s} : kstack'[t] = kstack[t]
      BY Zenon, <1>1, <1>2, <2>3
    <3>2. ApartPages'
      <4>1. Nil \notin free /\ \A t \in Slots : InTree(t) => pgdir[t] # Nil
        BY Zenon, <1>1, NotNil DEF TableInv, BaseInv, TreeInv
      <4> QED BY SMTT(30), <1>1, <1>2, <1>4, <2>3, <3>1, <4>1 DEF TableInv, ApartPages
    <3>3. NoLeak'
      BY SMTT(30), <1>1, <1>2, <1>4, <2>3, <3>1 DEF TableInv, NoLeak
    <3> QED BY Zenon, <3>2, <3>3
  <2> QED BY Zenon, <1>5, <2>1, <2>2, <2>3
<1>7. /\ pc'[p] \in {"ret", "nokstack", "copy"} \/ (pc'[p] = "share" /\ pc[p] = "clone")
      /\ \A t \in Slots \ {p} : pc'[t] = pc[t]
      /\ \A t \in Slots : state'[t] = state[t] \/ state'[t] = "UNUSED"
  BY Zenon, <1>0, <1>1 DEF AllocKstack, NoPgdir, At, table
<1>8. ThreadInv'
  BY ZenonT(30), <1>1, <1>4, <1>7, ThreadsSame
<1>9. SleepInv'
  BY ZenonT(30), <1>1, <1>7, SleepSame DEF Kid
<1> QED BY Zenon, <1>6, <1>8, <1>9 DEF TableInv

\* fork() gives its child a page table of its own, clone() that of the caller, who
\* is no thread.
LEMMA TableCopy ==
    ASSUME Disciplined, TableInv, BaseInv', NEW c \in CPUs, CopyUvm(c) \/ Share(c)
    PROVE  TableInv'
<1>0. PICK p, s, g : p = cur[c] /\ s = np[p] /\ g = kalloc
  OBVIOUS
<1>1. /\ UNCHANGED <<state, killed, kstack, np, newdir>>
      /\ mode[c] = "proc" /\ p \in Slots /\ state[p] = "RUNNING" /\ pc[p] \in {"copy", "share"}
      /\ state \in [Slots -> States] /\ pc \in [Slots -> PCs] /\ parent \in [Slots -> Slots \cup {Nil}]
      /\ pgdir \in [Slots -> Pages \cup {Nil}] /\ free \subseteq Pages
  BY Zenon, <1>0 DEF CopyUvm, Share, At, TableInv, BaseInv, TypeOK, RunInv, CpuInv
<1>2. /\ s \in Slots /\ s # p /\ s # initproc /\ state[s] = "EMBRYO" /\ pc[s] \in {"user", "exit"}
      /\ \A t \in Slots : parent[t] # s
  BY Zenon, <1>0, <1>1, Maker DEF Making, TableInv
<1>3. parent[s] = Nil /\ ~InTree(s) /\ ~IsThread(s)
  BY ZenonT(30), <1>0, <1>1, <1>2 DEF TableInv, BaseInv, EmbryoInv, InTree, IsThread
<1>4. InTree(p) /\ pgdir[p] # Nil /\ pgdir[p] \notin free
  <2>1. InTree(p) /\ pgdir[p] # Nil
    BY Zenon, <1>0, <1>1, Running DEF TableInv
  <2> QED BY Zenon, <1>1, <2>1 DEF TableInv, ApartPages
<1>5. /\ pc'[p] \in {"start", "nopgdir"} /\ \A t \in Slots \ {p} : pc'[t] = pc[t]
      /\ \A t \in Slots \ {s} : pgdir'[t] = pgdir[t] /\ parent'[t] = parent[t]
      /\ parent'[s] \in {p, Nil}
  BY SMTT(30), <1>0, <1>1, <1>2, <1>3 DEF CopyUvm, Share
<1>6. \A t \in Slots \ {s} : (InTree(t)' <=> InTree(t)) /\ (IsThread(t)' <=> IsThread(t))
  <2>1. ASSUME NEW t \in Slots \ {s}, parent[t] # Nil PROVE pgdir'[parent[t]] = pgdir[parent[t]]
    BY Zenon, <1>1, <1>2, <1>5, <2>1
  <2> QED BY Zenon, <1>5, <2>1 DEF InTree, IsThread
<1>7. SleepInv'
  <2>1. ASSUME NEW x \in Slots, state'[x] = "SLEEPING", NEW t \in Slots PROVE Kid(x, t)' <=> Kid(x, t)
    <3>1. x # p /\ x # s /\ x # Nil
      BY Zenon, <1>1, <1>2, <2>1, NotNil
    <3>2. CASE t = s
      BY ZenonT(30), <1>3, <1>5, <3>1, <3>2 DEF Kid
    <3>3. CASE t # s
      BY ZenonT(30), <1>5, <3>1, <3>3 DEF Kid
    <3> QED BY Zenon, <3>2, <3>3
  <2> QED BY Zenon, <1>1, <2>1, SleepSame
<1>8. CASE /\ free # {} /\ pgdir' = [pgdir EXCEPT ![s] = g] /\ free' = free \ {g}
           /\ parent' = [parent EXCEPT ![s] = p]
  <2>1. g \in free /\ g # Nil
    BY Zenon, <1>0, <1>8, KallocIn DEF TableInv, BaseInv
  <2>2. pgdir'[s] = g /\ parent'[s] = p
    BY ZenonT(30), <1>1, <1>2, <1>8
  <2>3. InTree(s)' /\ ~IsThread(s)'
    BY ZenonT(30), <1>1, <1>2, <1>4, <1>5, <2>1, <2>2, NotNil DEF InTree, IsThread
  <2>4. ApartPages'
    BY SMTT(30), <1>1, <1>3, <1>5, <1>6, <1>8, <2>1, <2>2, <2>3 DEF TableInv, ApartPages
  <2>5. NoLeak'
    BY SMTT(30), <1>1, <1>2, <1>3, <1>5, <1>6, <1>8, <2>2, <2>3 DEF TableInv, NoLeak
  <2>6. ThreadInv'
    <3>1. ASSUME NEW t \in Slots, IsThread(t)' PROVE ~IsThread(parent[t])'
      <4>1. PICK q : q = parent[t]
        OBVIOUS
      <4>2. t # s /\ IsThread(t) /\ parent'[t] = q /\ q \in Slots \ {s}
        BY Zenon, <1>1, <1>2, <1>5, <1>6, <2>3, <3>1, <4>1 DEF IsThread
      <4>3. ~IsThread(q)'
        BY Zenon, <1>6, <4>1, <4>2 DEF TableInv, ThreadInv
      <4> QED BY Zenon, <4>2, <4>3 DEF IsThread
    <3>2. ASSUME NEW t \in Slots, Single(t) PROVE Single(t)'
      <4>1. \A x \in Slots : parent'[x] = t => ~IsThread(x)'
        BY ZenonT(30), <1>5, <1>6, <2>3, <3>2, SingleIs
      <4> QED BY Zenon, <4>1, NotNil DEF Single, IsThread
    <3> QED BY SMTT(30), <1>1, <1>2, <1>5, <1>6, <3>1, <3>2 DEF TableInv, ThreadInv
  <2> QED BY ZenonT(30), <1>7, <2>4, <2>5, <2>6 DEF TableInv
<1>9. CASE UNCHANGED <<parent, free>>
  <2>1. \A t \in Slots : (InTree(t)' <=> InTree(t)) /\ (IsThread(t)' <=> IsThread(t))
    BY Zenon, <1>3, <1>6, <1>9 DEF InTree, IsThread
  <2>2. ApartPages'
    BY SMTT(30), <1>1, <1>3, <1>5, <1>9, <2>1 DEF TableInv, ApartPages
  <2>3. NoLeak'
    BY SMTT(30), <1>1, <1>3, <1>5, <1>9, <2>1 DEF TableInv, NoLeak
  <2>4. ThreadInv'
    BY ZenonT(30), <1>1, <1>5, <1>9, <2>1, ThreadsSame
  <2> QED BY Zenon, <1>7, <2>2, <2>3, <2>4 DEF TableInv
<1>10. CASE /\ pc[p] = "share" /\ pgdir' = [pgdir EXCEPT ![s] = pgdir[p]] /\ free' = free
            /\ parent' = [parent EXCEPT ![s] = p] /\ pc'[p] = "start"
  <2>1. pgdir'[s] = pgdir[p] /\ parent'[s] = p /\ pgdir'[p] = pgdir[p]
    BY ZenonT(30), <1>1, <1>2, <1>10
  <2>2. InTree(s)' /\ IsThread(s)' /\ ~IsThread(p) /\ ~IsThread(p)' /\ ~killed[p]
    BY ZenonT(30), <1>1, <1>2, <1>6, <1>10, <2>1, NotNil DEF InTree, IsThread, TableInv, ThreadInv
  <2>3. ApartPages'
    BY SMTT(30), <1>1, <1>2, <1>3, <1>4, <1>5, <1>6, <1>10, <2>1, <2>2 DEF TableInv, ApartPages
  <2>4. NoLeak'
    BY SMTT(30), <1>1, <1>2, <1>3, <1>5, <1>6, <1>10 DEF TableInv, NoLeak
  <2>5. ThreadInv'
    <3>1. ASSUME NEW t \in Slots, IsThread(t)' PROVE ~IsThread(parent[t])'
      <4>1. PICK q : q = parent'[t]
        OBVIOUS
      <4>2. CASE t = s
        BY Zenon, <2>1, <2>2, <4>2 DEF IsThread
      <4>3. CASE t # s
        <5>1. IsThread(t) /\ parent[t] = q /\ q \in Slots \ {s}
          BY Zenon, <1>1, <1>2, <1>5, <1>6, <3>1, <4>1, <4>3 DEF IsThread
        <5>2. ~IsThread(q)'
          BY ZenonT(30), <1>6, <4>3, <5>1 DEF TableInv, ThreadInv
        <5> QED BY Zenon, <4>1, <5>2 DEF IsThread
      <4> QED BY Zenon, <4>2, <4>3
    <3>2. ASSUME NEW t \in Slots, t # p, Single(t) PROVE Single(t)'
      <4>1. \A x \in Slots : parent'[x] = t => ~IsThread(x)'
        BY ZenonT(30), <1>5, <1>6, <2>1, <3>2, SingleIs
      <4> QED BY Zenon, <4>1, NotNil DEF Single, IsThread
    <3> QED BY SMTT(30), <1>1, <1>2, <1>5, <1>6, <1>10, <2>2, <3>1, <3>2 DEF TableInv, ThreadInv
  <2> QED BY Zenon, <1>7, <2>3, <2>4, <2>5 DEF TableInv
<1> QED BY ZenonT(30), <1>0, <1>8, <1>9, <1>10, <1>1, <1>5 DEF CopyUvm, Share, At

\* exec() builds its image in a fresh page.
LEMMA TableExecBuild ==
    ASSUME Disciplined, TableInv, BaseInv', NEW c \in CPUs, ExecBuild(c)
    PROVE  TableInv'
<1>0. PICK p, g : p = cur[c] /\ g = kalloc
  OBVIOUS
<1>1. /\ UNCHANGED <<state, parent, killed, kstack, pgdir>>
      /\ p \in Slots /\ state[p] = "RUNNING" /\ pc[p] = "user" /\ pc \in [Slots -> PCs]
      /\ newdir \in [Slots -> Pages \cup {Nil}] /\ free \subseteq Pages
  BY Zenon, <1>0 DEF ExecBuild, Syscall, At, table, TableInv, BaseInv, TypeOK, RunInv, CpuInv
<1>2. Single(p) /\ ~IsThread(p) /\ newdir[p] = Nil
  BY Zenon, <1>0, <1>1, NoThreads DEF ExecBuild, MayCall, TableInv, BaseInv, StateInv
<1>3. \A t \in Slots : (InTree(t)' <=> InTree(t)) /\ (IsThread(t)' <=> IsThread(t))
  BY Zenon, <1>1 DEF InTree, IsThread
<1>4. pc'[p] \in {"exec", "ret"} /\ \A t \in Slots \ {p} : pc'[t] = pc[t]
  BY Zenon, <1>0, <1>1 DEF ExecBuild
<1>5. ThreadInv'
  BY ZenonT(30), <1>1, <1>2, <1>3, <1>4, ThreadsSame
<1>6. SleepInv'
  BY Zenon, <1>1, <1>4, SleepSame DEF Kid
<1>7. CASE free # {} /\ newdir' = [newdir EXCEPT ![p] = g] /\ free' = free \ {g}
  <2>1. g \in free /\ g # Nil
    BY Zenon, <1>0, <1>7, KallocIn DEF TableInv, BaseInv
  <2>2. newdir'[p] = g /\ \A t \in Slots \ {p} : newdir'[t] = newdir[t]
    BY Zenon, <1>1, <1>7
  <2>3. ApartPages'
    BY SMTT(30), <1>1, <1>3, <1>7, <2>1, <2>2 DEF TableInv, ApartPages
  <2>4. NoLeak'
    BY SMTT(30), <1>1, <1>2, <1>3, <1>7, <2>2, NotNil DEF TableInv, NoLeak
  <2> QED BY Zenon, <1>5, <1>6, <2>3, <2>4 DEF TableInv
<1>8. CASE UNCHANGED <<newdir, free>>
  BY Zenon, <1>1, <1>3, <1>5, <1>6, <1>8, PagesSame DEF TableInv
<1> QED BY Zenon, <1>0, <1>7, <1>8 DEF ExecBuild

\* exec() frees the old image, which nobody shares, or the new one.
LEMMA TableExecFinish ==
    ASSUME Disciplined, TableInv, BaseInv', NEW c \in CPUs, ExecFinish(c)
    PROVE  TableInv'
<1>0. PICK p, g, old : p = cur[c] /\ g = newdir[p] /\ old = pgdir[p]
  OBVIOUS
<1>1. /\ UNCHANGED <<state, parent, killed, kstack>> /\ mode[c] = "proc"
      /\ p \in Slots /\ state[p] = "RUNNING" /\ pc[p] = "exec" /\ pc' = [pc EXCEPT ![p] = "ret"]
      /\ newdir' = [newdir EXCEPT ![p] = Nil] /\ pc \in [Slots -> PCs]
      /\ newdir \in [Slots -> Pages \cup {Nil}] /\ free \subseteq Pages
      /\ pgdir \in [Slots -> Pages \cup {Nil}] /\ parent \in [Slots -> Slots \cup {Nil}]
  BY Zenon, <1>0 DEF ExecFinish, At, table, TableInv, BaseInv, TypeOK, RunInv, CpuInv
<1>2. InTree(p) /\ old # Nil /\ g # Nil /\ Single(p) /\ ~IsThread(p)
  <2>1. InTree(p) /\ old # Nil
    BY Zenon, <1>0, <1>1, Running DEF TableInv
  <2>2. g # Nil /\ Single(p) /\ ~IsThread(p)
    BY Zenon, <1>0, <1>1 DEF TableInv, ThreadInv, BaseInv, StateInv
  <2> QED BY Zenon, <2>1, <2>2
<1>3. \A t \in Slots : InTree(t)' <=> InTree(t)
  BY Zenon, <1>1 DEF InTree
<1>4. /\ pc'[p] = "ret" /\ \A t \in Slots \ {p} : pc'[t] = pc[t]
      /\ newdir'[p] = Nil /\ \A t \in Slots \ {p} : newdir'[t] = newdir[t]
  BY Zenon, <1>1
<1>5. Nil \notin free /\ \A t \in Slots : InTree(t) => pgdir[t] # Nil
  BY Zenon, <1>1, NotNil DEF TableInv, BaseInv, TreeInv
<1>6. CASE pgdir' = [pgdir EXCEPT ![p] = g] /\ free' = free \cup {old}
  <2>1. pgdir'[p] = g /\ \A t \in Slots \ {p} : pgdir'[t] = pgdir[t]
    BY Zenon, <1>1, <1>6
  <2>2. \A t \in Slots : InTree(t) => pgdir[t] # g
    BY Zenon, <1>0, <1>1 DEF TableInv, ApartPages
  <2>3. \A t \in Slots : InTree(t) /\ t # p => pgdir[t] # old
    BY Zenon, <1>0, <1>1, <1>2, SoleUser DEF TableInv
  <2>4. ASSUME NEW t \in Slots PROVE IsThread(t)' <=> IsThread(t)
    <3>1. CASE parent[t] = Nil
      BY Zenon, <1>1, <3>1 DEF IsThread
    <3>2. CASE parent[t] # Nil
      <4>1. PICK q : q = parent[t]
        OBVIOUS
      <4>2. q \in Slots /\ q # Nil /\ InTree(q) /\ InTree(t)
        BY ZenonT(30), <1>1, <3>2, <4>1, AliveInTree DEF TableInv, BaseInv, TreeInv, InTree
      <4>3. IsThread(t)' <=> pgdir'[q] = pgdir'[t]
        BY Zenon, <1>1, <3>2, <4>1 DEF IsThread
      <4>4. IsThread(t) <=> pgdir[q] = pgdir[t]
        BY Zenon, <1>1, <3>2, <4>1 DEF IsThread
      <4>5. CASE t = p
        <5>1. q # p
          BY Zenon, <1>2, <4>1, <4>5 DEF Single
        <5> QED BY ZenonT(30), <1>2, <2>1, <2>2, <4>2, <4>3, <4>5, <5>1
      <4>6. CASE t # p /\ q = p
        BY ZenonT(30), <1>0, <2>1, <2>2, <2>3, <4>2, <4>3, <4>4, <4>6
      <4>7. CASE t # p /\ q # p
        BY ZenonT(30), <2>1, <4>2, <4>3, <4>4, <4>7
      <4> QED BY Zenon, <4>5, <4>6, <4>7
    <3> QED BY Zenon, <3>1, <3>2
  <2>5. ThreadInv'
    BY ZenonT(30), <1>1, <1>4, <2>4, ThreadsSame
  <2>6. ApartPages'
    <3>1. /\ \A s \in Slots : kstack[s] # old /\ kstack[s] # g /\ (s # p => newdir[s] # g) /\ newdir[s] # old
          /\ g \notin free
      BY Zenon, <1>0, <1>1, <1>2 DEF TableInv, ApartPages
    <3>2. \A s \in Slots : kstack'[s] \notin free' /\ newdir'[s] \notin free'
      <4>1. \A s \in Slots : kstack[s] \notin free /\ newdir[s] \notin free
        BY Zenon DEF TableInv, ApartPages
      <4> QED BY ZenonT(30), <1>1, <1>2, <1>4, <1>5, <1>6, <3>1, <4>1
    <3>3. \A s \in Slots : InTree(s)' => pgdir'[s] \notin free'
      <4>1. \A s \in Slots : InTree(s) => pgdir[s] \notin free
        BY Zenon DEF TableInv, ApartPages
      <4>2. g # old
        BY Zenon, <1>0, <1>1, <1>2, <2>2
      <4> QED BY SMTT(30), <1>3, <1>6, <2>1, <2>3, <3>1, <4>1, <4>2
    <3>4. ASSUME NEW s \in Slots, NEW t \in Slots
          PROVE  /\ kstack'[s] # Nil /\ kstack'[s] = kstack'[t] => s = t
                 /\ newdir'[s] # Nil /\ newdir'[s] = newdir'[t] => s = t
      BY ZenonT(30), <1>1, <1>4 DEF TableInv, ApartPages
    <3>5. ASSUME NEW s \in Slots, NEW t \in Slots
          PROVE  /\ kstack'[s] # Nil => kstack'[s] # newdir'[t]
                 /\ InTree(t)' => pgdir'[t] # kstack'[s] /\ pgdir'[t] # newdir'[s]
      BY SMTT(30), <1>1, <1>2, <1>3, <1>4, <1>5, <2>1, <3>1 DEF TableInv, ApartPages
    <3>6. \A s, t \in Slots :
            InTree(s)' /\ InTree(t)' /\ ~IsThread(s)' /\ ~IsThread(t)' /\ pgdir'[s] = pgdir'[t] => s = t
      BY ZenonT(30), <1>3, <2>1, <2>2, <2>4 DEF TableInv, ApartPages
    <3> QED BY ZenonT(30), <3>2, <3>3, <3>4, <3>5, <3>6 DEF ApartPages
  <2>7. NoLeak'
    <3>1. ASSUME NEW h \in Pages, h \notin free'
          PROVE  \E s \in Slots : kstack'[s] = h \/ newdir'[s] = h \/ (InTree(s)' /\ pgdir'[s] = h)
      <4>1. PICK s \in Slots : kstack[s] = h \/ newdir[s] = h \/ (InTree(s) /\ pgdir[s] = h)
        BY Zenon, <1>6, <3>1 DEF TableInv, NoLeak
      <4>2. CASE s = p
        BY ZenonT(30), <1>0, <1>1, <1>2, <1>3, <1>6, <2>1, <3>1, <4>1, <4>2
      <4>3. CASE s # p
        BY ZenonT(30), <1>1, <1>3, <1>4, <2>1, <4>1, <4>3
      <4> QED BY Zenon, <4>2, <4>3
    <3> QED BY Zenon, <3>1 DEF NoLeak
  <2>8. ASSUME NEW x \in Slots, state'[x] = "SLEEPING", NEW t \in Slots PROVE Kid(x, t)' <=> Kid(x, t)
    <3>1. x # p /\ x # Nil /\ pc'[x] = pc[x] /\ pgdir'[x] = pgdir[x]
      BY Zenon, <1>1, <1>4, <2>1, <2>8, NotNil
    <3>2. parent[t] = x => (IsThread(t) <=> pgdir[t] = pgdir[x]) /\ (IsThread(t)' <=> pgdir'[t] = pgdir'[x])
      BY Zenon, <1>1, <3>1 DEF IsThread
    <3> QED BY Zenon, <1>1, <2>4, <3>1, <3>2 DEF Kid
  <2>9. SleepInv'
    BY Zenon, <1>1, <2>8, SleepSame
  <2> QED BY Zenon, <2>5, <2>6, <2>7, <2>9 DEF TableInv
<1>7. CASE free' = free \cup {g} /\ UNCHANGED pgdir
  <2>1. \A t \in Slots : IsThread(t)' <=> IsThread(t)
    BY Zenon, <1>1, <1>7 DEF IsThread
  <2>2. ThreadInv'
    BY Zenon, <1>1, <1>4, <2>1, ThreadsSame
  <2>3. \A s \in Slots : /\ kstack[s] # g /\ newdir'[s] \in {newdir[s], Nil} \ {g}
                         /\ newdir'[s] # newdir[s] => newdir[s] = g
                         /\ InTree(s) => pgdir[s] # g
    <3>1. \A s \in Slots : kstack[s] # g /\ (InTree(s) => pgdir[s] # g) /\ (newdir[s] = g => s = p)
      BY Zenon, <1>0, <1>1, <1>2 DEF TableInv, ApartPages
    <3> QED BY Zenon, <1>0, <1>2, <1>4, <3>1
  <2>4. ApartPages' /\ NoLeak'
    <3>1. PICK F : F = {g}
      BY Zenon
    <3>2. \A s \in Slots :
             /\ kstack'[s] \in {kstack[s], Nil} \ F /\ kstack'[s] = kstack[s]
             /\ newdir'[s] \in {newdir[s], Nil} \ F /\ (newdir'[s] # newdir[s] => newdir[s] \in F)
             /\ InTree(s) => pgdir[s] \notin F
      BY Zenon, <1>1, <2>3, <3>1
    <3>3. free' = free \cup F
      BY Zenon, <1>7, <3>1
    <3> QED BY Zenon, <1>3, <1>7, <2>1, <3>2, <3>3, FreedPages
  <2>5. SleepInv'
    BY Zenon, <1>1, <1>4, <1>7, SleepSame DEF Kid
  <2> QED BY Zenon, <2>2, <2>4, <2>5 DEF TableInv
<1> QED BY Zenon, <1>0, <1>6, <1>7 DEF ExecFinish, FreedByExec

\* exit(): the children it leaves to init are no threads, neither its own nor of
\* init, and whoever could have waited for the zombies it makes or leaves is awake.
LEMMA TableExit ==
    ASSUME Disciplined, TableInv, BaseInv', NEW c \in CPUs, ExitLocked(c)
    PROVE  TableInv'
<1>0. PICK p : p = cur[c]
  OBVIOUS
<1>1. /\ UNCHANGED <<pc, kstack, pgdir, chan, killed, newdir, free>>
      /\ p \in Slots /\ p # initproc /\ state[p] = "RUNNING" /\ pc[p] = "exit"
      /\ state' = [wakeup1(state, ExitWakes(p)) EXCEPT ![p] = "ZOMBIE"]
      /\ parent' = [s \in Slots |-> IF parent[s] = p THEN initproc ELSE parent[s]]
      /\ parent \in [Slots -> Slots \cup {Nil}]
  BY Zenon, <1>0 DEF ExitLocked, At, memory, locals, Reparent, TableInv, BaseInv, TypeOK, RunInv, CpuInv
<1>2. Single(p) /\ p # Nil /\ parent[p] # p
  BY Zenon, <1>1, NotNil DEF TableInv, ThreadInv, Single
<1>3. \A s \in Slots : InTree(s)' <=> InTree(s)
  BY Zenon, <1>1, <1>2, NotNil DEF InTree
<1>4. ASSUME NEW s \in Slots PROVE IsThread(s)' <=> IsThread(s)
  <2>1. CASE parent[s] = p
    <3>1. ~IsThread(s) /\ InTree(s) /\ s # initproc
      BY ZenonT(30), <1>1, <1>2, <2>1, SingleIs, NotNil DEF InTree, TableInv, BaseInv, TreeInv
    <3>2. ~IsThread(initproc) /\ InTree(initproc) /\ initproc \in Slots
      BY Zenon, NotNil DEF IsThread, InTree, TableInv, BaseInv, TreeInv
    <3>3. pgdir[s] # pgdir[initproc]
      BY Zenon, <3>1, <3>2 DEF TableInv, ApartPages
    <3>4. parent'[s] = initproc
      BY Zenon, <1>1, <2>1
    <3> QED BY Zenon, <1>1, <3>1, <3>3, <3>4 DEF IsThread
  <2>2. CASE parent[s] # p
    BY Zenon, <1>1, <2>2 DEF IsThread
  <2> QED BY Zenon, <2>1, <2>2
<1>5. ApartPages' /\ NoLeak'
  BY Zenon, <1>1, <1>3, <1>4, PagesSame
<1>6. ASSUME NEW s \in Slots, IsThread(s)' PROVE ~IsThread(parent[s])'
  <2>1. PICK q : q = parent[s]
    OBVIOUS
  <2>2. IsThread(s) /\ q \in Slots /\ q # p /\ parent'[s] = q
    BY SMTT(30), <1>1, <1>2, <1>4, <1>6, <2>1, SingleIs DEF IsThread
  <2>3. ~IsThread(q)'
    BY Zenon, <1>4, <2>1, <2>2 DEF TableInv, ThreadInv
  <2> QED BY Zenon, <2>2, <2>3 DEF IsThread
<1>7. ASSUME NEW s \in Slots, Single(s) PROVE Single(s)'
  <2>1. \A t \in Slots : parent'[t] = s => ~IsThread(t)'
    BY Zenon, <1>1, <1>2, <1>4, <1>7, SingleIs
  <2> QED BY Zenon, <2>1, NotNil DEF Single, IsThread
<1>8. ThreadInv'
  BY Zenon, <1>1, <1>4, <1>6, <1>7 DEF TableInv, ThreadInv
<1>9. ASSUME NEW s \in Slots, state'[s] = "SLEEPING"
      PROVE  /\ ~killed'[s] /\ \E t \in Slots : Kid(s, t)'
             /\ \A t \in Slots : Kid(s, t)' => state'[t] # "ZOMBIE"
  <2>1. s # p /\ state[s] = "SLEEPING" /\ s \notin ExitWakes(p) /\ s # Nil
    BY Zenon, <1>1, <1>9, NotNil DEF wakeup1, TableInv, BaseInv, StateInv
  <2>2. s # parent[p] /\ (s = initproc => Zombies(Children(p)) = {})
    BY Zenon, <2>1 DEF ExitWakes
  <2>3. ~killed'[s] /\ \E t \in Slots : Kid(s, t)'
    BY Zenon, <1>1, <2>1 DEF TableInv, SleepInv, Kid
  <2>4. ASSUME NEW t \in Slots, Kid(s, t)' PROVE state'[t] # "ZOMBIE"
    <3>1. parent'[t] = s /\ t # p
      BY Zenon, <1>1, <1>2, <2>2, <2>4 DEF Kid
    <3>2. CASE parent[t] = s
      <4>1. state[t] # "ZOMBIE"
        BY ZenonT(30), <1>1, <2>1, <2>4, <3>2 DEF Kid, TableInv, SleepInv
      <4> QED BY Zenon, <1>1, <3>1, <4>1 DEF wakeup1
    <3>3. CASE parent[t] = p
      <4>1. state[t] # "ZOMBIE"
        BY Zenon, <1>1, <2>2, <3>1, <3>3 DEF Zombies, Children
      <4> QED BY Zenon, <1>1, <3>1, <4>1 DEF wakeup1
    <3> QED BY Zenon, <1>1, <3>1, <3>2, <3>3
  <2> QED BY Zenon, <2>3, <2>4
<1>10. SleepInv'
  BY Zenon, <1>9 DEF SleepInv
<1> QED BY Zenon, <1>5, <1>8, <1>10 DEF TableInv

\* Reaping: the stack of the zombie is its own, and so is its address space unless
\* it is a thread, whose process keeps it.
LEMMA TableReap ==
    ASSUME TableInv, BaseInv', NEW p \in Slots, state[p] = "RUNNING",
           NEW z \in Slots, state[z] = "ZOMBIE", parent[z] = p, NEW F,
           \/ F = {kstack[z]} /\ IsThread(z)
           \/ F = {kstack[z], pgdir[z]} /\ ~IsThread(z),
           free' = free \cup F, kstack' = [kstack EXCEPT ![z] = Nil],
           state' = [state EXCEPT ![z] = "UNUSED"], parent' = [parent EXCEPT ![z] = Nil],
           killed' = [killed EXCEPT ![z] = FALSE], pc' = [pc EXCEPT ![p] = "ret"],
           UNCHANGED <<pgdir, newdir>>
    PROVE  TableInv'
<1>1. /\ state \in [Slots -> States] /\ parent \in [Slots -> Slots \cup {Nil}] /\ pc \in [Slots -> PCs]
      /\ killed \in [Slots -> BOOLEAN] /\ kstack \in [Slots -> Pages \cup {Nil}]
  BY Zenon DEF TableInv, BaseInv, TypeOK
<1>2. /\ z # p /\ z # initproc /\ InTree(z) /\ kstack[z] # Nil /\ pgdir[z] # Nil
      /\ \A s \in Slots : parent[s] # z
  BY Zenon, ZombieFacts DEF TableInv
<1>3. Single(z) /\ InTree(p) /\ p # Nil
  BY Zenon, <1>2, ZombieFacts, AliveInTree, NotNil DEF TableInv, ThreadInv, Alive
<1>4. /\ kstack'[z] = Nil /\ parent'[z] = Nil /\ state'[z] = "UNUSED"
      /\ \A s \in Slots \ {z} : kstack'[s] = kstack[s] /\ parent'[s] = parent[s] /\ state'[s] = state[s]
      /\ pc'[p] = "ret" /\ \A s \in Slots \ {p} : pc'[s] = pc[s]
  BY Zenon, <1>1
<1>5. \A s \in Slots : killed'[s] => killed[s]
  BY Zenon, <1>1
<1>6. /\ ~InTree(z)' /\ ~IsThread(z)'
      /\ \A s \in Slots \ {z} : (InTree(s)' <=> InTree(s)) /\ (IsThread(s)' <=> IsThread(s))
  BY Zenon, <1>2, <1>4 DEF InTree, IsThread
<1>7. \A s \in Slots \ {z} : InTree(s) => pgdir[s] \notin F
  <2>1. \A s \in Slots : InTree(s) => pgdir[s] # kstack[z]
    BY Zenon DEF TableInv, ApartPages
  <2>2. ~IsThread(z) => \A s \in Slots \ {z} : InTree(s) => pgdir[s] # pgdir[z]
    BY Zenon, <1>2, <1>3, SoleUser DEF TableInv
  <2> QED BY Zenon, <2>1, <2>2
<1>8. \A s \in Slots : (s # z => kstack[s] \notin F) /\ newdir[s] \notin F /\ Nil \notin F
  BY <1>2 DEF TableInv, ApartPages
<1>9. ASSUME NEW s \in Slots, InTree(s)
      PROVE  pgdir[s] \in F \/ \E t \in Slots : InTree(t)' /\ pgdir[t] = pgdir[s]
  <2>1. CASE s # z
    BY Zenon, <1>6, <1>9, <2>1
  <2>2. CASE s = z /\ IsThread(z)
    BY Zenon, <1>2, <1>3, <1>6, <2>2 DEF IsThread
  <2> QED BY Zenon, <2>1, <2>2
<1>10. ApartPages' /\ NoLeak'
  <2>1. \A s \in Slots : /\ kstack'[s] \in {kstack[s], Nil} \ F
                         /\ kstack'[s] # kstack[s] => kstack[s] \in F
                         /\ newdir'[s] \in {newdir[s], Nil} \ F
                         /\ newdir'[s] = newdir[s]
    BY SMTT(30), <1>4, <1>8
  <2> QED BY SMTT(30), <1>6, <1>7, <1>9, <2>1, FreedPages
<1>11. ASSUME NEW s \in Slots, IsThread(s)' PROVE ~IsThread(parent[s])'
  <2>1. PICK q : q = parent[s]
    OBVIOUS
  <2>2. s # z /\ IsThread(s) /\ q \in Slots \ {z} /\ parent'[s] = q
    BY SMTT(30), <1>1, <1>2, <1>4, <1>6, <1>11, <2>1 DEF IsThread
  <2>3. ~IsThread(q)'
    BY Zenon, <1>6, <2>1, <2>2 DEF TableInv, ThreadInv
  <2> QED BY Zenon, <2>2, <2>3 DEF IsThread
<1>12. ASSUME NEW s \in Slots, Single(s) PROVE Single(s)'
  BY SMTT(30), <1>4, <1>12, NotNil DEF Single
<1>13. ThreadInv'
  BY ZenonT(30), <1>2, <1>4, <1>5, <1>6, <1>11, <1>12 DEF TableInv, ThreadInv
<1>14. ASSUME NEW s \in Slots, state'[s] = "SLEEPING"
       PROVE  state[s] = "SLEEPING" /\ \A t \in Slots : Kid(s, t)' <=> Kid(s, t)
  <2>1. s # z /\ s # p /\ s # Nil /\ state[s] = "SLEEPING"
    BY <1>2, <1>4, <1>14, NotNil
  <2> QED BY ZenonT(30), <1>4, <2>1 DEF Kid
<1>15. SleepInv'
  BY Zenon, <1>4, <1>5, <1>14, SleepSame
<1> QED BY Zenon, <1>10, <1>13, <1>15 DEF TableInv

\* wait() and join(): they reap, return, or sleep with a child to wait for.
LEMMA TableScan ==
    ASSUME Disciplined, TableInv, BaseInv', NEW c \in CPUs, NEW call \in {"wait", "join"}, NEW kids, NEW freed,
           call = "wait" => kids = Children(cur[c]) /\ freed = FreedByWait,
           call = "join" => kids = ThreadsOf(cur[c]) /\ freed = FreedByJoin,
           Scanning(c, call), Scan(c, kids, call, freed), UNCHANGED <<pgdir, newdir>>
    PROVE  TableInv'
<1>0. PICK p, z : p = cur[c] /\ z = Min(Zombies(kids))
  OBVIOUS
<1>1. /\ p \in Slots /\ state[p] = "RUNNING" /\ pc[p] \in {"user", call}
      /\ pc \in [Slots -> PCs] /\ state \in [Slots -> States]
  BY Zenon, <1>0 DEF Scanning, Syscall, At, TableInv, BaseInv, TypeOK, RunInv, CpuInv
<1>2. call = "wait" => Single(p)
  <2>1. CASE Syscall(c, call) /\ MayCall(cur[c], call)
    BY Zenon, <1>0, <1>1, <2>1, NoThreads DEF MayCall
  <2>2. CASE pc[cur[c]] = call
    BY Zenon, <1>0, <1>1, <2>2 DEF TableInv, ThreadInv
  <2> QED BY Zenon, <2>1, <2>2 DEF Scanning
<1>3. kids \subseteq Slots /\ \A t \in Slots : t \in kids <=> parent[t] = p /\ (call = "wait" \/ pgdir[t] = pgdir[p])
  BY Zenon, <1>0 DEF Children, ThreadsOf
<1>4. CASE /\ Zombies(kids) # {} /\ free' = free \cup {kstack[z]} \cup freed[z]
           /\ kstack' = [kstack EXCEPT ![z] = Nil] /\ state' = [state EXCEPT ![z] = "UNUSED"]
           /\ parent' = [parent EXCEPT ![z] = Nil] /\ killed' = [killed EXCEPT ![z] = FALSE]
           /\ pc' = [pc EXCEPT ![p] = "ret"]
  <2>1. z \in Slots /\ state[z] = "ZOMBIE" /\ z \in kids
    BY Zenon, <1>0, <1>3, <1>4, FirstZombie
  <2>2. parent[z] = p /\ (IsThread(z) <=> call = "join")
    <3>1. parent[z] = p /\ (call = "join" => pgdir[z] = pgdir[p])
      BY Zenon, <1>3, <2>1
    <3> QED BY ZenonT(30), <1>1, <1>2, <2>1, <3>1, NotNil DEF IsThread, Single
  <2>3. PICK F : F = {kstack[z]} \cup freed[z]
    BY Zenon
  <2>4. \/ F = {kstack[z]} /\ IsThread(z)
        \/ F = {kstack[z], pgdir[z]} /\ ~IsThread(z)
    BY Zenon, <2>1, <2>2, <2>3 DEF FreedByWait, FreedByJoin
  <2>5. free' = free \cup F
    BY Zenon, <1>4, <2>3
  <2> QED BY Zenon, <1>1, <1>4, <2>1, <2>2, <2>4, <2>5, TableReap
<1>5. CASE /\ UNCHANGED <<free, kstack, parent, killed>>
           /\ \/ UNCHANGED state /\ pc' = [pc EXCEPT ![p] = "ret"]
              \/ /\ Zombies(kids) = {} /\ kids # {} /\ ~killed[p]
                 /\ state' = [state EXCEPT ![p] = "SLEEPING"] /\ pc' = [pc EXCEPT ![p] = call]
  <2>1. \A s \in Slots : (InTree(s)' <=> InTree(s)) /\ (IsThread(s)' <=> IsThread(s))
    BY Zenon, <1>5 DEF InTree, IsThread
  <2>2. /\ pc'[p] \in {"ret", call}
        /\ \A s \in Slots \ {p} : pc'[s] = pc[s] /\ state'[s] = state[s]
        /\ state'[p] = "SLEEPING" => Zombies(kids) = {} /\ kids # {} /\ ~killed[p] /\ pc'[p] = call
        /\ state'[p] # "ZOMBIE"
    BY Zenon, <1>1, <1>5
  <2>3. ApartPages' /\ NoLeak'
    BY Zenon, <1>5, <2>1, PagesSame
  <2>4. ThreadInv'
    BY Zenon, <1>2, <1>5, <2>1, <2>2, ThreadsSame
  <2>5. ASSUME NEW s \in Slots, state'[s] = "SLEEPING"
        PROVE  /\ ~killed'[s] /\ \E t \in Slots : Kid(s, t)'
               /\ \A t \in Slots : Kid(s, t)' => state'[t] # "ZOMBIE"
    <3>1. CASE s = p
      <4>1. \A t \in Slots : Kid(s, t)' <=> t \in kids
        BY Zenon, <1>3, <1>5, <2>2, <2>5, <3>1 DEF Kid
      <4>2. \A t \in kids : state[t] # "ZOMBIE"
        BY Zenon, <2>2, <2>5, <3>1 DEF Zombies
      <4> QED BY ZenonT(30), <1>3, <1>5, <2>2, <2>5, <3>1, <4>1, <4>2
    <3>2. CASE s # p
      <4>1. \A t \in Slots : Kid(s, t)' <=> Kid(s, t)
        BY Zenon, <1>5, <2>2, <3>2 DEF Kid
      <4> QED BY Zenon, <1>5, <2>2, <2>5, <3>2, <4>1 DEF TableInv, SleepInv
    <3> QED BY Zenon, <3>1, <3>2
  <2>6. SleepInv'
    BY Zenon, <2>5 DEF SleepInv
  <2> QED BY Zenon, <2>3, <2>4, <2>6 DEF TableInv
<1> QED BY Zenon, <1>0, <1>4, <1>5 DEF Scan

\* userinit() leaves init with a stack and an address space, and the rest free.
LEMMA TableInit == Init => TableInv
<1> SUFFICES ASSUME Init PROVE TableInv
  OBVIOUS
<1>1. \A s \in Slots : ~IsThread(s) /\ (InTree(s) <=> s = initproc)
  BY Zenon DEF Init, IsThread, InTree
<1>2. ThreadInv
  BY Zenon, <1>1, NotNil DEF Init, ThreadInv, Single
<1>3. ApartPages
  BY SMTT(30), <1>1, NotNil, ProcAssumption DEF Init, ApartPages, Nil, Pages
<1>4. NoLeak
  BY Zenon, <1>1, NotNil DEF Init, NoLeak
<1>5. SleepInv
  BY Zenon DEF Init, SleepInv
<1> QED BY Zenon, <1>2, <1>3, <1>4, <1>5, BaseInit DEF TableInv

\* Every step keeps it.
LEMMA TableStep == ASSUME Disciplined PROVE TableInv /\ [Next]_vars => TableInv'
<1> SUFFICES ASSUME TableInv, [Next]_vars PROVE TableInv'
  OBVIOUS
<1>0. BaseInv'
  BY Zenon, BaseStep DEF TableInv
<1>1. ASSUME NEW c \in CPUs, Wait(c) PROVE TableInv'
  BY Zenon, <1>0, <1>1, TableScan DEF Wait
<1>2. ASSUME NEW c \in CPUs, Join(c) PROVE TableInv'
  BY Zenon, <1>0, <1>2, TableScan DEF Join
<1>3. ASSUME NEW c \in CPUs, KernelStep(c) PROVE TableInv'
  BY Zenon, <1>0, <1>3, TableLocal, TableSlot, TableKstack, TableCopy, TableExecFinish, TableExit DEF KernelStep
<1>4. CASE UNCHANGED vars
  BY SMTT(30), <1>0, <1>4 DEF vars, TableInv, ThreadInv, ApartPages, NoLeak, SleepInv, InTree, IsThread, Single, Kid
<1> QED BY Zenon, <1>0, <1>1, <1>2, <1>3, <1>4, TableSlot, TableExecBuild, TableLocal, TableKill DEF Next

\* The table is sound under the thread rule: the stack a CPU is on, exit()'s last
\* steps included, is allocated and of no other slot, and whoever lives has a
\* living parent.
THEOREM TableIsSound == ASSUME Disciplined PROVE Spec => []TableSound
<1>1. TableInv => TableSound
  <2> SUFFICES ASSUME TableInv PROVE TableSound
    OBVIOUS
  <2>1. TypeOK /\ ParentAlive
    BY Zenon DEF TableInv, BaseInv, TreeInv, InTree, Alive, ParentAlive
  <2>2. ASSUME NEW c \in CPUs, mode[c] = "proc"
        PROVE  /\ kstack[cur[c]] \notin free \cup {Nil}
               /\ \A s \in Slots \ {cur[c]} : kstack[s] # kstack[cur[c]]
    <3>1. cur[c] \in Slots /\ InTree(cur[c])
      BY Zenon, <2>2 DEF TableInv, BaseInv, RunInv, CpuInv, TreeInv, HasVM
    <3>2. kstack[cur[c]] # Nil
      BY Zenon, <3>1 DEF TableInv, BaseInv, TreeInv
    <3> QED BY Zenon, <3>1, <3>2 DEF TableInv, ApartPages
  <2> QED BY Zenon, <2>1, <2>2 DEF TableSound, StackOwned
<1>2. TableInv /\ [Next]_vars => TableInv'
  BY Zenon, TableStep
<1> QED BY <1>1, <1>2, TableInit, PTL DEF Spec

\* No wakeup is lost under the thread rule: a process asleep in wait() or join()
\* has a child to wait for, no zombie to reap and no kill pending.
THEOREM WakeupsNotMissed == ASSUME Disciplined PROVE Spec => []NoMissedWakeup
<1>1. TableInv => NoMissedWakeup
  <2> SUFFICES ASSUME TableInv, NEW s \in Slots, state[s] = "SLEEPING",
                      NEW kids, kids = IF pc[s] = "wait" THEN Children(s) ELSE ThreadsOf(s)
               PROVE  kids # {} /\ Zombies(kids) = {} /\ ~killed[s]
    BY Zenon DEF NoMissedWakeup
  <2>1. kids \subseteq Slots /\ \A t \in Slots : t \in kids <=> Kid(s, t)
    BY Zenon DEF Children, ThreadsOf, Kid
  <2> QED BY Zenon, <2>1 DEF TableInv, SleepInv, Zombies
<1>2. TableInv /\ [Next]_vars => TableInv'
  BY Zenon, TableStep
<1> QED BY <1>1, <1>2, TableInit, PTL DEF Spec

\* Under the thread rule every page has exactly one owner: no path of fork, clone,
\* exec, exit, wait and join leaks a page, frees it twice or uses a freed one.
THEOREM PagesAreOwnedOnce == ASSUME Disciplined PROVE Spec => []PagesOwnedOnce
<1>1. TableInv => PagesOwnedOnce
  <2> SUFFICES ASSUME TableInv, NEW g \in Pages PROVE Cardinality(Owners(g)) = 1
    BY Zenon DEF PagesOwnedOnce
  <2>1. g # Nil /\ \A s \in Slots : HasVM(s) <=> InTree(s)
    BY Zenon, NotNil DEF TableInv, BaseInv, TreeInv
  <2>2. /\ \A s, t \in Slots : /\ kstack[s] = g /\ kstack[t] = g => s = t
                               /\ newdir[s] = g /\ newdir[t] = g => s = t
                               /\ ~(kstack[s] = g /\ newdir[t] = g)
                               /\ HasVM(t) /\ pgdir[t] = g => kstack[s] # g /\ newdir[s] # g
        /\ \A s \in Slots : g \in free => kstack[s] # g /\ newdir[s] # g /\ ~(HasVM(s) /\ pgdir[s] = g)
    BY <2>1 DEF TableInv, ApartPages
  <2>3. CASE g \in free
    <3>1. Owners(g) = {<<"free", Nil>>}
      BY Zenon, <2>2, <2>3 DEF Owners
    <3> QED BY Zenon, <3>1, FS_Singleton
  <2>4. ASSUME NEW s \in Slots, kstack[s] = g PROVE Cardinality(Owners(g)) = 1
    <3>1. Owners(g) = {<<"kstack", s>>}
      BY Zenon, <2>2, <2>4 DEF Owners
    <3> QED BY Zenon, <3>1, FS_Singleton
  <2>5. ASSUME NEW s \in Slots, newdir[s] = g PROVE Cardinality(Owners(g)) = 1
    <3>1. Owners(g) = {<<"exec", s>>}
      BY Zenon, <2>2, <2>5 DEF Owners
    <3> QED BY Zenon, <3>1, FS_Singleton
  <2>6. ASSUME NEW s \in Slots, InTree(s), pgdir[s] = g PROVE Cardinality(Owners(g)) = 1
    <3>1. Owners(g) = {<<"vm", Nil>>}
      BY Zenon, <2>1, <2>2, <2>6 DEF Owners
    <3> QED BY Zenon, <3>1, FS_Singleton
  <2> QED BY Zenon, <2>3, <2>4, <2>5, <2>6 DEF TableInv, NoLeak
<1>2. TableInv /\ [Next]_vars => TableInv'
  BY Zenon, TableStep
<1> QED BY <1>1, <1>2, TableInit, PTL DEF Spec
=============================================================================
