----------------------------- MODULE ProcProofs -----------------------------
(***************************************************************************)
(* Proofs about the process table, for any size of it, any number of CPUs, *)
(* any use of the system calls and any use of threads.                     *)
(***************************************************************************)
EXTENDS Proc, WellFoundedInduction, TLAPS

\* Where a process is while it makes another, whose slot is np.
Making == {"fork", "clone", "nokstack", "copy", "share", "nopgdir", "start"}

Types ==
    /\ state \in [Slots -> States]
    /\ lock \in CPUs \cup {NoCPU}
    /\ mode \in [CPUs -> {"idle", "sched", "proc"}]
    /\ cur \in [CPUs -> Slots \cup {Nil}]
    /\ pc \in [Slots -> PCs]
    /\ np \in [Slots -> Slots \cup {Nil}]

\* A CPU in the scheduler has the lock after a switch to it, and one on the
\* stack of a process has that process RUNNING or the lock.
CpuInv ==
    \A c \in CPUs :
        /\ mode[c] = "sched" => lock = c
        /\ mode[c] = "proc" =>
             /\ cur[c] \in Slots
             /\ state[cur[c]] = "RUNNING" \/ lock = c
             /\ state[cur[c]] \in {"RUNNING", "RUNNABLE", "SLEEPING", "ZOMBIE"}

\* Two CPUs are on two stacks.
ApartInv ==
    \A c, d \in CPUs : mode[c] = "proc" /\ mode[d] = "proc" /\ cur[c] = cur[d] => c = d

\* The slots being made are EMBRYOs of one maker each, so that the error paths of
\* allocproc() and fork() may write them without the lock.
MakeInv ==
    /\ \A s \in Slots : pc[s] \in Making => np[s] \in Slots /\ state[np[s]] = "EMBRYO"
    /\ \A s, t \in Slots : pc[s] \in Making /\ pc[t] \in Making /\ np[s] = np[t] => s = t

RunInv == Types /\ CpuInv /\ ApartInv /\ MakeInv

-----------------------------------------------------------------------------
\* The least element of a set of numbers is one of them.
LEMMA MinIn == ASSUME NEW S \in SUBSET Nat, S # {} PROVE Min(S) \in S
<1> DEFINE R == {ss \in Nat \X Nat : ss[1] < ss[2]}
<1>1. IsWellFoundedOn(R, Nat)
  BY Zenon, NatLessThanWellFounded DEF OpToRel
<1>2. \E x \in S : \A y \in S : ~(<<y, x>> \in R)
  <2> HIDE DEF R
  <2> QED BY Zenon, <1>1, WFMin
<1>3. PICK x \in S : \A y \in S : ~(<<y, x>> \in R)
  BY Zenon, <1>2
<1>4. ASSUME NEW y \in S PROVE x =< y
  <2>1. ~(y < x)
    BY Zenon, <1>3
  <2> QED BY <2>1
<1> QED BY Zenon, <1>4 DEF Min

\* userinit() leaves one runnable process and idle CPUs.
LEMMA RunInit == Init => RunInv
BY ProcAssumption DEF Init, RunInv, Types, CpuInv, ApartInv, MakeInv, Making, States, PCs, Slots, Nil,
   initproc

\* A process on a CPU that makes another: its slot, and that no CPU is on the
\* stack of the one being made.
LEMMA MakerApart ==
    ASSUME RunInv, NEW c \in CPUs, mode[c] = "proc", pc[cur[c]] \in Making
    PROVE  /\ cur[c] \in Slots /\ np[cur[c]] \in Slots /\ np[cur[c]] # cur[c]
           /\ state[np[cur[c]]] = "EMBRYO"
           /\ \A d \in CPUs : mode[d] = "proc" => cur[d] # np[cur[c]]
BY Zenon DEF RunInv, CpuInv, MakeInv

\* Steps that move one process and change no state and no CPU.
LEMMA LocalStep ==
    ASSUME RunInv, NEW p \in Slots, UNCHANGED <<state, lock, mode, cur, np>>,
           NEW l \in PCs, pc' = [pc EXCEPT ![p] = l], pc[p] \in Making \/ l \notin Making
    PROVE  RunInv'
<1>1. Types' /\ CpuInv' /\ ApartInv'
  BY Zenon DEF RunInv, Types, CpuInv, ApartInv
<1>2. \A s \in Slots : pc'[s] \in Making => pc[s] \in Making
  BY Zenon DEF RunInv, Types
<1>3. MakeInv'
  BY Zenon, <1>2 DEF RunInv, MakeInv
<1> QED BY Zenon, <1>1, <1>3 DEF RunInv

\* allocproc() claims an UNUSED slot under ptable.lock.
LEMMA AllocprocStep ==
    ASSUME RunInv, NEW c \in CPUs, NEW call \in {"fork", "clone"}, Allocproc(c, call)
    PROVE  RunInv'
<1> DEFINE p == cur[c]
           unused == {s \in Slots : state[s] = "UNUSED"}
           s == Min(unused)
<1>1. mode[c] = "proc" /\ lock = NoCPU /\ p \in Slots /\ pc[p] = "user" /\ UNCHANGED cpus
  BY Zenon DEF Allocproc, Syscall, At, RunInv, CpuInv
<1>2. CASE unused # {} /\ state' = [state EXCEPT ![s] = "EMBRYO"]
           /\ np' = [np EXCEPT ![p] = s] /\ pc' = [pc EXCEPT ![p] = call]
  <2>1. s \in Slots /\ state[s] = "UNUSED"
    <3>1. unused \in SUBSET Nat
      BY DEF Slots
    <3> QED BY Zenon, <1>2, <3>1, MinIn
  <2> HIDE DEF s
  <2>2. Types'
    BY Zenon, <1>1, <1>2, <2>1 DEF RunInv, Types, States, PCs, cpus
  <2>3. CpuInv' /\ ApartInv'
    BY Zenon, <1>1, <1>2, <2>1 DEF RunInv, Types, CpuInv, ApartInv, cpus
  <2>4. \A t \in Slots \ {p} : pc'[t] = pc[t] /\ np'[t] = np[t]
    BY Zenon, <1>1, <1>2 DEF RunInv, Types
  <2>5. pc'[p] = call /\ np'[p] = s /\ state'[s] = "EMBRYO"
    BY Zenon, <1>1, <1>2, <2>1 DEF RunInv, Types
  <2>6. ASSUME NEW t \in Slots \ {p}, pc'[t] \in Making
        PROVE  np'[t] \in Slots /\ state'[np'[t]] = "EMBRYO" /\ np'[t] # s
    BY SMTT(30), <1>1, <1>2, <2>1, <2>4, <2>6 DEF RunInv, Types, MakeInv
  <2>7. MakeInv'
    BY SMTT(30), <2>1, <2>4, <2>5, <2>6 DEF RunInv, MakeInv
  <2> QED BY Zenon, <2>2, <2>3, <2>7 DEF RunInv
<1>3. CASE pc' = [pc EXCEPT ![p] = "ret"] /\ UNCHANGED <<state, np>>
  BY Zenon, <1>1, <1>3, LocalStep DEF PCs, Making, cpus
<1> QED BY Zenon, <1>2, <1>3 DEF Allocproc

\* NoKstack() and NoPgdir() give the slot back.
LEMMA UnmakeStep ==
    ASSUME RunInv, NEW c \in CPUs, NoKstack(c) \/ NoPgdir(c)
    PROVE  RunInv'
<1> DEFINE p == cur[c]
           s == np[p]
<1>1. /\ mode[c] = "proc" /\ pc[p] \in Making /\ UNCHANGED cpus
      /\ state' = [state EXCEPT ![s] = "UNUSED"] /\ np' = [np EXCEPT ![p] = Nil]
      /\ pc' = [pc EXCEPT ![p] = "ret"]
  BY Zenon DEF NoKstack, NoPgdir, At, Making
<1>2. /\ p \in Slots /\ s \in Slots /\ \A d \in CPUs : mode[d] = "proc" => cur[d] # s
  BY Zenon, <1>1, MakerApart
<1>3. Types'
  BY Zenon, <1>1, <1>2 DEF RunInv, Types, States, PCs, cpus
<1>4. CpuInv' /\ ApartInv'
  BY Zenon, <1>1, <1>2 DEF RunInv, Types, CpuInv, ApartInv, cpus
<1>5. ASSUME NEW t \in Slots, pc'[t] \in Making
      PROVE  t # p /\ pc[t] \in Making /\ np'[t] = np[t] /\ np[t] # s /\ state'[np[t]] = state[np[t]]
  <2>1. t # p /\ pc[t] \in Making /\ np'[t] = np[t]
    BY Zenon, <1>1, <1>2, <1>5 DEF RunInv, Types, Making
  <2> QED BY Zenon, <1>1, <1>2, <2>1 DEF RunInv, MakeInv, Types
<1>6. MakeInv'
  BY Zenon, <1>5 DEF RunInv, MakeInv
<1> QED BY Zenon, <1>3, <1>4, <1>6 DEF RunInv

\* fork() and clone() make their EMBRYO runnable under ptable.lock.
LEMMA StartStep ==
    ASSUME RunInv, NEW c \in CPUs, Start(c)
    PROVE  RunInv'
<1> DEFINE p == cur[c]
           s == np[p]
<1>1. /\ mode[c] = "proc" /\ pc[p] \in Making /\ UNCHANGED cpus
      /\ state' = [state EXCEPT ![s] = "RUNNABLE"] /\ np' = [np EXCEPT ![p] = Nil]
      /\ pc' = [pc EXCEPT ![p] = "ret", ![s] = "user"]
  BY Zenon DEF Start, At, Making
<1>2. /\ p \in Slots /\ s \in Slots /\ s # p /\ \A d \in CPUs : mode[d] = "proc" => cur[d] # s
  BY Zenon, <1>1, MakerApart
<1>3. Types'
  BY Zenon, <1>1, <1>2 DEF RunInv, Types, States, PCs, cpus
<1>4. CpuInv' /\ ApartInv'
  BY Zenon, <1>1, <1>2 DEF RunInv, Types, CpuInv, ApartInv, cpus
<1>5. ASSUME NEW t \in Slots, pc'[t] \in Making
      PROVE  t # p /\ pc[t] \in Making /\ np'[t] = np[t] /\ np[t] # s /\ state'[np[t]] = state[np[t]]
  <2>1. t # p /\ t # s /\ pc[t] \in Making /\ np'[t] = np[t]
    BY Zenon, <1>1, <1>2, <1>5 DEF RunInv, Types, Making
  <2> QED BY Zenon, <1>1, <1>2, <2>1 DEF RunInv, MakeInv, Types
<1>6. MakeInv'
  BY Zenon, <1>5 DEF RunInv, MakeInv
<1> QED BY Zenon, <1>3, <1>4, <1>6 DEF RunInv

\* The other steps of a process that leave the states alone.
LEMMA ProcessStep ==
    ASSUME RunInv, NEW c \in CPUs,
           \/ AllocKstack(c) \/ CopyUvm(c) \/ Share(c) \/ ExecBuild(c) \/ ExecFinish(c)
           \/ EnterExit(c) \/ KilledTrap(c) \/ Ret(c)
    PROVE  RunInv'
<1> DEFINE p == cur[c]
<1>1. p \in Slots /\ UNCHANGED <<state, lock, mode, cur, np>>
  BY Zenon DEF AllocKstack, CopyUvm, Share, ExecBuild, ExecFinish, EnterExit, KilledTrap, Ret, Syscall, At,
         RunInv, CpuInv, cpus, table
<1>2. \E l \in PCs : pc' = [pc EXCEPT ![p] = l] /\ (pc[p] \in Making \/ l \notin Making)
  <2>1. CASE AllocKstack(c)
    BY Zenon, <2>1 DEF AllocKstack, At, PCs, Making
  <2>2. CASE CopyUvm(c) \/ Share(c)
    BY Zenon, <2>2 DEF CopyUvm, Share, At, PCs, Making
  <2>3. CASE ExecBuild(c) \/ ExecFinish(c) \/ EnterExit(c) \/ KilledTrap(c) \/ Ret(c)
    BY Zenon, <2>3 DEF ExecBuild, ExecFinish, EnterExit, KilledTrap, Ret, PCs, Making
  <2> QED BY Zenon, <2>1, <2>2, <2>3
<1> QED BY ZenonT(30), <1>1, <1>2, LocalStep

\* Steps that change neither an EMBRYO nor who makes one.
LEMMA MakeSame ==
    ASSUME RunInv, UNCHANGED np,
           \A s \in Slots : state[s] = "EMBRYO" => state'[s] = "EMBRYO",
           \A s \in Slots : pc'[s] \in Making => pc[s] \in Making
    PROVE  MakeInv'
BY Zenon DEF RunInv, MakeInv

\* Steps under the lock that change no state of a RUNNING process but that of the
\* caller p, which then has the lock.
LEMMA LockedStep ==
    ASSUME RunInv, NEW c \in CPUs, mode[c] = "proc", lock \in {NoCPU, c},
           UNCHANGED <<mode, cur, np>>,
           state' \in [Slots -> States], pc' \in [Slots -> PCs], lock' \in {NoCPU, c},
           \A s \in Slots : state[s] = "RUNNING" /\ s # cur[c] => state'[s] = "RUNNING",
           \/ state'[cur[c]] = "RUNNING"
           \/ lock' = c /\ state'[cur[c]] \in {"RUNNABLE", "SLEEPING", "ZOMBIE"},
           \A s \in Slots : state[s] = "EMBRYO" => state'[s] = "EMBRYO",
           \A s \in Slots : pc'[s] \in Making => pc[s] \in Making
    PROVE  RunInv'
<1>1. Types' /\ ApartInv'
  BY Zenon DEF RunInv, Types, ApartInv
<1>2. ASSUME NEW d \in CPUs, mode[d] = "sched" PROVE FALSE
  BY Zenon, <1>2, ProcAssumption DEF RunInv, CpuInv
<1>3. ASSUME NEW d \in CPUs \ {c}, mode[d] = "proc"
      PROVE  cur[d] \in Slots /\ state'[cur[d]] = "RUNNING"
  BY ZenonT(30), <1>3, ProcAssumption DEF RunInv, CpuInv, ApartInv
<1>4. CpuInv'
  BY Zenon, <1>2, <1>3 DEF RunInv, CpuInv
<1> QED BY Zenon, <1>1, <1>4, MakeSame DEF RunInv

\* exit(), up to sched().
LEMMA ExitStep ==
    ASSUME RunInv, NEW c \in CPUs, ExitLocked(c)
    PROVE  RunInv'
<1> DEFINE p == cur[c]
<1>1. /\ mode[c] = "proc" /\ p \in Slots /\ state[p] = "RUNNING" /\ lock = NoCPU /\ lock' = c
      /\ state' = [wakeup1(state, ExitWakes(p)) EXCEPT ![p] = "ZOMBIE"]
      /\ UNCHANGED <<mode, cur, np, pc>>
  BY Zenon DEF ExitLocked, At, RunInv, CpuInv, locals
<1>2. /\ state' \in [Slots -> States] /\ state'[p] = "ZOMBIE"
      /\ \A s \in Slots : state[s] \in {"RUNNING", "EMBRYO"} /\ s # p => state'[s] = state[s]
  BY Zenon, <1>1 DEF wakeup1, RunInv, Types, States
<1> QED BY <1>1, <1>2, LockedStep DEF RunInv, Types

\* wait() and join()
LEMMA ScanStep ==
    ASSUME RunInv, NEW c \in CPUs, NEW call \in {"wait", "join"}, NEW kids \in SUBSET Slots, NEW freed,
           Scanning(c, call), Scan(c, kids, call, freed), UNCHANGED <<mode, cur, np>>
    PROVE  RunInv'
<1> DEFINE p == cur[c]
           z == Min(Zombies(kids))
<1>1. mode[c] = "proc" /\ p \in Slots /\ state[p] = "RUNNING" /\ lock \in {NoCPU, c}
  BY Zenon DEF Scanning, Syscall, At, RunInv, CpuInv
<1>2. CASE Zombies(kids) # {} /\ state' = [state EXCEPT ![z] = "UNUSED"] /\ lock' = NoCPU
           /\ pc' = [pc EXCEPT ![p] = "ret"]
  <2>1. z \in Slots /\ state[z] = "ZOMBIE"
    <3>1. Slots \subseteq Nat
      BY ProcAssumption DEF Slots
    <3>2. Zombies(kids) \subseteq kids
      BY Zenon DEF Zombies
    <3>3. z \in Zombies(kids)
      BY Zenon, <1>2, <3>1, <3>2, MinIn
    <3> QED BY Zenon, <3>3 DEF Zombies
  <2> HIDE DEF z
  <2>2. /\ state' \in [Slots -> States] /\ pc' \in [Slots -> PCs] /\ state'[p] = "RUNNING"
        /\ \A s \in Slots : state[s] \in {"RUNNING", "EMBRYO"} => state'[s] = state[s]
        /\ \A s \in Slots : pc'[s] \in Making => pc[s] \in Making
    BY Zenon, <1>1, <1>2, <2>1 DEF RunInv, Types, States, PCs, Making
  <2> QED BY Zenon, <1>1, <1>2, <2>2, LockedStep
<1>3. CASE UNCHANGED state /\ lock' = NoCPU /\ pc' = [pc EXCEPT ![p] = "ret"]
  <2>1. /\ state' \in [Slots -> States] /\ pc' \in [Slots -> PCs] /\ state'[p] = "RUNNING"
        /\ \A s \in Slots : pc'[s] \in Making => pc[s] \in Making
    BY Zenon, <1>1, <1>3 DEF RunInv, Types, PCs, Making
  <2> QED BY Zenon, <1>1, <1>3, <2>1, LockedStep
<1>4. CASE state' = [state EXCEPT ![p] = "SLEEPING"] /\ lock' = c /\ pc' = [pc EXCEPT ![p] = call]
  <2>1. /\ state' \in [Slots -> States] /\ pc' \in [Slots -> PCs] /\ state'[p] = "SLEEPING"
        /\ \A s \in Slots : state[s] \in {"RUNNING", "EMBRYO"} /\ s # p => state'[s] = state[s]
        /\ \A s \in Slots : pc'[s] \in Making => pc[s] \in Making
    BY Zenon, <1>1, <1>4 DEF RunInv, Types, States, PCs, Making
  <2> QED BY Zenon, <1>1, <1>4, <2>1, LockedStep
<1> QED BY Zenon, <1>2, <1>3, <1>4 DEF Scan

\* kill() makes only sleepers runnable.
LEMMA KillStep ==
    ASSUME RunInv, NEW c \in CPUs, NEW k \in KillPids, Kill(c, k)
    PROVE  RunInv'
<1> DEFINE p == cur[c]
<1>1. /\ mode[c] = "proc" /\ p \in Slots /\ state[p] = "RUNNING" /\ lock = NoCPU
      /\ UNCHANGED <<lock, mode, cur, np>> /\ pc' = [pc EXCEPT ![p] = "ret"]
  BY Zenon DEF Kill, Syscall, At, RunInv, CpuInv, cpus
<1>2. /\ state' \in [Slots -> States]
      /\ \A s \in Slots : state[s] # "SLEEPING" => state'[s] = state[s]
  BY SMTT(30) DEF Kill, StateAfterKill, RunInv, Types, States
<1>3. pc' \in [Slots -> PCs] /\ \A s \in Slots : pc'[s] \in Making => pc[s] \in Making
  BY Zenon, <1>1 DEF RunInv, Types, PCs, Making
<1> QED BY Zenon, <1>1, <1>2, <1>3, LockedStep

\* yield() and the return from swtch().
LEMMA TimerStep ==
    ASSUME RunInv, NEW c \in CPUs, Timer(c) \/ Resume(c)
    PROVE  RunInv'
<1> DEFINE p == cur[c]
<1>1. /\ mode[c] = "proc" /\ p \in Slots /\ state[p] = "RUNNING" /\ lock \in {NoCPU, c}
      /\ UNCHANGED <<mode, cur, np>>
      /\ \/ lock' = c /\ state' = [state EXCEPT ![p] = "RUNNABLE"]
         \/ lock' = NoCPU /\ UNCHANGED state
      /\ \/ UNCHANGED pc
         \/ pc' = [pc EXCEPT ![p] = "ret"]
  BY Zenon DEF Timer, Resume, RunInv, Types, CpuInv, table, locals
<1>2. /\ state' \in [Slots -> States]
      /\ \A s \in Slots \ {p} : state'[s] = state[s]
      /\ state'[p] = "RUNNING" \/ (lock' = c /\ state'[p] = "RUNNABLE")
  <2>1. state \in [Slots -> States]
    BY Zenon DEF RunInv, Types
  <2> HIDE DEF p
  <2>2. CASE lock' = c /\ state' = [state EXCEPT ![p] = "RUNNABLE"]
    BY Zenon, <1>1, <2>1, <2>2 DEF States
  <2>3. CASE state' = state
    BY Zenon, <1>1, <2>1, <2>3
  <2> QED BY Zenon, <1>1, <2>2, <2>3
<1>3. pc' \in [Slots -> PCs] /\ \A s \in Slots : pc'[s] \in Making => pc[s] \in Making
  BY Zenon, <1>1 DEF RunInv, Types, PCs, Making
<1> QED BY Zenon, <1>1, <1>2, <1>3, LockedStep

\* scheduler() and the swtch() into and out of it.
LEMMA SchedulerStep ==
    ASSUME RunInv, NEW c \in CPUs, Sched(c) \/ SchedPick(c) \/ SchedPassEnd(c)
    PROVE  RunInv'
<1>1. CASE Sched(c)
  BY Zenon, <1>1, MakeSame DEF Sched, RunInv, Types, CpuInv, ApartInv, table, locals
<1>2. CASE SchedPassEnd(c)
  <2>1. lock = c /\ mode[c] = "sched" /\ mode' = [mode EXCEPT ![c] = "idle"]
        /\ cur' = [cur EXCEPT ![c] = Nil] /\ lock' = NoCPU /\ UNCHANGED <<state, pc, np>>
    BY Zenon, <1>2 DEF SchedPassEnd, RunInv, CpuInv, table, locals
  <2>2. Types' /\ ApartInv'
    BY Zenon, <2>1 DEF RunInv, Types, ApartInv
  <2>3. CpuInv'
    BY Zenon, <2>1 DEF RunInv, Types, CpuInv
  <2> QED BY Zenon, <2>1, <2>2, <2>3, MakeSame DEF RunInv
<1>3. CASE SchedPick(c)
  <2> DEFINE s == Min(Ready(c))
  <2>1. s \in Slots /\ state[s] = "RUNNABLE"
    <3>1. Ready(c) \in SUBSET Nat /\ Ready(c) # {}
      BY <1>3, ProcAssumption DEF SchedPick, Ready, Slots
    <3>2. s \in Ready(c)
      BY Zenon, <3>1, MinIn
    <3> QED BY Zenon, <3>2 DEF Ready
  <2>2. /\ (mode[c] = "idle" /\ lock = NoCPU) \/ (mode[c] = "sched" /\ lock = c)
        /\ lock' = c /\ mode' = [mode EXCEPT ![c] = "proc"] /\ cur' = [cur EXCEPT ![c] = s]
        /\ state' = [state EXCEPT ![s] = "RUNNING"] /\ UNCHANGED <<pc, np>>
    <3>1. (mode[c] = "idle" /\ lock = NoCPU) \/ (mode[c] = "sched" /\ lock = c)
      BY Zenon, <1>3 DEF SchedPick, RunInv, CpuInv
    <3> HIDE DEF s
    <3> QED BY Zenon, <1>3, <3>1 DEF SchedPick, locals, s
  <2> HIDE DEF s
  <2>3. Types'
    BY Zenon, <2>1, <2>2 DEF RunInv, Types, States
  <2>4. ASSUME NEW d \in CPUs \ {c}
        PROVE  mode[d] # "sched" /\ (mode[d] = "proc" => cur[d] \in Slots /\ cur[d] # s
                                                         /\ state[cur[d]] = "RUNNING")
    BY Zenon, <2>1, <2>2, ProcAssumption DEF RunInv, CpuInv
  <2>5. CpuInv' /\ ApartInv'
    BY ZenonT(30), <2>1, <2>2, <2>4 DEF RunInv, Types, CpuInv, ApartInv
  <2>6. MakeInv'
    BY Zenon, <2>1, <2>2, MakeSame DEF RunInv, Types
  <2> QED BY Zenon, <2>3, <2>5, <2>6 DEF RunInv
<1> QED BY Zenon, <1>1, <1>2, <1>3

\* Every step of the kernel preserves the invariant.
LEMMA RunStep == RunInv /\ [Next]_vars => RunInv'
<1> SUFFICES ASSUME RunInv, [Next]_vars PROVE RunInv'
  OBVIOUS
<1>1. ASSUME NEW c \in CPUs, Wait(c) PROVE RunInv'
  BY Zenon, <1>1, ScanStep DEF Wait, Children
<1>2. ASSUME NEW c \in CPUs, Join(c) PROVE RunInv'
  BY Zenon, <1>2, ScanStep DEF Join, ThreadsOf, Children
<1>3. ASSUME NEW c \in CPUs, KernelStep(c) PROVE RunInv'
  BY Zenon, <1>3, ProcessStep, UnmakeStep, StartStep, ExitStep DEF KernelStep
<1>4. ASSUME UNCHANGED vars PROVE RunInv'
  BY Zenon, <1>4 DEF vars, RunInv, Types, CpuInv, ApartInv, MakeInv
<1> QED BY Zenon, <1>1, <1>2, <1>3, <1>4, AllocprocStep, ProcessStep, KillStep, TimerStep, SchedulerStep
        DEF Next

-----------------------------------------------------------------------------
(* Theorems *)

\* The invariant of the scheduler holds in every run.
THEOREM SchedulerCorrect == Spec => []RunInv
<1> QED BY RunInit, RunStep, PTL DEF Spec

\* No process is ever on two CPUs, and a CPU that is on the stack of one that is
\* not RUNNING has ptable.lock (sched(), scheduler() and exit() in proc.c).
THEOREM ProcessRunsOnce == Spec => []RunsOnce
<1>1. RunInv => RunsOnce
  BY Zenon DEF RunInv, CpuInv, ApartInv, RunsOnce
<1> QED BY <1>1, SchedulerCorrect, PTL

\* Allocproc() and fork() write the state of a slot without ptable.lock on their
\* error paths: that slot is an EMBRYO that no CPU runs and nobody else makes.
THEOREM UnlockedWritesAreSafe ==
    Spec => [](\A c \in CPUs : mode[c] = "proc" /\ pc[cur[c]] \in {"nokstack", "nopgdir"} =>
                  /\ state[np[cur[c]]] = "EMBRYO"
                  /\ \A d \in CPUs : mode[d] = "proc" => cur[d] # np[cur[c]])
<1>1. RunInv => \A c \in CPUs : mode[c] = "proc" /\ pc[cur[c]] \in {"nokstack", "nopgdir"} =>
                  /\ state[np[cur[c]]] = "EMBRYO"
                  /\ \A d \in CPUs : mode[d] = "proc" => cur[d] # np[cur[c]]
  BY Zenon, MakerApart DEF Making
<1> QED BY <1>1, SchedulerCorrect, PTL

-----------------------------------------------------------------------------
(* The tree and the EMBRYOs, for all user programs *)

Alive == {"SLEEPING", "RUNNABLE", "RUNNING"}

\* A process of the tree: init, or one that has a parent.
InTree(s) == s = initproc \/ parent[s] # Nil

\* Where a process is, by its state.
StateInv ==
    \A s \in Slots :
        /\ state[s] \in {"UNUSED", "EMBRYO"} => pc[s] \in {"user", "exit"}
        /\ state[s] = "ZOMBIE" => pc[s] = "exit"
        /\ state[s] = "SLEEPING" => pc[s] \in {"wait", "join"} /\ chan[s] = s
        /\ (pc[s] = "exec") <=> (newdir[s] # Nil)

\* The tree and the pages its members must have.
TreeInv ==
    /\ parent[initproc] = Nil
    /\ state[initproc] \in Alive
    /\ \A s \in Slots :
        /\ HasVM(s) <=> InTree(s)
        /\ parent[s] # Nil => state[parent[s]] \in Alive
        /\ InTree(s) => kstack[s] # Nil /\ pgdir[s] # Nil
        /\ state[s] = "UNUSED" => kstack[s] = Nil

\* How far the maker of an EMBRYO has got with it.
EmbryoInv ==
    \A s \in Slots :
        /\ pc[s] \in {"fork", "clone", "nokstack"} => kstack[np[s]] = Nil /\ parent[np[s]] = Nil
        /\ pc[s] \in {"copy", "share", "nopgdir"} => kstack[np[s]] # Nil /\ parent[np[s]] = Nil
        /\ pc[s] = "start" => parent[np[s]] # Nil

BaseInv == RunInv /\ TypeOK /\ StateInv /\ TreeInv /\ EmbryoInv

\* What kalloc() returns is a page of the free list.
LEMMA KallocIn ==
    ASSUME TypeOK, free # {}
    PROVE  kalloc \in free /\ kalloc \in Pages /\ kalloc # Nil
<1>1. free \in SUBSET Nat /\ free \subseteq Pages
  BY ProcAssumption DEF TypeOK, Pages
<1>2. kalloc \in free
  BY Zenon, <1>1, MinIn DEF kalloc
<1> QED BY <1>1, <1>2, ProcAssumption DEF Pages, Nil

\* Slot and page numbers are not null.
LEMMA NotNil == Nil \notin Slots /\ Nil \notin Pages /\ initproc \in Slots /\ initproc # Nil
BY ProcAssumption DEF Nil, Slots, Pages, initproc

\* A process that a CPU runs is in the tree.
LEMMA Running ==
    ASSUME BaseInv, NEW c \in CPUs, mode[c] = "proc", state[cur[c]] = "RUNNING"
    PROVE  /\ cur[c] \in Slots /\ InTree(cur[c])
           /\ kstack[cur[c]] # Nil /\ pgdir[cur[c]] # Nil
           /\ kstack[cur[c]] \in Pages /\ pgdir[cur[c]] \in Pages
<1>1. cur[c] \in Slots
  BY Zenon DEF BaseInv, RunInv, CpuInv
<1>2. InTree(cur[c])
  BY Zenon, <1>1 DEF BaseInv, TreeInv, HasVM
<1> QED BY ZenonT(30), <1>1, <1>2 DEF BaseInv, TreeInv, TypeOK

\* The slot a running process makes is a third party to everybody else.
LEMMA Maker ==
    ASSUME BaseInv, NEW c \in CPUs, mode[c] = "proc", state[cur[c]] = "RUNNING",
           pc[cur[c]] \in Making
    PROVE  /\ np[cur[c]] \in Slots /\ np[cur[c]] # cur[c] /\ np[cur[c]] # initproc
           /\ state[np[cur[c]]] = "EMBRYO" /\ pc[np[cur[c]]] \in {"user", "exit"}
           /\ newdir[np[cur[c]]] = Nil
           /\ \A t \in Slots : pc[t] \in Making =>
                np[t] \in Slots /\ np[t] # cur[c] /\ (t # cur[c] => np[t] # np[cur[c]])
           /\ \A t \in Slots : parent[t] # np[cur[c]]
<1>1. /\ cur[c] \in Slots /\ np[cur[c]] \in Slots /\ np[cur[c]] # cur[c]
      /\ state[np[cur[c]]] = "EMBRYO"
  BY Zenon, MakerApart DEF BaseInv
<1>2. np[cur[c]] # initproc
  BY Zenon, <1>1 DEF BaseInv, TreeInv, Alive
<1>3. pc[np[cur[c]]] \in {"user", "exit"} /\ newdir[np[cur[c]]] = Nil
  BY Zenon, <1>1 DEF BaseInv, StateInv
<1>4. \A t \in Slots : pc[t] \in Making =>
         np[t] \in Slots /\ np[t] # cur[c] /\ (t # cur[c] => np[t] # np[cur[c]])
  BY Zenon, <1>1 DEF BaseInv, RunInv, MakeInv
<1>5. \A t \in Slots : parent[t] # np[cur[c]]
  BY Zenon, <1>1, NotNil DEF BaseInv, TreeInv, Alive
<1> QED BY Zenon, <1>1, <1>2, <1>3, <1>4, <1>5

\* Steps that leave the tree alone and change states only among the Alive ones.
LEMMA TreeSame ==
    ASSUME BaseInv, UNCHANGED <<parent, kstack, pgdir>>,
           \A s \in Slots : (state'[s] \in Alive) <=> (state[s] \in Alive),
           \A s \in Slots : state[s] \notin Alive => state'[s] = state[s]
    PROVE  TreeInv'
<1>1. \A s \in Slots : HasVM(s)' <=> HasVM(s)
  BY Zenon DEF HasVM, Alive
<1>2. \A s \in Slots : InTree(s)' <=> InTree(s)
  BY Zenon DEF InTree
<1>3. \A s \in Slots : parent[s] # Nil => parent[s] \in Slots
  BY Zenon DEF BaseInv, TypeOK
<1>4. \A s \in Slots : state'[s] = "UNUSED" => state[s] = "UNUSED"
  BY Zenon DEF Alive
<1> QED BY Zenon, <1>1, <1>2, <1>3, <1>4, NotNil DEF BaseInv, TreeInv

\* Steps that do not touch a slot that is being made.
LEMMA EmbryoSame ==
    ASSUME BaseInv,
           \A s \in Slots : pc'[s] \in Making =>
              /\ pc'[s] = pc[s] /\ np'[s] = np[s]
              /\ (kstack'[np[s]] = Nil) <=> (kstack[np[s]] = Nil)
              /\ (parent'[np[s]] = Nil) <=> (parent[np[s]] = Nil)
    PROVE  EmbryoInv'
BY DEF BaseInv, EmbryoInv, Making

\* userinit()
LEMMA BaseInit == Init => BaseInv
<1> SUFFICES ASSUME Init PROVE BaseInv
  OBVIOUS
<1>1. RunInv
  BY Zenon, RunInit
<1>2. TypeOK
  BY ProcAssumption, NotNil DEF Init, TypeOK, States, PCs, Slots, Pages, Nil
<1>3. StateInv
  BY Zenon DEF Init, StateInv
<1>4. TreeInv
  BY ProcAssumption, NotNil DEF Init, TreeInv, HasVM, InTree, Alive, Nil
<1>5. EmbryoInv
  BY Zenon DEF Init, EmbryoInv
<1> QED BY Zenon, <1>1, <1>2, <1>3, <1>4, <1>5 DEF BaseInv

\* Steps of a process in the kernel or into it that change no state.
LEMMA BaseLocal ==
    ASSUME BaseInv, RunInv', NEW c \in CPUs,
           EnterExit(c) \/ KilledTrap(c) \/ Ret(c) \/ ExecBuild(c) \/ ExecFinish(c)
    PROVE  BaseInv'
<1>0. PICK p : p = cur[c]
  OBVIOUS
<1>1. /\ mode[c] = "proc" /\ p \in Slots /\ state[p] = "RUNNING"
      /\ pc[p] \in {"user", "ret", "exec"} /\ UNCHANGED <<state, np, parent, kstack, chan, pid>>
      /\ \E l \in {"user", "ret", "exit", "exec"} : pc' = [pc EXCEPT ![p] = l]
  BY Zenon, <1>0 DEF EnterExit, KilledTrap, Ret, ExecBuild, ExecFinish, Syscall, At, BaseInv, RunInv, CpuInv,
              table, memory
<1>2. InTree(p) /\ pgdir[p] # Nil /\ pgdir[p] \in Pages
  BY Zenon, <1>0, <1>1, Running
<1>3. /\ \/ UNCHANGED newdir /\ pc'[p] # "exec" /\ pc[p] # "exec"
         \/ newdir' = [newdir EXCEPT ![p] = kalloc] /\ pc'[p] = "exec" /\ free # {}
         \/ newdir' = [newdir EXCEPT ![p] = Nil] /\ pc'[p] = "ret" /\ pc[p] = "exec"
  BY ZenonT(30), <1>0, <1>1 DEF EnterExit, KilledTrap, Ret, ExecBuild, ExecFinish, Syscall, At, BaseInv, TypeOK
<1>4. /\ pc' \in [Slots -> PCs] /\ pc'[p] \in {"user", "ret", "exit", "exec"}
      /\ \A s \in Slots \ {p} : pc'[s] = pc[s]
  <2>1. PICK l \in {"user", "ret", "exit", "exec"} : pc' = [pc EXCEPT ![p] = l]
    BY Zenon, <1>1
  <2>2. l \in PCs /\ pc \in [Slots -> PCs]
    BY Zenon DEF BaseInv, TypeOK, PCs
  <2> QED BY Zenon, <1>1, <2>1, <2>2
<1>5. newdir' \in [Slots -> Pages \cup {Nil}] /\ StateInv'
  <2>1. newdir \in [Slots -> Pages \cup {Nil}] /\ (free # {} => kalloc \in Pages /\ kalloc # Nil)
    BY Zenon, KallocIn DEF BaseInv, TypeOK
  <2>2. /\ newdir' \in [Slots -> Pages \cup {Nil}]
        /\ \A s \in Slots \ {p} : newdir'[s] = newdir[s]
    BY Zenon, <1>1, <1>3, <2>1
  <2>3. (pc'[p] = "exec") <=> (newdir'[p] # Nil)
    BY Zenon, <1>1, <1>3, <2>1 DEF BaseInv, StateInv
  <2> QED BY ZenonT(30), <1>1, <1>4, <2>2, <2>3 DEF BaseInv, StateInv
<1>6. EmbryoInv'
  BY Zenon, <1>1, <1>4, EmbryoSame DEF Making
<1>7. /\ killed' \in [Slots -> BOOLEAN] /\ free' \subseteq Pages /\ nextpid' = nextpid
      /\ pgdir' = pgdir \/ (pgdir' = [pgdir EXCEPT ![p] = newdir[p]] /\ pc[p] = "exec")
  <2>1. CASE EnterExit(c)
    BY Zenon, <2>1 DEF EnterExit, BaseInv, TypeOK, memory
  <2>2. CASE KilledTrap(c) \/ Ret(c)
    BY Zenon, <2>2 DEF KilledTrap, Ret, BaseInv, TypeOK, table, memory
  <2>3. CASE ExecBuild(c)
    BY Zenon, <2>3 DEF ExecBuild, BaseInv, TypeOK, table
  <2>4. CASE ExecFinish(c)
    <3>1. newdir[p] # Nil /\ newdir[p] \in Pages
      BY Zenon, <1>0, <1>1, <2>4 DEF ExecFinish, At, BaseInv, StateInv, TypeOK
    <3> QED BY Zenon, <1>0, <1>2, <2>4, <3>1 DEF ExecFinish, FreedByExec, At, BaseInv, TypeOK, table
  <2> QED BY Zenon, <2>1, <2>2, <2>3, <2>4
<1>8. pgdir' \in [Slots -> Pages \cup {Nil}] /\ \A s \in Slots : pgdir[s] # Nil => pgdir'[s] # Nil
  BY ZenonT(30), <1>1, <1>7 DEF BaseInv, StateInv, TypeOK
<1>9. TypeOK'
  BY Zenon, <1>1, <1>4, <1>5, <1>7, <1>8 DEF BaseInv, TypeOK, RunInv, Types
<1>10. TreeInv'
  BY ZenonT(30), <1>1, <1>8 DEF BaseInv, TreeInv, HasVM, InTree
<1> QED BY Zenon, <1>5, <1>6, <1>9, <1>10 DEF BaseInv

\* scheduler(), sched(), yield() and the return from swtch().
LEMMA BaseSched ==
    ASSUME BaseInv, RunInv', NEW c \in CPUs,
           Timer(c) \/ Sched(c) \/ SchedPick(c) \/ SchedPassEnd(c) \/ Resume(c)
    PROVE  BaseInv'
<1>1. /\ UNCHANGED <<np, parent, kstack, pgdir, chan, pid, newdir, killed, free, nextpid>>
      /\ state \in [Slots -> States] /\ pc \in [Slots -> PCs]
  BY Zenon DEF Timer, Sched, SchedPick, SchedPassEnd, Resume, table, memory, locals, BaseInv, TypeOK
<1>2. \A s \in Slots :
         \/ state'[s] = state[s] /\ pc'[s] = pc[s]
         \/ state[s] = "RUNNING" /\ state'[s] = "RUNNABLE" /\ pc'[s] = pc[s]
         \/ state[s] = "RUNNING" /\ state'[s] = "RUNNABLE" /\ pc[s] = "user" /\ pc'[s] = "ret"
         \/ state[s] = "RUNNABLE" /\ state'[s] = "RUNNING" /\ pc'[s] = pc[s]
  <2>1. CASE Timer(c)
    BY Zenon, <1>1, <2>1 DEF Timer, BaseInv, RunInv, CpuInv
  <2>2. CASE SchedPick(c)
    <3>1. PICK s : s = Min(Ready(c))
      OBVIOUS
    <3>2. Ready(c) \in SUBSET Nat /\ Ready(c) # {}
      BY <2>2, ProcAssumption DEF SchedPick, Ready, Slots
    <3>3. s \in Slots /\ state[s] = "RUNNABLE"
      <4>1. s \in Ready(c)
        BY Zenon, <3>1, <3>2, MinIn
      <4> QED BY Zenon, <4>1 DEF Ready
    <3>4. state' = [state EXCEPT ![s] = "RUNNING"] /\ pc' = pc
      BY Zenon, <2>2, <3>1 DEF SchedPick, locals
    <3> QED BY Zenon, <1>1, <3>3, <3>4
  <2>3. CASE Sched(c) \/ SchedPassEnd(c) \/ Resume(c)
    BY Zenon, <2>3 DEF Sched, SchedPassEnd, Resume, table, locals
  <2> QED BY Zenon, <2>1, <2>2, <2>3
<1>3. StateInv'
  BY ZenonT(30), <1>1, <1>2 DEF BaseInv, StateInv
<1>4. TreeInv'
  BY Zenon, <1>1, <1>2, TreeSame DEF Alive
<1>5. EmbryoInv'
  BY Zenon, <1>1, <1>2, EmbryoSame DEF Making
<1>6. TypeOK'
  BY Zenon, <1>1 DEF BaseInv, TypeOK, RunInv, Types
<1> QED BY Zenon, <1>3, <1>4, <1>5, <1>6 DEF BaseInv

\* kill() wakes at most its target.
LEMMA BaseKill ==
    ASSUME BaseInv, RunInv', NEW c \in CPUs, NEW k \in KillPids, Kill(c, k)
    PROVE  BaseInv'
<1>0. PICK p, t : p = cur[c] /\ t = Min({s \in Slots : pid[s] = k})
  OBVIOUS
<1>1. /\ UNCHANGED <<np, parent, kstack, pgdir, chan, pid, newdir, free, nextpid>>
      /\ state \in [Slots -> States] /\ pc \in [Slots -> PCs] /\ killed \in [Slots -> BOOLEAN]
      /\ p \in Slots /\ state[p] = "RUNNING" /\ pc[p] = "user" /\ pc' = [pc EXCEPT ![p] = "ret"]
  BY Zenon, <1>0 DEF Kill, Syscall, At, memory, BaseInv, TypeOK, RunInv, CpuInv
<1>2. \A s \in Slots : \/ state'[s] = state[s]
                       \/ state[s] = "SLEEPING" /\ state'[s] = "RUNNABLE"
  BY ZenonT(30), <1>1 DEF Kill, StateAfterKill
<1>3. killed' \in [Slots -> BOOLEAN]
  BY Zenon, <1>1 DEF Kill
<1>4. pc'[p] = "ret" /\ \A s \in Slots \ {p} : pc'[s] = pc[s]
  BY Zenon, <1>1
<1>5. StateInv'
  <2>1. state'[p] = "RUNNING" /\ pc'[p] = "ret" /\ newdir'[p] = Nil
    BY Zenon, <1>1, <1>2, <1>4 DEF BaseInv, StateInv
  <2> QED BY ZenonT(30), <1>1, <1>2, <1>4, <2>1 DEF BaseInv, StateInv
<1>6. TreeInv'
  BY Zenon, <1>1, <1>2, TreeSame DEF Alive
<1>7. EmbryoInv'
  BY Zenon, <1>1, <1>4, EmbryoSame DEF Making
<1>8. TypeOK'
  BY Zenon, <1>1, <1>3 DEF BaseInv, TypeOK, RunInv, Types
<1> QED BY Zenon, <1>5, <1>6, <1>7, <1>8 DEF BaseInv

\* exit() leaves its children to init, which lives.
LEMMA BaseExit ==
    ASSUME BaseInv, RunInv', NEW c \in CPUs, ExitLocked(c)
    PROVE  BaseInv'
<1>0. PICK p : p = cur[c]
  OBVIOUS
<1>1. /\ UNCHANGED <<np, pc, kstack, pgdir, chan, pid, killed, newdir, free, nextpid>>
      /\ p \in Slots /\ p # initproc /\ state[p] = "RUNNING" /\ pc[p] = "exit"
      /\ state' = [wakeup1(state, ExitWakes(p)) EXCEPT ![p] = "ZOMBIE"]
      /\ parent' = [s \in Slots |-> IF parent[s] = p THEN initproc ELSE parent[s]]
  BY Zenon, <1>0 DEF ExitLocked, At, memory, locals, BaseInv, RunInv, CpuInv, Reparent
<1>2. /\ state'[p] = "ZOMBIE"
      /\ \A s \in Slots \ {p} : \/ state'[s] = state[s]
                                \/ state[s] = "SLEEPING" /\ state'[s] = "RUNNABLE"
  BY Zenon, <1>1 DEF wakeup1
<1>3. parent' \in [Slots -> Slots \cup {Nil}]
      /\ \A s \in Slots : (parent'[s] = Nil) <=> (parent[s] = Nil)
  BY ZenonT(30), <1>1, NotNil DEF BaseInv, TypeOK
<1>4. StateInv'
  BY ZenonT(30), <1>1, <1>2 DEF BaseInv, StateInv
<1>5. \A s \in Slots : (HasVM(s)' <=> HasVM(s)) /\ (InTree(s)' <=> InTree(s))
  BY Zenon, <1>1, <1>2, <1>3 DEF HasVM, InTree
<1>6. ASSUME NEW s \in Slots, parent'[s] # Nil PROVE state'[parent'[s]] \in Alive
  <2>1. parent'[s] \in Slots \ {p} /\ state[parent'[s]] \in Alive
    BY ZenonT(30), <1>1, <1>3, <1>6, NotNil DEF BaseInv, TreeInv, TypeOK
  <2> QED BY Zenon, <1>2, <2>1 DEF Alive
<1>7. parent'[initproc] = Nil /\ state'[initproc] \in Alive
  BY Zenon, <1>1, <1>2, <1>3, NotNil DEF BaseInv, TreeInv, Alive
<1>8. TreeInv'
  BY ZenonT(30), <1>1, <1>2, <1>5, <1>6, <1>7 DEF BaseInv, TreeInv
<1>9. EmbryoInv'
  <2>1. \A s \in Slots : pc[s] \in Making => np[s] \in Slots
    BY Zenon DEF BaseInv, RunInv, MakeInv
  <2> QED BY ZenonT(30), <1>1, <1>3, <2>1, EmbryoSame
<1>10. TypeOK'
  BY ZenonT(30), <1>1, <1>3 DEF BaseInv, TypeOK, RunInv, Types
<1> QED BY Zenon, <1>4, <1>8, <1>9, <1>10 DEF BaseInv

\* A zombie that wait() or join() finds: its pages, and that it has no children.
LEMMA ZombieFacts ==
    ASSUME BaseInv, NEW z \in Slots, state[z] = "ZOMBIE"
    PROVE  /\ z # initproc /\ InTree(z) /\ kstack[z] \in Pages /\ pgdir[z] \in Pages
           /\ kstack[z] # Nil /\ pgdir[z] # Nil /\ pc[z] = "exit" /\ newdir[z] = Nil
           /\ \A s \in Slots : parent[s] # z
           /\ \A s \in Slots : pc[s] \in Making => np[s] \in Slots /\ np[s] # z
<1>1. z # initproc /\ InTree(z) /\ pc[z] = "exit" /\ newdir[z] = Nil
  BY Zenon DEF BaseInv, TreeInv, HasVM, StateInv, Alive
<1>2. kstack[z] \in Pages /\ pgdir[z] \in Pages /\ kstack[z] # Nil /\ pgdir[z] # Nil
  BY Zenon, <1>1 DEF BaseInv, TreeInv, TypeOK
<1>3. \A s \in Slots : parent[s] # z
  BY Zenon, NotNil DEF BaseInv, TreeInv, Alive
<1>4. \A s \in Slots : pc[s] \in Making => np[s] \in Slots /\ np[s] # z
  BY Zenon DEF BaseInv, RunInv, MakeInv
<1> QED BY ZenonT(30), <1>1, <1>2, <1>3, <1>4

\* The first zombie of a set of children.
LEMMA FirstZombie ==
    ASSUME NEW kids \in SUBSET Slots, Zombies(kids) # {}
    PROVE  /\ Min(Zombies(kids)) \in kids /\ Min(Zombies(kids)) \in Slots
           /\ state[Min(Zombies(kids))] = "ZOMBIE"
<1>1. Slots \subseteq Nat
  BY ProcAssumption DEF Slots
<1>2. Zombies(kids) \subseteq kids
  BY Zenon DEF Zombies
<1>3. Min(Zombies(kids)) \in Zombies(kids)
  BY Zenon, <1>1, <1>2, MinIn
<1> QED BY Zenon, <1>3 DEF Zombies

\* wait() and join(), whichever children they look at and whichever pages of a
\* zombie they give back.
LEMMA BaseScan ==
    ASSUME BaseInv, RunInv', NEW c \in CPUs, NEW call \in {"wait", "join"}, NEW kids \in SUBSET Slots,
           NEW freed, \A z \in Slots : freed[z] \subseteq {pgdir[z]},
           Scanning(c, call), Scan(c, kids, call, freed),
           UNCHANGED <<pgdir, nextpid, mode, cur, np, newdir>>
    PROVE  BaseInv'
<1>0. PICK p, z : p = cur[c] /\ z = Min(Zombies(kids))
  OBVIOUS
<1>1. /\ mode[c] = "proc" /\ p \in Slots /\ state[p] = "RUNNING" /\ pc[p] \in {"user", "wait", "join"}
  BY Zenon, <1>0 DEF Scanning, Syscall, At, BaseInv, RunInv, CpuInv
<1>2. /\ state \in [Slots -> States] /\ pc \in [Slots -> PCs] /\ killed \in [Slots -> BOOLEAN]
      /\ parent \in [Slots -> Slots \cup {Nil}] /\ chan \in [Slots -> Slots \cup {Nil}]
      /\ kstack \in [Slots -> Pages \cup {Nil}] /\ pid \in [Slots -> Nat] /\ free \subseteq Pages
  BY Zenon DEF BaseInv, TypeOK
<1>3. \E l \in {"ret", call} : pc' = [pc EXCEPT ![p] = l]
  BY Zenon, <1>0 DEF Scan
<1>4. pc'[p] \in {"ret", call} /\ \A s \in Slots \ {p} : pc'[s] = pc[s]
  BY ZenonT(30), <1>1, <1>2, <1>3
<1>5. chan' \in [Slots -> Slots \cup {Nil}] /\ \A s \in Slots \ {p} : chan'[s] = chan[s]
  <2>1. PICK x : x \in Slots \cup {Nil} /\ chan' = [chan EXCEPT ![p] = x]
    BY Zenon, <1>0, <1>1 DEF Scan
  <2>2. \A s \in Slots \ {p} : chan'[s] = chan[s]
    BY Zenon, <1>2, <2>1
  <2> QED BY Zenon, <1>2, <2>1, <2>2
<1>6. CASE /\ Zombies(kids) # {} /\ free' = free \cup {kstack[z]} \cup freed[z]
           /\ kstack' = [kstack EXCEPT ![z] = Nil] /\ state' = [state EXCEPT ![z] = "UNUSED"]
           /\ pid' = [pid EXCEPT ![z] = 0] /\ parent' = [parent EXCEPT ![z] = Nil]
           /\ killed' = [killed EXCEPT ![z] = FALSE]
  <2>1. z \in Slots /\ state[z] = "ZOMBIE"
    BY Zenon, <1>0, <1>6, FirstZombie
  <2>2. /\ z # initproc /\ InTree(z) /\ kstack[z] \in Pages /\ pgdir[z] \in Pages
        /\ pc[z] = "exit" /\ newdir[z] = Nil /\ z # p
        /\ \A s \in Slots : parent[s] # z
        /\ \A s \in Slots : pc[s] \in Making => np[s] \in Slots /\ np[s] # z
    BY Zenon, <1>1, <2>1, ZombieFacts
  <2>3. TypeOK'
    <3>1. free' \subseteq Pages
      BY ZenonT(30), <1>2, <1>6, <2>1, <2>2
    <3>2. /\ kstack' \in [Slots -> Pages \cup {Nil}] /\ pid' \in [Slots -> Nat]
          /\ parent' \in [Slots -> Slots \cup {Nil}]
      BY Zenon, <1>2, <1>6, <2>1
    <3>3. killed' \in [Slots -> BOOLEAN]
      BY Zenon, <1>2, <1>6, <2>1
    <3> QED BY ZenonT(30), <1>5, <3>1, <3>2, <3>3 DEF BaseInv, TypeOK, RunInv, Types
  <2>4. StateInv'
    <3>1. \A s \in Slots \ {p, z} : /\ state'[s] = state[s] /\ pc'[s] = pc[s]
                                    /\ chan'[s] = chan[s] /\ newdir'[s] = newdir[s]
      BY Zenon, <1>2, <1>4, <1>5, <1>6
    <3>2. state'[p] = "RUNNING" /\ pc'[p] \in {"ret", "wait", "join"} /\ newdir'[p] = Nil
      BY Zenon, <1>1, <1>2, <1>4, <1>6, <2>2 DEF BaseInv, StateInv
    <3>3. state'[z] = "UNUSED" /\ pc'[z] = "exit" /\ newdir'[z] = Nil
      BY Zenon, <1>2, <1>4, <1>6, <2>1, <2>2
    <3> QED BY ZenonT(30), <3>1, <3>2, <3>3 DEF BaseInv, StateInv
  <2>5. \A s \in Slots \ {z} : /\ state'[s] = state[s] /\ parent'[s] = parent[s] /\ kstack'[s] = kstack[s]
                               /\ (HasVM(s)' <=> HasVM(s)) /\ (InTree(s)' <=> InTree(s))
    BY Zenon, <1>2, <1>6, <2>1 DEF HasVM, InTree
  <2>6. state'[z] = "UNUSED" /\ parent'[z] = Nil /\ kstack'[z] = Nil /\ ~HasVM(z)' /\ ~InTree(z)'
    BY Zenon, <1>2, <1>6, <2>1, <2>2 DEF HasVM, InTree
  <2>7. \A s \in Slots : parent[s] # Nil => parent[s] \in Slots \ {z}
    BY Zenon, <1>2, <2>2
  <2>8. TreeInv'
    BY ZenonT(30), <2>2, <2>5, <2>6, <2>7, NotNil DEF BaseInv, TreeInv
  <2>9. EmbryoInv'
    BY ZenonT(30), <1>1, <1>4, <2>2, <2>5, EmbryoSame DEF Making
  <2> QED BY Zenon, <2>3, <2>4, <2>8, <2>9 DEF BaseInv
<1>7. CASE /\ UNCHANGED <<free, kstack, pid, parent, killed>>
           /\ \/ UNCHANGED state /\ pc' = [pc EXCEPT ![p] = "ret"]
              \/ /\ state' = [state EXCEPT ![p] = "SLEEPING"] /\ pc' = [pc EXCEPT ![p] = call]
                 /\ chan' = [chan EXCEPT ![p] = p]
  <2>1. TypeOK'
    BY Zenon, <1>2, <1>5, <1>7 DEF BaseInv, TypeOK, RunInv, Types
  <2>2. \A s \in Slots : \/ state'[s] = state[s]
                         \/ s = p /\ state'[s] = "SLEEPING" /\ pc'[s] = call /\ chan'[s] = s
    <3>1. CASE UNCHANGED state
      BY Zenon, <3>1
    <3>2. CASE /\ state' = [state EXCEPT ![p] = "SLEEPING"] /\ pc' = [pc EXCEPT ![p] = call]
               /\ chan' = [chan EXCEPT ![p] = p]
      BY Zenon, <1>1, <1>2, <3>2
    <3> QED BY Zenon, <1>7, <3>1, <3>2
  <2>3. StateInv'
    <3>1. \A s \in Slots \ {p} : /\ state'[s] = state[s] /\ pc'[s] = pc[s]
                                 /\ chan'[s] = chan[s] /\ newdir'[s] = newdir[s]
      BY Zenon, <1>4, <1>5, <2>2
    <3>2. /\ pc'[p] \in {"ret", "wait", "join"} /\ newdir'[p] = Nil
          /\ \/ state'[p] = "RUNNING"
             \/ state'[p] = "SLEEPING" /\ pc'[p] \in {"wait", "join"} /\ chan'[p] = p
      <4>1. newdir[p] = Nil /\ newdir' = newdir
        BY Zenon, <1>1 DEF BaseInv, StateInv
      <4>2. pc'[p] \in {"ret", "wait", "join"} /\ call \in {"wait", "join"}
        BY Zenon, <1>4
      <4> QED BY Zenon, <1>1, <2>2, <4>1, <4>2
    <3> QED BY ZenonT(30), <3>1, <3>2 DEF BaseInv, StateInv
  <2>4. TreeInv'
    BY ZenonT(30), <1>1, <1>7, <2>2, TreeSame DEF Alive
  <2>5. EmbryoInv'
    BY Zenon, <1>1, <1>4, <1>7, EmbryoSame DEF Making
  <2> QED BY Zenon, <2>1, <2>3, <2>4, <2>5 DEF BaseInv
<1> QED BY Zenon, <1>0, <1>6, <1>7 DEF Scan

\* allocproc() takes a slot that has neither a parent nor a stack.
LEMMA BaseAllocproc ==
    ASSUME BaseInv, RunInv', NEW c \in CPUs, NEW call \in {"fork", "clone"}, Allocproc(c, call)
    PROVE  BaseInv'
<1>0. PICK p, s : p = cur[c] /\ s = Min({t \in Slots : state[t] = "UNUSED"})
  OBVIOUS
<1>1. /\ UNCHANGED <<parent, kstack, pgdir, chan, killed, newdir, free>>
      /\ p \in Slots /\ state[p] = "RUNNING" /\ pc[p] = "user"
      /\ state \in [Slots -> States] /\ pc \in [Slots -> PCs] /\ np \in [Slots -> Slots \cup {Nil}]
      /\ pid \in [Slots -> Nat] /\ nextpid \in Nat
  BY Zenon, <1>0 DEF Allocproc, Syscall, At, memory, BaseInv, TypeOK, RunInv, CpuInv
<1>2. CASE /\ {t \in Slots : state[t] = "UNUSED"} # {}
           /\ state' = [state EXCEPT ![s] = "EMBRYO"] /\ pid' = [pid EXCEPT ![s] = nextpid]
           /\ nextpid' = nextpid + 1 /\ np' = [np EXCEPT ![p] = s] /\ pc' = [pc EXCEPT ![p] = call]
  <2>1. s \in Slots /\ state[s] = "UNUSED"
    <3>1. {t \in Slots : state[t] = "UNUSED"} \in SUBSET Nat
      BY DEF Slots
    <3> QED BY Zenon, <1>0, <1>2, <3>1, MinIn
  <2>2. /\ s # p /\ kstack[s] = Nil /\ parent[s] = Nil /\ s # initproc /\ pc[s] \in {"user", "exit"}
        /\ \A t \in Slots : parent[t] # s
        /\ \A t \in Slots : pc[t] \in Making => np[t] # s
    <3>1. s # p /\ kstack[s] = Nil /\ s # initproc /\ ~HasVM(s) /\ pc[s] \in {"user", "exit"}
      BY Zenon, <1>1, <2>1 DEF BaseInv, TreeInv, StateInv, Alive, HasVM
    <3>2. parent[s] = Nil
      BY Zenon, <2>1, <3>1 DEF BaseInv, TreeInv, InTree
    <3>3. \A t \in Slots : parent[t] # s
      BY Zenon, <2>1, NotNil DEF BaseInv, TreeInv, Alive
    <3>4. \A t \in Slots : pc[t] \in Making => np[t] # s
      BY ZenonT(30), <2>1 DEF BaseInv, RunInv, MakeInv
    <3> QED BY Zenon, <3>1, <3>2, <3>3, <3>4
  <2>3. TypeOK'
    <3>1. nextpid' \in Nat
      BY <1>1, <1>2
    <3>2. pid' \in [Slots -> Nat]
      BY Zenon, <1>1, <1>2, <2>1
    <3> QED BY Zenon, <1>1, <3>1, <3>2 DEF BaseInv, TypeOK, RunInv, Types
  <2>4. /\ state'[s] = "EMBRYO" /\ pc'[p] = call /\ np'[p] = s /\ pc'[s] = pc[s]
        /\ \A t \in Slots \ {s} : state'[t] = state[t]
        /\ \A t \in Slots \ {p} : pc'[t] = pc[t] /\ np'[t] = np[t]
    BY Zenon, <1>1, <1>2, <2>1, <2>2
  <2>5. StateInv'
    <3>1. \A t \in Slots \ {p, s} : /\ state'[t] = state[t] /\ pc'[t] = pc[t]
                                    /\ chan'[t] = chan[t] /\ newdir'[t] = newdir[t]
      BY Zenon, <1>1, <2>4
    <3>2. state'[p] = "RUNNING" /\ pc'[p] \in {"fork", "clone"} /\ newdir'[p] = Nil
      BY Zenon, <1>1, <2>2, <2>4 DEF BaseInv, StateInv
    <3>3. state'[s] = "EMBRYO" /\ pc'[s] \in {"user", "exit"} /\ newdir'[s] = Nil
      BY Zenon, <1>1, <2>1, <2>2, <2>4 DEF BaseInv, StateInv
    <3> QED BY ZenonT(30), <3>1, <3>2, <3>3 DEF BaseInv, StateInv
  <2>6. \A t \in Slots : (HasVM(t)' <=> HasVM(t)) /\ (InTree(t)' <=> InTree(t))
    BY ZenonT(30), <1>1, <2>1, <2>2, <2>4 DEF HasVM, InTree
  <2>7. TreeInv'
    <3>1. state'[initproc] = state[initproc] /\ \A t \in Slots : state'[t] = "UNUSED" => state[t] = "UNUSED"
      BY Zenon, <2>2, <2>4, NotNil
    <3>2. \A t \in Slots : parent[t] # Nil => parent[t] \in Slots /\ state'[parent[t]] = state[parent[t]]
      BY Zenon, <2>2, <2>4 DEF BaseInv, TypeOK
    <3> QED BY ZenonT(30), <1>1, <2>6, <3>1, <3>2 DEF BaseInv, TreeInv
  <2>8. EmbryoInv'
    BY ZenonT(30), <1>1, <2>2, <2>4 DEF BaseInv, EmbryoInv
  <2> QED BY Zenon, <2>3, <2>5, <2>7, <2>8 DEF BaseInv
<1>3. CASE pc' = [pc EXCEPT ![p] = "ret"] /\ UNCHANGED <<state, pid, nextpid, np>>
  <2>1. pc'[p] = "ret" /\ \A t \in Slots \ {p} : pc'[t] = pc[t]
    BY Zenon, <1>1, <1>3
  <2>2. TypeOK'
    BY Zenon, <1>1, <1>3 DEF BaseInv, TypeOK, RunInv, Types
  <2>3. StateInv'
    BY Zenon, <1>1, <1>3, <2>1 DEF BaseInv, StateInv
  <2>4. TreeInv'
    BY Zenon, <1>1, <1>3, TreeSame
  <2>5. EmbryoInv'
    BY Zenon, <1>1, <1>3, <2>1, EmbryoSame DEF Making
  <2> QED BY Zenon, <2>2, <2>3, <2>4, <2>5 DEF BaseInv
<1> QED BY Zenon, <1>0, <1>2, <1>3 DEF Allocproc

\* The kernel stack of the EMBRYO.
LEMMA BaseKstack ==
    ASSUME BaseInv, RunInv', NEW c \in CPUs, AllocKstack(c)
    PROVE  BaseInv'
<1>0. PICK p, s : p = cur[c] /\ s = np[p]
  OBVIOUS
<1>1. /\ UNCHANGED <<state, pid, parent, killed, chan, pgdir, nextpid, np, newdir>>
      /\ mode[c] = "proc" /\ p \in Slots /\ state[p] = "RUNNING" /\ pc[p] \in {"fork", "clone"}
      /\ pc \in [Slots -> PCs] /\ kstack \in [Slots -> Pages \cup {Nil}] /\ free \subseteq Pages
  BY Zenon, <1>0 DEF AllocKstack, At, table, BaseInv, TypeOK, RunInv, CpuInv
<1>2. /\ s \in Slots /\ s # p /\ s # initproc /\ state[s] = "EMBRYO"
      /\ \A t \in Slots : pc[t] \in Making => np[t] \in Slots /\ (t # p => np[t] # s)
  BY Zenon, <1>0, <1>1, Maker DEF Making
<1>3. kstack[s] = Nil /\ parent[s] = Nil
  BY Zenon, <1>0, <1>1 DEF BaseInv, EmbryoInv
<1>4. \/ /\ free # {} /\ kstack' = [kstack EXCEPT ![s] = kalloc] /\ free' = free \ {kalloc}
         /\ \E l \in {"copy", "share"} : pc' = [pc EXCEPT ![p] = l]
      \/ /\ kstack' = [kstack EXCEPT ![s] = Nil] /\ pc' = [pc EXCEPT ![p] = "nokstack"] /\ free' = free
  BY Zenon, <1>0 DEF AllocKstack
<1>5. /\ kstack' \in [Slots -> Pages \cup {Nil}] /\ free' \subseteq Pages
      /\ \A t \in Slots \ {s} : kstack'[t] = kstack[t]
      /\ \A t \in Slots \ {p} : pc'[t] = pc[t]
      /\ \/ kstack'[s] # Nil /\ pc'[p] \in {"copy", "share"}
         \/ kstack'[s] = Nil /\ pc'[p] = "nokstack"
  <2>1. CASE /\ free # {} /\ kstack' = [kstack EXCEPT ![s] = kalloc] /\ free' = free \ {kalloc}
             /\ \E l \in {"copy", "share"} : pc' = [pc EXCEPT ![p] = l]
    <3>1. kalloc \in Pages /\ kalloc # Nil
      BY Zenon, <2>1, KallocIn DEF BaseInv
    <3> QED BY ZenonT(30), <1>1, <1>2, <2>1, <3>1
  <2>2. CASE /\ kstack' = [kstack EXCEPT ![s] = Nil] /\ pc' = [pc EXCEPT ![p] = "nokstack"] /\ free' = free
    BY ZenonT(30), <1>1, <1>2, <2>2
  <2> QED BY Zenon, <1>4, <2>1, <2>2
<1>6. TypeOK'
  BY Zenon, <1>1, <1>5 DEF BaseInv, TypeOK, RunInv, Types
<1>7. StateInv'
  BY ZenonT(30), <1>1, <1>2, <1>5 DEF BaseInv, StateInv
<1>8. TreeInv'
  BY ZenonT(30), <1>1, <1>2, <1>3, <1>5 DEF BaseInv, TreeInv, HasVM, InTree
<1>9. EmbryoInv'
  <2>1. ASSUME NEW t \in Slots \ {p}, pc'[t] \in Making
        PROVE  /\ pc'[t] = pc[t] /\ np'[t] = np[t] /\ kstack'[np[t]] = kstack[np[t]]
               /\ parent'[np[t]] = parent[np[t]]
    BY ZenonT(30), <1>1, <1>2, <1>5, <2>1
  <2>2. /\ np'[p] = s /\ parent'[s] = Nil
        /\ \/ pc'[p] \in {"copy", "share"} /\ kstack'[s] # Nil
           \/ pc'[p] = "nokstack" /\ kstack'[s] = Nil
    BY Zenon, <1>0, <1>1, <1>3, <1>5
  <2>3. ASSUME NEW t \in Slots \ {p}
        PROVE  /\ pc'[t] \in {"fork", "clone", "nokstack"} => kstack'[np'[t]] = Nil /\ parent'[np'[t]] = Nil
               /\ pc'[t] \in {"copy", "share", "nopgdir"} => kstack'[np'[t]] # Nil /\ parent'[np'[t]] = Nil
               /\ pc'[t] = "start" => parent'[np'[t]] # Nil
    <3>1. CASE pc'[t] \in Making
      BY SMTT(30), <2>1, <3>1 DEF BaseInv, EmbryoInv
    <3>2. CASE pc'[t] \notin Making
      BY Zenon, <3>2 DEF Making
    <3> QED BY Zenon, <3>1, <3>2
  <2> QED BY ZenonT(30), <2>2, <2>3 DEF EmbryoInv
<1> QED BY ZenonT(30), <1>6, <1>7, <1>8, <1>9 DEF BaseInv

\* The error paths of allocproc() and fork(): an EMBRYO without a parent goes.
LEMMA BaseUnmake ==
    ASSUME BaseInv, RunInv', NEW c \in CPUs, NoKstack(c) \/ NoPgdir(c)
    PROVE  BaseInv'
<1>0. PICK p, s : p = cur[c] /\ s = np[p]
  OBVIOUS
<1>1. /\ UNCHANGED <<pid, parent, killed, chan, pgdir, nextpid, newdir>>
      /\ mode[c] = "proc" /\ p \in Slots /\ state[p] = "RUNNING" /\ pc[p] \in {"nokstack", "nopgdir"}
      /\ state' = [state EXCEPT ![s] = "UNUSED"] /\ np' = [np EXCEPT ![p] = Nil]
      /\ pc' = [pc EXCEPT ![p] = "ret"]
      /\ state \in [Slots -> States] /\ np \in [Slots -> Slots \cup {Nil}]
      /\ pc \in [Slots -> PCs] /\ kstack \in [Slots -> Pages \cup {Nil}] /\ free \subseteq Pages
  BY Zenon, <1>0 DEF NoKstack, NoPgdir, At, memory, BaseInv, TypeOK, RunInv, CpuInv
<1>2. /\ s \in Slots /\ s # p /\ s # initproc /\ state[s] = "EMBRYO" /\ pc[s] \in {"user", "exit"}
      /\ \A t \in Slots : pc[t] \in Making => np[t] \in Slots /\ (t # p => np[t] # s)
      /\ \A t \in Slots : parent[t] # s
  BY ZenonT(30), <1>0, <1>1, Maker DEF Making
<1>3. /\ parent[s] = Nil
      /\ \/ pc[p] = "nokstack" /\ kstack[s] = Nil
         \/ pc[p] = "nopgdir" /\ kstack[s] # Nil
  BY Zenon, <1>0, <1>1 DEF BaseInv, EmbryoInv
<1>4. \/ pc[p] = "nokstack" /\ UNCHANGED <<kstack, free>>
      \/ pc[p] = "nopgdir" /\ kstack' = [kstack EXCEPT ![s] = Nil] /\ free' = free \cup {kstack[s]}
  BY Zenon, <1>0 DEF NoKstack, NoPgdir, At, memory
<1>5. /\ kstack' \in [Slots -> Pages \cup {Nil}] /\ free' \subseteq Pages /\ kstack'[s] = Nil
      /\ \A t \in Slots \ {s} : kstack'[t] = kstack[t] /\ state'[t] = state[t]
      /\ \A t \in Slots \ {p} : pc'[t] = pc[t] /\ np'[t] = np[t]
      /\ state'[s] = "UNUSED" /\ pc'[p] = "ret"
  <2>1. /\ \A t \in Slots \ {s} : state'[t] = state[t]
        /\ \A t \in Slots \ {p} : pc'[t] = pc[t] /\ np'[t] = np[t]
        /\ state'[s] = "UNUSED" /\ pc'[p] = "ret"
    BY Zenon, <1>1, <1>2
  <2>2. CASE UNCHANGED <<kstack, free>> /\ kstack[s] = Nil
    BY Zenon, <1>1, <2>1, <2>2
  <2>3. CASE kstack' = [kstack EXCEPT ![s] = Nil] /\ free' = free \cup {kstack[s]} /\ kstack[s] # Nil
    <3>1. kstack[s] \in Pages
      BY Zenon, <1>1, <1>2, <2>3
    <3>2. free' \subseteq Pages /\ kstack' \in [Slots -> Pages \cup {Nil}]
      BY Zenon, <1>1, <2>3, <3>1
    <3>3. kstack'[s] = Nil /\ \A t \in Slots \ {s} : kstack'[t] = kstack[t]
      BY Zenon, <1>1, <1>2, <2>3
    <3> QED BY Zenon, <2>1, <3>2, <3>3
  <2> QED BY Zenon, <1>3, <1>4, <2>2, <2>3
<1>6. TypeOK'
  BY Zenon, <1>1, <1>5 DEF BaseInv, TypeOK, RunInv, Types
<1>7. StateInv'
  <2>1. \A t \in Slots \ {p, s} : /\ state'[t] = state[t] /\ pc'[t] = pc[t]
                                  /\ chan'[t] = chan[t] /\ newdir'[t] = newdir[t]
    BY Zenon, <1>1, <1>5
  <2>2. state'[p] = "RUNNING" /\ pc'[p] = "ret" /\ newdir'[p] = Nil
    BY Zenon, <1>1, <1>2, <1>5 DEF BaseInv, StateInv
  <2>3. state'[s] = "UNUSED" /\ pc'[s] \in {"user", "exit"} /\ newdir'[s] = Nil
    BY Zenon, <1>1, <1>2, <1>5 DEF BaseInv, StateInv
  <2> QED BY ZenonT(30), <2>1, <2>2, <2>3 DEF BaseInv, StateInv
<1>8. \A t \in Slots : (HasVM(t)' <=> HasVM(t)) /\ (InTree(t)' <=> InTree(t))
  BY ZenonT(30), <1>1, <1>2, <1>3, <1>5 DEF HasVM, InTree
<1>9. TreeInv'
  <2>1. state'[initproc] = state[initproc] /\ kstack'[s] = Nil /\ ~InTree(s)
    BY Zenon, <1>2, <1>3, <1>5, NotNil DEF InTree
  <2>2. \A t \in Slots : parent[t] # Nil => parent[t] \in Slots /\ state'[parent[t]] = state[parent[t]]
    BY ZenonT(30), <1>2, <1>5 DEF BaseInv, TypeOK
  <2>3. \A t \in Slots : InTree(t) => kstack'[t] # Nil
    BY Zenon, <1>5, <2>1 DEF BaseInv, TreeInv
  <2>4. \A t \in Slots : state'[t] = "UNUSED" => kstack'[t] = Nil
    BY Zenon, <1>5, <2>1 DEF BaseInv, TreeInv
  <2> QED BY ZenonT(30), <1>1, <1>8, <2>1, <2>2, <2>3, <2>4 DEF BaseInv, TreeInv
<1>10. EmbryoInv'
  BY ZenonT(30), <1>1, <1>2, <1>5, EmbryoSame DEF Making
<1> QED BY Zenon, <1>6, <1>7, <1>9, <1>10 DEF BaseInv

\* copyuvm() in fork() and the shared page table in clone(): the EMBRYO enters the
\* tree with an address space, unless memory is out.
LEMMA BaseCopy ==
    ASSUME BaseInv, RunInv', NEW c \in CPUs, CopyUvm(c) \/ Share(c)
    PROVE  BaseInv'
<1>0. PICK p, s : p = cur[c] /\ s = np[p]
  OBVIOUS
<1>1. /\ UNCHANGED <<state, pid, killed, chan, kstack, nextpid, np, newdir>>
      /\ mode[c] = "proc" /\ p \in Slots /\ state[p] = "RUNNING" /\ pc[p] \in {"copy", "share"}
      /\ state \in [Slots -> States] /\ pc \in [Slots -> PCs] /\ parent \in [Slots -> Slots \cup {Nil}]
      /\ pgdir \in [Slots -> Pages \cup {Nil}] /\ free \subseteq Pages
  BY Zenon, <1>0 DEF CopyUvm, Share, At, BaseInv, TypeOK, RunInv, CpuInv
<1>2. /\ s \in Slots /\ s # p /\ s # initproc /\ state[s] = "EMBRYO" /\ pc[s] \in {"user", "exit"}
      /\ \A t \in Slots : pc[t] \in Making => np[t] \in Slots /\ (t # p => np[t] # s)
      /\ \A t \in Slots : parent[t] # s
  BY Zenon, <1>0, <1>1, Maker DEF Making
<1>3. parent[s] = Nil /\ kstack[s] # Nil
  BY Zenon, <1>0, <1>1 DEF BaseInv, EmbryoInv
<1>4. pgdir[p] # Nil /\ pgdir[p] \in Pages
  BY Zenon, <1>0, <1>1, Running
<1>5. \/ /\ \E g \in {kalloc, pgdir[p]} :
              pgdir' = [pgdir EXCEPT ![s] = g] /\ (g = kalloc => free # {} \/ g = pgdir[p])
         /\ parent' = [parent EXCEPT ![s] = p] /\ pc' = [pc EXCEPT ![p] = "start"]
      \/ /\ pgdir' = [pgdir EXCEPT ![s] = Nil] /\ parent' = parent /\ pc' = [pc EXCEPT ![p] = "nopgdir"]
  BY Zenon, <1>0 DEF CopyUvm, Share
<1>6. free' \subseteq Pages
  BY Zenon, <1>1 DEF CopyUvm, Share
<1>7. /\ pgdir' \in [Slots -> Pages \cup {Nil}] /\ parent' \in [Slots -> Slots \cup {Nil}]
      /\ \A t \in Slots \ {s} : pgdir'[t] = pgdir[t] /\ parent'[t] = parent[t]
      /\ \A t \in Slots \ {p} : pc'[t] = pc[t]
      /\ \/ pgdir'[s] # Nil /\ parent'[s] = p /\ pc'[p] = "start"
         \/ parent'[s] = Nil /\ pc'[p] = "nopgdir"
  <2>1. CASE /\ \E g \in {kalloc, pgdir[p]} :
                   pgdir' = [pgdir EXCEPT ![s] = g] /\ (g = kalloc => free # {} \/ g = pgdir[p])
             /\ parent' = [parent EXCEPT ![s] = p] /\ pc' = [pc EXCEPT ![p] = "start"]
    <3>1. PICK g : g \in Pages /\ g # Nil /\ pgdir' = [pgdir EXCEPT ![s] = g]
      BY Zenon, <1>4, <2>1, KallocIn DEF BaseInv
    <3> QED BY ZenonT(30), <1>1, <1>2, <2>1, <3>1
  <2>2. CASE pgdir' = [pgdir EXCEPT ![s] = Nil] /\ parent' = parent /\ pc' = [pc EXCEPT ![p] = "nopgdir"]
    BY ZenonT(30), <1>1, <1>2, <1>3, <2>2
  <2> QED BY Zenon, <1>5, <2>1, <2>2
<1>8. TypeOK'
  BY Zenon, <1>1, <1>6, <1>7 DEF BaseInv, TypeOK, RunInv, Types
<1>9. StateInv'
  <2>1. \A t \in Slots \ {p} : /\ state'[t] = state[t] /\ pc'[t] = pc[t]
                               /\ chan'[t] = chan[t] /\ newdir'[t] = newdir[t]
    BY Zenon, <1>1, <1>7
  <2>2. state'[p] = "RUNNING" /\ pc'[p] \in {"start", "nopgdir"} /\ newdir'[p] = Nil
    BY Zenon, <1>1, <1>7 DEF BaseInv, StateInv
  <2> QED BY ZenonT(30), <2>1, <2>2 DEF BaseInv, StateInv
<1>10. /\ \A t \in Slots \ {s} : (HasVM(t)' <=> HasVM(t)) /\ (InTree(t)' <=> InTree(t))
       /\ HasVM(s)' <=> InTree(s)'
  BY Zenon, <1>1, <1>2, <1>7 DEF HasVM, InTree
<1>11. TreeInv'
  <2>1. parent'[initproc] = Nil /\ state[initproc] \in Alive /\ state[p] \in Alive
    BY Zenon, <1>1, <1>2, <1>7, NotNil DEF BaseInv, TreeInv, Alive
  <2>2. parent'[s] # Nil => parent'[s] = p /\ pgdir'[s] # Nil
    BY Zenon, <1>7
  <2>3. InTree(s)' => parent'[s] # Nil
    BY Zenon, <1>2 DEF InTree
  <2>4. \A t \in Slots \ {s} : /\ parent'[t] # Nil => state[parent'[t]] \in Alive
                               /\ InTree(t) => kstack[t] # Nil /\ pgdir'[t] # Nil
    BY Zenon, <1>7 DEF BaseInv, TreeInv
  <2>5. \A t \in Slots : state[t] = "UNUSED" => kstack[t] = Nil
    BY Zenon DEF BaseInv, TreeInv
  <2>6. \A t \in Slots : HasVM(t)' <=> InTree(t)'
    BY Zenon, <1>10 DEF BaseInv, TreeInv
  <2>7. \A t \in Slots : parent'[t] # Nil => state[parent'[t]] \in Alive
    BY Zenon, <2>1, <2>2, <2>4
  <2>8. \A t \in Slots : InTree(t)' => kstack[t] # Nil /\ pgdir'[t] # Nil
    BY Zenon, <1>3, <1>10, <2>2, <2>3, <2>4
  <2> QED BY ZenonT(30), <1>1, <2>1, <2>5, <2>6, <2>7, <2>8 DEF TreeInv
<1>12. EmbryoInv'
  <2>1. ASSUME NEW t \in Slots \ {p}, pc'[t] \in Making
        PROVE  /\ pc'[t] = pc[t] /\ np'[t] = np[t] /\ kstack'[np[t]] = kstack[np[t]]
               /\ parent'[np[t]] = parent[np[t]]
    BY ZenonT(30), <1>1, <1>2, <1>7, <2>1
  <2>2. /\ np'[p] = s /\ kstack'[s] # Nil
        /\ \/ pc'[p] = "start" /\ parent'[s] # Nil
           \/ pc'[p] = "nopgdir" /\ parent'[s] = Nil
    <3>1. p # Nil /\ np' = np /\ kstack' = kstack
      BY Zenon, <1>1, NotNil
    <3> QED BY Zenon, <1>0, <1>3, <1>7, <3>1
  <2>3. ASSUME NEW t \in Slots \ {p}
        PROVE  /\ pc'[t] \in {"fork", "clone", "nokstack"} => kstack'[np'[t]] = Nil /\ parent'[np'[t]] = Nil
               /\ pc'[t] \in {"copy", "share", "nopgdir"} => kstack'[np'[t]] # Nil /\ parent'[np'[t]] = Nil
               /\ pc'[t] = "start" => parent'[np'[t]] # Nil
    <3>1. CASE pc'[t] \in Making
      BY SMTT(30), <2>1, <3>1 DEF BaseInv, EmbryoInv
    <3>2. CASE pc'[t] \notin Making
      BY Zenon, <3>2 DEF Making
    <3> QED BY Zenon, <3>1, <3>2
  <2> QED BY ZenonT(30), <2>2, <2>3 DEF EmbryoInv
<1> QED BY Zenon, <1>8, <1>9, <1>11, <1>12 DEF BaseInv

\* The EMBRYO becomes RUNNABLE.
LEMMA BaseStart ==
    ASSUME BaseInv, RunInv', NEW c \in CPUs, Start(c)
    PROVE  BaseInv'
<1>0. PICK p, s : p = cur[c] /\ s = np[p]
  OBVIOUS
<1>1. /\ UNCHANGED <<pid, parent, killed, chan, kstack, pgdir, free, nextpid, newdir>>
      /\ mode[c] = "proc" /\ p \in Slots /\ state[p] = "RUNNING" /\ pc[p] = "start"
      /\ state' = [state EXCEPT ![s] = "RUNNABLE"] /\ np' = [np EXCEPT ![p] = Nil]
      /\ pc' = [pc EXCEPT ![p] = "ret", ![s] = "user"]
      /\ state \in [Slots -> States] /\ pc \in [Slots -> PCs] /\ np \in [Slots -> Slots \cup {Nil}]
  BY Zenon, <1>0 DEF Start, At, memory, BaseInv, TypeOK, RunInv, CpuInv
<1>2. /\ s \in Slots /\ s # p /\ s # initproc /\ state[s] = "EMBRYO" /\ newdir[s] = Nil
      /\ \A t \in Slots : pc[t] \in Making => np[t] \in Slots /\ (t # p => np[t] # s)
  BY Zenon, <1>0, <1>1, Maker DEF Making
<1>3. parent[s] # Nil /\ newdir[p] = Nil
  BY Zenon, <1>0, <1>1 DEF BaseInv, EmbryoInv, StateInv
<1>4. /\ state'[s] = "RUNNABLE" /\ pc'[s] = "user" /\ pc'[p] = "ret"
      /\ \A t \in Slots \ {s} : state'[t] = state[t]
      /\ \A t \in Slots \ {p, s} : pc'[t] = pc[t] /\ np'[t] = np[t]
  BY Zenon, <1>1, <1>2
<1>5. TypeOK'
  BY Zenon, <1>1 DEF BaseInv, TypeOK, RunInv, Types
<1>6. StateInv'
  BY ZenonT(30), <1>1, <1>2, <1>3, <1>4 DEF BaseInv, StateInv
<1>7. \A t \in Slots : (HasVM(t)' <=> HasVM(t)) /\ (InTree(t)' <=> InTree(t))
  <2>1. \A t \in Slots : InTree(t)' <=> InTree(t)
    BY Zenon, <1>1 DEF InTree
  <2>2. \A t \in Slots \ {s} : HasVM(t)' <=> HasVM(t)
    BY Zenon, <1>1, <1>4 DEF HasVM
  <2>3. HasVM(s)' /\ HasVM(s)
    BY Zenon, <1>1, <1>2, <1>3, <1>4 DEF HasVM
  <2> QED BY Zenon, <2>1, <2>2, <2>3
<1>8. \A t \in Slots : state[t] \in Alive => state'[t] \in Alive
  BY Zenon, <1>2, <1>4 DEF Alive
<1>9. TreeInv'
  <2>1. /\ state'[initproc] \in Alive
        /\ \A t \in Slots : parent[t] # Nil => state'[parent[t]] \in Alive
    BY Zenon, <1>8, NotNil DEF BaseInv, TreeInv, TypeOK
  <2>2. \A t \in Slots : state'[t] = "UNUSED" => state[t] = "UNUSED"
    BY Zenon, <1>4
  <2> QED BY ZenonT(30), <1>1, <1>7, <2>1, <2>2 DEF BaseInv, TreeInv
<1>10. EmbryoInv'
  BY Zenon, <1>1, <1>4, EmbryoSame DEF Making
<1> QED BY Zenon, <1>5, <1>6, <1>9, <1>10 DEF BaseInv

\* wait() gives back the stack and the page table, join() only the stack.
LEMMA Freed == /\ \A z \in Slots : FreedByWait[z] \subseteq {pgdir[z]}
               /\ \A z \in Slots : FreedByJoin[z] \subseteq {pgdir[z]}
BY Zenon DEF FreedByWait, FreedByJoin

\* Every step keeps the tree.
LEMMA BaseStep == BaseInv /\ [Next]_vars => BaseInv'
<1> SUFFICES ASSUME BaseInv, [Next]_vars PROVE BaseInv'
  OBVIOUS
<1>0. RunInv'
  BY Zenon, RunStep DEF BaseInv
<1>1. ASSUME NEW c \in CPUs, Wait(c) PROVE BaseInv'
  BY Zenon, <1>0, <1>1, BaseScan, Freed DEF Wait, Children
<1>2. ASSUME NEW c \in CPUs, Join(c) PROVE BaseInv'
  BY Zenon, <1>0, <1>2, BaseScan, Freed DEF Join, ThreadsOf, Children
<1>3. ASSUME NEW c \in CPUs, KernelStep(c) PROVE BaseInv'
  BY ZenonT(30), <1>0, <1>3, BaseLocal, BaseKstack, BaseUnmake, BaseCopy, BaseStart, BaseExit DEF KernelStep
<1>4. CASE UNCHANGED vars
  BY ZenonT(30), <1>0, <1>4 DEF vars, BaseInv, TypeOK, StateInv, TreeInv, EmbryoInv, HasVM, InTree
<1> QED BY Zenon, <1>0, <1>1, <1>2, <1>3, <1>4, BaseAllocproc, BaseLocal, BaseKill, BaseSched DEF Next

\* The fields of the table keep their types, for all user programs.
THEOREM TypeCorrect == Spec => []TypeOK
<1>1. BaseInv => TypeOK
  BY Zenon DEF BaseInv
<1> QED BY <1>1, BaseInit, BaseStep, PTL DEF Spec

\* Every process but init has a parent that lives and can reap it, for all user
\* programs: exit() hands its children to init under the lock that makes it a
\* zombie, and init does not exit.
THEOREM ParentsLive == Spec => []ParentAlive
<1>1. BaseInv => ParentAlive
  BY Zenon DEF BaseInv, TreeInv, InTree, Alive, ParentAlive
<1> QED BY <1>1, BaseInit, BaseStep, PTL DEF Spec
=============================================================================
