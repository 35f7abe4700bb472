-------------------------------- MODULE Proc --------------------------------
(***************************************************************************)
(* The process table of the kernel (proc.c) and the parts of trap.c,       *)
(* exec.c, kalloc.c and vm.c that decide who runs, who is reaped and which *)
(* physical pages a process owns.                                          *)
(*                                                                         *)
(* A step of a CPU is one critical section of ptable.lock, one call of the *)
(* page allocator, or one unlocked update that another CPU can observe.    *)
(* Where the code keeps ptable.lock across swtch(), the model keeps it     *)
(* too: lock is held by the CPU from yield/sleep/exit on the old kernel    *)
(* stack, through the scheduler, to the release on the next one.           *)
(*                                                                         *)
(* An address space (page directory, page tables and user pages) is one    *)
(* page of the allocator; a kernel stack is another.                       *)
(*                                                                         *)
(* An operator named like the one after it, with a suffix, is that         *)
(* operator with a plausible mistake; the properties are tested on them.   *)
(***************************************************************************)
EXTENDS Naturals, FiniteSets, FiniteSetsExt

CONSTANTS
    NPROC,       \* size of ptable.proc
    CPUs,        \* the processors
    NoCPU,       \* ptable.lock is free
    NPages,      \* pages of the allocator
    Calls,       \* system calls the user programs make, by pid
    KillPids,    \* arguments the user programs give to kill()
    Disciplined, \* TRUE: user programs follow the thread rule of MayCall
    MaxPid       \* bound of the model: no process is made once nextpid passes it

ASSUME ProcAssumption ==
    /\ NPROC \in Nat \ {0}
    /\ NPages \in Nat /\ NPages >= 2
    /\ NoCPU \notin CPUs
    /\ KillPids \subseteq Nat
    /\ Disciplined \in BOOLEAN
    /\ MaxPid \in Nat

Slots == 1 .. NPROC
Pages == 1 .. NPages
Nil == 0                 \* the null pointer, for slots and for pages

\* userinit() runs on an empty table, so init gets the first slot.
initproc == 1

VARIABLES
    state, pid, parent, killed, chan,  \* struct proc, one function per field
    pgdir, kstack,                     \* struct proc: the pages a slot points to
    nextpid,
    free,     \* kmem.freelist
    lock,     \* the CPU that holds ptable.lock
    mode,     \* "idle": in scheduler() without the lock; "sched": in scheduler()
              \* with it, back from cur; "proc": on the kernel stack of cur
    cur,      \* the proc variable of each CPU, and p of scheduler()'s loop
    pc,       \* where a process is, see PCs
    np,       \* local np of fork() and clone()
    newdir    \* local pgdir of exec()

table == <<state, pid, parent, killed, chan>>
memory == <<pgdir, kstack, free>>
cpus == <<lock, mode, cur>>
locals == <<pc, np, newdir>>
vars == <<state, pid, parent, killed, chan, pgdir, kstack, nextpid, free,
          lock, mode, cur, pc, np, newdir>>

States == {"UNUSED", "EMBRYO", "SLEEPING", "RUNNABLE", "RUNNING", "ZOMBIE"}

PCs == {"user",       \* in user space
        "fork", "clone",       \* slot taken, before kalloc() of the kernel stack
        "nokstack",   \* kalloc() returned 0 in allocproc()
        "copy", "share",       \* before copyuvm(), before np->pgdir = proc->pgdir
        "nopgdir",    \* copyuvm() returned 0
        "start",      \* before np->state = RUNNABLE
        "exec",       \* new image being built
        "wait", "join",        \* asleep in wait(), in join()
        "ret",        \* before the killed test at the end of trap()
        "exit"}       \* in exit()

TypeOK ==
    /\ state \in [Slots -> States]
    /\ pid \in [Slots -> Nat]
    /\ parent \in [Slots -> Slots \cup {Nil}]
    /\ killed \in [Slots -> BOOLEAN]
    /\ chan \in [Slots -> Slots \cup {Nil}]
    /\ pgdir \in [Slots -> Pages \cup {Nil}]
    /\ kstack \in [Slots -> Pages \cup {Nil}]
    /\ nextpid \in Nat
    /\ free \subseteq Pages
    /\ lock \in CPUs \cup {NoCPU}
    /\ mode \in [CPUs -> {"idle", "sched", "proc"}]
    /\ cur \in [CPUs -> Slots \cup {Nil}]
    /\ pc \in [Slots -> PCs]
    /\ np \in [Slots -> Slots \cup {Nil}]
    /\ newdir \in [Slots -> Pages \cup {Nil}]

\* userinit(): init is RUNNABLE with pid 1, every CPU is in scheduler().
Init ==
    /\ state = [s \in Slots |-> IF s = initproc THEN "RUNNABLE" ELSE "UNUSED"]
    /\ pid = [s \in Slots |-> IF s = initproc THEN 1 ELSE 0]
    /\ parent = [s \in Slots |-> Nil]
    /\ killed = [s \in Slots |-> FALSE]
    /\ chan = [s \in Slots |-> Nil]
    /\ kstack = [s \in Slots |-> IF s = initproc THEN 1 ELSE Nil]
    /\ pgdir = [s \in Slots |-> IF s = initproc THEN 2 ELSE Nil]
    /\ nextpid = 2
    /\ free = Pages \ {1, 2}
    /\ lock = NoCPU
    /\ mode = [c \in CPUs |-> "idle"]
    /\ cur = [c \in CPUs |-> Nil]
    /\ pc = [s \in Slots |-> "user"]
    /\ np = [s \in Slots |-> Nil]
    /\ newdir = [s \in Slots |-> Nil]

-----------------------------------------------------------------------------
(* Helpers *)

\* kalloc() returns the head of the free list.  Which page that is makes no
\* difference to the callers.
kalloc == Min(free)

\* wakeup1(chan): the states after waking the sleepers of the channels in cs.
wakeup1(st, cs) ==
    [s \in Slots |-> IF st[s] = "SLEEPING" /\ chan[s] \in cs
                     THEN "RUNNABLE" ELSE st[s]]

Children(p) == {s \in Slots : parent[s] = p}

\* The children join() looks at: those that share the caller's page table.
ThreadsOf(p) == {s \in Children(p) : pgdir[s] = pgdir[p]}

Zombies(S) == {s \in S : state[s] = "ZOMBIE"}

\* CPU c executes the code of its process, without ptable.lock, at label l.
At(c, l) ==
    /\ mode[c] = "proc"
    /\ lock # c
    /\ state[cur[c]] = "RUNNING"
    /\ pc[cur[c]] = l

\* The same in a system call that trap() has let in: it is not killed.
Syscall(c, call) ==
    /\ At(c, "user")
    /\ call \in Calls[pid[cur[c]]]
    /\ ~killed[cur[c]]

(***************************************************************************)
(* What user programs do.  init.c only forks and waits.  The thread rule,  *)
(* when Disciplined: a thread makes no threads, and a process that has     *)
(* threads joins them all before it exits, execs, waits or is killed.      *)
(***************************************************************************)
IsThread(p) == parent[p] # Nil /\ pgdir[parent[p]] = pgdir[p]

MayCall(p, call) ==
    /\ p = initproc => call \in {"fork", "wait"}
    /\ Disciplined => CASE call = "clone" -> ~IsThread(p)
                        [] call \in {"exit", "wait"} -> ThreadsOf(p) = {}
                        [] call = "exec" -> ThreadsOf(p) = {} /\ ~IsThread(p)
                        [] OTHER -> TRUE

MayKill(k) ==
    Disciplined => \A s \in Slots : pid[s] = k =>
                      ThreadsOf(s) = {} /\ pc[s] \notin {"clone", "share"}

-----------------------------------------------------------------------------
(* fork() and clone() *)

\* allocproc(), first half: under ptable.lock the first UNUSED slot becomes an
\* EMBRYO with a fresh pid; with no such slot the call returns -1.
Allocproc(c, call) ==
    LET p == cur[c]
        unused == {s \in Slots : state[s] = "UNUSED"}
        s == Min(unused)
    IN  /\ Syscall(c, call) /\ MayCall(p, call)
        /\ lock = NoCPU
        /\ \/ /\ unused # {} /\ nextpid <= MaxPid
              /\ state' = [state EXCEPT ![s] = "EMBRYO"]
              /\ pid' = [pid EXCEPT ![s] = nextpid]
              /\ nextpid' = nextpid + 1
              /\ np' = [np EXCEPT ![p] = s]
              /\ pc' = [pc EXCEPT ![p] = call]
           \/ /\ unused = {}
              /\ pc' = [pc EXCEPT ![p] = "ret"]
              /\ UNCHANGED <<state, pid, nextpid, np>>
        /\ UNCHANGED <<parent, killed, chan, newdir, memory, cpus>>

\* allocproc(), second half: the kernel stack.
AllocKstack(c) ==
    LET p == cur[c]
    IN  /\ At(c, "fork") \/ At(c, "clone")
        /\ \/ /\ free # {}
              /\ kstack' = [kstack EXCEPT ![np[p]] = kalloc]
              /\ free' = free \ {kalloc}
              /\ pc' = [pc EXCEPT ![p] = IF @ = "fork" THEN "copy" ELSE "share"]
           \/ /\ free = {}
              /\ kstack' = [kstack EXCEPT ![np[p]] = Nil]
              /\ pc' = [pc EXCEPT ![p] = "nokstack"]
              /\ UNCHANGED free
        /\ UNCHANGED <<table, pgdir, nextpid, cpus, np, newdir>>

\* The write of UNUSED on that error path is made without ptable.lock, and the
\* slot keeps the pid it was given.
NoKstack(c) ==
    LET p == cur[c]
    IN  /\ At(c, "nokstack")
        /\ state' = [state EXCEPT ![np[p]] = "UNUSED"]
        /\ np' = [np EXCEPT ![p] = Nil]
        /\ pc' = [pc EXCEPT ![p] = "ret"]
        /\ UNCHANGED <<pid, parent, killed, chan, nextpid, memory, cpus, newdir>>

\* fork(): copyuvm() and the parent link.
CopyUvm(c) ==
    LET p == cur[c]
    IN  /\ At(c, "copy")
        /\ \/ /\ free # {}
              /\ pgdir' = [pgdir EXCEPT ![np[p]] = kalloc]
              /\ free' = free \ {kalloc}
              /\ parent' = [parent EXCEPT ![np[p]] = p]
              /\ pc' = [pc EXCEPT ![p] = "start"]
           \/ /\ free = {}
              /\ pgdir' = [pgdir EXCEPT ![np[p]] = Nil]
              /\ pc' = [pc EXCEPT ![p] = "nopgdir"]
              /\ UNCHANGED <<free, parent>>
        /\ UNCHANGED <<state, pid, killed, chan, kstack, nextpid, cpus, np, newdir>>

\* fork(), error path: the stack goes back, the slot keeps its pid.
NoPgdir(c) ==
    LET p == cur[c]
    IN  /\ At(c, "nopgdir")
        /\ free' = free \cup {kstack[np[p]]}
        /\ kstack' = [kstack EXCEPT ![np[p]] = Nil]
        /\ state' = [state EXCEPT ![np[p]] = "UNUSED"]
        /\ np' = [np EXCEPT ![p] = Nil]
        /\ pc' = [pc EXCEPT ![p] = "ret"]
        /\ UNCHANGED <<pid, parent, killed, chan, pgdir, nextpid, cpus, newdir>>

\* clone(): the thread gets the caller's page table.
Share(c) ==
    LET p == cur[c]
    IN  /\ At(c, "share")
        /\ pgdir' = [pgdir EXCEPT ![np[p]] = pgdir[p]]
        /\ parent' = [parent EXCEPT ![np[p]] = p]
        /\ pc' = [pc EXCEPT ![p] = "start"]
        /\ UNCHANGED <<state, pid, killed, chan, kstack, free, nextpid, cpus,
                       np, newdir>>

\* fork() and clone(), last step.  The child will enter user space through
\* forkret() and trapret.
Start(c) ==
    LET p == cur[c]
    IN  /\ At(c, "start")
        /\ lock = NoCPU
        /\ state' = [state EXCEPT ![np[p]] = "RUNNABLE"]
        /\ np' = [np EXCEPT ![p] = Nil]
        /\ pc' = [pc EXCEPT ![p] = "ret", ![np[p]] = "user"]
        /\ UNCHANGED <<pid, parent, killed, chan, nextpid, memory, cpus, newdir>>

-----------------------------------------------------------------------------
(* exec() *)

\* setupkvm() and the loads into the new page table; -1 when memory runs out.
ExecBuild(c) ==
    LET p == cur[c]
    IN  /\ Syscall(c, "exec") /\ MayCall(p, "exec")
        /\ \/ /\ free # {}
              /\ newdir' = [newdir EXCEPT ![p] = kalloc]
              /\ free' = free \ {kalloc}
              /\ pc' = [pc EXCEPT ![p] = "exec"]
           \/ /\ free = {}
              /\ pc' = [pc EXCEPT ![p] = "ret"]
              /\ UNCHANGED <<newdir, free>>
        /\ UNCHANGED <<table, pgdir, kstack, nextpid, cpus, np>>

\* exec() calls freevm(oldpgdir).
FreedByExecNone(p) == {}
FreedByExec(p) == {pgdir[p]}

\* Commit to the new image and free the old one, or take the bad: path.
ExecFinish(c) ==
    LET p == cur[c]
    IN  /\ At(c, "exec")
        /\ \/ /\ pgdir' = [pgdir EXCEPT ![p] = newdir[p]]
              /\ free' = free \cup FreedByExec(p)
           \/ /\ free' = free \cup {newdir[p]}
              /\ UNCHANGED pgdir
        /\ newdir' = [newdir EXCEPT ![p] = Nil]
        /\ pc' = [pc EXCEPT ![p] = "ret"]
        /\ UNCHANGED <<table, kstack, nextpid, cpus, np>>

-----------------------------------------------------------------------------
(* exit(), wait(), join(), kill() *)

\* Into exit(): the system call, or a fault in user space, for which trap()
\* sets killed first.
EnterExit(c) ==
    LET p == cur[c]
    IN  /\ Syscall(c, "exit") /\ MayCall(p, "exit")
        /\ killed' \in {killed, [killed EXCEPT ![p] = TRUE]}
        /\ pc' = [pc EXCEPT ![p] = "exit"]
        /\ UNCHANGED <<state, pid, parent, chan, memory, nextpid, cpus, np, newdir>>

\* Any trap from user space finds the process killed.
KilledTrap(c) ==
    LET p == cur[c]
    IN  /\ At(c, "user")
        /\ killed[p]
        /\ pc' = [pc EXCEPT ![p] = "exit"]
        /\ UNCHANGED <<table, memory, nextpid, cpus, np, newdir>>

\* The channels exit() wakes: its parent, and init if init gets a zombie.
ExitWakesInit(p) == IF Zombies(Children(p)) # {} THEN {initproc} ELSE {}
ExitWakes(p) ==
    {parent[p]} \cup (IF Zombies(Children(p)) # {} THEN {initproc} ELSE {})

\* exit() passes abandoned children to init.
Reparent(p) == [s \in Slots |-> IF parent[s] = p THEN initproc ELSE parent[s]]

\* exit() from its acquire on.  ptable.lock stays held for sched().
ExitLockedOpen(c) ==
    LET p == cur[c]
    IN  /\ At(c, "exit")
        /\ p # initproc
        /\ lock = NoCPU
        /\ state' = [wakeup1(state, ExitWakes(p)) EXCEPT ![p] = "ZOMBIE"]
        /\ parent' = Reparent(p)
        /\ UNCHANGED <<pid, killed, chan, memory, nextpid, cpus, locals>>
ExitLocked(c) ==
    LET p == cur[c]
    IN  /\ At(c, "exit")
        /\ p # initproc
        /\ lock = NoCPU
        /\ lock' = c
        /\ state' = [wakeup1(state, ExitWakes(p)) EXCEPT ![p] = "ZOMBIE"]
        /\ parent' = Reparent(p)
        /\ UNCHANGED <<pid, killed, chan, memory, nextpid, mode, cur, locals>>

\* The body of wait()'s and join()'s loop, with ptable.lock held: reap the first
\* zombie among kids, return -1, or sleep(proc, &ptable.lock).  label is where
\* the process sleeps, freed[z] the pages given back besides z's kernel stack.
Scan(c, kids, label, freed) ==
    LET p == cur[c]
        z == Min(Zombies(kids))
    IN  \/ /\ Zombies(kids) # {}
           /\ free' = free \cup {kstack[z]} \cup freed[z]
           /\ kstack' = [kstack EXCEPT ![z] = Nil]
           /\ state' = [state EXCEPT ![z] = "UNUSED"]
           /\ pid' = [pid EXCEPT ![z] = 0]
           /\ parent' = [parent EXCEPT ![z] = Nil]
           /\ killed' = [killed EXCEPT ![z] = FALSE]
           /\ chan' = [chan EXCEPT ![p] = Nil]
           /\ lock' = NoCPU
           /\ pc' = [pc EXCEPT ![p] = "ret"]
        \/ /\ Zombies(kids) = {}
           /\ kids = {} \/ killed[p]
           /\ chan' = [chan EXCEPT ![p] = Nil]
           /\ lock' = NoCPU
           /\ pc' = [pc EXCEPT ![p] = "ret"]
           /\ UNCHANGED <<free, kstack, state, pid, parent, killed>>
        \/ /\ Zombies(kids) = {}
           /\ kids # {} /\ ~killed[p]
           /\ chan' = [chan EXCEPT ![p] = p]
           /\ state' = [state EXCEPT ![p] = "SLEEPING"]
           /\ lock' = c
           /\ pc' = [pc EXCEPT ![p] = label]
           /\ UNCHANGED <<free, kstack, pid, parent, killed>>

\* CPU c is in the loop of call: just called, or back from sleep with the lock.
Scanning(c, call) ==
    \/ Syscall(c, call) /\ MayCall(cur[c], call) /\ lock = NoCPU
    \/ /\ mode[c] = "proc" /\ lock = c
       /\ state[cur[c]] = "RUNNING"
       /\ pc[cur[c]] = call

\* wait() calls freevm(p->pgdir), join() does not.
FreedByWait == [z \in Slots |-> {pgdir[z]}]
FreedByJoinVM == [z \in Slots |-> {pgdir[z]}]
FreedByJoin == [z \in Slots |-> {}]

Wait(c) ==
    /\ Scanning(c, "wait")
    /\ Scan(c, Children(cur[c]), "wait", FreedByWait)
    /\ UNCHANGED <<pgdir, nextpid, mode, cur, np, newdir>>

Join(c) ==
    /\ Scanning(c, "join")
    /\ Scan(c, ThreadsOf(cur[c]), "join", FreedByJoin)
    /\ UNCHANGED <<pgdir, nextpid, mode, cur, np, newdir>>

\* kill() wakes its target from sleep.
StateAfterKillAsleep(t) == state[t]
StateAfterKill(t) == IF state[t] = "SLEEPING" THEN "RUNNABLE" ELSE state[t]

\* kill(k): the first slot whose pid is k, whatever its state.
Kill(c, k) ==
    LET p == cur[c]
        hits == {s \in Slots : pid[s] = k}
        t == Min(hits)
    IN  /\ Syscall(c, "kill") /\ MayCall(p, "kill") /\ MayKill(k)
        /\ lock = NoCPU
        /\ \/ /\ hits # {}
              /\ killed' = [killed EXCEPT ![t] = TRUE]
              /\ state' = [state EXCEPT ![t] = StateAfterKill(t)]
           \/ /\ hits = {}
              /\ UNCHANGED <<killed, state>>
        /\ pc' = [pc EXCEPT ![p] = "ret"]
        /\ UNCHANGED <<pid, parent, chan, memory, nextpid, cpus, np, newdir>>

\* The end of trap() for a system call or a preempted user program.
Ret(c) ==
    LET p == cur[c]
    IN  /\ At(c, "ret")
        /\ pc' = [pc EXCEPT ![p] = IF killed[p] THEN "exit" ELSE "user"]
        /\ UNCHANGED <<table, memory, nextpid, cpus, np, newdir>>

-----------------------------------------------------------------------------
(* Scheduling *)

\* A timer interrupt makes the running process yield(), in user space or in
\* the kernel (interrupts are off only while a spinlock is held).  A killed
\* process interrupted in user space exits instead (KilledTrap).
Timer(c) ==
    LET p == cur[c]
    IN  /\ mode[c] = "proc" /\ lock = NoCPU
        /\ state[p] = "RUNNING"
        /\ pc[p] = "user" => ~killed[p]
        /\ lock' = c
        /\ state' = [state EXCEPT ![p] = "RUNNABLE"]
        /\ pc' = [pc EXCEPT ![p] = IF @ = "user" THEN "ret" ELSE @]
        /\ UNCHANGED <<pid, parent, killed, chan, memory, nextpid, mode, cur, np, newdir>>

\* sched(): leave the process's kernel stack for the scheduler's.
Sched(c) ==
    /\ mode[c] = "proc" /\ lock = c
    /\ state[cur[c]] # "RUNNING"
    /\ mode' = [mode EXCEPT ![c] = "sched"]
    /\ UNCHANGED <<table, memory, nextpid, lock, cur, locals>>

\* scheduler(): the RUNNABLE slots after the last one run in this pass.
ReadyOrRunning(c) == {s \in Slots : state[s] \in {"RUNNABLE", "RUNNING"} /\ s > cur[c]}
Ready(c) == {s \in Slots : state[s] = "RUNNABLE" /\ s > cur[c]}

\* scheduler(): run the next one.
SchedPick(c) ==
    LET s == Min(Ready(c))
    IN  /\ \/ mode[c] = "idle" /\ lock = NoCPU
           \/ mode[c] = "sched"
        /\ Ready(c) # {}
        /\ lock' = c
        /\ mode' = [mode EXCEPT ![c] = "proc"]
        /\ cur' = [cur EXCEPT ![c] = s]
        /\ state' = [state EXCEPT ![s] = "RUNNING"]
        /\ UNCHANGED <<pid, parent, killed, chan, memory, nextpid, locals>>

\* The pass is over: release ptable.lock, start again with interrupts on.
SchedPassEnd(c) ==
    /\ mode[c] = "sched"
    /\ Ready(c) = {}
    /\ mode' = [mode EXCEPT ![c] = "idle"]
    /\ cur' = [cur EXCEPT ![c] = Nil]
    /\ lock' = NoCPU
    /\ UNCHANGED <<table, memory, nextpid, locals>>

\* The resumed process releases the lock, in yield() or in forkret().
Resume(c) ==
    /\ mode[c] = "proc" /\ lock = c
    /\ state[cur[c]] = "RUNNING"
    /\ pc[cur[c]] \notin {"wait", "join"}
    /\ lock' = NoCPU
    /\ UNCHANGED <<table, memory, nextpid, mode, cur, locals>>

-----------------------------------------------------------------------------
\* Steps of the kernel on behalf of a process that has entered it.
KernelStep(c) ==
    \/ AllocKstack(c) \/ NoKstack(c) \/ CopyUvm(c) \/ NoPgdir(c) \/ Share(c)
    \/ Start(c) \/ ExecFinish(c) \/ ExitLocked(c) \/ Ret(c)

Next ==
    \E c \in CPUs :
        \/ \E call \in {"fork", "clone"} : Allocproc(c, call)
        \/ ExecBuild(c) \/ EnterExit(c) \/ KilledTrap(c) \/ Wait(c) \/ Join(c)
        \/ \E k \in KillPids : Kill(c, k)
        \/ KernelStep(c)
        \/ Timer(c) \/ Sched(c) \/ SchedPick(c) \/ SchedPassEnd(c) \/ Resume(c)

Spec == Init /\ [][Next]_vars

(***************************************************************************)
(* Fairness.  The scheduler and the code that holds ptable.lock run with   *)
(* interrupts off, so they proceed; the clock keeps ticking; a process     *)
(* that is given the CPU again and again gets past its next kernel step    *)
(* (a time slice is longer than one step); and init.c calls wait() in its  *)
(* endless loop.                                                           *)
(***************************************************************************)
Fairness ==
    /\ \A c \in CPUs :
        /\ WF_vars(Sched(c) \/ SchedPick(c) \/ SchedPassEnd(c) \/ Resume(c)
                     \/ (lock = c /\ (Wait(c) \/ Join(c))))
        /\ WF_vars(Timer(c) \/ KilledTrap(c))
    /\ \A s \in Slots : SF_vars(\E c \in CPUs : cur[c] = s /\ KernelStep(c))
    /\ SF_vars(\E c \in CPUs : cur[c] = initproc /\ Wait(c))

FairSpec == Spec /\ Fairness

-----------------------------------------------------------------------------
(* Properties *)

\* A slot that owns, or shares, the address space its pgdir points to.
HasVM(s) ==
    \/ state[s] \in {"SLEEPING", "RUNNABLE", "RUNNING", "ZOMBIE"}
    \/ state[s] = "EMBRYO" /\ parent[s] # Nil

\* No two CPUs are on one kernel stack, and a CPU is on the stack of a process
\* that is RUNNING or still gives up the CPU under the lock: sched() and
\* scheduler() keep ptable.lock across swtch().
RunsOnce ==
    \A c \in CPUs : mode[c] = "proc" =>
        /\ state[cur[c]] = "RUNNING" \/ lock = c
        /\ \A d \in CPUs \ {c} : mode[d] = "proc" => cur[d] # cur[c]

\* The stack a CPU is on is an allocated page of that slot alone: a zombie's
\* stack is not freed by wait() or join() while exit() still runs on it.
StackOwned ==
    \A c \in CPUs : mode[c] = "proc" =>
        /\ kstack[cur[c]] \notin free \cup {Nil}
        /\ \A s \in Slots \ {cur[c]} : kstack[s] # kstack[cur[c]]

\* Who a page belongs to.
Owners(g) ==
    (IF g \in free THEN {<<"free", Nil>>} ELSE {})
    \cup {<<"kstack", s>> : s \in {s \in Slots : kstack[s] = g}}
    \cup {<<"exec", s>> : s \in {s \in Slots : newdir[s] = g}}
    \cup (IF \E s \in Slots : HasVM(s) /\ pgdir[s] = g THEN {<<"vm", Nil>>} ELSE {})

\* Every page has exactly one owner: nothing is leaked, freed twice or used
\* after it was freed on any path of fork, clone, exec, exit, wait and join.
PagesOwnedOnce == \A g \in Pages : Cardinality(Owners(g)) = 1

\* A process asleep in wait() or join() has a child that can still wake it, no
\* zombie it should have reaped, and no kill pending: no wakeup is lost
\* between the scan and the sleep, nor when exit() hands children to init.
NoMissedWakeup ==
    \A s \in Slots : state[s] = "SLEEPING" =>
        LET kids == IF pc[s] = "wait" THEN Children(s) ELSE ThreadsOf(s)
        IN  kids # {} /\ Zombies(kids) = {} /\ ~killed[s]

\* Every process but init has a parent that can still reap it: exit() leaves
\* no child behind, and no zombie stays for ever.
ParentAlive ==
    \A s \in Slots \ {initproc} : HasVM(s) =>
        /\ parent[s] # Nil
        /\ state[parent[s]] \in {"SLEEPING", "RUNNABLE", "RUNNING"}

\* The table stays sound while processes come and go: its fields have their
\* types, the stack a CPU is on is its own and not free, and every process
\* has a parent that can reap it, although exit() still runs on the stack that
\* wait() will free and hands its children to init in the same critical section.
TableSound == TypeOK /\ StackOwned /\ ParentAlive

\* No page table on the free list is one that a process runs on, will run on or
\* still has to be freed with.  It fails when programs use clone() freely:
\* wait() frees the address space of a thread that others still share.
NoDanglingPgdir == \A s \in Slots : HasVM(s) => pgdir[s] \notin free

\* A killed process dies: whatever it was doing when kill() marked it, asleep
\* in wait() or join(), runnable, on a CPU or not yet started, it becomes a
\* zombie (kill(), and the killed tests of trap(), wait() and join()).  Again
\* and again no killed process is left: with finitely many pids, each one dies.
KillTakesEffect ==
    []<>(\A s \in Slots : killed[s] => state[s] \in {"UNUSED", "ZOMBIE"})

\* A zombie whose parent is init is reaped, also when it became a zombie before
\* exit() handed it to init: again and again init has no zombie left.
OrphanReaped ==
    []<>(\A s \in Slots : parent[s] = initproc => state[s] # "ZOMBIE")

=============================================================================
