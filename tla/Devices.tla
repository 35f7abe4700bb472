------------------------------- MODULE Devices -------------------------------
(***************************************************************************)
(* The console and the clock (console.c, trap.c, sysproc.c): system calls  *)
(* that read, write and sleep, and the keyboard and timer interrupts that  *)
(* come in between, on CPUs with the spin locks of Spinlock.               *)
(*                                                                         *)
(* A CPU runs one process, whose call is its first frame; the interrupts   *)
(* that it takes are on top.  While the process sleeps or has yielded, the *)
(* CPU is in the scheduler with interrupts on.  Characters are letters and *)
(* the control characters of consoleintr().                                *)
(*                                                                         *)
(* An operator named like the one after it, with a suffix, is that         *)
(* operator with a plausible mistake; the properties are tested on them.   *)
(***************************************************************************)
EXTENDS Spinlock, FiniteSets, Sequences, SequencesExt

CONSTANTS
    Boot,         \* CPU 0: keyboard interrupts, and the one that counts ticks
    INPUT_BUF,
    UintMod,      \* 2^32 of a uint, a multiple of INPUT_BUF
    Letters,
    Calls,        \* system calls of each CPU: records with f and n
    Ticks0,       \* ticks at the start of a behaviour
    Index0,       \* characters typed and read before it
    MaxEvents     \* bound of the model on characters, ticks and calls

Controls == {"newline", "^D", "^H", "^U", "^P"}
Chars == Letters \cup {"newline", "^D"}
NoKey == "none"

ASSUME DevicesAssumption ==
    /\ Boot \in Cpus /\ NoCpu \notin Cpus /\ Locks = {"cons", "tickslock", "ptable"}
    /\ INPUT_BUF \in Nat \ {0} /\ UintMod \in Nat /\ UintMod % INPUT_BUF = 0
    /\ UintMod > INPUT_BUF

VARIABLES
    st,        \* frames of each CPU
    input,     \* buf, and the indices r, w and e
    kbd,       \* the character that the keyboard or the serial port holds
    clock,     \* ticks, before they wrap
    killed,    \* CPUs whose process is killed
    panic,
    nevents

data == <<input, kbd, clock, killed>>
vars == <<lk, cpu, st, input, kbd, clock, killed, panic, nevents>>

Uint(x) == x % UintMod
At(i) == i % INPUT_BUF
ticks == Uint(clock)

\* f is the function, pc where it is, l the lock it takes or gives back and k
\* where it goes then; n its argument, target n as given, t0 the clock at its
\* start; intena what sched() saves.
User == [f |-> "user", pc |-> "user", l |-> "ptable", k |-> "user",
         n |-> 0, target |-> 0, t0 |-> 0, intena |-> TRUE]
Top(c) == Last(st[c])
Enter(F, l, k) == [F EXCEPT !.pc = "acquire", !.l = l, !.k = k]
Leave(F, l, k) == [F EXCEPT !.pc = "release", !.l = l, !.k = k]
SetTop(c, F) == st' = [st EXCEPT ![c] = Append(Front(@), F)]
In(c, f, pc) == Top(c).f = f /\ Top(c).pc = pc

Init ==
    /\ SpinInit
    /\ st = [c \in Cpus |-> <<User>>]
    /\ input = [buf |-> [i \in 0 .. INPUT_BUF - 1 |-> "0"],
                r |-> Uint(Index0), w |-> Uint(Index0), e |-> Uint(Index0)]
    /\ kbd = NoKey /\ clock = Ticks0 /\ killed = {} /\ panic = {}
    /\ nevents = 0

-----------------------------------------------------------------------------
(* Traps *)

Entry(f) == CASE f \in {"consoleread", "consoleintr"} -> <<"cons", "body">>
              [] f = "consolewrite" -> <<"cons", "print">>
              [] f = "kill" -> <<"ptable", "body">>
              [] f = "sys_sleep" -> <<"tickslock", "start">>
              [] OTHER -> <<"tickslock", "body">>
Call(f, n) == Enter([User EXCEPT !.f = f, !.n = n, !.target = n], Entry(f)[1], Entry(f)[2])

Event == nevents < MaxEvents /\ nevents' = nevents + 1

\* A system call: the gate leaves interrupts on.  A killed process exits.
syscall(c, call) ==
    /\ Top(c).pc = "user" /\ c \notin killed
    /\ Event
    /\ SetTop(c, Call(call.f, call.n))
    /\ UNCHANGED <<lk, cpu, data, panic>>

exit(c) ==
    /\ Top(c).pc = "user" /\ c \in killed
    /\ SetTop(c, [User EXCEPT !.f = "exit", !.pc = "exited"])
    /\ UNCHANGED <<lk, cpu, data, panic, nevents>>

\* An interrupt gate turns interrupts off.
Interrupt(c, F) ==
    /\ cpu[c].if
    /\ st' = [st EXCEPT ![c] = Append(@, F)]
    /\ cpu' = [cpu EXCEPT ![c].if = FALSE]

\* trap() ends a timer interrupt with yield() if a process was running:
\* below is the frame that it interrupted.
Yield(F, below) ==
    IF below.pc \in {"asleep", "ready", "exited"} THEN [F EXCEPT !.pc = "return"]
    ELSE Enter(F, "ptable", "sched")

\* The timer interrupts every CPU; trap() counts ticks on the first.
timer(c) ==
    /\ Event
    /\ Interrupt(c, IF c = Boot THEN Call("timer", 0) ELSE Yield(Call("timer", 0), Top(c)))
    /\ UNCHANGED <<lk, data, panic>>

\* A character comes, and the device interrupts; one that comes while
\* interrupts are off waits, and is as one that comes later.
kbdintr(ch) ==
    /\ Event
    /\ kbd' = ch
    /\ Interrupt(Boot, Call("consoleintr", 0))
    /\ UNCHANGED <<lk, input, clock, killed, panic>>

\* A character comes during consoleintr(), whose loop reads it.
key(ch) ==
    /\ Event
    /\ In(Boot, "consoleintr", "body") /\ kbd = NoKey
    /\ kbd' = ch
    /\ UNCHANGED <<lk, cpu, st, input, clock, killed, panic>>

\* The call returns, or the interrupt: iret turns interrupts on.
returns(c) ==
    /\ Top(c).pc = "return"
    /\ \/ Len(st[c]) = 1 /\ SetTop(c, User) /\ UNCHANGED cpu
       \/ /\ Len(st[c]) > 1
          /\ st' = [st EXCEPT ![c] = Front(@)]
          /\ cpu' = [cpu EXCEPT ![c].if = TRUE]
    /\ UNCHANGED <<lk, data, panic, nevents>>

-----------------------------------------------------------------------------
(* acquire(), release(), sched() and scheduler() *)

pushing(c) ==
    /\ Top(c).pc = "acquire"
    /\ acquire(c, Top(c).l)
    /\ panic' = IF holding(c, Top(c).l) THEN {"acquire"} ELSE {}
    /\ SetTop(c, [Top(c) EXCEPT !.pc = "spin"])
    /\ UNCHANGED <<data, nevents>>

\* What follows when the lock F.l is taken or given back: sleep(), with the lock
\* of the process table, releases the other one, and takes it again at its end;
\* trap() releases tickslock and yields; procdump() prints with cons.lock.
Continue(c, F) ==
    CASE F.k = "sleep" -> Leave(F, Entry(F.f)[1], "sched")
      [] F.k = "again" -> Enter(F, Entry(F.f)[1], "body")
      [] F.k = "unlock" -> Leave(F, "tickslock", "yield")
      [] F.k = "yield" -> Yield(F, st[c][Len(st[c]) - 1])
      [] F.k = "procdump" -> Enter(F, "cons", "print")
      [] OTHER -> [F EXCEPT !.pc = F.k]

spinning(c) ==
    /\ Top(c).pc = "spin"
    /\ xchg(c, Top(c).l)
    /\ SetTop(c, Continue(c, Top(c)))
    /\ UNCHANGED <<data, panic, nevents>>

releasing(c) ==
    /\ Top(c).pc = "release"
    /\ release(c, Top(c).l)
    /\ panic' = CASE ~holding(c, Top(c).l) -> {"release"}
                 [] cpu[c].if \/ cpu[c].ncli < 1 -> {"popcli"}
                 [] OTHER -> {}
    /\ SetTop(c, Continue(c, Top(c)))
    /\ UNCHANGED <<data, nevents>>

sched(c) ==
    /\ Top(c).pc = "sched"
    /\ panic' = IF cpu[c].ncli # 1 \/ ~holding(c, "ptable") \/ cpu[c].if THEN {"sched"} ELSE {}
    /\ schedout(c, "ptable")
    /\ SetTop(c, [Top(c) EXCEPT !.pc = IF Top(c).f = "timer" THEN "ready" ELSE "asleep",
                                !.intena = cpu[c].intena])
    /\ UNCHANGED <<data, nevents>>

\* The process runs again: yield() returns, sleep() takes its lock.
scheduler(c) ==
    /\ Top(c).pc = "ready"
    /\ schedin(c, "ptable", Top(c).intena)
    /\ SetTop(c, Leave(Top(c), "ptable", IF Top(c).f = "timer" THEN "return" ELSE "again"))
    /\ UNCHANGED <<data, panic, nevents>>

\* The frames S when the processes of cs that sleep in one of fs are woken.
Wake(S, cs, fs) ==
    [c \in Cpus |-> IF c \in cs /\ S[c][1].pc = "asleep" /\ S[c][1].f \in fs
                    THEN [S[c] EXCEPT ![1].pc = "ready"] ELSE S[c]]

wakeup(c, f, F) ==
    /\ Top(c).pc = "wakeup"
    /\ st' = Wake([st EXCEPT ![c] = Append(Front(@), F)], Cpus, {f})
    /\ UNCHANGED <<lk, cpu, data, panic, nevents>>

kill(c) ==
    /\ In(c, "kill", "body")
    /\ killed' = killed \cup {Top(c).n}
    /\ st' = Wake([st EXCEPT ![c] = <<Leave(Top(c), "ptable", "return")>>],
                  {Top(c).n}, {"consoleread", "sys_sleep"})
    /\ UNCHANGED <<lk, cpu, input, kbd, clock, panic, nevents>>

-----------------------------------------------------------------------------
(* The console *)

FullOff == Uint(input.e - input.r) > INPUT_BUF
Full == Uint(input.e - input.r) >= INPUT_BUF

\* ^U goes back to the last newline or the write index.
KillTo == LET back == {k \in 0 .. Uint(input.e - input.w) :
                         \A m \in 1 .. k : input.buf[At(Uint(input.e - m))] # "newline"}
          IN  Uint(input.e - (CHOOSE k \in back : \A m \in back : m <= k))

Ended(in) == [in EXCEPT !.w = in.e]
Edited(ch) ==
    LET in == [input EXCEPT !.buf[At(input.e)] = ch, !.e = Uint(@ + 1)]
    IN  CASE ch = "^U" -> [input EXCEPT !.e = KillTo]
          [] ch = "^H" /\ input.e # input.w -> [input EXCEPT !.e = Uint(@ - 1)]
          [] ch \in Chars /\ ~Full ->
               IF ch \in {"newline", "^D"} \/ in.e = Uint(in.r + INPUT_BUF) THEN Ended(in) ELSE in
          [] OTHER -> input

\* One turn of consoleintr()'s loop; after ^P the release is followed by
\* procdump(), which prints.
WakesNewline(ch) == ch = "newline" /\ Edited(ch).w # input.w
Wakes(ch) == Edited(ch).w # input.w
consoleintr(c) ==
    LET F == Top(c)
        ch == kbd
    IN  /\ In(c, "consoleintr", "body")
        /\ \/ /\ kbd = NoKey
              /\ SetTop(c, Leave(F, "cons", IF F.n = 1 THEN "procdump" ELSE "return"))
              /\ UNCHANGED <<input, kbd>>
           \/ /\ kbd # NoKey
              /\ kbd' = NoKey
              /\ input' = Edited(ch)
              /\ SetTop(c, CASE Wakes(ch) -> Enter(F, "ptable", "wakeup")
                             [] ch = "^P" -> [F EXCEPT !.n = 1]
                             [] OTHER -> F)
        /\ UNCHANGED <<lk, cpu, clock, killed, panic, nevents>>

\* One turn of consoleread()'s loop.
Unread(F) == F.n < F.target
consoleread(c) ==
    LET F == Top(c)
        ch == input.buf[At(input.r)]
        next == [input EXCEPT !.r = Uint(@ + 1)]
        done == Leave(F, "cons", "return")
    IN  /\ In(c, "consoleread", "body")
        /\ \/ /\ F.n = 0
              /\ SetTop(c, done) /\ UNCHANGED input
           \/ /\ F.n > 0 /\ input.r = input.w
              /\ SetTop(c, IF c \in killed THEN done ELSE Enter(F, "ptable", "sleep"))
              /\ UNCHANGED input
           \/ /\ F.n > 0 /\ input.r # input.w /\ ch = "^D"
              /\ input' = IF Unread(F) THEN input ELSE next
              /\ SetTop(c, done)
           \/ /\ F.n > 0 /\ input.r # input.w /\ ch # "^D"
              /\ input' = next
              /\ SetTop(c, IF ch = "newline" THEN done ELSE [F EXCEPT !.n = @ - 1])
        /\ UNCHANGED <<lk, cpu, kbd, clock, killed, panic, nevents>>

\* consolewrite() and cprintf() print with the lock.
print(c) ==
    /\ Top(c).pc = "print"
    /\ SetTop(c, Leave(Top(c), "cons", "return"))
    /\ UNCHANGED <<lk, cpu, data, panic, nevents>>

-----------------------------------------------------------------------------
(* The clock *)

tick(c) ==
    /\ In(c, "timer", "body")
    /\ clock' = clock + 1
    /\ SetTop(c, Enter(Top(c), "ptable", "wakeup"))
    /\ UNCHANGED <<lk, cpu, input, kbd, killed, panic, nevents>>

\* ticks - ticks0 < n, unsigned.
TooSoonSum(F) == ticks < Uint(Uint(F.t0) + F.n)
TooSoon(F) == Uint(ticks - Uint(F.t0)) < Uint(F.n)
sys_sleep(c) ==
    LET F == IF Top(c).pc = "start" THEN [Top(c) EXCEPT !.t0 = clock] ELSE Top(c)
    IN  /\ F.f = "sys_sleep" /\ F.pc \in {"start", "body"}
        /\ SetTop(c, IF TooSoon(F) /\ c \notin killed THEN Enter(F, "ptable", "sleep")
                     ELSE Leave(F, "tickslock", "return"))
        /\ UNCHANGED <<lk, cpu, data, panic, nevents>>

sys_uptime(c) ==
    /\ In(c, "sys_uptime", "body")
    /\ SetTop(c, Leave(Top(c), "tickslock", "return"))
    /\ UNCHANGED <<lk, cpu, data, panic, nevents>>

\* wakeup() is followed by the rest of consoleintr() or of trap().
Wakeup(c) ==
    \/ Top(c).f = "consoleintr" /\ wakeup(c, "consoleread", Leave(Top(c), "ptable", "body"))
    \/ Top(c).f = "timer" /\ wakeup(c, "sys_sleep", Leave(Top(c), "ptable", "unlock"))

-----------------------------------------------------------------------------
Step(c) ==
    \/ pushing(c) \/ spinning(c) \/ releasing(c) \/ returns(c) \/ exit(c)
    \/ sched(c) \/ scheduler(c) \/ kill(c) \/ Wakeup(c)
    \/ consoleintr(c) \/ consoleread(c) \/ print(c) \/ tick(c) \/ sys_sleep(c) \/ sys_uptime(c)

Next ==
    /\ panic = {}
    /\ \/ \E c \in Cpus : Step(c) \/ timer(c) \/ \E call \in Calls[c] : syscall(c, call)
       \/ \E ch \in Letters \cup Controls : kbdintr(ch) \/ key(ch)

Spec == Init /\ [][Next]_vars

-----------------------------------------------------------------------------
(* Properties *)

Pcs == {"user", "acquire", "spin", "release", "return", "exited", "sched", "ready", "asleep",
        "wakeup", "body", "start", "print"}

\* The frames, locks, indices and counters have their types; interrupts nest
\* at most twice on a process.
TypeOK ==
    /\ SpinTypeOK
    /\ \A c \in Cpus : Len(st[c]) \in 1 .. 3 /\ \A i \in DOMAIN st[c] :
         st[c][i].pc \in Pcs /\ st[c][i].l \in Locks /\ st[c][i].n \in Int
    /\ input.buf \in [0 .. INPUT_BUF - 1 -> Chars \cup {"0"}]
    /\ {input.r, input.w, input.e} \subseteq 0 .. UintMod - 1
    /\ clock \in Nat /\ killed \subseteq Cpus
    /\ panic \subseteq {"acquire", "release", "popcli", "sched"}

\* A CPU that has a spin lock takes no interrupt, and pushcli() is nested as
\* deep as the locks that it has, with the one it is taking or giving back.
LocksMasked ==
    \A c \in Cpus :
        LET held == Cardinality({l \in Locks : holding(c, l)})
        IN  /\ cpu[c].ncli = held + (IF Top(c).pc = "spin" THEN 1 ELSE 0)
            /\ cpu[c].ncli > 0 => ~cpu[c].if

\* acquire(), release(), popcli() and sched() never panic: no CPU waits for a
\* lock that it has, and none sleeps with a second one.
NoLockPanic == panic = {}

\* Locks and interrupts go together in every nesting of calls, interrupts and
\* switches: locks are held with interrupts off, pushcli() and popcli() match,
\* and no CPU takes a lock that it has or gives back one that it has not.
LocksSound == TypeOK /\ LocksMasked /\ NoLockPanic

\* Interrupts are as they were when the locks are given back: on in a system
\* call and in the scheduler, off in an interrupt handler, also after yield().
InterruptsRestored ==
    \A c \in Cpus : cpu[c].ncli = 0 =>
        (cpu[c].if <=> Len(st[c]) = 1 \/ Top(c).pc \in {"ready", "asleep"})

\* A process sleeps only while what it waits for has not happened, or the one
\* that will wake it is on its way: a line is complete, the clock reaches
\* the time.
SleeperHasWaker ==
    \A c \in Cpus : st[c][1].pc = "asleep" =>
        LET F == st[c][1]
            Coming(f) == \E d \in Cpus : \E i \in DOMAIN st[d] :
                           st[d][i].f = f /\ "wakeup" \in {st[d][i].pc, st[d][i].k}
        IN  /\ F.f = "consoleread" => input.r = input.w \/ Coming("consoleintr")
            /\ F.f = "sys_sleep" => TooSoon(F) \/ Coming("timer")

\* sys_sleep() of a process that is not killed returns when n ticks have come
\* after its start, and the counter may have wrapped in between.
SleptLongEnough ==
    \A c \in Cpus : LET F == st[c][1] IN
        F.f = "sys_sleep" /\ F.pc = "return" /\ c \notin killed => clock - F.t0 >= Uint(F.n)

\* sleep() of the console and the clock is exact: nobody oversleeps, as what
\* a sleeper waits for is still to come or its waker is on the way, and
\* sys_sleep() does not return early.
SleepExact == SleeperHasWaker /\ SleptLongEnough

Between(i, j) == [k \in 1 .. Uint(j - i) |-> input.buf[At(Uint(i + k - 1))]]
tty == INSTANCE Tty WITH Size <- INPUT_BUF, Ends <- {"newline", "^D"},
                         ready <- Between(input.r, input.w), line <- Between(input.w, input.e)

\* The ring buffer is a line discipline: lines are read in the order typed,
\* each character once, and editing never touches a finished line.
ImplementsTty == tty!TtySpec

\* Step(c) is enabled: a call or an interrupt is under way, and the lock that it
\* spins for is free.
Going(c) ==
    /\ panic = {} /\ Top(c).pc \notin {"asleep", "exited"}
    /\ Top(c).pc = "user" => c \in killed
    /\ Top(c).pc = "spin" => lk[Top(c).l] = NoCpu
    /\ Top(c).pc = "ready" => lk["ptable"] = NoCpu

\* The CPUs run (weak fairness of Step, spelt out).
FairSpec == Spec /\ \A c \in Cpus : []<>~Going(c) \/ []<><<Step(c)>>_vars

\* A reader that sleeps when a line is complete goes on, and a sleeping
\* process whose time has come.
SleeperRuns ==
    \A c \in Cpus :
        st[c][1].pc = "asleep" /\ (\/ st[c][1].f = "consoleread" /\ input.r # input.w
                                   \/ st[c][1].f = "sys_sleep" /\ ~TooSoon(st[c][1]))
            ~> st[c][1].pc \notin {"asleep", "ready"}
=============================================================================
