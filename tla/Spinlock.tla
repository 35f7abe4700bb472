------------------------------ MODULE Spinlock ------------------------------
(***************************************************************************)
(* Spin locks and interrupts of a CPU (spinlock.c, the gates of trap.c):   *)
(* acquire() turns interrupts off before it spins, release() turns them on *)
(* when the outermost lock is given back and they were on before.  The     *)
(* operators take the CPU and the lock; Devices runs them.                 *)
(*                                                                         *)
(* An operator named like the one after it, with a suffix, is that         *)
(* operator with a plausible mistake; the properties are tested on them.   *)
(***************************************************************************)
EXTENDS Integers

CONSTANTS Cpus, Locks, NoCpu

VARIABLES
    lk,     \* struct spinlock: the CPU that has it, or NoCpu
    cpu     \* struct cpu: ncli, intena, and the interrupt flag IF of the CPU

SpinInit ==
    /\ lk = [l \in Locks |-> NoCpu]
    /\ cpu = [c \in Cpus |-> [ncli |-> 0, intena |-> FALSE, if |-> TRUE]]

holding(c, l) == lk[l] = c

pushcli(C) == [C EXCEPT !.ncli = @ + 1, !.intena = IF C.ncli = 0 THEN C.if ELSE @, !.if = FALSE]

popcliEarly(C) == [C EXCEPT !.ncli = @ - 1, !.if = C.intena]
popcli(C) == [C EXCEPT !.ncli = @ - 1, !.if = IF C.ncli = 1 THEN C.intena ELSE @]

\* acquire() up to the loop.
acquire(c, l) == cpu' = [cpu EXCEPT ![c] = pushcli(@)] /\ UNCHANGED lk

\* xchg() finds the lock free.
xchg(c, l) == lk[l] = NoCpu /\ lk' = [lk EXCEPT ![l] = c] /\ UNCHANGED cpu

\* release(): the lock is free, then interrupts are on; the CPU does nothing
\* in between that another one could tell.
release(c, l) ==
    /\ lk' = [lk EXCEPT ![l] = NoCpu]
    /\ cpu' = [cpu EXCEPT ![c] = popcli(@)]

\* sched() leaves the CPU to the scheduler, which gives the lock of the process
\* table back and turns interrupts on.
schedout(c, l) ==
    /\ lk' = [lk EXCEPT ![l] = NoCpu]
    /\ cpu' = [cpu EXCEPT ![c] = [@ EXCEPT !.ncli = @ - 1, !.if = TRUE]]

\* The scheduler takes the lock and switches to a process in sched(), which
\* restores the intena it saved.
schedinKeeps(c, l, intena) ==
    /\ lk[l] = NoCpu /\ lk' = [lk EXCEPT ![l] = c]
    /\ cpu' = [cpu EXCEPT ![c] = pushcli(@)]
schedin(c, l, intena) ==
    /\ lk[l] = NoCpu /\ lk' = [lk EXCEPT ![l] = c]
    /\ cpu' = [cpu EXCEPT ![c] = [pushcli(@) EXCEPT !.intena = intena]]

SpinTypeOK ==
    /\ lk \in [Locks -> Cpus \cup {NoCpu}]
    /\ cpu \in [Cpus -> [ncli : Nat, intena : BOOLEAN, if : BOOLEAN]]
=============================================================================
