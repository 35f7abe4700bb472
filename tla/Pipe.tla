-------------------------------- MODULE Pipe --------------------------------
(***************************************************************************)
(* One pipe (pipe.c) with the processes that hold its two ends: pipewrite, *)
(* piperead and pipeclose under the pipe's lock, the sleep() and wakeup()  *)
(* of proc.c they use, fileclose() of file.c and kill().                   *)
(*                                                                         *)
(* A step is one turn of a loop under p->lock, one change of p->lock, or   *)
(* one critical section of ptable.lock.  Between the test that makes a     *)
(* process sleep and sleep()'s acquire of ptable.lock it holds p->lock     *)
(* only: kill(), which takes ptable.lock alone, can run there.             *)
(*                                                                         *)
(* nread and nwrite are C uints: they wrap at UintMod.                     *)
(*                                                                         *)
(* An operator named like the one after it, with a suffix, is that         *)
(* operator with a plausible mistake; the properties are tested on them.   *)
(***************************************************************************)
EXTENDS Naturals, Sequences, FiniteSets

CONSTANTS
    Writers, Readers,  \* processes that hold a write or a read descriptor
    NoProc,            \* p->lock is free
    Bytes,
    PIPESIZE,
    UintMod,           \* 2^32 in the code
    MaxLen,            \* longest n of a call
    MaxCalls           \* bound of the model: calls in a behaviour

ASSUME PipeAssumption ==
    /\ Writers \cap Readers = {}
    /\ IsFiniteSet(Writers) /\ IsFiniteSet(Readers)
    /\ NoProc \notin Writers \cup Readers
    /\ PIPESIZE \in Nat \ {0}
    /\ UintMod \in Nat /\ UintMod > PIPESIZE /\ UintMod % PIPESIZE = 0
    /\ MaxLen \in Nat /\ MaxCalls \in Nat

Procs == Writers \cup Readers

VARIABLES
    data, nread, nwrite, readopen, writeopen,  \* struct pipe
    freed,    \* the page of the pipe was given to kfree()
    ref,      \* references of the two struct files
    lock,     \* holder of p->lock
    pc,       \* where each process is, see PCs
    todo,     \* n - i in the loop of the call
    got,      \* i of piperead()
    killed,
    last,     \* the byte read last, as in Fifo
    ncalls    \* calls made, see MaxCalls

pipe == <<data, nread, nwrite, readopen, writeopen, freed>>
vars == <<data, nread, nwrite, readopen, writeopen, freed, ref, lock, pc, todo,
          got, killed, last, ncalls>>

PCs == {"out",       \* outside, descriptor open
        "write",     \* in pipewrite()'s loop
        "read",      \* in piperead()'s first loop
        "copy",      \* in piperead()'s second loop
        "tosleep",   \* in sleep(), before ptable.lock
        "asleep",
        "awake",     \* woken, before sleep() has p->lock back
        "closing",   \* last fileclose(), before pipeclose()
        "gone"}      \* descriptor closed

TypeOK ==
    /\ data \in [0 .. PIPESIZE - 1 -> Bytes]
    /\ nread \in 0 .. UintMod - 1 /\ nwrite \in 0 .. UintMod - 1
    /\ readopen \in BOOLEAN /\ writeopen \in BOOLEAN /\ freed \in BOOLEAN
    /\ ref \in [{"r", "w"} -> Nat]
    /\ lock \in Procs \cup {NoProc}
    /\ pc \in [Procs -> PCs]
    /\ todo \in [Procs -> 0 .. MaxLen] /\ got \in [Procs -> Nat]
    /\ killed \in [Procs -> BOOLEAN]
    /\ last \in Seq(Bytes)
    /\ ncalls \in Nat

\* pipealloc(), then fork() and filedup() for each holder of a descriptor.
Init ==
    /\ \E b \in Bytes : data = [i \in 0 .. PIPESIZE - 1 |-> b]
    /\ nread = 0 /\ nwrite = 0
    /\ readopen = TRUE /\ writeopen = TRUE
    /\ freed = FALSE
    /\ ref = [e \in {"r", "w"} |-> Cardinality(IF e = "r" THEN Readers ELSE Writers)]
    /\ lock = NoProc
    /\ pc = [p \in Procs |-> "out"]
    /\ todo = [p \in Procs |-> 0] /\ got = [p \in Procs |-> 0]
    /\ killed = [p \in Procs |-> FALSE]
    /\ last = <<>>
    /\ ncalls = 0

-----------------------------------------------------------------------------
(* Helpers *)

\* unsigned addition
Plus(x, k) == IF x + k < UintMod THEN x + k ELSE x + k - UintMod

FullWide == nwrite = nread + PIPESIZE
Full == nwrite = Plus(nread, PIPESIZE)
Empty == nread = nwrite

\* wakeup(&p->nread) wakes readers, wakeup(&p->nwrite) writers.
wakeup_none(f, S) == f
wakeup(f, S) == [p \in Procs |-> IF p \in S /\ f[p] = "asleep" THEN "awake" ELSE f[p]]

\* Leave the critical section for label l.
Release(p, l, woken) ==
    /\ lock' = NoProc
    /\ pc' = [wakeup(pc, woken) EXCEPT ![p] = l]

-----------------------------------------------------------------------------
(* pipewrite() *)

\* acquire(); trap() lets no killed process make the call.
pipewrite(p) ==
    /\ pc[p] = "out" /\ ~killed[p]
    /\ ncalls < MaxCalls
    /\ lock = NoProc
    /\ lock' = p
    /\ pc' = [pc EXCEPT ![p] = "write"]
    /\ \E n \in 0 .. MaxLen : todo' = [todo EXCEPT ![p] = n]
    /\ ncalls' = ncalls + 1
    /\ UNCHANGED <<pipe, ref, got, killed, last>>

WriteByte(p) ==
    /\ pc[p] = "write" /\ todo[p] > 0
    /\ ~Full
    /\ \E b \in Bytes : data' = [data EXCEPT ![nwrite % PIPESIZE] = b]
    /\ nwrite' = Plus(nwrite, 1)
    /\ todo' = [todo EXCEPT ![p] = @ - 1]
    /\ UNCHANGED <<nread, readopen, writeopen, freed, ref, lock, pc, got, killed,
                   last, ncalls>>

\* The pipe is full: give up, or wake the readers and go to sleep.
WriteFull(p) ==
    /\ pc[p] = "write" /\ todo[p] > 0
    /\ Full
    /\ \/ /\ ~readopen \/ killed[p]
          /\ Release(p, "out", {})
          /\ todo' = [todo EXCEPT ![p] = 0]
       \/ /\ ~(~readopen \/ killed[p])
          /\ pc' = [wakeup(pc, Readers) EXCEPT ![p] = "tosleep"]
          /\ UNCHANGED <<lock, todo>>
    /\ UNCHANGED <<pipe, ref, got, killed, last, ncalls>>

WriteDone(p) ==
    /\ pc[p] = "write" /\ todo[p] = 0
    /\ Release(p, "out", Readers)
    /\ UNCHANGED <<pipe, ref, todo, got, killed, last, ncalls>>

-----------------------------------------------------------------------------
(* piperead() *)

piperead(p) ==
    /\ pc[p] = "out" /\ ~killed[p]
    /\ ncalls < MaxCalls
    /\ lock = NoProc
    /\ lock' = p
    /\ pc' = [pc EXCEPT ![p] = "read"]
    /\ \E n \in 0 .. MaxLen : todo' = [todo EXCEPT ![p] = n]
    /\ got' = [got EXCEPT ![p] = 0]
    /\ ncalls' = ncalls + 1
    /\ UNCHANGED <<pipe, ref, killed, last>>

\* One test of the first loop: sleep, return -1, or go on to copy.
ReadWait(p) ==
    /\ pc[p] = "read"
    /\ \/ /\ Empty /\ writeopen /\ killed[p]
          /\ Release(p, "out", {})
          /\ todo' = [todo EXCEPT ![p] = 0]
       \/ /\ Empty /\ writeopen /\ ~killed[p]
          /\ pc' = [pc EXCEPT ![p] = "tosleep"]
          /\ UNCHANGED <<lock, todo>>
       \/ /\ ~(Empty /\ writeopen)
          /\ pc' = [pc EXCEPT ![p] = "copy"]
          /\ UNCHANGED <<lock, todo>>
    /\ UNCHANGED <<pipe, ref, got, killed, last, ncalls>>

ReadByte(p) ==
    /\ pc[p] = "copy" /\ todo[p] > 0
    /\ ~Empty
    /\ last' = <<data[nread % PIPESIZE]>>
    /\ nread' = Plus(nread, 1)
    /\ todo' = [todo EXCEPT ![p] = @ - 1]
    /\ got' = [got EXCEPT ![p] = @ + 1]
    /\ UNCHANGED <<data, nwrite, readopen, writeopen, freed, ref, lock, pc, killed, ncalls>>

ReadDone(p) ==
    /\ pc[p] = "copy"
    /\ todo[p] = 0 \/ Empty
    /\ Release(p, "out", Writers)
    /\ todo' = [todo EXCEPT ![p] = 0]
    /\ UNCHANGED <<pipe, ref, got, killed, last, ncalls>>

-----------------------------------------------------------------------------
(* sleep(), kill() *)

\* sleep(): ptable.lock is taken, p->lock released, the state set to SLEEPING.
Sleep(p) ==
    /\ pc[p] = "tosleep"
    /\ Release(p, "asleep", {})
    /\ UNCHANGED <<pipe, ref, todo, got, killed, last, ncalls>>

\* Both loops test again after sleep().
AfterSleepIf(p) == IF p \in Writers THEN "write" ELSE "copy"
AfterSleep(p) == IF p \in Writers THEN "write" ELSE "read"

\* The end of sleep(): reacquire p->lock, back to the loop.
Reacquire(p) ==
    /\ pc[p] = "awake"
    /\ lock = NoProc
    /\ lock' = p
    /\ pc' = [pc EXCEPT ![p] = AfterSleep(p)]
    /\ UNCHANGED <<pipe, ref, todo, got, killed, last, ncalls>>

kill(p) ==
    /\ ~killed[p]
    /\ killed' = [killed EXCEPT ![p] = TRUE]
    /\ pc' = wakeup(pc, {p})
    /\ UNCHANGED <<pipe, ref, lock, todo, got, last, ncalls>>

-----------------------------------------------------------------------------
(* close(), also from exit() *)

End(p) == IF p \in Writers THEN "w" ELSE "r"

LastRefAny(p) == TRUE
LastRef(p) == ref[End(p)] = 1

\* fileclose() under ftable.lock
fileclose(p) ==
    /\ pc[p] = "out"
    /\ ref' = [ref EXCEPT ![End(p)] = @ - 1]
    /\ pc' = [pc EXCEPT ![p] = IF LastRef(p) THEN "closing" ELSE "gone"]
    /\ UNCHANGED <<pipe, lock, todo, got, killed, last, ncalls>>

pipeclose(p) ==
    /\ pc[p] = "closing"
    /\ lock = NoProc
    /\ \/ /\ p \in Writers
          /\ writeopen' = FALSE
          /\ pc' = [wakeup(pc, Readers) EXCEPT ![p] = "gone"]
          /\ UNCHANGED readopen
       \/ /\ p \in Readers
          /\ readopen' = FALSE
          /\ pc' = [wakeup(pc, Writers) EXCEPT ![p] = "gone"]
          /\ UNCHANGED writeopen
    /\ freed' = (freed \/ ~(readopen' \/ writeopen'))
    /\ UNCHANGED <<data, nread, nwrite, ref, lock, todo, got, killed, last, ncalls>>

-----------------------------------------------------------------------------
\* Steps inside the kernel.
Kernel(p) ==
    \/ WriteByte(p) \/ WriteFull(p) \/ WriteDone(p)
    \/ ReadWait(p) \/ ReadByte(p) \/ ReadDone(p)
    \/ Sleep(p) \/ Reacquire(p) \/ pipeclose(p)

Next ==
    \E p \in Procs :
        \/ p \in Writers /\ pipewrite(p)
        \/ p \in Readers /\ piperead(p)
        \/ Kernel(p) \/ kill(p) \/ fileclose(p)

Spec == Init /\ [][Next]_vars

\* A process in the kernel is scheduled again and again, and the holder of
\* p->lock always releases it.  A killed process exits.  A reader reads on
\* until it closes its end; a writer may do nothing for ever.
FairSpec ==
    /\ Spec
    /\ \A p \in Procs : WF_vars(Kernel(p)) /\ WF_vars(killed[p] /\ fileclose(p))
    /\ \A p \in Readers : WF_vars(piperead(p) \/ fileclose(p))

-----------------------------------------------------------------------------
(* Properties *)

\* Bytes in the pipe.
Count == IF nwrite >= nread THEN nwrite - nread ELSE nwrite + UintMod - nread

\* The ring never holds more than PIPESIZE bytes, also when the counters have
\* wrapped, so that no byte is overwritten before it is read.
NoOverrun == Count <= PIPESIZE

Ring == INSTANCE Fifo WITH
    Size <- PIPESIZE,
    queue <- [i \in 1 .. Count |-> data[Plus(nread, i - 1) % PIPESIZE]]

\* The pipe is a bounded first-in first-out queue of bytes for any number of
\* readers and writers that interleave, sleep, are killed and close.
FifoOrder == Ring!Spec

\* The page of the pipe is freed only when no process can touch it again.
NoUseAfterFree == freed => \A p \in Procs : pc[p] = "gone"

\* piperead() returns 0 to a reader that asked for bytes, end of file, only when
\* the pipe is drained and its write end closed; a reader woken for bytes that
\* another reader took sleeps again.
EofIsFinal ==
    [][\A p \in Readers :
          pc[p] = "copy" /\ pc'[p] = "out" /\ todo[p] > 0 /\ got[p] = 0 =>
              Empty /\ ~writeopen]_vars

\* No lost wakeup: while a reader sleeps although there are bytes or no writer
\* is left, or a writer sleeps although there is room or no reader is left,
\* some process inside its critical section is about to wake it.  The exception
\* are bytes left by a killed writer: on a full pipe it returns from pipewrite()
\* without wakeup(&p->nread).
NoLostWakeup ==
    /\ \A p \in Readers : pc[p] = "asleep" /\ (~Empty \/ ~writeopen) =>
          \E q \in Writers : pc[q] = "write" \/ killed[q]
    /\ \A p \in Writers : pc[p] = "asleep" /\ (~Full \/ ~readopen) =>
          \E q \in Readers : pc[q] = "copy"

\* A call of pipewrite() returns, as long as the readers go on reading or close.
WriteReturns == \A p \in Writers : pc[p] = "write" ~> pc[p] = "out"

=============================================================================
