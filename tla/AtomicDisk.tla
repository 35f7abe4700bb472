----------------------------- MODULE AtomicDisk -----------------------------
(***************************************************************************)
(* What the log of log.c promises to the file system: a disk whose blocks  *)
(* are written by operations, all of whose writes since the last commit    *)
(* reach the disk together or, after a crash, not at all.                  *)
(***************************************************************************)
EXTENDS Naturals

CONSTANTS Blocks, Vals

VARIABLES
    mem,      \* the blocks as the running system sees them
    durable,  \* the blocks a restart would find
    active    \* operations between begin_op() and end_op()

vars == <<mem, durable, active>>

Init ==
    /\ durable \in [Blocks -> Vals]
    /\ mem = durable
    /\ active = 0

\* An operation begins.
Begin == active' = active + 1 /\ UNCHANGED <<mem, durable>>

\* A block is written inside an operation.
Write(b, v) ==
    /\ active > 0
    /\ mem' = [mem EXCEPT ![b] = v]
    /\ UNCHANGED <<durable, active>>

\* An operation ends.
End ==
    /\ active > 0
    /\ active' = active - 1
    /\ UNCHANGED <<mem, durable>>

\* Every write becomes durable at once, never in the middle of an operation.
Commit ==
    /\ active = 0
    /\ durable' = mem
    /\ UNCHANGED <<mem, active>>

\* The machine stops and restarts.
Crash ==
    /\ mem' = durable
    /\ active' = 0
    /\ UNCHANGED durable

Next ==
    \/ Begin \/ End \/ Commit \/ Crash
    \/ \E b \in Blocks, v \in Vals : Write(b, v)

Spec == Init /\ [][Next]_vars
=============================================================================
