----------------------------- MODULE BlockStore -----------------------------
(***************************************************************************)
(* What the buffer cache promises its clients (log.c and fs.c): a store of *)
(* disk blocks.  A process that has read a block owns it alone until it    *)
(* releases it, sees the value last written to it by any process, and may  *)
(* change it in memory or write it through to the disk.  Nothing reaches   *)
(* the disk but by such a write of an owner.                               *)
(***************************************************************************)
CONSTANTS Procs, Blocks, Vals, NoOwner

VARIABLES
    value,   \* the current contents of every block
    durable, \* the contents of every block on the disk
    owner,   \* the process that owns a block, or NoOwner
    seen     \* for an owned block, the contents its owner sees

vars == <<value, durable, owner, seen>>

Init ==
    /\ value \in [Blocks -> Vals]
    /\ durable = value
    /\ owner = [b \in Blocks |-> NoOwner]
    /\ seen = value

Read(p, b) ==
    /\ owner[b] = NoOwner
    /\ owner' = [owner EXCEPT ![b] = p]
    /\ seen' = [seen EXCEPT ![b] = value[b]]
    /\ UNCHANGED <<value, durable>>

Modify(p, b, v) ==
    /\ owner[b] = p
    /\ value' = [value EXCEPT ![b] = v]
    /\ seen' = [seen EXCEPT ![b] = v]
    /\ UNCHANGED <<durable, owner>>

WriteThrough(p, b) ==
    /\ owner[b] = p
    /\ durable' = [durable EXCEPT ![b] = value[b]]
    /\ UNCHANGED <<value, owner, seen>>

Release(p, b) ==
    /\ owner[b] = p
    /\ owner' = [owner EXCEPT ![b] = NoOwner]
    /\ seen' = [seen EXCEPT ![b] = value[b]]
    /\ UNCHANGED <<value, durable>>

Next ==
    \E p \in Procs, b \in Blocks :
        \/ Read(p, b) \/ WriteThrough(p, b) \/ Release(p, b)
        \/ \E v \in Vals : Modify(p, b, v)

Spec == Init /\ [][Next]_vars
=============================================================================
