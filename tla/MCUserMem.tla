------------------------------ MODULE MCUserMem ------------------------------
(* Instance of UserMem: pages run out in the second of two programs.  The      *)
(* images: one that fits, one whose arguments do not fit, one that takes all   *)
(* memory; one not aligned, one whose end wraps, one with memsz < filesz.      *)
EXTENDS UserMem, TLC

CONSTANTS p1, p2, p3

Seg(v, m, f) == [vaddr |-> v, memsz |-> m, filesz |-> f]
MCImages == {[segs |-> <<Seg(0, 1, 1)>>, args |-> 1], [segs |-> <<Seg(0, 1, 1)>>, args |-> 3],
             [segs |-> <<Seg(0, 2, 1), Seg(2, 5, 3)>>, args |-> 1],
             [segs |-> <<Seg(1, 1, 1)>>, args |-> 1], [segs |-> <<Seg(22, 3, 1)>>, args |-> 1],
             [segs |-> <<Seg(0, 1, 2)>>, args |-> 1]}
MCBuffers == {[addr |-> 1, n |-> 2]}
MCStacks == {0, 1}
Symmetry == Permutations({p2, p3})
MCIncrements == {-2, 1, 3}
=============================================================================
