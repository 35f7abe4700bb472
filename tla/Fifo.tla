-------------------------------- MODULE Fifo --------------------------------
(***************************************************************************)
(* What a pipe promises: a queue of at most Size bytes, whose bytes come   *)
(* out in the order they went in, each exactly once.                       *)
(***************************************************************************)
EXTENDS Naturals, Sequences

CONSTANTS Bytes, Size

VARIABLES queue,  \* bytes written and not yet read
          last    \* <<>>, or the byte read last as a sequence of length 1

vars == <<queue, last>>

Init == queue = <<>> /\ last = <<>>

\* A byte is written.
Put(b) ==
    /\ Len(queue) < Size
    /\ queue' = Append(queue, b)
    /\ UNCHANGED last

\* A byte is read.
Get ==
    /\ queue # <<>>
    /\ last' = <<Head(queue)>>
    /\ queue' = Tail(queue)

Next == Get \/ \E b \in Bytes : Put(b)

Spec == Init /\ [][Next]_vars
=============================================================================
