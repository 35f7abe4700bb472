------------------------------ MODULE ByteFile ------------------------------
(***************************************************************************)
(* What an open file promises: a file is a sequence of bytes, and an open  *)
(* file an offset in it, shared by everybody who inherited it.  A piece of *)
(* a write() lands at the offset, a read() returns what is there, both     *)
(* advance the offset, and nothing else ever changes a byte.  Now and then *)
(* all files are saved; a crash takes all of them back to that.            *)
(***************************************************************************)
EXTENDS Integers, Sequences

CONSTANTS Writers, Inodes, Opens, Closed, Initial

VARIABLES
    content,   \* the bytes of every file
    saved,     \* the bytes that a crash would leave
    open,      \* open files: inode and offset, or Closed
    got        \* the bytes that the last read() returned

absVars == <<content, saved, open, got>>

AbsInit ==
    /\ content = Initial /\ saved = Initial
    /\ open = [f \in Opens |-> Closed]
    /\ got = <<>>

\* s with the bytes of d put over it from offset o on.
Overlay(s, o, d) ==
    [k \in 1 .. (IF o + Len(d) > Len(s) THEN o + Len(d) ELSE Len(s)) |->
        IF k > o /\ k <= o + Len(d) THEN d[k - o] ELSE s[k]]

\* A piece of n bytes of writer p.
Save == saved' \in {saved, content'}

Write(f, p, n) ==
    /\ content' = [content EXCEPT ![open[f].ip] = Overlay(@, open[f].off, [k \in 1 .. n |-> p])]
    /\ open' = [open EXCEPT ![f].off = @ + n]
    /\ Save
    /\ UNCHANGED got

Read(f, n) ==
    /\ open[f].off + n <= Len(content[open[f].ip])
    /\ got' = SubSeq(content[open[f].ip], open[f].off + 1, open[f].off + n)
    /\ open' = [open EXCEPT ![f].off = @ + n]
    /\ UNCHANGED <<content, saved>>

Open(f) ==
    /\ open[f] = Closed
    /\ \E i \in Inodes : open' = [open EXCEPT ![f] = [ip |-> i, off |-> 0]]
    /\ Save
    /\ UNCHANGED <<content, got>>

\* The last close of a removed file, and the removal of a closed one, discard
\* the bytes.
Discard ==
    /\ \A f \in Opens : open'[f] \in {open[f], Closed}
    /\ \A i \in Inodes :
         \/ content'[i] = content[i]
         \/ content'[i] = <<>> /\ \A f \in Opens : open'[f] = Closed \/ open'[f].ip # i
    /\ Save
    /\ UNCHANGED got

Crash ==
    /\ content' = saved
    /\ open' = [f \in Opens |-> Closed]
    /\ UNCHANGED <<saved, got>>

AbsNext ==
    \/ \E f \in Opens :
         \/ Open(f)
         \/ /\ open[f] # Closed
            /\ \E n \in {open'[f].off - open[f].off} \cap Nat :
                 Read(f, n) \/ \E p \in Writers : Write(f, p, n)
    \/ Discard \/ Crash

AbsSpec == AbsInit /\ [][AbsNext]_absVars
=============================================================================
