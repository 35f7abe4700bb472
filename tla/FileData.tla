------------------------------- MODULE FileData -------------------------------
(***************************************************************************)
(* The contents of files (fs.c, file.c): the block map of an inode with    *)
(* its indirect block, the bitmap of the disk, readi() and writei(), and   *)
(* write() calls that are cut into pieces of one transaction each, by      *)
(* processes that share open files, from the disk that mkfs.c makes on.    *)
(*                                                                         *)
(* A step holds the inode lock and one operation of the log.  Its end_op() *)
(* commits, and everything that finished before it, unless other system    *)
(* calls are in operations then: either may be the case.  A block is a     *)
(* function from its positions to bytes or, in an indirect block, block    *)
(* numbers.                                                                *)
(*                                                                         *)
(* An operator named like the one after it, with a suffix, is that         *)
(* operator with a plausible mistake; the properties are tested on them.   *)
(***************************************************************************)
EXTENDS Naturals, FiniteSets, FiniteSetsExt, Sequences, SequencesExt

CONSTANTS
    Procs,       \* writers, numbered from 1: each writes bytes of its own
    NInodes,
    Opens,
    Files,       \* the bytes of the files that mkfs is given
    BSIZE,       \* positions of a block, bytes or block numbers
    NDIRECT,
    NBlocks,     \* data blocks of the disk
    LOGSIZE,
    Counts,      \* lengths of the read() and write() calls
    MaxCalls,    \* bound of the model: write(), open() and unlink() calls
    MaxCrashes   \* bound of the model: crashes in a behaviour

NINDIRECT == BSIZE
MAXFILE == NDIRECT + NINDIRECT
Blocks == 1 .. NBlocks
Inodes == 1 .. NInodes
ROOTINO == 1
BitmapBlock == 0
InodeBlock == NBlocks + 1
Closed == [ip |-> 0, off |-> 0]

ASSUME FileDataAssumption ==
    /\ BSIZE \in Nat \ {0} /\ NDIRECT \in Nat \ {0} /\ NBlocks \in Nat
    /\ LOGSIZE \in Nat /\ LOGSIZE >= 6
    /\ Procs \subseteq Nat \ {0} /\ Counts \subseteq Nat
    /\ 0 \notin Opens /\ NInodes \in Nat /\ Len(Files) < NInodes

VARIABLES
    used,      \* blocks whose bit is set in the bitmap
    blk,       \* contents of the data blocks
    ino,       \* inodes in memory: size and addrs
    dinode,    \* the same on the disk
    state,     \* "linked", "removed" while still open, or "free"
    open,      \* struct file: ip and off
    pr,        \* write() calls: the file, the bytes to go
    got,       \* what the last read() returned
    logged,    \* blocks in the transaction of the last step
    durable,   \* the disk as of the last commit
    panic, ncalls, ncrash

disk == <<used, blk, ino, dinode>>
vars == <<used, blk, ino, dinode, state, open, pr, got, logged, durable, panic, ncalls, ncrash>>

Zeros == [k \in 0 .. BSIZE - 1 |-> 0]
Empty == [size |-> 0, addrs |-> [k \in 0 .. NDIRECT |-> 0]]
NoCall == [f |-> 0, left |-> 0]

\* The disk, and the end_op() of a system call: it commits or leaves that to a
\* later one.  A panic does not get there.
OnDisk == [used |-> used, blk |-> blk, ino |-> dinode, state |-> state]
end_op == durable' = durable \/ (panic' = {} /\ durable' = OnDisk')

-----------------------------------------------------------------------------
(* mkfs: the disk D has its inodes, its blocks and the next free block.  An   *)
(* entry of the root directory takes one position of a block.                 *)

\* The block that byte number size goes to.
AppendBlock(D, i) ==
    LET fbn == D.ino[i].size \div BSIZE
        k == IF fbn < NDIRECT THEN fbn ELSE NDIRECT
        E == IF D.ino[i].addrs[k] # 0 THEN D
             ELSE [D EXCEPT !.ino[i].addrs[k] = D.freeblock, !.freeblock = @ + 1]
        a == E.ino[i].addrs[NDIRECT]
    IN  IF fbn < NDIRECT \/ E.blk[a][fbn - NDIRECT] # 0 THEN E
        ELSE [E EXCEPT !.blk[a][fbn - NDIRECT] = E.freeblock, !.freeblock = @ + 1]

\* bmap() as a value, 0 where it would allocate.
BlockOf(n, bs, bn) ==
    IF bn < NDIRECT THEN n.addrs[bn]
    ELSE IF n.addrs[NDIRECT] = 0 THEN 0 ELSE bs[n.addrs[NDIRECT]][bn - NDIRECT]

iappend(D, i, bytes) ==
    LET Byte(E, v) ==
            LET T == AppendBlock(E, i)
                n == T.ino[i]
            IN  [T EXCEPT !.blk[BlockOf(n, T.blk, n.size \div BSIZE)][n.size % BSIZE] = v,
                          !.ino[i].size = @ + 1]
    IN  FoldLeft(Byte, D, bytes)

\* The root directory is rounded up to whole blocks, one too many if its
\* entries fill the last one.
RoundedUp(size) == ((size \div BSIZE) + 1) * BSIZE

mkfs ==
    LET Add(D, k) == iappend(iappend(D, ROOTINO, <<k + 1>>), k + 1, Files[k])
        blank == [ino |-> [i \in Inodes |-> Empty], blk |-> [b \in Blocks |-> Zeros],
                  freeblock |-> 1]
        dots == iappend(blank, ROOTINO, <<ROOTINO, ROOTINO>>)
        all == FoldLeft(Add, dots, [k \in 1 .. Len(Files) |-> k])
    IN  [all EXCEPT !.ino[ROOTINO].size = RoundedUp(@)]

Init ==
    /\ used = 1 .. mkfs.freeblock - 1 /\ blk = mkfs.blk
    /\ ino = mkfs.ino /\ dinode = ino
    /\ state = [i \in Inodes |-> IF i <= Len(Files) + 1 THEN "linked" ELSE "free"]
    /\ open = [f \in Opens |-> Closed]
    /\ pr = [p \in Procs |-> NoCall]
    /\ got = <<>> /\ logged = {} /\ panic = {}
    /\ durable = OnDisk
    /\ ncalls = 0 /\ ncrash = 0

-----------------------------------------------------------------------------
(* Blocks.  A transaction S has the bitmap, the blocks, the inode and what it *)
(* has logged; operators take one and return one.                             *)

Trans(i) == [used |-> used, blk |-> blk, ino |-> ino[i], log |-> {}, panic |-> {}]
log_write(S, b) == [S EXCEPT !.log = @ \cup {b}]

bzero(S, b) == log_write([S EXCEPT !.blk[b] = Zeros], b)

\* The first free block; the bitmap is one block.
FreeBlock(S) == Min(Blocks \ S.used)
balloc(S) ==
    IF S.used = Blocks THEN [S EXCEPT !.panic = {"balloc: out of blocks"}]
    ELSE bzero(log_write([S EXCEPT !.used = @ \cup {FreeBlock(S)}], BitmapBlock), FreeBlock(S))

\* addrs[k], allocated if there is none.
Direct(S, k) ==
    CASE S.ino.addrs[k] # 0 -> S
      [] S.ino.addrs[k] = 0 /\ S.used = Blocks -> balloc(S)
      [] OTHER -> [balloc(S) EXCEPT !.ino.addrs[k] = FreeBlock(S)]

\* bmap() as a change: block bn of the file exists afterwards.
bmap(S, bn) ==
    IF bn < NDIRECT THEN Direct(S, bn)
    ELSE IF bn >= MAXFILE THEN [S EXCEPT !.panic = {"bmap: out of range"}]
    ELSE LET T == Direct(S, NDIRECT)
             a == T.ino.addrs[NDIRECT]
         IN  IF T.panic # {} \/ T.blk[a][bn - NDIRECT] # 0 THEN T
             ELSE IF T.used = Blocks THEN balloc(T)
             ELSE log_write([balloc(T) EXCEPT !.blk[a][bn - NDIRECT] = FreeBlock(T)], a)

\* itrunc() frees the blocks, then the indirect block, then writes the inode.
FileBlocks(n) ==
    ({n.addrs[k] : k \in 0 .. NDIRECT} \cup
     IF n.addrs[NDIRECT] = 0 THEN {} ELSE Range(blk[n.addrs[NDIRECT]])) \ {0}
itrunc(i) ==
    /\ used' = used \ FileBlocks(ino[i])
    /\ panic' = IF FileBlocks(ino[i]) \subseteq used THEN {} ELSE {"freeing free block"}
    /\ ino' = [ino EXCEPT ![i] = Empty]
    /\ dinode' = [dinode EXCEPT ![i] = Empty]
    /\ logged' = {BitmapBlock, InodeBlock}
    /\ UNCHANGED blk

-----------------------------------------------------------------------------
(* readi() and writei() *)

Minimum(a, b) == IF a < b THEN a ELSE b

\* The blocks bn that bytes off .. off + n - 1 are in, in order.
Span(off, n) == [k \in 1 .. ((off + n - 1) \div BSIZE) - (off \div BSIZE) + 1 |->
                    (off \div BSIZE) + k - 1]

\* Byte number o of an inode n.
ByteAt(n, bs, o) == bs[BlockOf(n, bs, o \div BSIZE)][o % BSIZE]

readi(i, off, n) ==
    LET m == Minimum(n, ino[i].size - off)
    IN  [k \in 1 .. m |-> ByteAt(ino[i], blk, off + k - 1)]

\* One turn of writei()'s loop: byte v into the part of block bn that is
\* among the n bytes from off on.
Copy(S, bn, off, n, v) ==
    LET T == bmap(S, bn)
        b == BlockOf(T.ino, T.blk, bn)
        Inside(k) == bn * BSIZE + k >= off /\ bn * BSIZE + k < off + n
    IN  IF T.panic # {} THEN T
        ELSE log_write([T EXCEPT !.blk[b] =
                           [k \in DOMAIN @ |-> IF Inside(k) THEN v ELSE @[k]]], b)

Grow(S, size) == log_write([S EXCEPT !.ino.size = size], InodeBlock)

TooLarge(i, off, n) == off > ino[i].size \/ off + n > MAXFILE * BSIZE

writei(i, off, n, v) ==
    LET Turn(S, bn) == Copy(S, bn, off, n, v)
        S == FoldLeft(Turn, Trans(i), Span(off, n))
    IN  IF off + n > ino[i].size THEN Grow(S, off + n) ELSE S

-----------------------------------------------------------------------------
(* Files *)

\* filewrite() cuts a write() into pieces.
MaxPiece == ((LOGSIZE - 1 - 1 - 2) \div 2) * BSIZE
PieceWhole(left) == left
Piece(left) == Minimum(left, MaxPiece)

\* f->off += r, under the inode lock.
AdvancedFrom(off, n) == n
Advanced(off, n) == off + n

\* Directories are open for reading only.
write(p, f, n) ==
    /\ pr[p] = NoCall /\ open[f] # Closed /\ open[f].ip # ROOTINO
    /\ ncalls < MaxCalls /\ ncalls' = ncalls + 1
    /\ pr' = [pr EXCEPT ![p] = [f |-> f, left |-> n]]
    /\ UNCHANGED <<disk, state, open, got, logged, durable, panic, ncrash>>

\* One turn of filewrite()'s loop; the call ends when all is written or
\* writei() fails.  After a panic nothing of the transaction is on the disk.
filewrite(p) ==
    LET f == pr[p].f
        i == open[f].ip
        n == Piece(pr[p].left)
        S == writei(i, open[f].off, n, p)
    IN  /\ pr[p] # NoCall
        /\ \/ /\ TooLarge(i, open[f].off, n)
              /\ pr' = [pr EXCEPT ![p] = NoCall]
              /\ UNCHANGED <<disk, open, logged, panic>>
           \/ /\ ~TooLarge(i, open[f].off, n) /\ S.panic # {}
              /\ panic' = S.panic
              /\ UNCHANGED <<disk, open, pr, logged>>
           \/ /\ ~TooLarge(i, open[f].off, n) /\ S.panic = {}
              /\ used' = S.used /\ blk' = S.blk
              /\ ino' = [ino EXCEPT ![i] = S.ino]
              /\ dinode' = IF InodeBlock \in S.log THEN [dinode EXCEPT ![i] = S.ino] ELSE dinode
              /\ logged' = S.log
              /\ open' = [open EXCEPT ![f].off = Advanced(@, n)]
              /\ pr' = [pr EXCEPT ![p] = IF @.left = n THEN NoCall ELSE [@ EXCEPT !.left = @ - n]]
              /\ UNCHANGED panic
        /\ UNCHANGED <<state, got, ncalls, ncrash>>
        /\ end_op

fileread(f, n) ==
    LET r == readi(open[f].ip, open[f].off, n)
    IN  /\ open[f] # Closed
        /\ open[f].off <= ino[open[f].ip].size
        /\ got' = r
        /\ open' = [open EXCEPT ![f].off = Advanced(@, Len(r))]
        /\ UNCHANGED <<disk, state, pr, logged, durable, panic, ncalls, ncrash>>

\* open() of a file, made again by O_CREATE if it was removed.
fileopen(f, i) ==
    /\ open[f] = Closed
    /\ state[i] # "removed"
    /\ ncalls < MaxCalls /\ ncalls' = ncalls + 1
    /\ state' = [state EXCEPT ![i] = "linked"]
    /\ open' = [open EXCEPT ![f] = [ip |-> i, off |-> 0]]
    /\ UNCHANGED <<disk, pr, got, logged, panic, ncrash>>
    /\ end_op

\* The last close of a removed file.
LastOpenAny(i, f) == TRUE
LastOpen(i, f) == \A g \in Opens \ {f} : open[g].ip # i
fileclose(f) ==
    LET i == open[f].ip
    IN  /\ open[f] # Closed
        /\ \A p \in Procs : pr[p].f # f
        /\ open' = [open EXCEPT ![f] = Closed]
        /\ \/ /\ state[i] = "removed" /\ LastOpen(i, f)
              /\ itrunc(i)
              /\ state' = [state EXCEPT ![i] = "free"]
           \/ /\ ~(state[i] = "removed" /\ LastOpen(i, f))
              /\ UNCHANGED <<disk, state, logged, panic>>
        /\ end_op
        /\ UNCHANGED <<pr, got, ncalls, ncrash>>

unlink(i) ==
    /\ state[i] = "linked" /\ i # ROOTINO
    /\ ncalls < MaxCalls /\ ncalls' = ncalls + 1
    /\ \/ /\ \A f \in Opens : open[f].ip # i
          /\ itrunc(i)
          /\ state' = [state EXCEPT ![i] = "free"]
       \/ /\ \E f \in Opens : open[f].ip = i
          /\ state' = [state EXCEPT ![i] = "removed"]
          /\ UNCHANGED <<disk, logged, panic>>
    /\ end_op
    /\ UNCHANGED <<open, pr, got, ncrash>>

\* The machine restarts with what was on the disk at the last commit.
Crash ==
    /\ ncrash < MaxCrashes /\ ncrash' = ncrash + 1
    /\ used' = durable.used /\ blk' = durable.blk /\ state' = durable.state
    /\ dinode' = durable.ino /\ ino' = durable.ino
    /\ open' = [f \in Opens |-> Closed]
    /\ pr' = [p \in Procs |-> NoCall]
    /\ UNCHANGED <<got, logged, durable, panic, ncalls>>

Next ==
    /\ panic = {}
    /\ \/ \E p \in Procs, f \in Opens, n \in Counts : write(p, f, n)
       \/ \E p \in Procs : filewrite(p)
       \/ \E f \in Opens : fileclose(f) \/ \E n \in Counts : fileread(f, n)
       \/ \E i \in Inodes : unlink(i) \/ \E f \in Opens : fileopen(f, i)
       \/ Crash

Spec == Init /\ [][Next]_vars

-----------------------------------------------------------------------------
(* Properties *)

\* Every variable has its type.
TypeOK ==
    /\ used \subseteq Blocks
    /\ blk \in [Blocks -> [0 .. BSIZE - 1 -> Nat]]
    /\ ino \in [Inodes -> [size : Nat, addrs : [0 .. NDIRECT -> Blocks \cup {0}]]]
    /\ state \in [Inodes -> {"linked", "removed", "free"}]
    /\ \A f \in Opens : open[f] \in [ip : Inodes, off : Nat] \cup {Closed}
    /\ \A p \in Procs : pr[p] \in [f : Opens, left : Nat] \cup {NoCall}

\* A block belongs to one place of one file, and exactly these are marked in
\* the bitmap; a block taken again for block numbers holds none of the bytes
\* that were in it (balloc() and itrunc(), fs.c).
Places == {<<i, bn>> \in Inodes \X (0 .. MAXFILE) : IF bn = MAXFILE THEN ino[i].addrs[NDIRECT] # 0
                                                   ELSE BlockOf(ino[i], blk, bn) # 0}
BlockAt(x) == IF x[2] = MAXFILE THEN ino[x[1]].addrs[NDIRECT] ELSE BlockOf(ino[x[1]], blk, x[2])
BlocksOwnedOnce ==
    /\ \A x, y \in Places : x # y => BlockAt(x) # BlockAt(y)
    /\ used = {BlockAt(x) : x \in Places}

\* Every byte below the size is in a block, so readi(), which has no
\* transaction, never allocates, and no offset is past the size.
NoHoles ==
    /\ \A i \in Inodes : \A bn \in 0 .. MAXFILE - 1 :
         bn * BSIZE < ino[i].size <=> BlockOf(ino[i], blk, bn) # 0
    /\ \A f \in Opens : open[f] # Closed => open[f].off <= ino[open[f].ip].size

\* What the disk says of an inode is what memory says after every transaction,
\* though writei() writes the inode only when the size has changed.
InodeFlushed == dinode = ino

\* A piece of a write() logs at most four blocks more than it is long, whatever
\* it allocates: one if it is not aligned, the inode, the indirect block and the
\* bitmap.  That is what an operation of Log may have to log.
PieceBounded == Cardinality(logged) <= (LOGSIZE - 1 - 1 - 2) \div 2 + 4

\* No sequence of calls makes bmap() or bfree() fail; the disk may be full.
OnlyFullPanics == panic \subseteq {"balloc: out of blocks"}

\* The disk is sound after every transaction and so after a crash: blocks have
\* one owner, files no holes, the inodes in memory are those on the disk, and
\* nothing but a full disk makes the kernel panic.
DiskSound == TypeOK /\ BlocksOwnedOnce /\ NoHoles /\ InodeFlushed /\ OnlyFullPanics

\* What mkfs was told to put on the disk.
Given(i) ==
    CASE i = ROOTINO ->
           LET entries == <<ROOTINO, ROOTINO>> \o [k \in 1 .. Len(Files) |-> k + 1]
           IN  [k \in 1 .. RoundedUp(Len(entries)) |-> IF k <= Len(entries) THEN entries[k] ELSE 0]
      [] i > Len(Files) + 1 -> <<>>
      [] OTHER -> Files[i - 1]

Contents(ns, bs) == [i \in Inodes |-> [k \in 1 .. ns[i].size |-> ByteAt(ns[i], bs, k - 1)]]

Bytes == INSTANCE ByteFile WITH
             Writers <- Procs,
             Initial <- [i \in Inodes |-> Given(i)],
             content <- Contents(ino, blk),
             saved <- Contents(durable.ino, durable.blk)

\* The block maps implement sequences of bytes with shared offsets, which start
\* as what mkfs was given and which a crash takes back to a point between two
\* pieces or calls.
ImplementsByteFile == Bytes!AbsSpec
=============================================================================
