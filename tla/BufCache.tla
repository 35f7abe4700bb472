------------------------------ MODULE BufCache ------------------------------
(***************************************************************************)
(* The buffer cache (bio.c) over the disk driver (ide.c).                  *)
(*                                                                         *)
(* bget() and brelse() run under bcache.lock, iderw() and ideintr() under  *)
(* idelock; a step is one such critical section, up to the sleep() that    *)
(* releases the lock.  A buffer is its own sleep channel in both files, so *)
(* ideintr() also wakes the processes that wait for the buffer in bget(),  *)
(* and brelse() those that wait for the disk.                              *)
(*                                                                         *)
(* The clients are log.c and fs.c: they read a block, change it and either *)
(* pin it for the log (log_write()) or write it through (bwrite()), and    *)
(* release it.  A client is one use of one buffer: a process that holds    *)
(* two at once, in write_log(), bmap() or itrunc(), is two of Procs.       *)
(*                                                                         *)
(* An operator named like the one after it, with a suffix, is that         *)
(* operator with a plausible mistake; the properties are tested on them.   *)
(***************************************************************************)
EXTENDS Naturals, FiniteSets, FiniteSetsExt, Sequences, Functions

CONSTANTS
    NBUF,    \* number of buffers
    Procs,   \* uses of the cache, from bread() to brelse()
    Blocks,  \* block numbers of the device
    Vals,    \* contents of a block
    NoOwner, \* no process
    NoBlock, \* the block of a buffer that was never used (dev is -1)
    MaxPins  \* the log pins at most this many blocks

ASSUME BufCacheAssumption ==
    /\ NBUF \in Nat \ {0}
    /\ Vals # {}
    /\ NoOwner \notin Procs /\ IsFiniteSet(Procs)
    /\ MaxPins \in Nat
    /\ NoBlock \notin Blocks

Bufs == 1 .. NBUF
Nil == 0  \* no buffer

VARIABLES
    lru,       \* bcache.head list, most recently used first
    blockno,   \* struct buf
    busy, valid, dirty,  \* the flags B_BUSY, B_VALID and B_DIRTY
    data,
    idequeue,  \* the buffers linked through qnext, the active one first
    drive,     \* the command the controller executes: <<>>, or <<block, kind, value>>
    disk,      \* the blocks on the disk
    pc, want, buf  \* where a process is, the block it wants, its buffer

bcache == <<lru, blockno, busy>>
flags == <<valid, dirty, data>>
ide == <<idequeue, drive, disk>>
locals == <<pc, want, buf>>
vars == <<lru, blockno, busy, valid, dirty, data, idequeue, drive, disk, pc, want, buf>>

PCs == {"idle",      \* not using the cache
        "bget",      \* at the head of bget()'s loop
        "getsleep",  \* asleep in bget() on the channel buf
        "iderw",     \* calls iderw(buf)
        "iosleep",   \* asleep in iderw()
        "iotest",    \* at the test of iderw()'s loop, after a sleep
        "hold"}      \* has the buffer buf

Commands == {<<>>} \cup (Blocks \X {"read"} \X Vals) \cup (Blocks \X {"write"} \X Vals)

TypeOK ==
    /\ lru \in [Bufs -> Bufs]
    /\ blockno \in [Bufs -> Blocks \cup {NoBlock}]
    /\ busy \in [Bufs -> BOOLEAN]
    /\ valid \in [Bufs -> BOOLEAN]
    /\ dirty \in [Bufs -> BOOLEAN]
    /\ data \in [Bufs -> Vals]
    /\ idequeue \in Seq(Bufs)
    /\ drive \in Commands
    /\ disk \in [Blocks -> Vals]
    /\ pc \in [Procs -> PCs]
    /\ want \in [Procs -> Blocks \cup {NoBlock}]
    /\ buf \in [Procs -> Bufs \cup {Nil}]

\* binit() pushes the buffers one by one to the front of the list.
Init ==
    /\ lru = [i \in Bufs |-> NBUF + 1 - i]
    /\ blockno = [b \in Bufs |-> NoBlock]
    /\ busy = [b \in Bufs |-> FALSE]
    /\ valid = [b \in Bufs |-> FALSE]
    /\ dirty = [b \in Bufs |-> FALSE]
    /\ \E v \in Vals : data = [b \in Bufs |-> v]
    /\ idequeue = <<>>
    /\ drive = <<>>
    /\ disk \in [Blocks -> Vals]
    /\ pc = [p \in Procs |-> "idle"]
    /\ want = [p \in Procs |-> NoBlock]
    /\ buf = [p \in Procs |-> Nil]

-----------------------------------------------------------------------------
(* Helpers *)

\* The buffers bget() finds for a block.
CachedValid(k) == {b \in Bufs : blockno[b] = k /\ valid[b]}
Cached(k) == {b \in Bufs : blockno[b] = k}

\* The buffers bget() may recycle.
Recyclable == {b \in Bufs : ~busy[b] /\ ~dirty[b]}

\* The first and the last buffer of a set in the order of the list.
MostRecent(S) == lru[Min({i \in Bufs : lru[i] \in S})]
LeastRecent(S) == lru[Max({i \in Bufs : lru[i] \in S})]

\* Where a process goes on when it is woken: bget() starts over, iderw() tests
\* the flags again.
AfterGetSleep == "bget"
AfterIoSleepTaken == "hold"
AfterIoSleep == "iotest"
Awake(p) ==
    CASE pc[p] = "getsleep" -> AfterGetSleep
      [] pc[p] = "iosleep" -> AfterIoSleep
      [] OTHER -> pc[p]

\* wakeup(b): where the processes are after waking the sleepers of buffer b.
wakeup_none(b) == pc
wakeup(b) == [p \in Procs |-> IF buf[p] = b THEN Awake(p) ELSE pc[p]]

\* idestart(b): the command given to the controller.  The data of a write is
\* handed over with the command.
idestart(b) ==
    <<blockno[b], IF dirty[b] THEN "write" ELSE "read", data[b]>>

-----------------------------------------------------------------------------
(* bio.c *)

\* A client calls bread(k).
bread(p, k) ==
    /\ pc[p] = "idle"
    /\ pc' = [pc EXCEPT ![p] = "bget"]
    /\ want' = [want EXCEPT ![p] = k]
    /\ UNCHANGED <<bcache, flags, ide, buf>>

\* bget(), the block is cached and the buffer free: bread() reads it from the
\* disk if it is not valid.
BgetHit(p) ==
    LET b == MostRecent(Cached(want[p]))
    IN  /\ pc[p] = "bget"
        /\ Cached(want[p]) # {} /\ ~busy[b]
        /\ busy' = [busy EXCEPT ![b] = TRUE]
        /\ buf' = [buf EXCEPT ![p] = b]
        /\ pc' = [pc EXCEPT ![p] = IF valid[b] THEN "hold" ELSE "iderw"]
        /\ UNCHANGED <<lru, blockno, flags, ide, want>>

\* bget(), the block is cached and the buffer busy.
BgetSleep(p) ==
    LET b == MostRecent(Cached(want[p]))
    IN  /\ pc[p] = "bget"
        /\ Cached(want[p]) # {} /\ busy[b]
        /\ buf' = [buf EXCEPT ![p] = b]
        /\ pc' = [pc EXCEPT ![p] = "getsleep"]
        /\ UNCHANGED <<bcache, flags, ide, want>>

\* bget(), the block is not cached.  With nothing to recycle bget() panics and the
\* machine stops; here the process stays where it is.
BgetRecycle(p) ==
    LET b == LeastRecent(Recyclable)
    IN  /\ pc[p] = "bget"
        /\ Cached(want[p]) = {} /\ Recyclable # {}
        /\ blockno' = [blockno EXCEPT ![b] = want[p]]
        /\ busy' = [busy EXCEPT ![b] = TRUE]
        /\ valid' = [valid EXCEPT ![b] = FALSE]
        /\ buf' = [buf EXCEPT ![p] = b]
        /\ pc' = [pc EXCEPT ![p] = "iderw"]
        /\ UNCHANGED <<lru, dirty, data, ide, want>>

\* The client changes the block and calls log_write(), which pins the buffer.
log_write(p, v) ==
    LET b == buf[p]
    IN  /\ pc[p] = "hold"
        /\ dirty[b] \/ Cardinality({x \in Bufs : dirty[x]}) < MaxPins
        /\ data' = [data EXCEPT ![b] = v]
        /\ dirty' = [dirty EXCEPT ![b] = TRUE]
        /\ UNCHANGED <<bcache, valid, ide, locals>>

\* The client (log.c) changes the block and calls bwrite().
bwrite(p, v) ==
    LET b == buf[p]
    IN  /\ pc[p] = "hold"
        /\ data' = [data EXCEPT ![b] = v]
        /\ dirty' = [dirty EXCEPT ![b] = TRUE]
        /\ pc' = [pc EXCEPT ![p] = "iderw"]
        /\ UNCHANGED <<bcache, valid, ide, want, buf>>

\* brelse() unlinks the buffer and links it in at the head of the list.
MoveToFront(b) ==
    LET i == CHOOSE j \in Bufs : lru[j] = b
    IN  [j \in Bufs |-> IF j = 1 THEN b ELSE IF j <= i THEN lru[j - 1] ELSE lru[j]]

brelse(p) ==
    LET b == buf[p]
    IN  /\ pc[p] = "hold"
        /\ lru' = MoveToFront(b)
        /\ busy' = [busy EXCEPT ![b] = FALSE]
        /\ pc' = [wakeup(b) EXCEPT ![p] = "idle"]
        /\ want' = [want EXCEPT ![p] = NoBlock]
        /\ buf' = [buf EXCEPT ![p] = Nil]
        /\ UNCHANGED <<blockno, flags, ide>>

-----------------------------------------------------------------------------
(* ide.c *)

\* iderw() up to its first sleep.  Its tests panic unless the buffer is busy
\* and has something to read or to write.
iderw(p) ==
    LET b == buf[p]
    IN  /\ pc[p] = "iderw"
        /\ busy[b] /\ (dirty[b] \/ ~valid[b])
        /\ idequeue' = Append(idequeue, b)
        /\ drive' = IF idequeue = <<>> THEN idestart(b) ELSE drive
        /\ pc' = [pc EXCEPT ![p] = "iosleep"]
        /\ UNCHANGED <<bcache, flags, disk, want, buf>>

\* iderw(), the loop test after a sleep.
IderwTest(p) ==
    LET b == buf[p]
    IN  /\ pc[p] = "iotest"
        /\ pc' = [pc EXCEPT ![p] = IF valid[b] /\ ~dirty[b] THEN "hold" ELSE "iosleep"]
        /\ UNCHANGED <<bcache, flags, ide, want, buf>>

\* What the controller is given to do next, once the request at the head of
\* the queue is done.
StartNextNever == <<>>
StartNext == IF Tail(idequeue) = <<>> THEN <<>> ELSE idestart(Head(Tail(idequeue)))

\* The controller finishes its command and interrupts: ideintr().
ideintr ==
    LET b == Head(idequeue)
    IN  /\ drive # <<>> /\ idequeue # <<>>
        /\ disk' = IF drive[2] = "write" THEN [disk EXCEPT ![drive[1]] = drive[3]] ELSE disk
        /\ data' = IF dirty[b] THEN data ELSE [data EXCEPT ![b] = disk[drive[1]]]
        /\ valid' = [valid EXCEPT ![b] = TRUE]
        /\ dirty' = [dirty EXCEPT ![b] = FALSE]
        /\ pc' = wakeup(b)
        /\ idequeue' = Tail(idequeue)
        /\ drive' = StartNext
        /\ UNCHANGED <<bcache, want, buf>>

\* kill() makes a process return from sleep() early (proc.c).
kill(p) ==
    /\ pc[p] \in {"getsleep", "iosleep"}
    /\ pc' = [pc EXCEPT ![p] = Awake(p)]
    /\ UNCHANGED <<bcache, flags, ide, want, buf>>

-----------------------------------------------------------------------------
Next ==
    \/ \E p \in Procs :
        \/ \E k \in Blocks : bread(p, k)
        \/ \E v \in Vals : log_write(p, v) \/ bwrite(p, v)
        \/ BgetHit(p) \/ BgetSleep(p) \/ BgetRecycle(p) \/ brelse(p)
        \/ iderw(p) \/ IderwTest(p) \/ kill(p)
    \/ ideintr

Spec == Init /\ [][Next]_vars

-----------------------------------------------------------------------------
(* Properties *)

\* The process has the buffer buf[p], or does the disk transfer for it.
Using(p) == pc[p] \in {"iderw", "iosleep", "iotest", "hold"}

\* A block is cached in one buffer only, so that two processes never change
\* two copies of it: bget() scans again after every sleep.
OneBufferPerBlock ==
    \A k \in Blocks : Cardinality({b \in Bufs : blockno[b] = k}) <= 1

\* B_BUSY is a lock: a buffer is busy exactly when one process has it, and that
\* process has the block it asked for.
BusyIsExclusive ==
    /\ \A b \in Bufs : Cardinality({p \in Procs : Using(p) /\ buf[p] = b})
                          = IF busy[b] THEN 1 ELSE 0
    /\ \A p \in Procs : Using(p) => blockno[buf[p]] = want[p]

\* Whatever bget(), brelse(), the driver and kill() do in between, the list
\* and the flags have their types, a block is in one buffer, and a busy buffer
\* has one user, who has the block that it asked for.
CacheSound == TypeOK /\ OneBufferPerBlock /\ BusyIsExclusive

\* A sleeper has somebody to wake it: in bget() the user of the buffer, in
\* iderw() the interrupt of a request that is queued once, with the controller
\* at work on the first request of the queue.
SleeperHasWaker ==
    /\ \A p \in Procs :
        /\ pc[p] = "getsleep" => busy[buf[p]] /\ blockno[buf[p]] = want[p]
        /\ pc[p] = "iosleep" => buf[p] \in Range(idequeue)
    /\ IsInjective(idequeue)
    /\ idequeue # <<>> => drive # <<>> /\ drive[1] = blockno[Head(idequeue)]

\* The process that has block k, and the contents of k, for the clients.
Owner(k) == {p \in Procs : /\ Using(p) /\ blockno[buf[p]] = k
                           /\ pc[p] = "hold" \/ valid[buf[p]]}
Contents(k) ==
    IF \E b \in Cached(k) : valid[b]
    THEN data[CHOOSE b \in Cached(k) : valid[b]] ELSE disk[k]

Value == [k \in Blocks |-> Contents(k)]
OwnerOf == [k \in Blocks |-> IF Owner(k) = {} THEN NoOwner ELSE CHOOSE p \in Owner(k) : TRUE]
Seen == [k \in Blocks |-> IF Owner(k) = {} THEN Contents(k)
                          ELSE data[buf[CHOOSE p \in Owner(k) : TRUE]]]

Store == INSTANCE BlockStore WITH
    value <- Value, durable <- disk, owner <- OwnerOf, seen <- Seen

\* The cache implements the block store: bread() returns the last value written
\* to the block whoever wrote it, eviction loses no pinned block, and only the
\* bwrite() of its owner changes a block of the disk.
CacheIsStore == Store!Spec
=============================================================================
