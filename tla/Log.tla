-------------------------------- MODULE Log ---------------------------------
(***************************************************************************)
(* The write-ahead log (log.c): begin_op, log_write, end_op, commit and    *)
(* recovery, over a disk that may stop between any two block writes.       *)
(*                                                                         *)
(* A step is one critical section of log.lock, one disk write, or one      *)
(* unlocked test.  A block's contents are one value.  The buffer cache is  *)
(* what the log needs of it: which blocks are cached, with what contents,  *)
(* and which are pinned by B_DIRTY; a clean buffer may be recycled at any  *)
(* time.  The disk writes a block whole or not at all, and the header is   *)
(* one block.                                                              *)
(*                                                                         *)
(* A log that holds more blocks than it has room for (see LogFits) ends a  *)
(* behaviour: what the code does then, writing over log or over the blocks *)
(* behind the log on the disk, is not followed.                            *)
(*                                                                         *)
(* An operator named like the one after it, with a suffix, is that         *)
(* operator with a plausible mistake; the properties are tested on them.   *)
(***************************************************************************)
EXTENDS Naturals, Sequences, FiniteSets, Functions

CONSTANTS
    Procs,        \* processes that make file system calls
    Boot,         \* the process whose forkret() runs initlog()
    Blocks,       \* home blocks of the file system
    Vals,         \* contents of a block
    None,         \* not cached
    LOGSIZE,      \* entries of logheader.block
    MAXOPBLOCKS,  \* what begin_op() reserves
    LogBlocks,    \* log.size, that is sb.nlog: header block and data blocks
    OpBlocks,     \* blocks that an operation writes at most
    MaxOps,       \* bound of the model: operations in a behaviour
    MaxCrashes    \* bound of the model: crashes in a behaviour

ASSUME LogAssumption ==
    /\ Boot \in Procs /\ IsFiniteSet(Procs)
    /\ None \notin Vals /\ Vals # {}
    /\ LOGSIZE \in Nat /\ MAXOPBLOCKS \in Nat \ {0} /\ MAXOPBLOCKS <= LOGSIZE
    /\ LogBlocks \in Nat \ {0} /\ OpBlocks \in Nat
    /\ MaxOps \in Nat /\ MaxCrashes \in Nat

VARIABLES
    disk,         \* home blocks
    logdisk,      \* data blocks of the log, block log.start + i at i
    head,         \* header block of the log: logheader.block[0 .. n-1]
    cache,        \* cached contents of the home blocks
    dirty,        \* home blocks pinned by B_DIRTY
    lh,           \* log.lh in memory
    outstanding,  \* log.outstanding
    committing,   \* log.committing
    panicked,     \* a panic() has stopped the machine
    pc,           \* where each process is, see PCs
    tail,         \* local tail of write_log() and install_trans()
    wblock,       \* the buffer that a process is giving to log_write()
    written,      \* blocks logged by the operation of a process
    nops,         \* operations begun, see MaxOps
    ncrash        \* crashes, see MaxCrashes

diskvars == <<disk, logdisk, head>>
cachevars == <<cache, dirty>>
logvars == <<lh, outstanding, committing>>
opvars == <<wblock, written>>
bounds == <<nops, ncrash>>
vars == <<disk, logdisk, head, cache, dirty, lh, outstanding, committing,
          panicked, pc, tail, wblock, written, nops, ncrash>>

PCs == {"off",                    \* before recovery is over
        "recover", "reinstall",   \* recover_from_log()
        "idle", "asleep", "begin",   \* outside, asleep in, awake in begin_op()
        "op", "logging",          \* in an operation, in log_write()
        "write_log", "install", "committed"}   \* in end_op()'s commit()

\* Every variable has its type.
TypeOK ==
    /\ disk \in [Blocks -> Vals]
    /\ logdisk \in [1 .. LOGSIZE -> Vals]
    /\ head \in Seq(Blocks) /\ lh \in Seq(Blocks)
    /\ cache \in [Blocks -> Vals \cup {None}]
    /\ dirty \subseteq Blocks
    /\ outstanding \in Nat /\ committing \in BOOLEAN /\ panicked \in BOOLEAN
    /\ pc \in [Procs -> PCs]
    /\ tail \in [Procs -> Nat]
    /\ wblock \in [Procs -> Blocks \cup {None}]
    /\ written \in [Procs -> SUBSET Blocks]
    /\ nops \in Nat /\ ncrash \in Nat

\* mkfs.c writes an empty log; nothing is cached and only Boot runs.
Init ==
    /\ LET zero == CHOOSE v \in Vals : TRUE
       IN  disk = [b \in Blocks |-> zero] /\ logdisk = [i \in 1 .. LOGSIZE |-> zero]
    /\ head = <<>>
    /\ cache = [b \in Blocks |-> None]
    /\ dirty = {}
    /\ lh = <<>>
    /\ outstanding = 0
    /\ committing = FALSE
    /\ panicked = FALSE
    /\ pc = [p \in Procs |-> IF p = Boot THEN "recover" ELSE "off"]
    /\ tail = [p \in Procs |-> 0]
    /\ wblock = [p \in Procs |-> None]
    /\ written = [p \in Procs |-> {}]
    /\ nops = 0 /\ ncrash = 0

-----------------------------------------------------------------------------
(* Helpers *)

\* The log holds no more blocks than log.lh.block has entries or the log has
\* data blocks on disk.
LogFits == Len(lh) <= LOGSIZE /\ Len(lh) <= LogBlocks - 1

\* The contents bread() returns.
bread(b) == IF cache[b] = None THEN disk[b] ELSE cache[b]

\* A buffer is B_BUSY from the bread() before log_write() to the brelse() after.
Busy(b) == \E p \in Procs : pc[p] = "logging" /\ wblock[p] = b

\* Recovery is over: processes other than Boot exist.
Up == pc[Boot] \notin {"recover", "reinstall"}

\* wakeup(&log)
wakeup_none(f) == f
wakeup(f) == [p \in Procs |-> IF f[p] = "asleep" THEN "begin" ELSE f[p]]

-----------------------------------------------------------------------------
(* The buffer cache *)

\* bread() by anyone, in an operation or not, fills the cache from the disk.
Fill(b) ==
    /\ ~panicked /\ Up
    /\ cache[b] = None
    /\ cache' = [cache EXCEPT ![b] = disk[b]]
    /\ UNCHANGED <<diskvars, dirty, logvars, panicked, pc, tail, opvars, bounds>>

\* bget() recycles a buffer that is neither B_BUSY nor B_DIRTY.
RecyclableDirty(b) == ~Busy(b)
Recyclable(b) == b \notin dirty /\ ~Busy(b)
Recycle(b) ==
    /\ ~panicked /\ Up
    /\ cache[b] # None
    /\ Recyclable(b)
    /\ cache' = [cache EXCEPT ![b] = None]
    /\ UNCHANGED <<diskvars, dirty, logvars, panicked, pc, tail, opvars, bounds>>

-----------------------------------------------------------------------------
(* Operations *)

\* begin_op() has to wait: a commit is under way or the log may run out.
NoRoomCommitting == Len(lh) + (outstanding + 1) * MAXOPBLOCKS > LOGSIZE
NoRoom == committing \/ Len(lh) + (outstanding + 1) * MAXOPBLOCKS > LOGSIZE

\* One turn of begin_op()'s loop.
begin_op(p) ==
    /\ ~panicked
    /\ \/ pc[p] = "idle" /\ nops < MaxOps /\ nops' = nops + 1
       \/ pc[p] = "begin" /\ UNCHANGED nops
    /\ \/ /\ NoRoom
          /\ pc' = [pc EXCEPT ![p] = "asleep"]
          /\ UNCHANGED <<outstanding, written>>
       \/ /\ ~NoRoom
          /\ outstanding' = outstanding + 1
          /\ pc' = [pc EXCEPT ![p] = "op"]
          /\ written' = [written EXCEPT ![p] = {}]
    /\ UNCHANGED <<diskvars, cachevars, lh, committing, panicked, tail, wblock, ncrash>>

\* kill() makes a sleeper runnable; begin_op() just tests again.
Kill(p) ==
    /\ ~panicked
    /\ pc[p] = "asleep"
    /\ pc' = [pc EXCEPT ![p] = "begin"]
    /\ UNCHANGED <<diskvars, cachevars, logvars, panicked, tail, opvars, bounds>>

\* bread(), a change of the data, and the tests of log_write(), which read
\* log.lh.n before log.lock is taken.
modify(p, b, v) ==
    /\ ~panicked
    /\ pc[p] = "op"
    /\ b \in written[p] \/ Cardinality(written[p]) < OpBlocks
    /\ ~Busy(b)
    /\ cache' = [cache EXCEPT ![b] = v]
    /\ wblock' = [wblock EXCEPT ![p] = b]
    /\ pc' = [pc EXCEPT ![p] = "logging"]
    /\ panicked' = (Len(lh) >= LOGSIZE \/ Len(lh) >= LogBlocks - 1 \/ outstanding < 1)
    /\ UNCHANGED <<diskvars, dirty, logvars, tail, written, bounds>>

\* log_write() under log.lock, with absorption, and brelse().
log_write(p) ==
    LET b == wblock[p]
    IN  /\ ~panicked
        /\ pc[p] = "logging"
        /\ lh' = IF b \in Range(lh) THEN lh ELSE Append(lh, b)
        /\ dirty' = dirty \cup {b}
        /\ written' = [written EXCEPT ![p] = @ \cup {b}]
        /\ wblock' = [wblock EXCEPT ![p] = None]
        /\ pc' = [pc EXCEPT ![p] = "op"]
        /\ UNCHANGED <<diskvars, cache, outstanding, committing, panicked, tail, bounds>>

\* end_op() under log.lock; the last one out commits.
end_op(p) ==
    /\ ~panicked
    /\ pc[p] = "op"
    /\ outstanding' = outstanding - 1
    /\ panicked' = committing
    /\ \/ /\ outstanding = 1
          /\ committing' = TRUE
          /\ pc' = [pc EXCEPT ![p] = IF lh # <<>> THEN "write_log" ELSE "committed"]
          /\ tail' = [tail EXCEPT ![p] = 0]
       \/ /\ outstanding # 1
          /\ pc' = [wakeup(pc) EXCEPT ![p] = "idle"]
          /\ UNCHANGED <<committing, tail>>
    /\ UNCHANGED <<diskvars, cachevars, lh, opvars, bounds>>

-----------------------------------------------------------------------------
(* commit() and recovery *)

\* write_log(): one modified block from the cache to the log.
write_log(p) ==
    /\ ~panicked
    /\ pc[p] = "write_log"
    /\ tail[p] < Len(lh)
    /\ logdisk' = [logdisk EXCEPT ![tail[p] + 1] = bread(lh[tail[p] + 1])]
    /\ tail' = [tail EXCEPT ![p] = @ + 1]
    /\ UNCHANGED <<disk, head, cachevars, logvars, panicked, pc, opvars, bounds>>

\* write_head() with the new blocks: the transaction commits.
write_head(p) ==
    /\ ~panicked
    /\ pc[p] = "write_log"
    /\ tail[p] = Len(lh)
    /\ head' = lh
    /\ pc' = [pc EXCEPT ![p] = "install"]
    /\ tail' = [tail EXCEPT ![p] = 0]
    /\ UNCHANGED <<disk, logdisk, cachevars, logvars, panicked, opvars, bounds>>

\* install_trans(): one block from the log to its home; bwrite() unpins it.
install_trans(p) ==
    /\ ~panicked
    /\ pc[p] \in {"install", "reinstall"}
    /\ tail[p] < Len(lh)
    /\ LET b == lh[tail[p] + 1]
           v == logdisk[tail[p] + 1]
       IN  /\ disk' = [disk EXCEPT ![b] = v]
           /\ cache' = [cache EXCEPT ![b] = v]
           /\ dirty' = dirty \ {b}
    /\ tail' = [tail EXCEPT ![p] = @ + 1]
    /\ UNCHANGED <<logdisk, head, logvars, panicked, pc, opvars, bounds>>

\* log.lh.n = 0 and write_head().  After recovery the other processes start.
clear_head(p) ==
    /\ ~panicked
    /\ pc[p] \in {"install", "reinstall"}
    /\ tail[p] = Len(lh)
    /\ lh' = <<>>
    /\ head' = <<>>
    /\ pc' = IF pc[p] = "install" THEN [pc EXCEPT ![p] = "committed"]
                                  ELSE [q \in Procs |-> "idle"]
    /\ tail' = [tail EXCEPT ![p] = 0]
    /\ UNCHANGED <<disk, logdisk, cachevars, outstanding, committing, panicked,
                   opvars, bounds>>

\* The end of end_op(): let the others in.
commit_done(p) ==
    /\ ~panicked
    /\ pc[p] = "committed"
    /\ committing' = FALSE
    /\ pc' = [wakeup(pc) EXCEPT ![p] = "idle"]
    /\ UNCHANGED <<diskvars, cachevars, lh, outstanding, panicked, tail, opvars, bounds>>

\* initlog(): read_head()
read_head(p) ==
    /\ ~panicked
    /\ pc[p] = "recover"
    /\ lh' = head
    /\ pc' = [pc EXCEPT ![p] = "reinstall"]
    /\ UNCHANGED <<diskvars, cachevars, outstanding, committing, panicked, tail,
                   opvars, bounds>>

\* The machine stops, after a panic or at any other time, and is switched on:
\* the disk is what it was, memory is as in Init.
Crash ==
    /\ ncrash < MaxCrashes
    /\ ncrash' = ncrash + 1
    /\ cache' = [b \in Blocks |-> None]
    /\ dirty' = {}
    /\ lh' = <<>>
    /\ outstanding' = 0
    /\ committing' = FALSE
    /\ panicked' = FALSE
    /\ pc' = [p \in Procs |-> IF p = Boot THEN "recover" ELSE "off"]
    /\ tail' = [p \in Procs |-> 0]
    /\ wblock' = [p \in Procs |-> None]
    /\ written' = [p \in Procs |-> {}]
    /\ UNCHANGED <<diskvars, nops>>

-----------------------------------------------------------------------------
Step(p) ==
    \/ begin_op(p) \/ log_write(p) \/ end_op(p)
    \/ write_log(p) \/ write_head(p) \/ install_trans(p) \/ clear_head(p)
    \/ commit_done(p) \/ read_head(p)

Next ==
    /\ LogFits
    /\ \/ \E p \in Procs :
             \/ Step(p) \/ Kill(p)
             \/ \E b \in Blocks, v \in Vals : modify(p, b, v)
       \/ \E b \in Blocks : Fill(b) \/ Recycle(b)
       \/ Crash

Spec == Init /\ [][Next]_vars

\* Every process inside the kernel keeps going: disk writes complete, a woken
\* process is scheduled, and a file system call reaches its end_op() after
\* finitely many writes.
FairSpec ==
    /\ Spec
    /\ \A p \in Procs : WF_vars(LogFits /\ Step(p)) /\ SF_vars(LogFits /\ end_op(p))

-----------------------------------------------------------------------------
(* Properties *)

\* The disk a restart would build: recovery installs the blocks of the header.
Recovered ==
    [b \in Blocks |->
        IF b \in Range(head)
        THEN logdisk[CHOOSE i \in 1 .. Len(head) : head[i] = b]
        ELSE disk[b]]

\* What the running system sees; before recovery is over, what it will see.
Visible == IF Up THEN [b \in Blocks |-> bread(b)] ELSE Recovered

Abstract == INSTANCE AtomicDisk WITH
    mem <- Visible, durable <- Recovered, active <- outstanding

\* The log implements the atomic disk: whatever the interleaving of operations
\* and wherever the machine stops, in commit(), in recovery or between them,
\* the blocks found after a restart are those of the last write_head().
CrashAtomic == Abstract!Spec

\* What filewrite() cuts its pieces for (file.c) and begin_op() reserves
\* MAXOPBLOCKS for: log_write() never finds the log full, and two processes
\* that test for room without the lock never overrun it.
TransactionFits == ~panicked /\ LogFits

\* Whoever sleeps in begin_op() will be woken: some operation is still to call
\* end_op(), or a commit is under way.
SleeperHasWaker ==
    (\E p \in Procs : pc[p] = "asleep") => outstanding > 0 \/ committing

\* Only one process commits, and none is in an operation meanwhile, so that
\* commit() may run without log.lock.
CommitAlone ==
    \A p \in Procs : pc[p] \in {"write_log", "install", "committed"} =>
        /\ committing /\ outstanding = 0
        /\ \A q \in Procs \ {p} : pc[q] \in {"idle", "asleep", "begin"}

\* An operation that finds the log full or committing gets in later, unless the
\* machine stops.
WaiterAdmitted ==
    \A p \in Procs :
        pc[p] = "asleep" ~> pc[p] \in {"op", "off", "recover"} \/ panicked \/ ~LogFits

=============================================================================
