--------------------------- MODULE BufCacheProofs ---------------------------
(***************************************************************************)
(* Proofs about the buffer cache and the disk driver, for any number of    *)
(* buffers, blocks and processes.                                          *)
(***************************************************************************)
EXTENDS BufCache, FiniteSetTheorems, WellFoundedInduction, TLAPS

\* Every buffer is in the list.
LruInv == \A b \in Bufs : \E i \in Bufs : lru[i] = b

\* A block has one buffer, and a busy buffer has one user.
UseInv ==
    /\ \A b, c \in Bufs : blockno[b] = blockno[c] /\ blockno[b] # NoBlock => b = c
    /\ \A b \in Bufs : busy[b] => \E p \in Procs : Using(p) /\ buf[p] = b
    /\ \A p, q \in Procs : Using(p) /\ Using(q) /\ buf[p] = buf[q] => p = q

\* A process that uses a buffer, or waits for it, has the one of its block, and
\* that one is busy.
HasBuf(p) ==
    /\ pc[p] # "idle" => want[p] \in Blocks
    /\ pc[p] \notin {"idle", "bget"} =>
         buf[p] \in Bufs /\ busy[buf[p]] /\ blockno[buf[p]] = want[p]
BufInv == \A p \in Procs : HasBuf(p)

\* Where the request of a process is.
Pending(b) == dirty[b] \/ ~valid[b]
Requested(p) ==
    /\ pc[p] = "iderw" => Pending(buf[p]) /\ buf[p] \notin Range(idequeue)
    /\ pc[p] = "iosleep" => buf[p] \in Range(idequeue)
    /\ pc[p] = "iotest" => (Pending(buf[p]) <=> buf[p] \in Range(idequeue))
    /\ pc[p] = "hold" => valid[buf[p]] /\ buf[p] \notin Range(idequeue)

\* A request is queued once, and the controller works on the first one.
QueueInv ==
    /\ \A i, j \in 1 .. Len(idequeue) : idequeue[i] = idequeue[j] => i = j
    /\ \A b \in Range(idequeue) : busy[b] /\ Pending(b)
    /\ drive = IF idequeue = <<>> THEN <<>> ELSE idestart(Head(idequeue))
    /\ \A p \in Procs : Requested(p)

\* A clean buffer holds what the disk holds.
DataInv ==
    \A b \in Bufs :
        /\ dirty[b] => valid[b]
        /\ valid[b] => blockno[b] \in Blocks
        /\ valid[b] /\ ~dirty[b] => data[b] = disk[blockno[b]]

CacheInv == TypeOK /\ LruInv /\ UseInv /\ BufInv /\ QueueInv /\ DataInv

-----------------------------------------------------------------------------
(* The list *)

\* The order of the numbers as a relation is well-founded.
Less == {x \in Nat \X Nat : x[1] < x[2]}

\* There is no endless descent in it.
LEMMA LessWellFounded == IsWellFoundedOn(Less, Nat)
<1>1. Less = OpToRel(<, Nat)
  BY Zenon DEF OpToRel, Less
<1> QED BY Zenon, <1>1, NatLessThanWellFounded

\* A set of numbers that is not empty has a smallest one, ...
LEMMA Smallest ==
    ASSUME NEW S \in SUBSET Nat, S # {}
    PROVE  Min(S) \in S /\ \A y \in S : Min(S) <= y
<1>1. PICK x \in S : \A y \in S : ~(<<y, x>> \in Less)
  BY Zenon, LessWellFounded, WFMin
<1>2. \A m, n \in Nat : m < n => <<m, n>> \in Less
  BY Zenon DEF Less
<1>3. \A y \in S : x <= y
  <2> TAKE y \in S
  <2>1. ~(y < x)
    BY Zenon, <1>1, <1>2, Zenon
  <2> QED BY <2>1
<1> QED BY Zenon, <1>3 DEF Min

\* ... and if it is bounded a largest one.
LEMMA Largest ==
    ASSUME NEW n \in Nat, NEW S \in SUBSET (0 .. n), S # {}
    PROVE  Max(S) \in S /\ \A y \in S : y <= Max(S)
<1> DEFINE T == {n - x : x \in S}
<1>1. T \in SUBSET Nat /\ T # {}
  <2>1. \A x \in S : n - x \in Nat
    OBVIOUS
  <2> QED BY Zenon, <2>1
<1>2. Min(T) \in T /\ \A y \in T : Min(T) <= y
  BY Zenon, <1>1, Smallest
<1>3. PICK x \in S : Min(T) = n - x
  BY Zenon, <1>2
<1>4. \A y \in S : x >= y
  BY <1>2, <1>3
<1> QED BY Zenon, <1>4 DEF Max

\* The buffers are numbered.
LEMMA NBufs ==
    /\ NBUF \in Nat /\ NBUF > 0
    /\ \A i : i \in Bufs <=> i \in Nat /\ 1 <= i /\ i <= NBUF
BY BufCacheAssumption DEF Bufs

\* bget() finds a buffer of the set that it searches.
LEMMA Searched ==
    ASSUME lru \in [Bufs -> Bufs], LruInv, NEW S \in SUBSET Bufs, S # {}
    PROVE  MostRecent(S) \in S /\ LeastRecent(S) \in S
<1> DEFINE I == {i \in Bufs : lru[i] \in S}
<1>1. I # {}
  BY Zenon DEF LruInv
<1>2. I \in SUBSET Nat /\ I \in SUBSET (0 .. NBUF) /\ NBUF \in Nat
  BY NBufs
<1>3. Min(I) \in I
  BY Zenon, <1>1, <1>2, Smallest
<1>4. Max(I) \in I
  BY Zenon, <1>1, <1>2, Largest
<1> QED BY Zenon, <1>3, <1>4 DEF MostRecent, LeastRecent

\* brelse() keeps every buffer in the list.
LEMMA Moved ==
    ASSUME lru \in [Bufs -> Bufs], LruInv, NEW b \in Bufs
    PROVE  /\ MoveToFront(b) \in [Bufs -> Bufs]
           /\ \A c \in Bufs : \E i \in Bufs : MoveToFront(b)[i] = c
<1> DEFINE i == CHOOSE j \in Bufs : lru[j] = b
<1>1. i \in Bufs /\ lru[i] = b
  BY Zenon DEF LruInv
<1>2. MoveToFront(b) =
        [j \in Bufs |-> IF j = 1 THEN b ELSE IF j <= i THEN lru[j - 1] ELSE lru[j]]
  BY Zenon DEF MoveToFront
<1> HIDE DEF i
<1>3. MoveToFront(b) \in [Bufs -> Bufs]
  <2>1. ASSUME NEW j \in Bufs, j # 1 PROVE j - 1 \in Bufs
    BY <2>1, NBufs
  <2> QED BY <1>2, <2>1
<1>4. ASSUME NEW c \in Bufs PROVE \E j \in Bufs : MoveToFront(b)[j] = c
  <2>1. CASE c = b
    BY <1>2, <2>1, NBufs
  <2>2. CASE c # b
    <3>1. PICK j \in Bufs : lru[j] = c
      BY Zenon DEF LruInv
    <3>2. CASE j < i
      <4>1. j + 1 \in Bufs /\ j + 1 # 1 /\ j + 1 <= i /\ (j + 1) - 1 = j
        BY <1>1, <3>2, NBufs
      <4> QED BY Zenon, <1>2, <3>1, <4>1
    <3>3. CASE j > i
      <4>1. j # 1 /\ ~(j <= i)
        BY <1>1, <3>3, NBufs
      <4> QED BY Zenon, <1>2, <3>1, <4>1
    <3> QED BY <1>1, <2>2, <3>1, <3>2, <3>3, NBufs
  <2> QED BY Zenon, <2>1, <2>2
<1> QED BY Zenon, <1>3, <1>4

-----------------------------------------------------------------------------
(* The queue *)

\* A request joins the queue at its end, ...
LEMMA Queued ==
    ASSUME NEW S, NEW s \in Seq(S), NEW e \in S
    PROVE  /\ Range(Append(s, e)) = Range(s) \cup {e}
           /\ s # <<>> => Head(Append(s, e)) = Head(s)
           /\ s = <<>> => Head(Append(s, e)) = e
           /\ Append(s, e) # <<>> /\ Append(s, e) \in Seq(S)
<1> DEFINE t == Append(s, e)
<1>1. /\ DOMAIN s = 1 .. Len(s) /\ DOMAIN t = 1 .. Len(s) + 1 /\ Len(s) \in Nat
      /\ Len(t) = Len(s) + 1 /\ t \in Seq(S)
  OBVIOUS
<1>2. t[Len(s) + 1] = e /\ \A i \in 1 .. Len(s) : t[i] = s[i]
  OBVIOUS
<1>3. ASSUME NEW x \in Range(t) PROVE x \in Range(s) \cup {e}
  BY <1>1, <1>2 DEF Range
<1>4. ASSUME NEW x \in Range(s) \cup {e} PROVE x \in Range(t)
  <2> HIDE DEF t
  <2> QED BY <1>1, <1>2 DEF Range
<1>5. t # <<>> /\ (s # <<>> => Head(t) = Head(s)) /\ (s = <<>> => Head(t) = e)
  OBVIOUS
<1> QED BY Zenon, <1>1, <1>3, <1>4, <1>5

\* ... and leaves it at its head.
LEMMA Dequeued ==
    ASSUME NEW S, NEW s \in Seq(S), s # <<>>,
           \A i, j \in 1 .. Len(s) : s[i] = s[j] => i = j
    PROVE  /\ Range(Tail(s)) = Range(s) \ {Head(s)} /\ Tail(s) \in Seq(S)
           /\ Head(s) \in Range(s) /\ Head(s) \in S
           /\ \A i, j \in 1 .. Len(Tail(s)) : Tail(s)[i] = Tail(s)[j] => i = j
           /\ Tail(s) # <<>> => Head(Tail(s)) \in Range(Tail(s)) /\ Head(Tail(s)) \in S
<1> DEFINE t == Tail(s)
<1>1. /\ DOMAIN s = 1 .. Len(s) /\ Len(s) \in Nat /\ Len(s) > 0 /\ DOMAIN t = 1 .. Len(t)
      /\ Len(t) = Len(s) - 1 /\ t \in Seq(S) /\ Head(s) = s[1]
  OBVIOUS
<1>2. \A i \in 1 .. Len(t) : t[i] = s[i + 1]
  OBVIOUS
<1>3. t # <<>> => Head(t) = t[1] /\ Len(t) > 0
  BY <1>1
<1> HIDE DEF t
<1>4. ASSUME NEW x \in Range(t) PROVE x \in Range(s) \ {Head(s)}
  BY <1>1, <1>2 DEF Range
<1>5. ASSUME NEW x \in Range(s) \ {Head(s)} PROVE x \in Range(t)
  <2>1. PICK i \in 1 .. Len(s) : s[i] = x
    BY Zenon, <1>1 DEF Range
  <2>2. i - 1 \in 1 .. Len(t) /\ t[i - 1] = x
    BY <1>1, <1>2, <2>1
  <2> QED BY Zenon, <1>1, <2>2 DEF Range
<1>6. Range(t) = Range(s) \ {Head(s)}
  BY Zenon, <1>4, <1>5
<1>7. \A i, j \in 1 .. Len(t) : t[i] = t[j] => i = j
  BY <1>1, <1>2
<1>8. Head(s) \in Range(s) /\ Head(s) \in S
  BY <1>1 DEF Range
<1>9. t # <<>> => Head(t) \in Range(t) /\ Head(t) \in S
  BY <1>1, <1>3 DEF Range
<1> QED BY Zenon, <1>1, <1>6, <1>7, <1>8, <1>9 DEF t

\* A command for a buffer with a block is one the controller knows.
LEMMA CommandTyped ==
    ASSUME TypeOK, NEW b \in Bufs, blockno[b] \in Blocks
    PROVE  idestart(b) \in Commands
<1>1. data[b] \in Vals
  BY Zenon DEF TypeOK
<1> QED BY Zenon, <1>1 DEF idestart, Commands

\* The buffers in the queue, and the block of each.
LEMMA InQueue ==
    ASSUME CacheInv, NEW b \in Range(idequeue)
    PROVE  b \in Bufs /\ blockno[b] \in Blocks /\ busy[b] /\ Pending(b)
<1>1. b \in Bufs /\ busy[b] /\ Pending(b)
  BY DEF CacheInv, TypeOK, QueueInv, Range
<1>2. PICK p \in Procs : Using(p) /\ buf[p] = b
  BY Zenon, <1>1 DEF CacheInv, UseInv
<1> QED BY Zenon, <1>1, <1>2 DEF CacheInv, BufInv, HasBuf, Using

-----------------------------------------------------------------------------
(* Steps that change neither buffers nor queue *)

\* The invariant holds when the cache is set up.
LEMMA CacheInit == Init => CacheInv
<1> SUFFICES ASSUME Init PROVE CacheInv
  OBVIOUS
<1>1. TypeOK
  <2>1. lru \in [Bufs -> Bufs]
    <3>1. \A i \in Bufs : NBUF + 1 - i \in Bufs
      BY NBufs
    <3> QED BY Zenon, <3>1 DEF Init
  <2>2. data \in [Bufs -> Vals] /\ disk \in [Blocks -> Vals]
    BY Zenon DEF Init
  <2>3. idequeue \in Seq(Bufs) /\ drive \in Commands
    BY DEF Init, Commands
  <2>4. pc \in [Procs -> PCs] /\ want \in [Procs -> Blocks \cup {NoBlock}]
        /\ buf \in [Procs -> Bufs \cup {Nil}] /\ blockno \in [Bufs -> Blocks \cup {NoBlock}]
    BY Zenon DEF Init, PCs
  <2>5. busy \in [Bufs -> BOOLEAN] /\ valid \in [Bufs -> BOOLEAN] /\ dirty \in [Bufs -> BOOLEAN]
    BY Zenon DEF Init
  <2> QED BY Zenon, <2>1, <2>2, <2>3, <2>4, <2>5 DEF TypeOK
<1>2. LruInv
  <2>1. ASSUME NEW b \in Bufs PROVE \E i \in Bufs : lru[i] = b
    <3>1. NBUF + 1 - b \in Bufs /\ NBUF + 1 - (NBUF + 1 - b) = b
      BY NBufs
    <3> QED BY Zenon, <3>1 DEF Init
  <2> QED BY Zenon, <2>1 DEF LruInv
<1>3. UseInv /\ BufInv
  <2>1. \A b \in Bufs : ~busy[b] /\ blockno[b] = NoBlock
    BY Zenon DEF Init
  <2>2. \A p \in Procs : pc[p] = "idle"
    BY Zenon DEF Init
  <2> QED BY Zenon, <2>1, <2>2 DEF UseInv, BufInv, HasBuf, Using
<1>4. QueueInv
  <2>1. Len(idequeue) = 0 /\ Range(idequeue) = {}
    BY DEF Init, Range
  <2>2. \A p \in Procs : pc[p] = "idle"
    BY Zenon DEF Init
  <2> QED BY <2>1, <2>2 DEF QueueInv, Requested, Init
<1>5. DataInv
  <2>1. \A b \in Bufs : ~valid[b] /\ ~dirty[b]
    BY Zenon DEF Init
  <2> QED BY Zenon, <2>1 DEF DataInv
<1> QED BY Zenon, <1>1, <1>2, <1>3, <1>4, <1>5 DEF CacheInv

shared == <<lru, blockno, busy, valid, dirty, data, idequeue, drive, disk>>

\* A step of processes alone keeps the invariant if the same processes use the
\* same buffers, and each of them is where it may be.
LEMMA LocalStep ==
    ASSUME CacheInv, UNCHANGED shared,
           pc' \in [Procs -> PCs], want' \in [Procs -> Blocks \cup {NoBlock}],
           buf' \in [Procs -> Bufs \cup {Nil}],
           \A q \in Procs : /\ Using(q)' <=> Using(q)
                            /\ Using(q) => buf'[q] = buf[q]
                            /\ HasBuf(q)' /\ Requested(q)'
    PROVE  CacheInv'
<1> USE DEF shared
<1>1. TypeOK'
  BY Zenon DEF CacheInv, TypeOK
<1>2. LruInv' /\ UseInv' /\ BufInv'
  BY Zenon DEF CacheInv, LruInv, UseInv, BufInv
<1>3. QueueInv'
  BY Zenon DEF CacheInv, QueueInv, Pending, idestart
<1>4. DataInv'
  BY Zenon DEF CacheInv, DataInv
<1> QED BY Zenon, <1>1, <1>2, <1>3, <1>4 DEF CacheInv

\* bread(), up to bget().
LEMMA BreadStep ==
    ASSUME CacheInv, NEW p \in Procs, NEW k \in Blocks, bread(p, k)
    PROVE  CacheInv'
<1> USE DEF shared, bcache, flags, ide, locals
<1>1. /\ UNCHANGED shared /\ buf' = buf /\ pc[p] = "idle"
      /\ pc' = [pc EXCEPT ![p] = "bget"] /\ want' = [want EXCEPT ![p] = k]
      /\ pc \in [Procs -> PCs] /\ want \in [Procs -> Blocks \cup {NoBlock}]
      /\ buf \in [Procs -> Bufs \cup {Nil}]
  BY Zenon DEF bread, CacheInv, TypeOK
<1>2. pc' \in [Procs -> PCs] /\ want' \in [Procs -> Blocks \cup {NoBlock}]
  BY Zenon, <1>1 DEF PCs
<1>3. ASSUME NEW q \in Procs
      PROVE  /\ Using(q)' <=> Using(q)
             /\ HasBuf(q)' /\ Requested(q)'
  BY Zenon, <1>1 DEF Using, HasBuf, Requested, Pending, CacheInv, BufInv, QueueInv
<1> QED BY Zenon, <1>1, <1>2, <1>3, LocalStep

\* The buffer of a block, if it has one, is the one that bget() finds.
LEMMA Found ==
    ASSUME CacheInv, NEW p \in Procs, Cached(want[p]) # {}
    PROVE  /\ MostRecent(Cached(want[p])) \in Bufs
           /\ blockno[MostRecent(Cached(want[p]))] = want[p]
<1>1. Cached(want[p]) \in SUBSET Bufs
  BY Zenon DEF Cached
<1>2. MostRecent(Cached(want[p])) \in Cached(want[p])
  BY Zenon, <1>1, Searched DEF CacheInv, TypeOK
<1> QED BY Zenon, <1>2 DEF Cached

\* bget() goes to sleep.
LEMMA BgetSleepStep ==
    ASSUME CacheInv, NEW p \in Procs, BgetSleep(p)
    PROVE  CacheInv'
<1> USE DEF shared, bcache, flags, ide, locals
<1> DEFINE b == MostRecent(Cached(want[p]))
<1>1. /\ UNCHANGED shared /\ want' = want /\ pc[p] = "bget"
      /\ pc' = [pc EXCEPT ![p] = "getsleep"] /\ buf' = [buf EXCEPT ![p] = b]
      /\ pc \in [Procs -> PCs] /\ want \in [Procs -> Blocks \cup {NoBlock}]
      /\ buf \in [Procs -> Bufs \cup {Nil}] /\ busy[b]
  BY Zenon DEF BgetSleep, CacheInv, TypeOK
<1>2. b \in Bufs /\ blockno[b] = want[p]
  BY Zenon, Found DEF BgetSleep
<1> HIDE DEF b
<1>3. pc' \in [Procs -> PCs] /\ buf' \in [Procs -> Bufs \cup {Nil}]
  BY Zenon, <1>1, <1>2 DEF PCs
<1>4. ASSUME NEW q \in Procs
      PROVE  /\ (Using(q)' <=> Using(q)) /\ (Using(q) => buf'[q] = buf[q])
             /\ HasBuf(q)' /\ Requested(q)'
  BY Zenon, <1>1, <1>2 DEF Using, HasBuf, Requested, Pending, CacheInv, BufInv, QueueInv
<1> QED BY Zenon, <1>1, <1>3, <1>4, LocalStep

\* The test of iderw() after a sleep.
LEMMA TestStep ==
    ASSUME CacheInv, NEW p \in Procs, IderwTest(p)
    PROVE  CacheInv'
<1> USE DEF shared, bcache, flags, ide, locals
<1>1. /\ UNCHANGED shared /\ want' = want /\ buf' = buf /\ pc[p] = "iotest"
      /\ pc' = [pc EXCEPT ![p] = IF Pending(buf[p]) THEN "iosleep" ELSE "hold"]
      /\ pc \in [Procs -> PCs] /\ want \in [Procs -> Blocks \cup {NoBlock}]
      /\ buf \in [Procs -> Bufs \cup {Nil}]
  BY Zenon DEF IderwTest, CacheInv, TypeOK, Pending
<1>2. pc' \in [Procs -> PCs]
  BY Zenon, <1>1 DEF PCs
<1>3. ASSUME NEW q \in Procs
      PROVE  /\ (Using(q)' <=> Using(q)) /\ HasBuf(q)'
  BY Zenon, <1>1 DEF Using, HasBuf, CacheInv, BufInv
<1>4. ASSUME NEW q \in Procs PROVE Requested(q)'
  BY Zenon, <1>1 DEF Requested, Pending, CacheInv, QueueInv
<1> QED BY Zenon, <1>1, <1>2, <1>3, <1>4, LocalStep

\* kill() wakes a sleeper.
LEMMA KillStep ==
    ASSUME CacheInv, NEW p \in Procs, kill(p)
    PROVE  CacheInv'
<1> USE DEF shared, bcache, flags, ide, locals, AfterGetSleep, AfterIoSleep
<1>1. /\ UNCHANGED shared /\ want' = want /\ buf' = buf
      /\ \/ pc[p] = "getsleep" /\ pc' = [pc EXCEPT ![p] = "bget"]
         \/ pc[p] = "iosleep" /\ pc' = [pc EXCEPT ![p] = "iotest"]
      /\ pc \in [Procs -> PCs] /\ want \in [Procs -> Blocks \cup {NoBlock}]
      /\ buf \in [Procs -> Bufs \cup {Nil}]
  BY Zenon DEF kill, Awake, CacheInv, TypeOK
<1>2. pc' \in [Procs -> PCs]
  BY Zenon, <1>1 DEF PCs
<1>3. ASSUME NEW q \in Procs
      PROVE  /\ (Using(q)' <=> Using(q)) /\ HasBuf(q)'
  BY Zenon, <1>1 DEF Using, HasBuf, CacheInv, BufInv
<1>4. ASSUME NEW q \in Procs PROVE Requested(q)'
  <2>1. Requested(q) /\ \A b \in Range(idequeue) : Pending(b)
    BY Zenon DEF CacheInv, QueueInv
  <2> QED BY Zenon, <1>1, <2>1 DEF Requested, Pending
<1> QED BY Zenon, <1>1, <1>2, <1>3, <1>4, LocalStep

-----------------------------------------------------------------------------
(* Steps that take, change and release a buffer *)

\* A free buffer has no user, nobody sleeps on it, and it is not in the queue.
LEMMA Free ==
    ASSUME CacheInv, NEW b \in Bufs, ~busy[b]
    PROVE  /\ \A q \in Procs : pc[q] \notin {"idle", "bget"} => buf[q] # b
           /\ b \notin Range(idequeue)
BY Zenon DEF CacheInv, BufInv, HasBuf, QueueInv

\* bget() takes the buffer of the block.
LEMMA BgetHitStep ==
    ASSUME CacheInv, NEW p \in Procs, BgetHit(p)
    PROVE  CacheInv'
<1> USE DEF bcache, flags, ide, locals
<1> DEFINE b == MostRecent(Cached(want[p]))
<1>1. /\ UNCHANGED <<lru, blockno, valid, dirty, data, idequeue, drive, disk, want>>
      /\ pc[p] = "bget" /\ ~busy[b]
      /\ pc' = [pc EXCEPT ![p] = IF valid[b] THEN "hold" ELSE "iderw"]
      /\ buf' = [buf EXCEPT ![p] = b] /\ busy' = [busy EXCEPT ![b] = TRUE]
  BY Zenon DEF BgetHit
<1>2. /\ pc \in [Procs -> PCs] /\ buf \in [Procs -> Bufs \cup {Nil}]
      /\ busy \in [Bufs -> BOOLEAN]
  BY Zenon DEF CacheInv, TypeOK
<1>3. b \in Bufs /\ blockno[b] = want[p]
  BY Zenon, Found DEF BgetHit
<1> HIDE DEF b
<1>4. /\ \A q \in Procs : pc[q] \notin {"idle", "bget"} => buf[q] # b
      /\ b \notin Range(idequeue)
  BY Zenon, <1>1, <1>3, Free
<1>5. \A q \in Procs \ {p} : pc'[q] = pc[q] /\ buf'[q] = buf[q]
  BY Zenon, <1>1, <1>2
<1>6. pc'[p] = (IF valid[b] THEN "hold" ELSE "iderw") /\ buf'[p] = b
  BY Zenon, <1>1, <1>2
<1>7. TypeOK'
  <2>1. pc' \in [Procs -> PCs] /\ buf' \in [Procs -> Bufs \cup {Nil}]
    BY Zenon, <1>1, <1>2, <1>3 DEF PCs
  <2>2. busy' \in [Bufs -> BOOLEAN]
    BY Zenon, <1>1, <1>2
  <2> QED BY Zenon, <1>1, <2>1, <2>2 DEF CacheInv, TypeOK
<1>8. LruInv' /\ DataInv'
  BY Zenon, <1>1 DEF CacheInv, LruInv, DataInv
<1>9. \A x \in Bufs : busy'[x] <=> (busy[x] \/ x = b)
  BY Zenon, <1>1, <1>2
<1>10. Using(p)' /\ ~Using(p) /\ \A q \in Procs \ {p} : Using(q)' <=> Using(q)
  BY Zenon, <1>1, <1>5, <1>6 DEF Using
<1>11. UseInv'
  <2>1. \A x, c \in Bufs : blockno'[x] = blockno'[c] /\ blockno'[x] # NoBlock => x = c
    BY Zenon, <1>1 DEF CacheInv, UseInv
  <2>2. \A x \in Bufs : busy'[x] => \E q \in Procs : Using(q)' /\ buf'[q] = x
    BY <1>5, <1>6, <1>9, <1>10 DEF CacheInv, UseInv
  <2>3. \A q \in Procs : Using(q) => buf[q] # b
    BY Zenon, <1>4 DEF Using
  <2>4. \A q, r \in Procs : Using(q)' /\ Using(r)' /\ buf'[q] = buf'[r] => q = r
    BY <1>5, <1>6, <1>10, <2>3 DEF CacheInv, UseInv
  <2> QED BY Zenon, <2>1, <2>2, <2>4 DEF UseInv
<1>12. BufInv'
  <2>1. HasBuf(p)'
    BY Zenon, <1>1, <1>3, <1>6, <1>9 DEF HasBuf, CacheInv, BufInv
  <2>2. ASSUME NEW q \in Procs \ {p} PROVE HasBuf(q)'
    BY <1>1, <1>5, <1>9 DEF HasBuf, CacheInv, BufInv
  <2> QED BY Zenon, <2>1, <2>2 DEF BufInv
<1>13. QueueInv'
  <2>1. Requested(p)'
    BY <1>1, <1>4, <1>6 DEF Requested, Pending
  <2>2. ASSUME NEW q \in Procs \ {p} PROVE Requested(q)'
    BY Zenon, <1>1, <1>5 DEF Requested, Pending, CacheInv, QueueInv
  <2>3. \A x \in Range(idequeue) : busy'[x] /\ Pending(x)'
    BY Zenon, <1>1, <1>9, InQueue DEF Pending
  <2> QED BY ZenonT(30), <1>1, <2>1, <2>2, <2>3 DEF CacheInv, QueueInv, idestart
<1> QED BY Zenon, <1>7, <1>8, <1>11, <1>12, <1>13 DEF CacheInv

\* bget() recycles a buffer for the block.
LEMMA BgetRecycleStep ==
    ASSUME CacheInv, NEW p \in Procs, BgetRecycle(p)
    PROVE  CacheInv'
<1> USE DEF bcache, flags, ide, locals
<1> DEFINE b == LeastRecent(Recyclable)
<1>1. /\ UNCHANGED <<lru, dirty, data, idequeue, drive, disk, want>>
      /\ pc[p] = "bget" /\ Cached(want[p]) = {}
      /\ pc' = [pc EXCEPT ![p] = "iderw"] /\ blockno' = [blockno EXCEPT ![b] = want[p]]
      /\ buf' = [buf EXCEPT ![p] = b] /\ busy' = [busy EXCEPT ![b] = TRUE]
      /\ valid' = [valid EXCEPT ![b] = FALSE]
  BY Zenon DEF BgetRecycle
<1>2. /\ pc \in [Procs -> PCs] /\ buf \in [Procs -> Bufs \cup {Nil}]
      /\ busy \in [Bufs -> BOOLEAN] /\ valid \in [Bufs -> BOOLEAN]
      /\ blockno \in [Bufs -> Blocks \cup {NoBlock}] /\ idequeue \in Seq(Bufs)
  BY Zenon DEF CacheInv, TypeOK
<1>3. b \in Bufs /\ ~busy[b] /\ ~dirty[b] /\ want[p] \in Blocks
  <2>1. Recyclable \in SUBSET Bufs /\ Recyclable # {}
    BY Zenon DEF Recyclable, BgetRecycle
  <2>2. b \in Recyclable
    BY Zenon, <2>1, Searched DEF CacheInv, TypeOK
  <2>3. want[p] \in Blocks
    BY Zenon, <1>1 DEF CacheInv, BufInv, HasBuf
  <2> QED BY Zenon, <2>2, <2>3 DEF Recyclable
<1> HIDE DEF b
<1>4. /\ \A q \in Procs : pc[q] \notin {"idle", "bget"} => buf[q] # b
      /\ b \notin Range(idequeue)
  BY Zenon, <1>3, Free
<1>5. \A q \in Procs \ {p} : pc'[q] = pc[q] /\ buf'[q] = buf[q]
  BY Zenon, <1>1, <1>2
<1>6. pc'[p] = "iderw" /\ buf'[p] = b
  BY Zenon, <1>1, <1>2
<1>7. TypeOK'
  <2>1. pc' \in [Procs -> PCs] /\ buf' \in [Procs -> Bufs \cup {Nil}]
    BY Zenon, <1>1, <1>2, <1>3 DEF PCs
  <2>2. blockno' \in [Bufs -> Blocks \cup {NoBlock}]
    BY Zenon, <1>1, <1>2, <1>3
  <2>3. busy' \in [Bufs -> BOOLEAN] /\ valid' \in [Bufs -> BOOLEAN]
    BY Zenon, <1>1, <1>2
  <2> QED BY Zenon, <1>1, <2>1, <2>2, <2>3 DEF CacheInv, TypeOK
<1>8. LruInv'
  BY Zenon, <1>1 DEF CacheInv, LruInv
<1>9. /\ \A x \in Bufs : busy'[x] <=> (busy[x] \/ x = b)
      /\ \A x \in Bufs : valid'[x] <=> (valid[x] /\ x # b)
      /\ \A x \in Bufs : blockno'[x] = IF x = b THEN want[p] ELSE blockno[x]
  BY Zenon, <1>1, <1>2
<1>10. Using(p)' /\ ~Using(p) /\ \A q \in Procs \ {p} : Using(q)' <=> Using(q)
  BY Zenon, <1>1, <1>5, <1>6 DEF Using
<1>11. UseInv'
  <2>0. \A x \in Bufs : blockno[x] # want[p]
    BY Zenon, <1>1 DEF Cached
  <2>1. \A x, c \in Bufs : blockno'[x] = blockno'[c] /\ blockno'[x] # NoBlock => x = c
    BY <1>9, <2>0 DEF CacheInv, UseInv
  <2>2. \A x \in Bufs : busy'[x] => \E q \in Procs : Using(q)' /\ buf'[q] = x
    BY <1>5, <1>6, <1>9, <1>10 DEF CacheInv, UseInv
  <2>3. \A q \in Procs : Using(q) => buf[q] # b
    BY Zenon, <1>4 DEF Using
  <2>4. \A q, r \in Procs : Using(q)' /\ Using(r)' /\ buf'[q] = buf'[r] => q = r
    BY <1>5, <1>6, <1>10, <2>3 DEF CacheInv, UseInv
  <2> QED BY Zenon, <2>1, <2>2, <2>4 DEF UseInv
<1>12. BufInv'
  <2>1. HasBuf(p)'
    BY Zenon, <1>1, <1>3, <1>6, <1>9 DEF HasBuf
  <2>2. ASSUME NEW q \in Procs \ {p} PROVE HasBuf(q)'
    BY <1>1, <1>4, <1>5, <1>9 DEF HasBuf, CacheInv, BufInv
  <2> QED BY Zenon, <2>1, <2>2 DEF BufInv
<1>13. DataInv'
  BY <1>1, <1>3, <1>9 DEF CacheInv, DataInv
<1>14. QueueInv'
  <2>1. Requested(p)'
    BY Zenon, <1>1, <1>3, <1>4, <1>6, <1>9 DEF Requested, Pending
  <2>2. ASSUME NEW q \in Procs \ {p} PROVE Requested(q)'
    <3>1. Requested(q) /\ HasBuf(q)
      BY Zenon DEF CacheInv, QueueInv, BufInv
    <3> QED BY ZenonT(30), <1>1, <1>4, <1>5, <1>9, <3>1 DEF Requested, Pending, HasBuf
  <2>3. \A x \in Range(idequeue) : busy'[x] /\ Pending(x)'
    BY Zenon, <1>1, <1>9, InQueue DEF Pending
  <2>4. idequeue # <<>> => idestart(Head(idequeue))' = idestart(Head(idequeue))
    <3>1. idequeue # <<>> => Head(idequeue) \in Range(idequeue) /\ Head(idequeue) \in Bufs
      BY <1>2 DEF Range
    <3>2. idequeue # <<>> => blockno'[Head(idequeue)] = blockno[Head(idequeue)]
      BY Zenon, <1>4, <1>9, <3>1
    <3> QED BY Zenon, <1>1, <3>2 DEF idestart
  <2> QED BY Zenon, <1>1, <2>1, <2>2, <2>3, <2>4 DEF CacheInv, QueueInv
<1> QED BY Zenon, <1>7, <1>8, <1>11, <1>12, <1>13, <1>14 DEF CacheInv

\* The client changes its buffer and pins it, or goes on to write it.
LEMMA WriteStep ==
    ASSUME CacheInv, NEW p \in Procs, NEW v \in Vals, log_write(p, v) \/ bwrite(p, v)
    PROVE  CacheInv'
<1> USE DEF bcache, flags, ide, locals
<1> DEFINE b == buf[p]
<1>1. /\ UNCHANGED <<lru, blockno, busy, valid, idequeue, drive, disk, want, buf>>
      /\ pc[p] = "hold" /\ data' = [data EXCEPT ![b] = v]
      /\ dirty' = [dirty EXCEPT ![b] = TRUE]
      /\ pc' = pc \/ pc' = [pc EXCEPT ![p] = "iderw"]
  BY Zenon DEF log_write, bwrite
<1>2. /\ pc \in [Procs -> PCs] /\ dirty \in [Bufs -> BOOLEAN] /\ data \in [Bufs -> Vals]
      /\ idequeue \in Seq(Bufs)
  BY Zenon DEF CacheInv, TypeOK
<1>3. b \in Bufs /\ busy[b] /\ blockno[b] = want[p] /\ want[p] \in Blocks
      /\ valid[b] /\ b \notin Range(idequeue)
  BY Zenon, <1>1 DEF CacheInv, BufInv, HasBuf, QueueInv, Requested
<1>4. /\ \A x \in Bufs : dirty'[x] <=> (dirty[x] \/ x = b)
      /\ \A x \in Bufs \ {b} : data'[x] = data[x]
  BY Zenon, <1>1, <1>2
<1>5. pc'[p] \in {"hold", "iderw"} /\ \A q \in Procs \ {p} : pc'[q] = pc[q]
  BY Zenon, <1>1, <1>2
<1>6. TypeOK'
  <2>1. pc' \in [Procs -> PCs]
    BY Zenon, <1>1, <1>2 DEF PCs
  <2>2. data' \in [Bufs -> Vals]
    BY Zenon, <1>1, <1>2
  <2>3. dirty' \in [Bufs -> BOOLEAN]
    BY Zenon, <1>1, <1>2
  <2> QED BY Zenon, <1>1, <2>1, <2>2, <2>3 DEF CacheInv, TypeOK
<1>7. LruInv'
  BY Zenon, <1>1 DEF CacheInv, LruInv
<1>8. \A q \in Procs : Using(q)' <=> Using(q)
  BY Zenon, <1>1, <1>5 DEF Using
<1>9. UseInv'
  BY Zenon, <1>1, <1>8 DEF CacheInv, UseInv
<1>10. BufInv'
  BY Zenon, <1>1, <1>5 DEF CacheInv, BufInv, HasBuf
<1>11. DataInv'
  BY ZenonT(30), <1>1, <1>3, <1>4 DEF CacheInv, DataInv
<1>12. QueueInv'
  <2>1. Requested(p)'
    BY Zenon, <1>1, <1>3, <1>4, <1>5 DEF Requested, Pending
  <2>2. ASSUME NEW q \in Procs \ {p} PROVE Requested(q)'
    <3>1. Requested(q) /\ HasBuf(q)
      BY Zenon DEF CacheInv, QueueInv, BufInv
    <3>2. Using(q) => buf[q] # b
      BY Zenon, <1>1 DEF CacheInv, UseInv, Using
    <3> QED BY Zenon, <1>1, <1>4, <1>5, <3>1, <3>2 DEF Requested, Pending, HasBuf, Using
  <2>3. \A x \in Range(idequeue) : busy'[x] /\ Pending(x)'
    BY Zenon, <1>1, <1>4, InQueue DEF Pending
  <2>4. idequeue # <<>> => idestart(Head(idequeue))' = idestart(Head(idequeue))
    <3>1. idequeue # <<>> => Head(idequeue) \in Range(idequeue) /\ Head(idequeue) \in Bufs
      BY <1>2 DEF Range
    <3>2. idequeue # <<>> => /\ data'[Head(idequeue)] = data[Head(idequeue)]
                             /\ dirty'[Head(idequeue)] = dirty[Head(idequeue)]
      BY Zenon, <1>1, <1>2, <1>3, <3>1
    <3> QED BY Zenon, <1>1, <3>2 DEF idestart
  <2> QED BY Zenon, <1>1, <2>1, <2>2, <2>3, <2>4 DEF CacheInv, QueueInv
<1> QED BY Zenon, <1>6, <1>7, <1>9, <1>10, <1>11, <1>12 DEF CacheInv

\* brelse() lets the buffer go and wakes who waits for it.
LEMMA BrelseStep ==
    ASSUME CacheInv, NEW p \in Procs, brelse(p)
    PROVE  CacheInv'
<1> USE DEF bcache, flags, ide, locals
<1> DEFINE b == buf[p]
<1>1. /\ UNCHANGED <<blockno, valid, dirty, data, idequeue, drive, disk>>
      /\ pc[p] = "hold" /\ lru' = MoveToFront(b) /\ busy' = [busy EXCEPT ![b] = FALSE]
      /\ pc' = [wakeup(b) EXCEPT ![p] = "idle"]
      /\ want' = [want EXCEPT ![p] = NoBlock] /\ buf' = [buf EXCEPT ![p] = Nil]
  BY Zenon DEF brelse
<1>2. /\ pc \in [Procs -> PCs] /\ buf \in [Procs -> Bufs \cup {Nil}]
      /\ want \in [Procs -> Blocks \cup {NoBlock}] /\ busy \in [Bufs -> BOOLEAN]
      /\ lru \in [Bufs -> Bufs]
  BY Zenon DEF CacheInv, TypeOK
<1>3. b \in Bufs /\ b \notin Range(idequeue)
  BY Zenon, <1>1 DEF CacheInv, BufInv, HasBuf, QueueInv, Requested
<1>4. \A q \in Procs \ {p} : Using(q) => buf[q] # b
  BY Zenon, <1>1 DEF CacheInv, UseInv, Using
<1>5. /\ pc'[p] = "idle"
      /\ \A q \in Procs \ {p} :
           /\ pc'[q] = IF pc[q] = "getsleep" /\ buf[q] = b THEN "bget" ELSE pc[q]
           /\ buf'[q] = buf[q] /\ want'[q] = want[q]
  BY Zenon, <1>1, <1>2, <1>4 DEF wakeup, Awake, AfterGetSleep, Using
<1>6. \A x \in Bufs : busy'[x] <=> (busy[x] /\ x # b)
  BY Zenon, <1>1, <1>2
<1>7. TypeOK'
  <2>1. lru' \in [Bufs -> Bufs]
    BY Zenon, <1>1, <1>2, <1>3, Moved DEF CacheInv
  <2>2. pc' \in [Procs -> PCs]
    <3>1. wakeup(b) \in [Procs -> PCs]
      BY Zenon, <1>2 DEF wakeup, Awake, AfterGetSleep, AfterIoSleep, PCs
    <3> QED BY Zenon, <1>1, <3>1 DEF PCs
  <2>3. want' \in [Procs -> Blocks \cup {NoBlock}] /\ buf' \in [Procs -> Bufs \cup {Nil}]
    BY Zenon, <1>1, <1>2
  <2>4. busy' \in [Bufs -> BOOLEAN]
    BY Zenon, <1>1, <1>2
  <2> QED BY Zenon, <1>1, <2>1, <2>2, <2>3, <2>4 DEF CacheInv, TypeOK
<1>8. LruInv'
  <2>1. \A c \in Bufs : \E i \in Bufs : lru'[i] = c
    BY Zenon, <1>1, <1>2, <1>3, Moved DEF CacheInv
  <2> QED BY Zenon, <2>1 DEF LruInv
<1>9. ~Using(p)' /\ \A q \in Procs \ {p} : Using(q)' <=> Using(q)
  BY Zenon, <1>5 DEF Using
<1>10. UseInv'
  <2>1. \A x, c \in Bufs : blockno'[x] = blockno'[c] /\ blockno'[x] # NoBlock => x = c
    BY Zenon, <1>1 DEF CacheInv, UseInv
  <2>2. \A x \in Bufs : busy'[x] => \E q \in Procs : Using(q)' /\ buf'[q] = x
    BY <1>5, <1>6, <1>9 DEF CacheInv, UseInv
  <2>3. \A q, r \in Procs : Using(q)' /\ Using(r)' /\ buf'[q] = buf'[r] => q = r
    BY <1>5, <1>9 DEF CacheInv, UseInv
  <2> QED BY Zenon, <2>1, <2>2, <2>3 DEF UseInv
<1>11. BufInv'
  <2>1. HasBuf(p)'
    BY Zenon, <1>5 DEF HasBuf
  <2>2. ASSUME NEW q \in Procs \ {p} PROVE HasBuf(q)'
    <3>1. HasBuf(q) /\ pc[q] \in PCs
      BY Zenon, <1>2 DEF CacheInv, BufInv
    <3> QED BY <1>1, <1>4, <1>5, <1>6, <3>1 DEF HasBuf, Using, PCs
  <2> QED BY Zenon, <2>1, <2>2 DEF BufInv
<1>12. DataInv'
  BY Zenon, <1>1 DEF CacheInv, DataInv
<1>13. QueueInv'
  <2>1. Requested(p)'
    BY Zenon, <1>5 DEF Requested
  <2>2. ASSUME NEW q \in Procs \ {p} PROVE Requested(q)'
    BY <1>1, <1>5 DEF Requested, Pending, CacheInv, QueueInv
  <2>3. \A x \in Range(idequeue) : busy'[x] /\ Pending(x)'
    BY Zenon, <1>1, <1>3, <1>6, InQueue DEF Pending
  <2> QED BY Zenon, <1>1, <2>1, <2>2, <2>3 DEF CacheInv, QueueInv, idestart
<1> QED BY Zenon, <1>7, <1>8, <1>10, <1>11, <1>12, <1>13 DEF CacheInv

\* iderw() queues the buffer.
LEMMA IderwStep ==
    ASSUME CacheInv, NEW p \in Procs, iderw(p)
    PROVE  CacheInv'
<1> USE DEF bcache, flags, ide, locals
<1> DEFINE b == buf[p]
<1>1. /\ UNCHANGED <<lru, blockno, busy, valid, dirty, data, disk, want, buf>>
      /\ pc[p] = "iderw" /\ pc' = [pc EXCEPT ![p] = "iosleep"]
      /\ idequeue' = Append(idequeue, b)
      /\ drive' = IF idequeue = <<>> THEN idestart(b) ELSE drive
  BY Zenon DEF iderw
<1>2. pc \in [Procs -> PCs] /\ idequeue \in Seq(Bufs) /\ drive \in Commands
  BY Zenon DEF CacheInv, TypeOK
<1>3. b \in Bufs /\ busy[b] /\ blockno[b] \in Blocks /\ b \notin Range(idequeue) /\ Pending(b)
  BY Zenon, <1>1 DEF CacheInv, BufInv, HasBuf, QueueInv, Requested
<1>4. /\ Range(idequeue') = Range(idequeue) \cup {b}
      /\ idequeue # <<>> => Head(idequeue') = Head(idequeue)
      /\ idequeue = <<>> => Head(idequeue') = b
      /\ idequeue' # <<>> /\ idequeue' \in Seq(Bufs)
  BY <1>1, <1>2, <1>3, Queued
<1>5. pc'[p] = "iosleep" /\ \A q \in Procs \ {p} : pc'[q] = pc[q]
  BY Zenon, <1>1, <1>2
<1>6. TypeOK'
  <2>1. pc' \in [Procs -> PCs]
    BY Zenon, <1>1, <1>2 DEF PCs
  <2>2. drive' \in Commands
    BY Zenon, <1>1, <1>2, <1>3, CommandTyped DEF CacheInv
  <2> QED BY Zenon, <1>1, <1>4, <2>1, <2>2 DEF CacheInv, TypeOK
<1>7. LruInv' /\ DataInv'
  BY Zenon, <1>1 DEF CacheInv, LruInv, DataInv
<1>8. \A q \in Procs : Using(q)' <=> Using(q)
  BY Zenon, <1>1, <1>5 DEF Using
<1>9. UseInv'
  BY Zenon, <1>1, <1>8 DEF CacheInv, UseInv
<1>10. BufInv'
  BY Zenon, <1>1, <1>5 DEF CacheInv, BufInv, HasBuf
<1>11. QueueInv'
  <2>1. Requested(p)'
    BY Zenon, <1>1, <1>4, <1>5 DEF Requested
  <2>2. ASSUME NEW q \in Procs \ {p} PROVE Requested(q)'
    <3>1. Requested(q)
      BY Zenon DEF CacheInv, QueueInv
    <3>2. Using(q) => buf[q] # b
      BY Zenon, <1>1 DEF CacheInv, UseInv, Using
    <3> QED BY Zenon, <1>1, <1>4, <1>5, <3>1, <3>2 DEF Requested, Pending, Using
  <2>3. \A x \in Range(idequeue') : busy'[x] /\ Pending(x)'
    BY Zenon, <1>1, <1>3, <1>4, InQueue DEF Pending
  <2>4. \A i, j \in 1 .. Len(idequeue') : idequeue'[i] = idequeue'[j] => i = j
    <3>1. /\ \A i, j \in 1 .. Len(idequeue) : idequeue[i] = idequeue[j] => i = j
          /\ \A i \in 1 .. Len(idequeue) : idequeue[i] # b
      BY <1>2, <1>3 DEF CacheInv, QueueInv, Range
    <3>2. Len(idequeue') = Len(idequeue) + 1 /\ Len(idequeue) \in Nat
          /\ idequeue'[Len(idequeue) + 1] = b
          /\ \A i \in 1 .. Len(idequeue) : idequeue'[i] = idequeue[i]
      BY <1>1, <1>2, <1>3
    <3> QED BY <3>1, <3>2
  <2>5. drive' = idestart(Head(idequeue))'
    <3>1. CASE idequeue = <<>>
      BY Zenon, <1>1, <1>4, <3>1 DEF idestart
    <3>2. CASE idequeue # <<>>
      <4>1. drive = idestart(Head(idequeue))
        BY Zenon, <3>2 DEF CacheInv, QueueInv
      <4> QED BY Zenon, <1>1, <1>4, <3>2, <4>1 DEF idestart
    <3> QED BY Zenon, <3>1, <3>2
  <2> QED BY Zenon, <1>4, <2>1, <2>2, <2>3, <2>4, <2>5 DEF QueueInv
<1> QED BY Zenon, <1>6, <1>7, <1>9, <1>10, <1>11 DEF CacheInv

\* What the interrupt for the buffer at the head of the queue does.
LEMMA Interrupt ==
    ASSUME CacheInv, ideintr, NEW b, b = Head(idequeue)
    PROVE  /\ b \in Bufs /\ b \in Range(idequeue) /\ idequeue # <<>>
           /\ busy[b] /\ Pending(b) /\ blockno[b] \in Blocks
           /\ disk' = IF dirty[b] THEN [disk EXCEPT ![blockno[b]] = data[b]] ELSE disk
           /\ data' = IF dirty[b] THEN data ELSE [data EXCEPT ![b] = disk[blockno[b]]]
           /\ valid' = [valid EXCEPT ![b] = TRUE] /\ dirty' = [dirty EXCEPT ![b] = FALSE]
           /\ pc' = wakeup(b) /\ UNCHANGED <<lru, blockno, busy, want, buf>>
           /\ Range(idequeue') = Range(idequeue) \ {b}
<1> USE DEF bcache
<1>1. idequeue \in Seq(Bufs) /\ idequeue # <<>> /\ idequeue' = Tail(idequeue)
      /\ \A i, j \in 1 .. Len(idequeue) : idequeue[i] = idequeue[j] => i = j
  BY Zenon DEF CacheInv, TypeOK, QueueInv, ideintr
<1>2. b \in Range(idequeue) /\ b \in Bufs /\ Range(idequeue') = Range(idequeue) \ {b}
  BY Zenon, <1>1, Dequeued
<1>3. busy[b] /\ Pending(b) /\ blockno[b] \in Blocks
  BY Zenon, <1>2, InQueue
<1>4. drive = <<blockno[b], IF dirty[b] THEN "write" ELSE "read", data[b]>>
  BY Zenon, <1>1 DEF CacheInv, QueueInv, idestart
<1>5. drive[1] = blockno[b] /\ (drive[2] = "write" <=> dirty[b]) /\ drive[3] = data[b]
  BY Zenon, <1>4
<1>6. /\ disk' = IF dirty[b] THEN [disk EXCEPT ![blockno[b]] = data[b]] ELSE disk
      /\ data' = IF dirty[b] THEN data ELSE [data EXCEPT ![b] = disk[blockno[b]]]
  BY Zenon, <1>5 DEF ideintr
<1>7. /\ valid' = [valid EXCEPT ![b] = TRUE] /\ dirty' = [dirty EXCEPT ![b] = FALSE]
      /\ pc' = wakeup(b) /\ UNCHANGED <<lru, blockno, busy, want, buf>>
  BY Zenon DEF ideintr
<1> QED BY Zenon, <1>1, <1>2, <1>3, <1>6, <1>7

\* ideintr() ends the transfer and starts the next one.
LEMMA IdeintrStep ==
    ASSUME CacheInv, ideintr
    PROVE  CacheInv'
<1> DEFINE b == Head(idequeue)
<1>1. /\ b \in Bufs /\ b \in Range(idequeue) /\ idequeue # <<>>
      /\ busy[b] /\ Pending(b) /\ blockno[b] \in Blocks
      /\ disk' = IF dirty[b] THEN [disk EXCEPT ![blockno[b]] = data[b]] ELSE disk
      /\ data' = IF dirty[b] THEN data ELSE [data EXCEPT ![b] = disk[blockno[b]]]
      /\ valid' = [valid EXCEPT ![b] = TRUE] /\ dirty' = [dirty EXCEPT ![b] = FALSE]
      /\ pc' = wakeup(b) /\ UNCHANGED <<lru, blockno, busy, want, buf>>
      /\ Range(idequeue') = Range(idequeue) \ {b}
  BY Zenon, Interrupt
<1>2. /\ pc \in [Procs -> PCs] /\ valid \in [Bufs -> BOOLEAN] /\ dirty \in [Bufs -> BOOLEAN]
      /\ data \in [Bufs -> Vals] /\ disk \in [Blocks -> Vals] /\ idequeue \in Seq(Bufs)
  BY Zenon DEF CacheInv, TypeOK
<1>3. /\ idequeue' = Tail(idequeue) /\ drive' = StartNext
      /\ Tail(idequeue) # <<>> => /\ Head(Tail(idequeue)) \in Range(Tail(idequeue))
                                  /\ Head(Tail(idequeue)) \in Bufs
      /\ Tail(idequeue) \in Seq(Bufs)
      /\ \A i, j \in 1 .. Len(Tail(idequeue)) : Tail(idequeue)[i] = Tail(idequeue)[j] => i = j
  <2>1. \A i, j \in 1 .. Len(idequeue) : idequeue[i] = idequeue[j] => i = j
    BY Zenon DEF CacheInv, QueueInv
  <2> QED BY Zenon, <1>1, <1>2, <2>1, Dequeued DEF ideintr
<1> HIDE DEF b
<1>4. \A q \in Procs : buf[q] = b => pc[q] \notin {"iderw", "hold"}
  BY Zenon, <1>1 DEF CacheInv, QueueInv, Requested
<1>5. \A q \in Procs : pc'[q] = IF buf[q] # b THEN pc[q]
                                ELSE IF pc[q] = "getsleep" THEN "bget"
                                ELSE IF pc[q] = "iosleep" THEN "iotest" ELSE pc[q]
  BY Zenon, <1>1 DEF wakeup, Awake, AfterGetSleep, AfterIoSleep
<1>6. /\ \A x \in Bufs : valid'[x] <=> (valid[x] \/ x = b)
      /\ \A x \in Bufs : dirty'[x] <=> (dirty[x] /\ x # b)
  BY Zenon, <1>1, <1>2
<1>7. /\ \A x \in Bufs \ {b} : data'[x] = data[x]
      /\ \A k \in Blocks \ {blockno[b]} : disk'[k] = disk[k]
      /\ data'[b] = disk'[blockno[b]]
  BY Zenon, <1>1, <1>2
<1>8. TypeOK'
  <2>1. pc' \in [Procs -> PCs]
    BY Zenon, <1>1, <1>2 DEF wakeup, Awake, AfterGetSleep, AfterIoSleep, PCs
  <2>2. data' \in [Bufs -> Vals] /\ disk' \in [Blocks -> Vals]
    BY Zenon, <1>1, <1>2
  <2>3. valid' \in [Bufs -> BOOLEAN] /\ dirty' \in [Bufs -> BOOLEAN]
    BY Zenon, <1>1, <1>2
  <2>4. drive' \in Commands
    <3>1. CASE Tail(idequeue) = <<>>
      BY Zenon, <1>3, <3>1 DEF StartNext, Commands
    <3>2. CASE Tail(idequeue) # <<>>
      <4>1. Head(Tail(idequeue)) \in Range(idequeue)
        BY Zenon, <1>1, <1>3, <3>2
      <4>2. Head(Tail(idequeue)) \in Bufs /\ blockno[Head(Tail(idequeue))] \in Blocks
        BY Zenon, <4>1, InQueue
      <4> QED BY Zenon, <1>3, <3>2, <4>2, CommandTyped DEF StartNext, CacheInv
    <3> QED BY Zenon, <3>1, <3>2
  <2> QED BY Zenon, <1>1, <1>3, <2>1, <2>2, <2>3, <2>4 DEF CacheInv, TypeOK
<1>9. LruInv'
  BY Zenon, <1>1 DEF CacheInv, LruInv
<1>10. \A q \in Procs : Using(q)' <=> Using(q)
  BY Zenon, <1>5 DEF Using
<1>11. UseInv'
  BY Zenon, <1>1, <1>10 DEF CacheInv, UseInv
<1>12. BufInv'
  <2>1. ASSUME NEW q \in Procs PROVE HasBuf(q)'
    <3>1. HasBuf(q)
      BY Zenon DEF CacheInv, BufInv
    <3> QED BY Zenon, <1>1, <1>5, <3>1 DEF HasBuf
  <2> QED BY Zenon, <2>1 DEF BufInv
<1>13. DataInv'
  <2>1. ASSUME NEW x \in Bufs, x # b, valid[x] PROVE blockno[x] # blockno[b]
    BY Zenon, <1>1, <2>1, BufCacheAssumption DEF CacheInv, UseInv
  <2> QED BY <1>1, <1>6, <1>7, <2>1 DEF CacheInv, DataInv
<1>14. QueueInv'
  <2>1. ASSUME NEW q \in Procs PROVE Requested(q)'
    <3>1. Requested(q) /\ HasBuf(q) /\ pc[q] \in PCs
      BY Zenon, <1>2 DEF CacheInv, QueueInv, BufInv
    <3>2. CASE buf[q] = b
      BY <1>1, <1>4, <1>5, <1>6, <3>1, <3>2 DEF Requested, Pending
    <3>3. CASE buf[q] # b
      <4>1. pc'[q] = pc[q] /\ buf'[q] = buf[q]
        BY Zenon, <1>1, <1>5, <3>3
      <4>2. Using(q) => /\ Pending(buf[q])' <=> Pending(buf[q])
                        /\ valid'[buf[q]] <=> valid[buf[q]]
        BY Zenon, <1>1, <1>6, <3>1, <3>3 DEF Pending, HasBuf, Using
      <4>3. buf[q] \in Range(idequeue') <=> buf[q] \in Range(idequeue)
        BY Zenon, <1>1, <3>3
      <4> QED BY Zenon, <1>1, <3>1, <4>1, <4>2, <4>3 DEF Requested, Using, Pending
    <3> QED BY Zenon, <3>2, <3>3
  <2>2. \A x \in Range(idequeue') : busy'[x] /\ Pending(x)'
    BY Zenon, <1>1, <1>6, InQueue DEF Pending
  <2>3. drive' = IF idequeue' = <<>> THEN <<>> ELSE idestart(Head(idequeue))'
    <3>1. CASE Tail(idequeue) = <<>>
      BY Zenon, <1>3, <3>1 DEF StartNext
    <3>2. CASE Tail(idequeue) # <<>>
      <4> DEFINE c == Head(Tail(idequeue))
      <4>1. c \in Bufs /\ c # b
        BY Zenon, <1>1, <1>3, <3>2
      <4>2. blockno'[c] = blockno[c] /\ (dirty'[c] <=> dirty[c]) /\ data'[c] = data[c]
        BY Zenon, <1>1, <1>6, <1>7, <4>1
      <4>3. c = Head(idequeue')
        BY Zenon, <1>3
      <4> HIDE DEF c
      <4> QED BY Zenon, <1>3, <3>2, <4>2, <4>3 DEF StartNext, idestart, c
    <3> QED BY Zenon, <3>1, <3>2
  <2> QED BY Zenon, <1>3, <2>1, <2>2, <2>3 DEF QueueInv
<1> QED BY Zenon, <1>8, <1>9, <1>11, <1>12, <1>13, <1>14 DEF CacheInv

\* Every step preserves the invariant.
LEMMA CacheStep == CacheInv /\ [Next]_vars => CacheInv'
<1> SUFFICES ASSUME CacheInv, [Next]_vars PROVE CacheInv'
  OBVIOUS
<1>1. CASE UNCHANGED vars
  <2>1. UNCHANGED shared /\ UNCHANGED <<pc, want, buf>>
    BY Zenon, <1>1 DEF vars, shared
  <2>2. \A q \in Procs : /\ Using(q)' <=> Using(q)
                         /\ HasBuf(q)' /\ Requested(q)'
    BY ZenonT(30), <2>1 DEF shared, Using, HasBuf, Requested, Pending, CacheInv, BufInv, QueueInv
  <2> QED BY Zenon, <2>1, <2>2, LocalStep DEF CacheInv, TypeOK
<1>2. CASE Next
  BY Zenon, <1>2, BreadStep, WriteStep, BgetHitStep, BgetSleepStep, BgetRecycleStep, BrelseStep,
     IderwStep, TestStep, KillStep, IdeintrStep DEF Next
<1> QED BY Zenon, <1>1, <1>2

\* A block is in one buffer and a busy buffer has one user (bget() and brelse()
\* in bio.c): whoever sleeps, is woken or is killed in between, two processes
\* never have the same block, nor two copies of it.
THEOREM CacheIsSound == Spec => []CacheSound
<1>1. CacheInv => CacheSound
  <2> SUFFICES ASSUME CacheInv PROVE CacheSound
    OBVIOUS
  <2>1. ASSUME NEW k \in Blocks PROVE Cardinality({b \in Bufs : blockno[b] = k}) <= 1
    <3> DEFINE S == {b \in Bufs : blockno[b] = k}
    <3>1. CASE S = {}
      BY <3>1, FS_EmptySet
    <3>2. CASE S # {}
      <4>1. PICK b : b \in S
        BY Zenon, <3>2
      <4>2. S = {b}
        BY <4>1, BufCacheAssumption DEF CacheInv, UseInv
      <4>3. Cardinality(S) = 1
        BY Zenon, <4>2, FS_Singleton
      <4> QED BY <4>3
    <3> QED BY Zenon, <3>1, <3>2
  <2>2. ASSUME NEW b \in Bufs
        PROVE  Cardinality({p \in Procs : Using(p) /\ buf[p] = b}) = IF busy[b] THEN 1 ELSE 0
    <3> DEFINE S == {p \in Procs : Using(p) /\ buf[p] = b}
    <3>1. CASE busy[b]
      <4>1. PICK p \in Procs : Using(p) /\ buf[p] = b
        BY Zenon, <3>1 DEF CacheInv, UseInv
      <4>2. S = {p}
        BY <4>1 DEF CacheInv, UseInv
      <4> QED BY Zenon, <3>1, <4>2, FS_Singleton
    <3>2. CASE ~busy[b]
      <4>1. S = {}
        BY Zenon, <3>2, Free DEF Using
      <4> QED BY Zenon, <3>2, <4>1, FS_EmptySet
    <3> QED BY Zenon, <3>1, <3>2
  <2>3. \A p \in Procs : Using(p) => blockno[buf[p]] = want[p]
    BY Zenon DEF CacheInv, BufInv, HasBuf, Using
  <2> QED BY Zenon, <2>1, <2>2, <2>3 DEF CacheSound, OneBufferPerBlock, BusyIsExclusive, CacheInv
<1> QED BY <1>1, CacheInit, CacheStep, PTL DEF Spec

\* Nobody sleeps for a buffer or for the disk without someone to wake it
\* (bget(), iderw() and ideintr() in bio.c and ide.c): the buffer has a user, or
\* the request is queued once and the controller is at work on the first one.
THEOREM SleepersAreWoken == Spec => []SleeperHasWaker
<1>1. CacheInv => SleeperHasWaker
  <2> SUFFICES ASSUME CacheInv PROVE SleeperHasWaker
    OBVIOUS
  <2>1. ASSUME NEW p \in Procs
        PROVE  /\ pc[p] = "getsleep" => busy[buf[p]] /\ blockno[buf[p]] = want[p]
               /\ pc[p] = "iosleep" => buf[p] \in Range(idequeue)
    BY Zenon DEF CacheInv, BufInv, HasBuf, QueueInv, Requested
  <2>2. IsInjective(idequeue)
    <3>1. DOMAIN idequeue = 1 .. Len(idequeue)
      BY DEF CacheInv, TypeOK
    <3> QED BY Zenon, <3>1 DEF IsInjective, CacheInv, QueueInv
  <2>3. idequeue # <<>> => drive # <<>> /\ drive[1] = blockno[Head(idequeue)]
    BY Zenon DEF CacheInv, QueueInv, idestart
  <2> QED BY Zenon, <2>1, <2>2, <2>3 DEF SleeperHasWaker
<1> QED BY <1>1, CacheInit, CacheStep, PTL DEF Spec

\* iderw() is only given buffers that are busy and have something to transfer:
\* none of its panics is reached (ide.c).
THEOREM IderwNeverPanics ==
    Spec => [](\A p \in Procs : pc[p] = "iderw" =>
                  busy[buf[p]] /\ (dirty[buf[p]] \/ ~valid[buf[p]]))
<1>1. CacheInv => \A p \in Procs : pc[p] = "iderw" =>
                     busy[buf[p]] /\ (dirty[buf[p]] \/ ~valid[buf[p]])
  BY Zenon DEF CacheInv, BufInv, HasBuf, QueueInv, Requested, Pending
<1> QED BY <1>1, CacheInit, CacheStep, PTL DEF Spec
=============================================================================
