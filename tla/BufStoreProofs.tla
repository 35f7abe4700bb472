--------------------------- MODULE BufStoreProofs ---------------------------
(***************************************************************************)
(* The buffer cache and the disk driver implement a store of blocks that   *)
(* one process at a time may own: BufCache.tla refines BlockStore.tla.     *)
(***************************************************************************)
EXTENDS BufCacheProofs

\* Process p has read block k.
Has(p, k) == Using(p) /\ blockno[buf[p]] = k /\ valid[buf[p]]

\* Who owns a block: at most one process.
LEMMA OwnerIs ==
    ASSUME CacheInv, NEW k \in Blocks
    PROVE  /\ Owner(k) = {p \in Procs : Has(p, k)}
           /\ \A p, q \in Procs : Has(p, k) /\ Has(q, k) => p = q
<1>1. \A p \in Procs : pc[p] = "hold" => valid[buf[p]]
  BY Zenon DEF CacheInv, QueueInv, Requested
<1>2. \A p \in Procs : Using(p) => buf[p] \in Bufs
  BY Zenon DEF CacheInv, BufInv, HasBuf, Using
<1>3. \A p, q \in Procs : Has(p, k) /\ Has(q, k) => p = q
  BY <1>2, BufCacheAssumption DEF Has, CacheInv, UseInv
<1> QED BY Zenon, <1>1, <1>3 DEF Owner, Has

\* The owner as the store has it.
Owned ==
    \A k \in Blocks : /\ \A p \in Procs : Has(p, k) => OwnerOf[k] = p
                      /\ (\A p \in Procs : ~Has(p, k)) => OwnerOf[k] = NoOwner

\* At most one process owns a block, and the store names it.
LEMMA OwnerOfIs == CacheInv => Owned
<1> SUFFICES ASSUME CacheInv, NEW k \in Blocks
             PROVE  /\ \A p \in Procs : Has(p, k) => OwnerOf[k] = p
                    /\ (\A p \in Procs : ~Has(p, k)) => OwnerOf[k] = NoOwner
  BY Zenon DEF Owned
<1>1. ASSUME NEW p \in Procs, Has(p, k) PROVE OwnerOf[k] = p
  <2>1. Owner(k) = {p}
    BY Zenon, <1>1, OwnerIs
  <2> QED BY Zenon, <2>1 DEF OwnerOf
<1>2. ASSUME \A p \in Procs : ~Has(p, k) PROVE OwnerOf[k] = NoOwner
  BY Zenon, <1>2, OwnerIs DEF OwnerOf
<1> QED BY Zenon, <1>1, <1>2

\* The contents of a block are in its buffer if that is valid, or on the disk.
LEMMA ContentsOf ==
    ASSUME CacheInv, NEW b \in Bufs, blockno[b] \in Blocks
    PROVE  Contents(blockno[b]) = IF valid[b] THEN data[b] ELSE disk[blockno[b]]
<1>1. Cached(blockno[b]) = {b}
  BY BufCacheAssumption DEF Cached, CacheInv, UseInv
<1> QED BY Zenon, <1>1 DEF Contents

\* The contents of a block without a buffer are on the disk.
LEMMA ContentsHome ==
    ASSUME NEW k \in Blocks, Cached(k) = {}
    PROVE  Contents(k) = disk[k]
BY Zenon DEF Contents

\* An owner sees the contents.
SeesValue == Seen = Value

\* What an owner sees are the contents, of a block with an owner or not.
LEMMA SeenIsValue == CacheInv => SeesValue
<1> SUFFICES ASSUME CacheInv, NEW k \in Blocks PROVE Seen[k] = Value[k]
  BY Zenon DEF Seen, Value, SeesValue
<1>1. CASE Owner(k) = {}
  BY Zenon, <1>1 DEF Seen, Value
<1>2. CASE Owner(k) # {}
  <2>1. PICK p \in Procs : Owner(k) = {p} /\ Has(p, k)
    BY <1>2, OwnerIs
  <2>2. buf[p] \in Bufs /\ blockno[buf[p]] = k /\ valid[buf[p]]
    BY Zenon, <2>1 DEF Has, Using, CacheInv, BufInv, HasBuf
  <2>3. Contents(k) = data[buf[p]]
    BY Zenon, <2>2, ContentsOf
  <2> QED BY Zenon, <2>1, <2>3 DEF Seen, Value
<1> QED BY Zenon, <1>1, <1>2

\* Where the contents of every block are.
Placed ==
    \A k \in Blocks :
        /\ \A b \in Bufs : blockno[b] = k => Contents(k) = IF valid[b] THEN data[b] ELSE disk[k]
        /\ (\A b \in Bufs : blockno[b] # k) => Contents(k) = disk[k]

\* This is so in every state of the cache.
LEMMA PlacedNow == CacheInv => Placed
<1>1. \A k \in Blocks : (\A b \in Bufs : blockno[b] # k) => Cached(k) = {}
  BY Zenon DEF Cached
<1> QED BY Zenon, <1>1, ContentsOf, ContentsHome DEF Placed

\* The same after a step.
LEMMA PlacedNext == CacheInv' => Placed'
BY PlacedNow, PTL
\* What owners see after a step.
LEMMA SeenNext == CacheInv' => SeesValue'
BY SeenIsValue, PTL
\* Owners after a step.
LEMMA OwnerNext == CacheInv' => Owned'
BY OwnerOfIs, PTL

\* The store starts with the contents of the disk.
LEMMA StoreInit == Init => Store!Init
<1> SUFFICES ASSUME Init PROVE Store!Init
  OBVIOUS
<1>1. CacheInv /\ disk \in [Blocks -> Vals]
  BY Zenon, CacheInit DEF Init
<1>2. ASSUME NEW k \in Blocks PROVE Contents(k) = disk[k] /\ OwnerOf[k] = NoOwner
  <2>1. Cached(k) = {}
    BY Zenon, BufCacheAssumption DEF Init, Cached
  <2>2. \A p \in Procs : ~Has(p, k)
    BY Zenon DEF Init, Has, Using
  <2> QED BY Zenon, <1>1, <2>1, <2>2, ContentsHome, OwnerOfIs DEF Owned
<1>3. Value = disk
  BY Zenon, <1>1, <1>2 DEF Value
<1>4. OwnerOf = [k \in Blocks |-> NoOwner]
  BY Zenon, <1>2 DEF OwnerOf
<1> QED BY Zenon, <1>1, <1>3, <1>4, SeenIsValue DEF Store!Init, SeesValue

\* A step that changes neither contents nor owners is none of the store.
LEMMA StoreSame ==
    ASSUME CacheInv, CacheInv', disk' = disk,
           \A k \in Blocks : /\ Contents(k)' = Contents(k)
                             /\ \A p \in Procs : Has(p, k)' <=> Has(p, k)
    PROVE  [Store!Next]_(Store!vars)
<1>1. Value' = Value
  BY Zenon DEF Value
<1>2. Seen' = Seen
  BY Zenon, <1>1, SeenIsValue, SeenNext DEF SeesValue
<1>3. ASSUME NEW k \in Blocks PROVE OwnerOf'[k] = OwnerOf[k]
  BY Zenon, OwnerOfIs, OwnerNext DEF Owned
<1>4. OwnerOf' = OwnerOf
  BY Zenon, <1>3 DEF OwnerOf
<1> QED BY Zenon, <1>1, <1>2, <1>4 DEF Store!vars

\* Contents and owners of the blocks after a step that leaves the buffers alone.
LEMMA StoreLocal ==
    ASSUME CacheInv, CacheInv', UNCHANGED <<blockno, valid, data, disk>>,
           \A p \in Procs : (Using(p)' <=> Using(p)) /\ (Using(p) => buf'[p] = buf[p])
    PROVE  [Store!Next]_(Store!vars)
<1>1. \A k \in Blocks : Contents(k)' = Contents(k)
  BY Zenon DEF Contents, Cached
<1>2. \A k \in Blocks, p \in Procs : Has(p, k)' <=> Has(p, k)
  BY Zenon DEF Has
<1> QED BY Zenon, <1>1, <1>2, StoreSame

\* The store when one owner changes: p gets or gives up block k.
LEMMA StoreOwner ==
    ASSUME CacheInv, CacheInv', NEW p \in Procs, NEW k \in Blocks,
           \A j \in Blocks, q \in Procs : j # k => (Has(q, j)' <=> Has(q, j))
    PROVE  /\ Has(p, k)' => OwnerOf' = [OwnerOf EXCEPT ![k] = p]
           /\ (\A q \in Procs : ~Has(q, k)') => OwnerOf' = [OwnerOf EXCEPT ![k] = NoOwner]
<1>1. Owned /\ Owned'
  BY Zenon, OwnerOfIs, OwnerNext
<1>2. ASSUME NEW j \in Blocks, j # k PROVE OwnerOf'[j] = OwnerOf[j]
  BY Zenon, <1>1, <1>2 DEF Owned
<1>3. Has(p, k)' => OwnerOf'[k] = p
  BY Zenon, <1>1 DEF Owned
<1>4. (\A q \in Procs : ~Has(q, k)') => OwnerOf'[k] = NoOwner
  BY Zenon, <1>1 DEF Owned
<1>5. OwnerOf = [j \in Blocks |-> OwnerOf[j]] /\ OwnerOf' = [j \in Blocks |-> OwnerOf'[j]]
  BY DEF OwnerOf
<1> QED BY Zenon, <1>2, <1>3, <1>4, <1>5

\* bget() takes a valid buffer: the block is read.  Taking one that is not valid
\* changes nothing yet.
LEMMA StoreHit ==
    ASSUME CacheInv, CacheInv', NEW p \in Procs, BgetHit(p)
    PROVE  [Store!Next]_(Store!vars)
<1> USE DEF bcache, flags, ide, locals
<1>0. PICK b, k : b = MostRecent(Cached(want[p])) /\ k = want[p]
  BY SMTT(30)
<1>1. /\ UNCHANGED <<blockno, valid, data, disk>> /\ pc[p] = "bget" /\ ~busy[b]
      /\ pc' = [pc EXCEPT ![p] = IF valid[b] THEN "hold" ELSE "iderw"]
      /\ buf' = [buf EXCEPT ![p] = b] /\ pc \in [Procs -> PCs]
      /\ buf \in [Procs -> Bufs \cup {Nil}]
  BY Zenon, <1>0 DEF BgetHit, CacheInv, TypeOK
<1>2. b \in Bufs /\ blockno[b] = k /\ k \in Blocks
  BY Zenon, <1>0, <1>1, Found DEF BgetHit, CacheInv, BufInv, HasBuf
<1>3. \A q \in Procs : Using(q) => buf[q] # b
  BY Zenon, <1>1, <1>2, Free DEF Using
<1>4. \A j \in Blocks : Contents(j)' = Contents(j)
  BY Zenon, <1>1 DEF Contents, Cached
<1>5. \A q \in Procs, j \in Blocks : q # p => (Has(q, j)' <=> Has(q, j))
  BY Zenon, <1>1 DEF Has, Using
<1>6. \A j \in Blocks : ~Has(p, j) /\ (Has(p, j)' <=> j = k /\ valid[b])
  BY Zenon, <1>1, <1>2 DEF Has, Using
<1>7. CASE ~valid[b]
  BY ZenonT(30), <1>1, <1>4, <1>5, <1>6, <1>7, StoreSame
<1>8. CASE valid[b]
  <2>1. OwnerOf' = [OwnerOf EXCEPT ![k] = p]
    BY <1>2, <1>5, <1>6, <1>8, StoreOwner
  <2>2. OwnerOf[k] = NoOwner
    <3>1. ASSUME NEW q \in Procs, Has(q, k) PROVE FALSE
      <4>1. Using(q) /\ blockno[buf[q]] = k /\ buf[q] \in Bufs /\ buf[q] # b
        BY Zenon, <1>3, <3>1 DEF Has, Using, CacheInv, BufInv, HasBuf
      <4> QED BY <1>2, <4>1, BufCacheAssumption DEF CacheInv, UseInv
    <3> QED BY Zenon, <1>2, <3>1, OwnerOfIs DEF Owned
  <2>3. Value' = Value
    BY Zenon, <1>4 DEF Value
  <2>4. Seen' = Seen /\ Seen = Value /\ Seen = [Seen EXCEPT ![k] = Value[k]]
    BY Zenon, <2>3, SeenIsValue, SeenNext DEF SeesValue, Value
  <2>5. Store!Read(p, k)
    BY Zenon, <1>1, <2>1, <2>2, <2>3, <2>4 DEF Store!Read
  <2> QED BY Zenon, <1>2, <2>5 DEF Store!Next
<1> QED BY Zenon, <1>7, <1>8

\* Recycling a buffer loses nothing: it holds what the disk holds.
LEMMA StoreRecycle ==
    ASSUME CacheInv, CacheInv', NEW p \in Procs, BgetRecycle(p)
    PROVE  [Store!Next]_(Store!vars)
<1> USE DEF bcache, flags, ide, locals
<1>0. PICK b, k : b = LeastRecent(Recyclable) /\ k = want[p]
  BY SMTT(30)
<1>1. /\ UNCHANGED <<data, disk, want>> /\ pc[p] = "bget" /\ Cached(k) = {}
      /\ pc' = [pc EXCEPT ![p] = "iderw"] /\ buf' = [buf EXCEPT ![p] = b]
      /\ valid' = [valid EXCEPT ![b] = FALSE] /\ blockno' = [blockno EXCEPT ![b] = k]
      /\ pc \in [Procs -> PCs] /\ buf \in [Procs -> Bufs \cup {Nil}]
      /\ blockno \in [Bufs -> Blocks \cup {NoBlock}] /\ valid \in [Bufs -> BOOLEAN]
  BY Zenon, <1>0 DEF BgetRecycle, CacheInv, TypeOK
<1>2. b \in Bufs /\ ~busy[b] /\ ~dirty[b] /\ k \in Blocks
  <2>1. Recyclable \in SUBSET Bufs /\ Recyclable # {}
    BY Zenon DEF Recyclable, BgetRecycle
  <2>2. b \in Recyclable
    BY Zenon, <1>0, <2>1, Searched DEF CacheInv, TypeOK
  <2>3. k \in Blocks
    BY Zenon, <1>0, <1>1 DEF CacheInv, BufInv, HasBuf
  <2> QED BY Zenon, <2>2, <2>3 DEF Recyclable
<1>3. \A q \in Procs : Using(q) => buf[q] # b /\ buf[q] \in Bufs
  BY <1>1, <1>2, Free DEF Using, CacheInv, BufInv, HasBuf
<1>4. \A q \in Procs : q # p => (Using(q)' <=> Using(q)) /\ buf'[q] = buf[q]
  BY Zenon, <1>1 DEF Using
<1>5. \A j \in Blocks, q \in Procs : q # p => (Has(q, j)' <=> Has(q, j))
  BY Zenon, <1>1, <1>3, <1>4 DEF Has
<1>6. \A j \in Blocks : ~Has(p, j) /\ ~Has(p, j)'
  BY Zenon, <1>1, <1>2 DEF Has, Using
<1>7. ASSUME NEW j \in Blocks PROVE Contents(j)' = Contents(j)
  <2>1. CASE j = k
    <3>1. Contents(j) = disk[j]
      BY Zenon, <1>1, <2>1, ContentsHome
    <3>2. \A x \in Cached(j)' : x = b /\ ~valid'[x]
      BY Zenon, <1>1, <1>2, <2>1 DEF Cached
    <3> QED BY Zenon, <1>1, <3>1, <3>2 DEF Contents
  <2>2. CASE j # k /\ j = blockno[b]
    <3>1. Cached(j)' = {}
      BY <1>1, <1>2, <2>2, BufCacheAssumption DEF Cached, CacheInv, UseInv
    <3>2. Contents(j)' = disk[j]
      BY Zenon, <1>1, <3>1 DEF Contents
    <3>3. Contents(j) = disk[j]
      BY Zenon, <1>2, <2>2, ContentsOf DEF CacheInv, DataInv
    <3> QED BY Zenon, <3>2, <3>3
  <2>3. CASE j # k /\ j # blockno[b]
    <3>1. Cached(j)' = Cached(j) /\ b \notin Cached(j)
      BY Zenon, <1>1, <1>2, <2>3 DEF Cached
    <3>2. \A x \in Cached(j) : valid'[x] = valid[x]
      BY Zenon, <1>1, <3>1 DEF Cached
    <3> QED BY ZenonT(30), <1>1, <3>1, <3>2 DEF Contents
  <2> QED BY Zenon, <2>1, <2>2, <2>3
<1> QED BY Zenon, <1>1, <1>5, <1>6, <1>7, StoreSame

\* The owner changes the contents, whether it pins the buffer or will write it.
LEMMA StoreModify ==
    ASSUME CacheInv, CacheInv', NEW p \in Procs, NEW v \in Vals, log_write(p, v) \/ bwrite(p, v)
    PROVE  [Store!Next]_(Store!vars)
<1> USE DEF bcache, flags, ide, locals
<1>0. PICK b, k : b = buf[p] /\ k = want[p]
  OBVIOUS
<1>1. /\ UNCHANGED <<blockno, valid, disk, buf>> /\ pc[p] = "hold"
      /\ pc' = pc \/ pc' = [pc EXCEPT ![p] = "iderw"]
      /\ data' = [data EXCEPT ![b] = v] /\ data \in [Bufs -> Vals] /\ pc \in [Procs -> PCs]
  BY Zenon, <1>0 DEF log_write, bwrite, CacheInv, TypeOK
<1>2. b \in Bufs /\ blockno[b] = k /\ k \in Blocks /\ valid[b]
  BY Zenon, <1>0, <1>1 DEF CacheInv, BufInv, HasBuf, QueueInv, Requested
<1>3. \A j \in Blocks, q \in Procs : Has(q, j)' <=> Has(q, j)
  BY Zenon, <1>1 DEF Has, Using
<1>4. Has(p, k) /\ Has(p, k)'
  BY ZenonT(30), <1>0, <1>1, <1>2, <1>3 DEF Has, Using
<1>5. OwnerOf[k] = p /\ OwnerOf' = OwnerOf
  <2>1. OwnerOf[k] = p /\ OwnerOf' = [OwnerOf EXCEPT ![k] = p]
    BY Zenon, <1>2, <1>3, <1>4, OwnerOfIs, StoreOwner DEF Owned
  <2> QED BY Zenon, <2>1 DEF OwnerOf
<1>6. Contents(k)' = v
  BY Zenon, <1>1, <1>2, PlacedNext DEF Placed
<1>7. ASSUME NEW j \in Blocks, j # k PROVE Contents(j)' = Contents(j)
  <2>1. \A x \in Bufs : blockno[x] = j => data'[x] = data[x]
    BY Zenon, <1>1, <1>2, <1>7
  <2>2. CASE \E x \in Bufs : blockno[x] = j
    <3>1. PICK x \in Bufs : blockno[x] = j
      BY Zenon, <2>2
    <3>2. Contents(j) = IF valid[x] THEN data[x] ELSE disk[j]
      BY Zenon, <3>1, PlacedNow DEF Placed
    <3>3. Contents(j)' = IF valid'[x] THEN data'[x] ELSE disk'[j]
      BY Zenon, <1>1, <3>1, PlacedNext DEF Placed
    <3> QED BY Zenon, <1>1, <2>1, <3>1, <3>2, <3>3
  <2>3. CASE \A x \in Bufs : blockno[x] # j
    BY Zenon, <1>1, <2>3, PlacedNow, PlacedNext DEF Placed
  <2> QED BY Zenon, <2>2, <2>3
<1>8. Value' = [Value EXCEPT ![k] = v]
  BY Zenon, <1>2, <1>6, <1>7 DEF Value
<1>9. Seen' = [Seen EXCEPT ![k] = v]
  BY Zenon, <1>8, SeenIsValue, SeenNext DEF SeesValue
<1>10. Store!Modify(p, k, v)
  BY Zenon, <1>1, <1>5, <1>8, <1>9 DEF Store!Modify
<1> QED BY Zenon, <1>2, <1>10 DEF Store!Next

\* brelse() is the release.
LEMMA StoreRelease ==
    ASSUME CacheInv, CacheInv', NEW p \in Procs, brelse(p)
    PROVE  [Store!Next]_(Store!vars)
<1> USE DEF bcache, flags, ide, locals
<1>0. PICK b, k : b = buf[p] /\ k = want[p]
  BY SMTT(30)
<1>1. /\ UNCHANGED <<blockno, valid, data, disk>> /\ pc[p] = "hold"
      /\ pc' = [wakeup(b) EXCEPT ![p] = "idle"] /\ buf' = [buf EXCEPT ![p] = Nil]
      /\ pc \in [Procs -> PCs] /\ buf \in [Procs -> Bufs \cup {Nil}]
  BY Zenon, <1>0 DEF brelse, CacheInv, TypeOK
<1>2. b \in Bufs /\ blockno[b] = k /\ k \in Blocks /\ valid[b]
  BY Zenon, <1>0, <1>1 DEF CacheInv, BufInv, HasBuf, QueueInv, Requested
<1>3. \A q \in Procs \ {p} : Using(q) => buf[q] # b /\ buf[q] \in Bufs
  BY Zenon, <1>0, <1>1 DEF CacheInv, UseInv, BufInv, HasBuf, Using
<1>4. Has(p, k)
  BY Zenon, <1>0, <1>1, <1>2 DEF Has, Using
<1>5. \A q \in Procs \ {p} : (Using(q)' <=> Using(q)) /\ buf'[q] = buf[q]
  BY Zenon, <1>1, <1>3 DEF wakeup, Awake, AfterGetSleep, AfterIoSleep, Using
<1>6. \A j \in Blocks, q \in Procs : q # p => (Has(q, j)' <=> Has(q, j))
  BY Zenon, <1>1, <1>5 DEF Has
<1>7. \A j \in Blocks : ~Has(p, j)' /\ (j # k => ~Has(p, j))
  <2>1. pc'[p] = "idle"
    BY Zenon, <1>1 DEF wakeup
  <2> QED BY Zenon, <1>0, <1>2, <2>1 DEF Has, Using
<1>8. \A q \in Procs : q # p => ~Has(q, k)
  BY Zenon, <1>2, <1>4, OwnerIs
<1>9. OwnerOf[k] = p /\ OwnerOf' = [OwnerOf EXCEPT ![k] = NoOwner]
  BY <1>2, <1>4, <1>6, <1>7, <1>8, OwnerOfIs, StoreOwner DEF Owned
<1>10. \A j \in Blocks : Contents(j)' = Contents(j)
  BY Zenon, <1>1 DEF Contents, Cached
<1>11. Value' = Value
  BY Zenon, <1>10 DEF Value
<1>12. Seen' = Seen /\ Seen = Value /\ Seen = [Seen EXCEPT ![k] = Value[k]]
  BY Zenon, <1>11, SeenIsValue, SeenNext DEF SeesValue, Value
<1>13. Store!Release(p, k)
  BY Zenon, <1>1, <1>9, <1>11, <1>12 DEF Store!Release
<1> QED BY Zenon, <1>2, <1>13 DEF Store!Next

\* The interrupt ends a read, and the block is read, or a write, and the contents
\* are on the disk.
LEMMA StoreInterrupt ==
    ASSUME CacheInv, CacheInv', ideintr
    PROVE  [Store!Next]_(Store!vars)
<1>0. PICK b, k : b = Head(idequeue) /\ k = blockno[b]
  OBVIOUS
<1>1. /\ b \in Bufs /\ b \in Range(idequeue) /\ busy[b] /\ Pending(b) /\ k \in Blocks
      /\ disk' = IF dirty[b] THEN [disk EXCEPT ![k] = data[b]] ELSE disk
      /\ data' = IF dirty[b] THEN data ELSE [data EXCEPT ![b] = disk[k]]
      /\ valid' = [valid EXCEPT ![b] = TRUE] /\ pc' = wakeup(b)
      /\ UNCHANGED <<blockno, want, buf>>
  BY Zenon, <1>0, Interrupt
<1>2. /\ data \in [Bufs -> Vals] /\ disk \in [Blocks -> Vals] /\ valid \in [Bufs -> BOOLEAN]
  BY Zenon DEF CacheInv, TypeOK
<1>3. PICK p \in Procs : Using(p) /\ buf[p] = b
  BY Zenon, <1>1 DEF CacheInv, UseInv
<1>4. \A q \in Procs : (Using(q)' <=> Using(q)) /\ (Using(q) /\ buf[q] = b => q = p)
  BY <1>1, <1>3 DEF wakeup, Awake, AfterGetSleep, AfterIoSleep, Using, CacheInv, UseInv
<1>5. \A q \in Procs : Using(q) => buf[q] \in Bufs
  BY Zenon DEF CacheInv, BufInv, HasBuf, Using
<1>6. ASSUME NEW j \in Blocks, j # k
      PROVE  /\ Contents(j)' = Contents(j)
             /\ \A q \in Procs : Has(q, j)' <=> Has(q, j)
  <2>1. \A x \in Bufs : blockno[x] = j => data'[x] = data[x] /\ valid'[x] = valid[x]
    BY Zenon, <1>0, <1>1, <1>2, <1>6
  <2>2. disk'[j] = disk[j]
    BY Zenon, <1>1, <1>2, <1>6
  <2>3. Contents(j)' = Contents(j)
    <3>1. CASE \E x \in Bufs : blockno[x] = j
      <4>1. PICK x \in Bufs : blockno[x] = j
        BY Zenon, <3>1
      <4>2. Contents(j) = IF valid[x] THEN data[x] ELSE disk[j]
        BY Zenon, <4>1, PlacedNow DEF Placed
      <4>3. Contents(j)' = IF valid'[x] THEN data'[x] ELSE disk'[j]
        BY Zenon, <1>1, <4>1, PlacedNext DEF Placed
      <4> QED BY Zenon, <2>1, <2>2, <4>1, <4>2, <4>3
    <3>2. CASE \A x \in Bufs : blockno[x] # j
      <4>1. Contents(j) = disk[j]
        BY Zenon, <3>2, PlacedNow DEF Placed
      <4>2. \A x \in Bufs : blockno'[x] # j
        BY Zenon, <1>1, <3>2
      <4>3. Contents(j)' = disk'[j]
        BY Zenon, <4>2, PlacedNext DEF Placed
      <4> QED BY Zenon, <2>2, <4>1, <4>3
    <3> QED BY Zenon, <3>1, <3>2
  <2>4. \A q \in Procs : Has(q, j)' <=> Has(q, j)
    BY Zenon, <1>1, <1>4, <1>5, <2>1 DEF Has
  <2> QED BY Zenon, <2>3, <2>4
<1>7. Has(p, k)' /\ valid'[b]
  BY Zenon, <1>0, <1>1, <1>2, <1>3, <1>4 DEF Has
<1>8. OwnerOf' = [OwnerOf EXCEPT ![k] = p]
  BY Zenon, <1>1, <1>6, <1>7, StoreOwner
<1>9. CASE dirty[b]
  <2>1. valid[b] /\ Has(p, k)
    BY Zenon, <1>0, <1>1, <1>3, <1>9 DEF CacheInv, DataInv, Has
  <2>2. Contents(k) = data[b] /\ Contents(k)' = data[b]
    BY ZenonT(30), <1>0, <1>1, <1>7, <1>9, <2>1, PlacedNow, PlacedNext DEF Placed
  <2>3. Value' = Value /\ Value[k] = data[b]
    BY Zenon, <1>1, <1>6, <2>2 DEF Value
  <2>4. OwnerOf[k] = p /\ OwnerOf' = OwnerOf
    <3>1. OwnerOf[k] = p
      BY Zenon, <1>1, <2>1, OwnerOfIs DEF Owned
    <3> QED BY Zenon, <1>8, <3>1 DEF OwnerOf
  <2>5. Seen' = Seen
    BY Zenon, <2>3, SeenIsValue, SeenNext DEF SeesValue
  <2>6. Store!WriteThrough(p, k)
    BY Zenon, <1>1, <1>9, <2>3, <2>4, <2>5 DEF Store!WriteThrough
  <2> QED BY Zenon, <1>1, <2>6 DEF Store!Next
<1>10. CASE ~dirty[b]
  <2>1. ~valid[b]
    BY Zenon, <1>1, <1>10 DEF Pending
  <2>2. Contents(k) = disk[k] /\ Contents(k)' = disk[k]
    BY Zenon, <1>0, <1>1, <1>2, <1>7, <1>10, <2>1, PlacedNow, PlacedNext DEF Placed
  <2>3. Value' = Value
    BY Zenon, <1>1, <1>6, <2>2 DEF Value
  <2>4. OwnerOf[k] = NoOwner
    <3>1. ASSUME NEW q \in Procs, Has(q, k) PROVE FALSE
      BY <1>0, <1>1, <1>5, <2>1, <3>1, BufCacheAssumption DEF Has, CacheInv, UseInv
    <3> QED BY Zenon, <1>1, <3>1, OwnerOfIs DEF Owned
  <2>5. Seen' = Seen /\ Seen = Value /\ Seen = [Seen EXCEPT ![k] = Value[k]]
    BY Zenon, <2>3, SeenIsValue, SeenNext DEF SeesValue, Value
  <2>6. Store!Read(p, k)
    BY Zenon, <1>1, <1>8, <1>10, <2>3, <2>4, <2>5 DEF Store!Read
  <2> QED BY Zenon, <1>1, <2>6 DEF Store!Next
<1> QED BY Zenon, <1>9, <1>10

\* Every step of the cache is a step of the store, or none.
LEMMA StoreStep == CacheInv /\ CacheInv' /\ [Next]_vars => [Store!Next]_(Store!vars)
<1> SUFFICES ASSUME CacheInv, CacheInv', [Next]_vars PROVE [Store!Next]_(Store!vars)
  OBVIOUS
<1>0. pc \in [Procs -> PCs] /\ buf \in [Procs -> Bufs \cup {Nil}]
  BY Zenon DEF CacheInv, TypeOK
<1>1. CASE UNCHANGED vars
  <2>1. UNCHANGED <<blockno, valid, data, disk, pc, buf>>
    BY Zenon, <1>1 DEF vars
  <2> QED BY Zenon, <2>1, StoreLocal DEF Using
<1>2. ASSUME NEW p \in Procs, (\E k \in Blocks : bread(p, k)) \/ BgetSleep(p) \/ iderw(p)
                              \/ IderwTest(p) \/ kill(p)
      PROVE  [Store!Next]_(Store!vars)
  <2>1. UNCHANGED <<blockno, valid, data, disk>>
    BY Zenon, <1>2 DEF bread, BgetSleep, iderw, IderwTest, kill, bcache, flags, ide
  <2>2. \A q \in Procs : (Using(q)' <=> Using(q)) /\ (Using(q) => buf'[q] = buf[q])
    BY ZenonT(30), <1>0, <1>2 DEF bread, BgetSleep, iderw, IderwTest, kill, Awake, AfterGetSleep,
       AfterIoSleep, Using
  <2> QED BY Zenon, <2>1, <2>2, StoreLocal
<1>3. CASE Next
  BY Zenon, <1>2, <1>3, StoreHit, StoreRecycle, StoreModify, StoreRelease, StoreInterrupt DEF Next
<1> QED BY Zenon, <1>1, <1>3

\* The cache implements the block store (bio.c, ide.c): bread() returns the last
\* value written to the block whoever wrote it, recycling a buffer loses nothing,
\* and only the bwrite() of its owner changes a block of the disk.
THEOREM CacheIsBlockStore == Spec => CacheIsStore
<1> QED BY CacheInit, CacheStep, StoreInit, StoreStep, PTL DEF Spec, CacheIsStore, Store!Spec
=============================================================================
