---------------------------- MODULE CrashProofs -----------------------------
(***************************************************************************)
(* The log implements the atomic disk, for any number of processes, blocks *)
(* and crashes, any sizes, and operations that log any number of blocks.   *)
(***************************************************************************)
EXTENDS LogProofs

\* No block is in the log twice (absorption), in memory or on the disk.
OnceInv ==
    /\ \A i, j \in 1 .. Len(lh) : lh[i] = lh[j] => i = j
    /\ \A i, j \in 1 .. Len(head) : head[i] = head[j] => i = j

\* A cached block that differs from the disk is pinned or held, and what is
\* pinned is in the log.
PinInv ==
    /\ \A b \in Blocks : cache[b] \in {None, disk[b]} \/ b \in dirty \/ Busy(b)
    /\ \A b \in dirty : b \in Range(lh)
    /\ ~Up => dirty = {}

\* The header on the disk is empty but while blocks are installed, when it is
\* the one in memory, and before a restart has read it.
HeadInv ==
    /\ \A p \in Procs : pc[p] \in {"install", "reinstall"} => head = lh
    /\ head # <<>> => \E p \in Procs : pc[p] \in {"install", "reinstall", "recover"}

\* What write_log() has copied to the log, and what install_trans() has copied
\* to the home blocks.
Copied(p) ==
    /\ pc[p] = "recover" => tail[p] = 0
    /\ pc[p] \in {"write_log", "install", "reinstall"} => tail[p] <= Len(lh)
    /\ pc[p] = "write_log" =>
         \A i \in 1 .. tail[p] : logdisk[i] = bread(lh[i])
    /\ pc[p] = "install" =>
         /\ \A i \in 1 .. Len(lh) : logdisk[i] = bread(lh[i])
         /\ \A b \in dirty : \E i \in tail[p] + 1 .. Len(lh) : b = lh[i]
    /\ pc[p] \in {"install", "reinstall"} =>
         \A i \in 1 .. tail[p] : disk[lh[i]] = logdisk[i]
CopyInv == \A p \in Procs : Copied(p)

DiskInv == OnceInv /\ PinInv /\ HeadInv /\ CopyInv
CrashInv == CtlInv /\ DataTypes /\ DiskInv

-----------------------------------------------------------------------------
(* Who runs *)

\* A process that commits does so alone: no buffer is held, and nobody else
\* writes to the log or installs.
LEMMA CommitterAlone ==
    ASSUME CtlInv, NEW p \in Procs, pc[p] \in {"write_log", "install", "committed"}
    PROVE  /\ Up /\ outstanding = 0
           /\ \A b \in Blocks : ~Busy(b)
           /\ \A q \in Procs \ {p} : pc[q] \in {"idle", "asleep", "begin"}
<1>1. p \in Committers
  BY Zenon DEF Committers
<1>2. committing /\ Ops = {} /\ outstanding = 0
  BY Zenon, <1>1, OpsFinite DEF CtlInv, CommitInv
<1>3. Up
  BY Zenon, LogAssumption DEF CtlInv, BootInv, Up
<1>4. \A q \in Procs : pc[q] \notin {"op", "logging"}
  BY Zenon, <1>2 DEF Ops
<1>5. ASSUME NEW q \in Procs \ {p} PROVE pc[q] \in {"idle", "asleep", "begin"}
  <2>1. q \notin Committers
    BY Zenon, <1>1 DEF CtlInv, CommitInv
  <2>2. pc[q] \in PCs /\ pc[q] \notin {"off", "recover", "reinstall"}
    BY Zenon, <1>3 DEF CtlInv, BootInv, Types
  <2> QED BY Zenon, <1>4, <2>1, <2>2 DEF Committers, PCs
<1> QED BY Zenon, <1>2, <1>3, <1>4, <1>5 DEF Busy

\* Before recovery is over there is nobody but Boot.
LEMMA BootAlone ==
    ASSUME CtlInv, NEW p \in Procs, pc[p] \in {"recover", "reinstall"}
    PROVE  /\ p = Boot /\ ~Up
           /\ \A b \in Blocks : ~Busy(b)
           /\ \A q \in Procs \ {p} : pc[q] = "off"
<1>1. ~Up
  BY Zenon DEF CtlInv, BootInv
<1>2. p = Boot
  BY <1>1 DEF CtlInv, BootInv
<1> QED BY Zenon, <1>1, <1>2 DEF CtlInv, BootInv, Busy

\* While an operation is active nothing is written to the log or installed.
LEMMA OpActive ==
    ASSUME CtlInv, NEW p \in Procs, pc[p] \in {"op", "logging"}
    PROVE  /\ Up /\ outstanding > 0
           /\ \A q \in Procs : pc[q] \in {"idle", "asleep", "begin", "op", "logging"}
<1>1. p \in Ops
  BY Zenon DEF Ops
<1>2. ~committing /\ Committers = {} /\ outstanding > 0
  BY <1>1, OpsFinite DEF CtlInv, CommitInv
<1>3. Up
  BY Zenon, LogAssumption DEF CtlInv, BootInv, Up
<1>4. ASSUME NEW q \in Procs PROVE pc[q] \in {"idle", "asleep", "begin", "op", "logging"}
  <2>1. pc[q] \in PCs /\ pc[q] \notin {"off", "recover", "reinstall"}
    BY Zenon, <1>3 DEF CtlInv, BootInv, Types
  <2> QED BY Zenon, <1>2, <2>1 DEF Committers, PCs
<1> QED BY Zenon, <1>2, <1>3, <1>4

-----------------------------------------------------------------------------
(* What a restart finds *)

\* A block of the header is taken from its place in the log, ...
LEMMA RecoveredLogged ==
    ASSUME OnceInv, head \in Seq(Blocks), NEW i \in 1 .. Len(head)
    PROVE  Recovered[head[i]] = logdisk[i]
<1>1. head[i] \in Blocks /\ head[i] \in Range(head)
  BY DEF Range
<1>2. (CHOOSE j \in 1 .. Len(head) : head[j] = head[i]) = i
  BY Zenon DEF OnceInv
<1> QED BY Zenon, <1>1, <1>2 DEF Recovered

\* ... and every other one from its home.
LEMMA RecoveredHome ==
    ASSUME NEW b \in Blocks, b \notin Range(head)
    PROVE  Recovered[b] = disk[b]
BY Zenon DEF Recovered

\* With an empty header a restart finds the home blocks.
LEMMA RecoveredEmpty ==
    ASSUME head = <<>>, disk \in [Blocks -> Vals]
    PROVE  Recovered = disk
<1>1. Range(head) = {}
  BY DEF Range
<1> QED BY Zenon, <1>1 DEF Recovered

\* Writes to home blocks of the header do not change what a restart finds.
LEMMA RecoveredSame ==
    ASSUME head' = head, logdisk' = logdisk,
           \A b \in Blocks \ Range(head) : disk'[b] = disk[b]
    PROVE  Recovered' = Recovered
BY DEF Recovered

\* The elements of a sequence, by their place.
LEMMA InRange ==
    ASSUME NEW S, NEW s \in Seq(S), NEW b \in Range(s)
    PROVE  \E i \in 1 .. Len(s) : s[i] = b
BY DEF Range

-----------------------------------------------------------------------------
(* The invariant *)

\* The places at which a process holds a buffer, commits or recovers.
Acting == {"logging", "write_log", "install", "reinstall", "recover"}

\* A step that only moves processes which are elsewhere.
LEMMA Quiet ==
    ASSUME DiskInv,
           UNCHANGED <<disk, logdisk, head, cache, dirty, lh, wblock>>, Up' = Up,
           \A q \in Procs : pc[q] \in Acting \/ pc'[q] \in Acting =>
                               pc'[q] = pc[q] /\ tail'[q] = tail[q]
    PROVE  DiskInv'
<1>1. \A b \in Blocks : Busy(b)' <=> Busy(b)
  BY Zenon DEF Busy, Acting
<1>2. PinInv'
  BY Zenon, <1>1 DEF DiskInv, PinInv
<1>3. HeadInv'
  BY Zenon DEF DiskInv, HeadInv, Acting
<1>4. CopyInv'
  BY DEF DiskInv, CopyInv, Copied, Acting, bread
<1> QED BY ZenonT(30), <1>2, <1>3, <1>4 DEF DiskInv, OnceInv

\* When nobody commits or recovers the header on the disk is empty.
LEMMA HeadEmpty ==
    ASSUME HeadInv, \A q \in Procs : pc[q] \notin {"install", "reinstall", "recover"}
    PROVE  head = <<>>
BY Zenon DEF HeadInv

\* The invariant holds when the machine starts.
LEMMA DiskInit == Init => DiskInv
<1> SUFFICES ASSUME Init PROVE DiskInv
  OBVIOUS
<1>1. ~Up
  BY Zenon, LogAssumption DEF Init, Up
<1>2. OnceInv
  BY DEF Init, OnceInv
<1>3. PinInv
  BY Zenon, <1>1 DEF Init, PinInv
<1>4. HeadInv
  BY Zenon DEF Init, HeadInv
<1>5. CopyInv
  BY Zenon DEF Init, CopyInv, Copied
<1> QED BY Zenon, <1>2, <1>3, <1>4, <1>5 DEF DiskInv

\* modify() changes a block that its process then holds.
LEMMA ModifyDisk ==
    ASSUME CtlInv, DataTypes, DiskInv,
           NEW p \in Procs, NEW b \in Blocks, NEW v \in Vals, modify(p, b, v)
    PROVE  DiskInv'
<1> USE DEF diskvars, cachevars, logvars, opvars, bounds
<1>1. /\ pc[p] = "op" /\ pc' = [pc EXCEPT ![p] = "logging"]
      /\ wblock' = [wblock EXCEPT ![p] = b] /\ cache' = [cache EXCEPT ![b] = v]
      /\ UNCHANGED <<disk, logdisk, head, dirty, lh>>
      /\ pc \in [Procs -> PCs] /\ wblock \in [Procs -> Blocks \cup {None}]
  BY Zenon DEF modify, CtlInv, Types
<1>2. Up /\ \A q \in Procs : pc[q] \in {"idle", "asleep", "begin", "op", "logging"}
  BY Zenon, <1>1, OpActive
<1>3. Up'
  BY Zenon, <1>1, <1>2, LogAssumption DEF Up
<1>4. \A q \in Procs : pc'[q] \in {"idle", "asleep", "begin", "op", "logging"}
  BY Zenon, <1>1, <1>2
<1>5. \A x \in Blocks : Busy(x) => Busy(x)'
  BY Zenon, <1>1 DEF Busy
<1>6. Busy(b)'
  BY Zenon, <1>1 DEF Busy
<1>7. PinInv'
  BY Zenon, <1>1, <1>3, <1>5, <1>6 DEF DiskInv, PinInv, DataTypes
<1>8. head = <<>>
  BY Zenon, <1>2, HeadEmpty DEF DiskInv
<1>9. HeadInv' /\ CopyInv'
  BY Zenon, <1>1, <1>4, <1>8 DEF HeadInv, CopyInv, Copied
<1> QED BY Zenon, <1>1, <1>7, <1>9 DEF DiskInv, OnceInv

\* log_write() pins the block and puts it into the log once.
LEMMA LogWriteDisk ==
    ASSUME CtlInv, DataTypes, DiskInv, NEW p \in Procs, log_write(p)
    PROVE  DiskInv'
<1> USE DEF diskvars, cachevars, logvars, opvars, bounds
<1> DEFINE b == wblock[p]
<1>1. /\ pc[p] = "logging" /\ pc' = [pc EXCEPT ![p] = "op"]
      /\ wblock' = [wblock EXCEPT ![p] = None] /\ dirty' = dirty \cup {b}
      /\ lh' = IF b \in Range(lh) THEN lh ELSE Append(lh, b)
      /\ UNCHANGED <<disk, logdisk, head, cache>>
      /\ pc \in [Procs -> PCs] /\ wblock \in [Procs -> Blocks \cup {None}]
      /\ lh \in Seq(Blocks) /\ b \in Blocks
  BY Zenon DEF log_write, CtlInv, Types
<1>2. Up /\ \A q \in Procs : pc[q] \in {"idle", "asleep", "begin", "op", "logging"}
  BY Zenon, <1>1, OpActive
<1>3. Up'
  BY Zenon, <1>1, <1>2, LogAssumption DEF Up
<1>4. \A q \in Procs : pc'[q] \in {"idle", "asleep", "begin", "op", "logging"}
  BY Zenon, <1>1, <1>2
<1>5. \A x \in Blocks : x # b /\ Busy(x) => Busy(x)'
  BY Zenon, <1>1 DEF Busy
<1>6. Range(lh) \subseteq Range(lh') /\ b \in Range(lh')
  BY <1>1, AppendSet
<1>7. PinInv'
  BY Zenon, <1>1, <1>3, <1>5, <1>6 DEF DiskInv, PinInv
<1>8. head = <<>>
  BY Zenon, <1>2, HeadEmpty DEF DiskInv
<1>9. HeadInv' /\ CopyInv'
  BY Zenon, <1>1, <1>4, <1>8 DEF HeadInv, CopyInv, Copied
<1>10. OnceInv'
  <2>1. CASE b \in Range(lh)
    BY ZenonT(30), <1>1, <2>1 DEF DiskInv, OnceInv
  <2>2. CASE b \notin Range(lh)
    <3>1. lh' = Append(lh, b) /\ \A i \in 1 .. Len(lh) : lh[i] # b
      BY <1>1, <2>2 DEF Range
    <3> QED BY <1>1, <3>1 DEF DiskInv, OnceInv
  <2> QED BY Zenon, <2>1, <2>2
<1> QED BY Zenon, <1>7, <1>9, <1>10 DEF DiskInv

\* end_op() leaves the disk alone; a commit starts with nothing copied.
LEMMA EndOpDisk ==
    ASSUME CtlInv, DataTypes, DiskInv, NEW p \in Procs, end_op(p)
    PROVE  DiskInv'
<1> USE DEF diskvars, cachevars, logvars, opvars, bounds
<1>1. /\ pc[p] = "op" /\ UNCHANGED <<disk, logdisk, head, cache, dirty, lh, wblock>>
      /\ pc \in [Procs -> PCs] /\ tail \in [Procs -> Nat] /\ lh \in Seq(Blocks)
      /\ \A q \in Procs \ {p} : /\ pc'[q] = pc[q] \/ {pc[q], pc'[q]} \subseteq {"asleep", "begin"}
                                /\ tail'[q] = tail[q]
      /\ pc'[p] \in {"write_log", "committed", "idle"}
      /\ pc'[p] = "write_log" => tail'[p] = 0
  BY Zenon DEF end_op, wakeup, CtlInv, Types, DataTypes
<1>2. Up /\ \A q \in Procs : pc[q] \in {"idle", "asleep", "begin", "op", "logging"}
  BY Zenon, <1>1, OpActive
<1>3. Up' /\ \A q \in Procs : pc'[q] \in {"idle", "asleep", "begin", "op", "logging",
                                          "write_log", "committed"}
  BY Zenon, <1>1, <1>2, LogAssumption DEF Up
<1>4. \A b \in Blocks : Busy(b)' <=> Busy(b)
  <2>1. \A q \in Procs : pc'[q] = "logging" <=> pc[q] = "logging"
    BY Zenon, <1>1
  <2> QED BY Zenon, <1>1, <2>1 DEF Busy
<1>5. head = <<>>
  BY Zenon, <1>2, HeadEmpty DEF DiskInv
<1>6. PinInv' /\ HeadInv' /\ OnceInv'
  BY <1>1, <1>3, <1>4, <1>5 DEF DiskInv, PinInv, HeadInv, OnceInv
<1>7. ASSUME NEW q \in Procs, pc'[q] = "write_log" PROVE q = p
  BY Zenon, <1>1, <1>2, <1>7
<1>8. CopyInv'
  BY <1>1, <1>3, <1>7 DEF CopyInv, Copied
<1> QED BY Zenon, <1>6, <1>8 DEF DiskInv

\* write_log() copies one more block to the log.
LEMMA WriteLogDisk ==
    ASSUME LogFits, CtlInv, DataTypes, DiskInv, NEW p \in Procs, write_log(p)
    PROVE  DiskInv'
<1> USE DEF diskvars, cachevars, logvars, opvars, bounds
<1>1. /\ pc[p] = "write_log" /\ UNCHANGED <<disk, head, cache, dirty, lh, wblock, pc>>
      /\ tail[p] < Len(lh) /\ tail[p] \in Nat /\ lh \in Seq(Blocks) /\ Len(lh) <= LOGSIZE
      /\ logdisk' = [logdisk EXCEPT ![tail[p] + 1] = bread(lh[tail[p] + 1])]
      /\ tail' = [tail EXCEPT ![p] = @ + 1] /\ tail \in [Procs -> Nat]
      /\ logdisk \in [1 .. LOGSIZE -> Vals]
  BY LogAssumption DEF write_log, CtlInv, Types, DataTypes, LogFits
<1>2. \A q \in Procs \ {p} : pc[q] \in {"idle", "asleep", "begin"}
  BY Zenon, <1>1, CommitterAlone
<1>3. OnceInv' /\ PinInv' /\ HeadInv'
  BY <1>1 DEF DiskInv, OnceInv, PinInv, HeadInv, Busy, Up
<1>4. tail[p] + 1 \in 1 .. LOGSIZE /\ tail'[p] = tail[p] + 1
  BY <1>1, LogAssumption
<1>5. ASSUME NEW i \in 1 .. tail'[p] PROVE logdisk'[i] = bread(lh[i])'
  <2>1. i = tail[p] + 1 \/ i \in 1 .. tail[p]
    BY <1>1, <1>4
  <2>2. bread(lh[i])' = bread(lh[i])
    BY Zenon, <1>1 DEF bread
  <2>3. \A j \in 1 .. tail[p] : logdisk[j] = bread(lh[j])
    BY Zenon, <1>1 DEF DiskInv, CopyInv, Copied
  <2> QED BY <1>1, <1>4, <2>1, <2>2, <2>3
<1>6. CopyInv'
  <2>1. Copied(p)'
    BY <1>1, <1>4, <1>5 DEF Copied
  <2>2. ASSUME NEW q \in Procs \ {p} PROVE Copied(q)'
    BY Zenon, <1>1, <1>2 DEF Copied
  <2> QED BY Zenon, <2>1, <2>2 DEF CopyInv
<1> QED BY Zenon, <1>3, <1>6 DEF DiskInv

\* write_head() makes the log that is complete the one on the disk.
LEMMA WriteHeadDisk ==
    ASSUME CtlInv, DataTypes, DiskInv, NEW p \in Procs, write_head(p)
    PROVE  DiskInv'
<1> USE DEF diskvars, cachevars, logvars, opvars, bounds
<1>1. /\ pc[p] = "write_log" /\ UNCHANGED <<disk, logdisk, cache, dirty, lh, wblock>>
      /\ tail[p] = Len(lh) /\ lh \in Seq(Blocks) /\ head' = lh
      /\ pc' = [pc EXCEPT ![p] = "install"] /\ pc \in [Procs -> PCs]
      /\ tail' = [tail EXCEPT ![p] = 0] /\ tail \in [Procs -> Nat]
  BY Zenon DEF write_head, CtlInv, Types, DataTypes
<1>2. Up /\ \A q \in Procs \ {p} : pc[q] \in {"idle", "asleep", "begin"}
  BY Zenon, <1>1, CommitterAlone
<1>3. Up'
  BY Zenon, <1>1, <1>2, LogAssumption DEF Up
<1>4. \A b \in Blocks : Busy(b)' <=> Busy(b)
  BY Zenon, <1>1 DEF Busy
<1>5. OnceInv' /\ PinInv'
  BY Zenon, <1>1, <1>3, <1>4 DEF DiskInv, OnceInv, PinInv
<1>6. HeadInv'
  BY Zenon, <1>1, <1>2 DEF HeadInv
<1>7. \A i \in 1 .. Len(lh) : logdisk[i] = bread(lh[i])' /\ bread(lh[i])' = bread(lh[i])
  BY ZenonT(30), <1>1 DEF DiskInv, CopyInv, Copied, bread
<1>8. \A b \in dirty : \E i \in 1 .. Len(lh) : b = lh[i]
  BY Zenon, <1>1, InRange DEF DiskInv, PinInv
<1>9. CopyInv'
  <2>1. Copied(p)'
    BY <1>1, <1>7, <1>8 DEF Copied
  <2>2. ASSUME NEW q \in Procs \ {p} PROVE Copied(q)'
    BY Zenon, <1>1, <1>2 DEF Copied
  <2> QED BY Zenon, <2>1, <2>2 DEF CopyInv
<1> QED BY Zenon, <1>5, <1>6, <1>9 DEF DiskInv

\* install_trans() copies one more block home, in a commit or a recovery.
LEMMA InstallDisk ==
    ASSUME CtlInv, DataTypes, DiskInv, NEW p \in Procs, install_trans(p)
    PROVE  DiskInv'
<1> USE DEF diskvars, cachevars, logvars, opvars, bounds
<1> DEFINE t == tail[p] + 1
           b == lh[t]
           v == logdisk[t]
<1>1. /\ pc[p] \in {"install", "reinstall"} /\ UNCHANGED <<logdisk, head, lh, wblock, pc>>
      /\ tail[p] < Len(lh) /\ tail[p] \in Nat /\ lh \in Seq(Blocks)
      /\ disk' = [disk EXCEPT ![b] = v] /\ cache' = [cache EXCEPT ![b] = v]
      /\ dirty' = dirty \ {b}
      /\ tail' = [tail EXCEPT ![p] = t] /\ tail \in [Procs -> Nat]
      /\ disk \in [Blocks -> Vals] /\ cache \in [Blocks -> Vals \cup {None}]
  BY Zenon DEF install_trans, CtlInv, Types, DataTypes
<1>2. t \in 1 .. Len(lh) /\ b \in Blocks /\ tail'[p] = t /\ t \in Nat
  BY <1>1
<1>3. \A q \in Procs \ {p} : pc[q] \in {"idle", "asleep", "begin", "off"}
  BY Zenon, <1>1, CommitterAlone, BootAlone
<1>4. /\ disk'[b] = v /\ cache'[b] = v
      /\ \A x \in Blocks \ {b} : disk'[x] = disk[x] /\ cache'[x] = cache[x]
  BY Zenon, <1>1, <1>2
<1>5. \A i \in 1 .. Len(lh) : lh[i] = b => i = t
  BY Zenon, <1>2 DEF DiskInv, OnceInv
<1> HIDE DEF t, b, v
<1>6. OnceInv' /\ HeadInv'
  BY ZenonT(30), <1>1 DEF DiskInv, OnceInv, HeadInv
<1>7. PinInv'
  BY <1>1, <1>4 DEF DiskInv, PinInv, Busy, Up
<1>8. \A i \in 1 .. Len(lh) : lh[i] \in Blocks
  BY <1>1
<1>9. ASSUME NEW i \in 1 .. tail'[p] PROVE disk'[lh[i]] = logdisk[i]
  <2>1. i \in 1 .. Len(lh) /\ (i = t \/ i \in 1 .. tail[p])
    BY <1>1, <1>2 DEF t
  <2>2. CASE i = t
    BY Zenon, <1>4, <2>2 DEF b, v
  <2>3. CASE i # t
    <3>1. lh[i] \in Blocks \ {b} /\ i \in 1 .. tail[p]
      BY Zenon, <1>5, <1>8, <2>1, <2>3
    <3> QED BY Zenon, <1>1, <1>4, <3>1 DEF DiskInv, CopyInv, Copied
  <2> QED BY Zenon, <2>2, <2>3
<1>10. ASSUME pc[p] = "install"
       PROVE  /\ \A i \in 1 .. Len(lh) : logdisk[i] = bread(lh[i])'
              /\ \A x \in dirty' : \E i \in tail'[p] + 1 .. Len(lh) : x = lh[i]
  <2>1. ASSUME NEW i \in 1 .. Len(lh) PROVE logdisk[i] = bread(lh[i])'
    <3>1. CASE i = t
      <4>1. lh[i] = b /\ logdisk[i] = v
        BY Zenon, <3>1 DEF b, v
      <4> QED BY Zenon, <1>1, <1>4, <4>1 DEF bread
    <3>2. CASE i # t
      <4>1. lh[i] \in Blocks \ {b}
        BY Zenon, <1>5, <1>8, <3>2
      <4>2. logdisk[i] = bread(lh[i])
        BY Zenon, <1>10 DEF DiskInv, CopyInv, Copied
      <4> QED BY Zenon, <1>1, <1>4, <4>1, <4>2 DEF bread
    <3> QED BY Zenon, <3>1, <3>2
  <2>2. ASSUME NEW x \in dirty' PROVE \E i \in tail'[p] + 1 .. Len(lh) : x = lh[i]
    <3>1. x \in dirty /\ x # b
      BY Zenon, <1>1
    <3>2. PICK i \in tail[p] + 1 .. Len(lh) : x = lh[i]
      BY Zenon, <1>10, <3>1 DEF DiskInv, CopyInv, Copied
    <3>3. i # t
      BY Zenon, <3>1, <3>2 DEF b
    <3> QED BY <1>1, <1>2, <3>2, <3>3 DEF t
  <2> QED BY Zenon, <2>1, <2>2
<1>11. CopyInv'
  BY SMTT(30), <1>1, <1>2, <1>3, <1>9, <1>10 DEF CopyInv, Copied
<1> QED BY Zenon, <1>6, <1>7, <1>11 DEF DiskInv

\* The last write of a commit or a recovery empties the log; every block of it
\* is at home.
LEMMA ClearHeadDisk ==
    ASSUME CtlInv, DataTypes, DiskInv, NEW p \in Procs, clear_head(p)
    PROVE  DiskInv'
<1> USE DEF diskvars, cachevars, logvars, opvars, bounds
<1>1. /\ pc[p] \in {"install", "reinstall"} /\ UNCHANGED <<disk, logdisk, cache, dirty, wblock>>
      /\ tail[p] = Len(lh) /\ lh \in Seq(Blocks) /\ lh' = <<>> /\ head' = <<>>
      /\ pc' = IF pc[p] = "install" THEN [pc EXCEPT ![p] = "committed"]
                                    ELSE [q \in Procs |-> "idle"]
      /\ pc \in [Procs -> PCs]
  BY Zenon DEF clear_head, CtlInv, Types, DataTypes
<1>2. \A q \in Procs \ {p} : pc[q] \in {"idle", "asleep", "begin", "off"}
  BY Zenon, <1>1, CommitterAlone, BootAlone
<1>3. \A q \in Procs : pc'[q] \in {"idle", "asleep", "begin", "off", "committed"}
  BY Zenon, <1>1, <1>2
<1>4. \A b \in Blocks : ~Busy(b)
  BY Zenon, <1>1, CommitterAlone, BootAlone
<1>5. dirty = {}
  <2>1. CASE pc[p] = "install"
    BY <1>1, <2>1 DEF DiskInv, CopyInv, Copied
  <2>2. CASE pc[p] = "reinstall"
    BY Zenon, <1>1, <2>2, BootAlone DEF DiskInv, PinInv
  <2> QED BY Zenon, <1>1, <2>1, <2>2
<1>6. PinInv'
  BY Zenon, <1>1, <1>4, <1>5 DEF DiskInv, PinInv
<1> QED BY <1>1, <1>3, <1>6 DEF DiskInv, OnceInv, HeadInv, CopyInv, Copied

\* read_head() takes the log of the disk.
LEMMA ReadHeadDisk ==
    ASSUME CtlInv, DataTypes, DiskInv, NEW p \in Procs, read_head(p)
    PROVE  DiskInv'
<1> USE DEF diskvars, cachevars, logvars, opvars, bounds
<1>1. /\ pc[p] = "recover" /\ UNCHANGED <<disk, logdisk, head, cache, dirty, wblock, tail>>
      /\ lh' = head /\ head \in Seq(Blocks)
      /\ pc' = [pc EXCEPT ![p] = "reinstall"] /\ pc \in [Procs -> PCs]
  BY Zenon DEF read_head, CtlInv, Types, DataTypes
<1>2. /\ p = Boot /\ ~Up /\ \A q \in Procs \ {p} : pc[q] = "off"
      /\ \A b \in Blocks : ~Busy(b)
  BY Zenon, <1>1, BootAlone
<1>3. dirty = {} /\ tail[p] = 0
  BY Zenon, <1>1, <1>2 DEF DiskInv, PinInv, CopyInv, Copied
<1>4. PinInv' /\ OnceInv'
  BY <1>1, <1>2, <1>3 DEF DiskInv, PinInv, OnceInv
<1>5. HeadInv' /\ CopyInv'
  BY <1>1, <1>2, <1>3 DEF HeadInv, CopyInv, Copied
<1> QED BY Zenon, <1>4, <1>5 DEF DiskInv

\* A crash forgets the cache and keeps the disk.
LEMMA CrashDisk ==
    ASSUME CtlInv, DataTypes, DiskInv, Crash
    PROVE  DiskInv'
<1> USE DEF diskvars
<1>1. /\ UNCHANGED <<disk, logdisk, head>> /\ lh' = <<>> /\ dirty' = {}
      /\ cache' = [b \in Blocks |-> None] /\ tail' = [q \in Procs |-> 0]
      /\ pc' = [q \in Procs |-> IF q = Boot THEN "recover" ELSE "off"]
  BY Zenon DEF Crash
<1>2. PinInv' /\ OnceInv'
  BY <1>1 DEF DiskInv, PinInv, OnceInv
<1>3. HeadInv' /\ CopyInv'
  BY Zenon, <1>1, LogAssumption DEF HeadInv, CopyInv, Copied
<1> QED BY Zenon, <1>2, <1>3 DEF DiskInv

\* Neither reading a block into the cache nor recycling a buffer changes what
\* the system sees: a buffer that may be recycled holds what the disk holds.
LEMMA CacheSame ==
    ASSUME DataTypes, PinInv, NEW b \in Blocks, Fill(b) \/ Recycle(b)
    PROVE  \A x \in Blocks : bread(x)' = bread(x)
<1> USE DEF diskvars
<1>1. disk' = disk /\ cache \in [Blocks -> Vals \cup {None}] /\ disk \in [Blocks -> Vals]
  BY Zenon DEF Fill, Recycle, DataTypes
<1>2. CASE Fill(b)
  BY Zenon, <1>1, <1>2 DEF Fill, bread
<1>3. CASE Recycle(b)
  <2>1. cache[b] = disk[b]
    BY Zenon, <1>3 DEF Recycle, Recyclable, PinInv
  <2> QED BY Zenon, <1>1, <1>3, <2>1 DEF Recycle, bread
<1> QED BY Zenon, <1>2, <1>3

\* So the cache may come and go.
LEMMA CacheDisk ==
    ASSUME CtlInv, DataTypes, DiskInv, NEW b \in Blocks, Fill(b) \/ Recycle(b)
    PROVE  DiskInv'
<1> USE DEF diskvars, logvars, opvars
<1>1. /\ UNCHANGED <<disk, logdisk, head, lh, dirty, pc, tail, wblock>>
      /\ cache' = [cache EXCEPT ![b] = IF Fill(b) THEN disk[b] ELSE None]
      /\ cache \in [Blocks -> Vals \cup {None}] /\ lh \in Seq(Blocks)
  BY Zenon, LogAssumption DEF Fill, Recycle, DataTypes, CtlInv, Types
<1>2. \A x \in Blocks : bread(x)' = bread(x)
  BY Zenon, CacheSame DEF DiskInv
<1>3. PinInv'
  BY Zenon, <1>1 DEF DiskInv, PinInv, Busy, Up
<1>4. \A i \in 1 .. Len(lh) : bread(lh[i])' = bread(lh[i])
  BY <1>1, <1>2
<1>5. ASSUME NEW p \in Procs PROVE Copied(p)'
  <2>1. Copied(p)
    BY Zenon DEF DiskInv, CopyInv
  <2>2. tail[p] \in Nat
    BY Zenon DEF DataTypes
  <2> QED BY <1>1, <1>4, <2>1, <2>2 DEF Copied
<1> QED BY Zenon, <1>1, <1>3, <1>5 DEF DiskInv, OnceInv, HeadInv, CopyInv

\* Every step preserves the invariant of the disk.
LEMMA DiskStep ==
    CtlInv /\ DataTypes /\ DiskInv /\ [Next]_vars => DiskInv'
<1> SUFFICES ASSUME CtlInv, DataTypes, DiskInv, [Next]_vars PROVE DiskInv'
  OBVIOUS
<1> USE DEF diskvars, cachevars, logvars, opvars, bounds
<1>0. CtlInv /\ pc \in [Procs -> PCs] /\ tail \in [Procs -> Nat]
  BY Zenon DEF CtlInv, Types, DataTypes
<1>1. CASE UNCHANGED vars
  <2>1. UNCHANGED <<disk, logdisk, head, cache, dirty, lh, wblock, pc, tail>> /\ Up' = Up
    BY Zenon, <1>1 DEF vars, Up
  <2> QED BY Zenon, <2>1, Quiet
<1>2. ASSUME NEW p \in Procs, begin_op(p) \/ Kill(p) \/ commit_done(p) PROVE DiskInv'
  <2>1. /\ UNCHANGED <<disk, logdisk, head, cache, dirty, lh, wblock, tail>>
        /\ pc[p] \in {"idle", "begin", "asleep", "committed"}
        /\ pc'[p] \in {"asleep", "op", "begin", "idle"}
        /\ \A q \in Procs \ {p} : pc'[q] = pc[q] \/ {pc[q], pc'[q]} \subseteq {"asleep", "begin"}
    BY Zenon, <1>0, <1>2 DEF begin_op, Kill, commit_done, wakeup
  <2>2. Up' = Up
    BY Zenon, <2>1, LogAssumption DEF Up
  <2>3. \A q \in Procs : pc[q] \in Acting \/ pc'[q] \in Acting => pc'[q] = pc[q]
    BY Zenon, <2>1 DEF Acting
  <2> QED BY Zenon, <2>1, <2>2, <2>3, Quiet
<1>3. ASSUME LogFits, NEW p \in Procs, Step(p) PROVE DiskInv'
  BY ZenonT(30), <1>0, <1>2, <1>3, LogWriteDisk, EndOpDisk, WriteLogDisk, WriteHeadDisk, InstallDisk,
     ClearHeadDisk, ReadHeadDisk DEF Step
<1>4. ASSUME NEW p \in Procs, NEW b \in Blocks, NEW v \in Vals, modify(p, b, v)
      PROVE  DiskInv'
  BY Zenon, <1>0, <1>4, ModifyDisk
<1>5. ASSUME NEW b \in Blocks, Fill(b) \/ Recycle(b) PROVE DiskInv'
  BY Zenon, <1>5, CacheDisk
<1>6. CASE Crash
  BY Zenon, <1>6, CrashDisk
<1> QED BY Zenon, <1>1, <1>2, <1>3, <1>4, <1>5, <1>6 DEF Next

-----------------------------------------------------------------------------
(* The refinement *)

\* What the system sees while it is up, block by block.
LEMMA VisibleSame ==
    ASSUME Up, Up', \A b \in Blocks : bread(b)' = bread(b)
    PROVE  Visible' = Visible
BY Zenon DEF Visible

\* A step that changes neither blocks nor operations is a stutter.
LEMMA Stutter ==
    ASSUME Recovered' = Recovered, Visible' = Visible, outstanding' = outstanding
    PROVE  [Abstract!Next]_(Abstract!vars)
BY Zenon DEF Abstract!vars

\* An unchanged disk is found unchanged.
LEMMA SameDisk ==
    ASSUME UNCHANGED <<disk, logdisk, head>>
    PROVE  Recovered' = Recovered
BY DEF Recovered

\* The machine starts with what the disk holds.
LEMMA RefineInit == Init => Abstract!Init
<1> SUFFICES ASSUME Init PROVE Abstract!Init
  OBVIOUS
<1>1. head = <<>> /\ disk \in [Blocks -> Vals] /\ outstanding = 0
  BY Zenon, DataInit DEF Init, DataTypes
<1>2. Recovered = disk
  BY Zenon, <1>1, RecoveredEmpty
<1>3. ~Up
  BY Zenon, LogAssumption DEF Init, Up
<1>4. Visible = Recovered
  BY Zenon, <1>3 DEF Visible
<1> QED BY Zenon, <1>1, <1>2, <1>4 DEF Abstract!Init

\* write_head() is the commit: the log holds what the system sees of its blocks,
\* and every other block is at home.
LEMMA RefineCommit ==
    ASSUME CrashInv, NEW p \in Procs, write_head(p)
    PROVE  Abstract!Commit
<1> USE DEF diskvars, cachevars, logvars, opvars, bounds
<1>1. /\ pc[p] = "write_log" /\ UNCHANGED <<disk, logdisk, cache, dirty, lh, outstanding>>
      /\ tail[p] = Len(lh) /\ lh \in Seq(Blocks) /\ head' = lh
      /\ pc' = [pc EXCEPT ![p] = "install"] /\ pc \in [Procs -> PCs]
  BY Zenon DEF write_head, CrashInv, CtlInv, Types
<1>2. Up /\ outstanding = 0 /\ \A b \in Blocks : ~Busy(b)
  BY Zenon, <1>1, CommitterAlone DEF CrashInv
<1>3. Up' /\ \A b \in Blocks : bread(b)' = bread(b)
  BY Zenon, <1>1, <1>2, LogAssumption DEF Up, bread
<1>4. Visible' = Visible /\ Visible = [b \in Blocks |-> bread(b)]
  BY Zenon, <1>2, <1>3, VisibleSame DEF Visible
<1>5. ASSUME NEW b \in Blocks PROVE Recovered'[b] = bread(b)
  <2>1. CASE b \in Range(lh)
    <3>1. PICK i \in 1 .. Len(lh) : lh[i] = b
      BY Zenon, <1>1, <2>1, InRange
    <3>2. (CHOOSE j \in 1 .. Len(lh) : lh[j] = b) = i
      BY Zenon, <3>1 DEF CrashInv, DiskInv, OnceInv
    <3>3. logdisk[i] = bread(lh[i])
      BY Zenon, <1>1 DEF CrashInv, DiskInv, CopyInv, Copied
    <3> QED BY Zenon, <1>1, <2>1, <3>1, <3>2, <3>3 DEF Recovered
  <2>2. CASE b \notin Range(lh)
    <3>1. cache[b] \in {None, disk[b]}
      BY Zenon, <1>2, <2>2 DEF CrashInv, DiskInv, PinInv
    <3> QED BY Zenon, <1>1, <2>2, <3>1 DEF Recovered, bread
  <2> QED BY Zenon, <2>1, <2>2
<1>6. Recovered' = [b \in Blocks |-> bread(b)]
  BY Zenon, <1>5 DEF Recovered
<1> QED BY Zenon, <1>1, <1>2, <1>4, <1>6 DEF Abstract!Commit

\* Installing a block changes neither what the system sees nor what a restart
\* would find.
LEMMA RefineInstall ==
    ASSUME CrashInv, NEW p \in Procs, install_trans(p)
    PROVE  [Abstract!Next]_(Abstract!vars)
<1> USE DEF diskvars, cachevars, logvars, opvars, bounds
<1> DEFINE b == lh[tail[p] + 1]
           v == logdisk[tail[p] + 1]
<1>1. /\ pc[p] \in {"install", "reinstall"}
      /\ UNCHANGED <<logdisk, head, lh, pc, outstanding>>
      /\ tail[p] < Len(lh) /\ tail[p] \in Nat /\ lh \in Seq(Blocks) /\ head = lh
      /\ disk' = [disk EXCEPT ![b] = v] /\ cache' = [cache EXCEPT ![b] = v]
      /\ disk \in [Blocks -> Vals] /\ cache \in [Blocks -> Vals \cup {None}]
  BY Zenon DEF install_trans, CrashInv, CtlInv, Types, DataTypes, DiskInv, HeadInv
<1>2. tail[p] + 1 \in 1 .. Len(lh) /\ b \in Blocks /\ b \in Range(head) /\ Up' = Up
  BY <1>1 DEF Range, Up
<1>3. Recovered' = Recovered
  <2>1. \A x \in Blocks \ Range(head) : disk'[x] = disk[x]
    BY Zenon, <1>1, <1>2
  <2> QED BY Zenon, <1>1, <2>1, RecoveredSame
<1>4. Visible' = Visible
  <2>1. CASE pc[p] = "install"
    <3>1. Up
      BY Zenon, <2>1, CommitterAlone DEF CrashInv
    <3>2. bread(b) = v
      BY Zenon, <1>2, <2>1 DEF CrashInv, DiskInv, CopyInv, Copied
    <3>3. ASSUME NEW x \in Blocks PROVE bread(x)' = bread(x)
      BY Zenon, <1>1, <1>2, <3>2 DEF bread
    <3> QED BY Zenon, <1>2, <3>1, <3>3, VisibleSame
  <2>2. CASE pc[p] = "reinstall"
    <3>1. ~Up
      BY Zenon, <2>2, BootAlone DEF CrashInv
    <3> QED BY Zenon, <1>2, <1>3, <3>1 DEF Visible
  <2> QED BY Zenon, <1>1, <2>1, <2>2
<1> QED BY Zenon, <1>1, <1>3, <1>4, Stutter

\* Neither does emptying the header once all blocks are at home, and recovery
\* ends with what was found.
LEMMA RefineClear ==
    ASSUME CrashInv, NEW p \in Procs, clear_head(p)
    PROVE  [Abstract!Next]_(Abstract!vars)
<1> USE DEF diskvars, cachevars, logvars, opvars, bounds
<1>1. /\ pc[p] \in {"install", "reinstall"} /\ UNCHANGED <<disk, logdisk, cache, outstanding>>
      /\ tail[p] = Len(lh) /\ lh \in Seq(Blocks) /\ head = lh /\ head' = <<>>
      /\ pc' = IF pc[p] = "install" THEN [pc EXCEPT ![p] = "committed"]
                                    ELSE [q \in Procs |-> "idle"]
      /\ pc \in [Procs -> PCs] /\ disk \in [Blocks -> Vals]
  BY Zenon DEF clear_head, CrashInv, CtlInv, Types, DataTypes, DiskInv, HeadInv
<1>2. Recovered' = disk
  <2>1. Range(head') = {}
    BY <1>1 DEF Range
  <2> QED BY Zenon, <1>1, <2>1 DEF Recovered
<1>3. ASSUME NEW b \in Blocks PROVE Recovered[b] = disk[b]
  <2>1. CASE b \in Range(head)
    <3>1. PICK i \in 1 .. Len(head) : head[i] = b
      BY Zenon, <1>1, <2>1, InRange
    <3>2. Recovered[head[i]] = logdisk[i]
      BY Zenon, <1>1, RecoveredLogged DEF CrashInv, DiskInv
    <3>3. disk[lh[i]] = logdisk[i]
      BY Zenon, <1>1 DEF CrashInv, DiskInv, CopyInv, Copied
    <3> QED BY Zenon, <1>1, <3>1, <3>2, <3>3
  <2>2. CASE b \notin Range(head)
    BY Zenon, <2>2, RecoveredHome
  <2> QED BY Zenon, <2>1, <2>2
<1>4. Recovered' = Recovered
  BY Zenon, <1>1, <1>2, <1>3 DEF Recovered
<1>5. Up' /\ \A b \in Blocks : bread(b)' = bread(b)
  <2>1. pc'[Boot] \notin {"recover", "reinstall"}
    BY Zenon, <1>1, LogAssumption, CommitterAlone DEF CrashInv, Up
  <2> QED BY Zenon, <1>1, <2>1 DEF Up, bread
<1>6. Visible' = Visible
  <2>1. CASE pc[p] = "install"
    <3>1. Up
      BY Zenon, <2>1, CommitterAlone DEF CrashInv
    <3> QED BY Zenon, <1>5, <3>1, VisibleSame
  <2>2. CASE pc[p] = "reinstall"
    <3>1. ~Up /\ dirty = {} /\ \A b \in Blocks : ~Busy(b)
      BY Zenon, <2>2, BootAlone DEF CrashInv, DiskInv, PinInv
    <3>2. \A b \in Blocks : bread(b) = disk[b]
      BY Zenon, <3>1 DEF CrashInv, DiskInv, PinInv, bread
    <3>3. Visible = Recovered /\ Visible' = [b \in Blocks |-> bread(b)']
      BY Zenon, <1>5, <3>1 DEF Visible
    <3>4. Visible' = [b \in Blocks |-> disk[b]]
      BY Zenon, <1>5, <3>2, <3>3
    <3> QED BY Zenon, <1>1, <1>2, <1>4, <3>3, <3>4
  <2> QED BY Zenon, <1>1, <2>1, <2>2
<1> QED BY Zenon, <1>1, <1>4, <1>6, Stutter

\* Every other step of a process: a block is written, an operation begins or
\* ends, or nothing changes for the atomic disk.
LEMMA RefineOther ==
    ASSUME CrashInv, NEW p \in Procs,
           begin_op(p) \/ Kill(p) \/ log_write(p) \/ end_op(p) \/ write_log(p)
           \/ commit_done(p) \/ read_head(p)
    PROVE  [Abstract!Next]_(Abstract!vars)
<1> USE DEF diskvars, cachevars, logvars, opvars, bounds
<1>0. pc \in [Procs -> PCs] /\ CtlInv /\ head \in Seq(Blocks) /\ disk \in [Blocks -> Vals]
  BY Zenon DEF CrashInv, CtlInv, Types, DataTypes
<1>1. UNCHANGED <<disk, head, cache>> /\ \A b \in Blocks : bread(b)' = bread(b)
  BY Zenon DEF begin_op, Kill, log_write, end_op, write_log, commit_done, read_head, bread
<1>2. Recovered' = Recovered
  <2>1. CASE write_log(p)
    <3>1. head = <<>>
      BY Zenon, <1>0, <2>1, HeadEmpty, CommitterAlone DEF write_log, CrashInv, DiskInv, HeadInv
    <3> QED BY <1>0, <1>1, <3>1, RecoveredEmpty DEF Recovered, Range
  <2>2. CASE ~write_log(p)
    <3>1. logdisk' = logdisk
      BY Zenon, <2>2 DEF begin_op, Kill, log_write, end_op, commit_done, read_head
    <3> QED BY Zenon, <1>1, <3>1, SameDisk
  <2> QED BY Zenon, <2>1, <2>2
<1>3. Up' = Up
  BY Zenon, <1>0, LogAssumption DEF Up, begin_op, Kill, log_write, end_op, write_log, commit_done,
     read_head, wakeup
<1>4. Visible' = Visible
  BY Zenon, <1>1, <1>2, <1>3, VisibleSame DEF Visible
<1>5. CASE outstanding' = outstanding
  BY Zenon, <1>2, <1>4, <1>5, Stutter
<1>6. CASE begin_op(p)
  <2>1. outstanding' \in {outstanding, outstanding + 1}
    BY Zenon, <1>6 DEF begin_op
  <2> QED BY Zenon, <1>2, <1>4, <1>5, <2>1 DEF Abstract!Next, Abstract!Begin
<1>7. CASE end_op(p)
  <2>1. outstanding > 0 /\ outstanding' = outstanding - 1
    BY Zenon, <1>0, <1>7, OpActive DEF end_op
  <2> QED BY Zenon, <1>2, <1>4, <2>1 DEF Abstract!Next, Abstract!End
<1>8. CASE ~begin_op(p) /\ ~end_op(p)
  BY Zenon, <1>5, <1>8 DEF Kill, log_write, write_log, commit_done, read_head
<1> QED BY Zenon, <1>6, <1>7, <1>8

\* A change of a buffer in an operation is a write, seen at once and not durable.
LEMMA RefineModify ==
    ASSUME CrashInv, NEW p \in Procs, NEW b \in Blocks, NEW v \in Vals, modify(p, b, v)
    PROVE  Abstract!Write(b, v)
<1> USE DEF diskvars, cachevars, logvars, opvars, bounds
<1>1. /\ pc \in [Procs -> PCs] /\ pc[p] = "op" /\ CtlInv
      /\ cache \in [Blocks -> Vals \cup {None}] /\ cache' = [cache EXCEPT ![b] = v]
      /\ UNCHANGED <<disk, logdisk, head, outstanding>>
      /\ pc' = [pc EXCEPT ![p] = "logging"]
  BY Zenon DEF modify, CrashInv, CtlInv, Types, DataTypes
<1>2. Up /\ Up' /\ outstanding > 0
  BY Zenon, <1>1, OpActive, LogAssumption DEF Up
<1>3. Recovered' = Recovered
  BY Zenon, <1>1, SameDisk
<1>4. \A x \in Blocks : bread(x)' = IF x = b THEN v ELSE bread(x)
  BY Zenon, <1>1, LogAssumption DEF bread
<1>5. /\ Visible = [x \in Blocks |-> bread(x)]
      /\ Visible' = [x \in Blocks |-> bread(x)']
  BY Zenon, <1>2 DEF Visible
<1>6. Visible' = [Visible EXCEPT ![b] = v]
  BY Zenon, <1>4, <1>5
<1> QED BY Zenon, <1>1, <1>2, <1>3, <1>6 DEF Abstract!Write

\* A crash: memory is lost, the disk is what it was.
LEMMA RefineCrash == Crash => Abstract!Crash
<1> SUFFICES ASSUME Crash PROVE Abstract!Crash
  OBVIOUS
<1>1. UNCHANGED <<disk, logdisk, head>> /\ outstanding' = 0 /\ ~Up'
  BY Zenon, LogAssumption DEF Crash, diskvars, Up
<1>2. Recovered' = Recovered
  BY Zenon, <1>1, SameDisk
<1>3. Visible' = Recovered'
  BY Zenon, <1>1 DEF Visible
<1> QED BY Zenon, <1>1, <1>2, <1>3 DEF Abstract!Crash

\* Every step of the log is a step of the atomic disk, or none.
LEMMA RefineStep == CrashInv /\ [Next]_vars => [Abstract!Next]_(Abstract!vars)
<1> SUFFICES ASSUME CrashInv, [Next]_vars PROVE [Abstract!Next]_(Abstract!vars)
  OBVIOUS
<1>1. CASE UNCHANGED vars
  <2>1. UNCHANGED <<disk, logdisk, head, cache, pc, outstanding>>
    BY Zenon, <1>1 DEF vars
  <2>2. Recovered' = Recovered
    BY Zenon, <2>1, SameDisk
  <2>3. Visible' = Visible
    BY Zenon, <2>1, <2>2 DEF Visible, Up, bread
  <2> QED BY Zenon, <2>1, <2>2, <2>3, Stutter
<1>2. ASSUME NEW p \in Procs, Step(p) \/ Kill(p) PROVE [Abstract!Next]_(Abstract!vars)
  <2>1. CASE write_head(p)
    BY Zenon, <2>1, RefineCommit DEF Abstract!Next
  <2>2. CASE install_trans(p)
    BY Zenon, <2>2, RefineInstall
  <2>3. CASE clear_head(p)
    BY Zenon, <2>3, RefineClear
  <2> QED BY Zenon, <1>2, <2>1, <2>2, <2>3, RefineOther DEF Step
<1>3. ASSUME NEW p \in Procs, NEW b \in Blocks, NEW v \in Vals, modify(p, b, v)
      PROVE  [Abstract!Next]_(Abstract!vars)
  BY Zenon, <1>3, RefineModify DEF Abstract!Next
<1>4. ASSUME NEW b \in Blocks, Fill(b) \/ Recycle(b) PROVE [Abstract!Next]_(Abstract!vars)
  <2>1. /\ UNCHANGED <<disk, logdisk, head, pc, outstanding>>
        /\ \A x \in Blocks : bread(x)' = bread(x)
    BY Zenon, <1>4, CacheSame DEF Fill, Recycle, diskvars, logvars, CrashInv, DiskInv
  <2>2. Recovered' = Recovered /\ Up' = Up
    BY Zenon, <2>1, SameDisk DEF Up
  <2>3. Visible' = Visible
    BY Zenon, <2>1, <2>2, VisibleSame DEF Visible
  <2> QED BY Zenon, <2>1, <2>2, <2>3, Stutter
<1>5. CASE Crash
  BY Zenon, <1>5, RefineCrash DEF Abstract!Next
<1> QED BY Zenon, <1>1, <1>2, <1>3, <1>4, <1>5 DEF Next

\* The log implements the atomic disk (log.c): whatever the interleaving of
\* operations, and wherever the machine stops, in an operation, in commit() or
\* in recover_from_log(), a restart finds the blocks as the last write_head()
\* left them.  Nothing is assumed of the sizes: if operations log more than they
\* reserved, either log_write() panics, which is a crash, or the log overflows,
\* and the behaviour ends there.
THEOREM LogIsAtomicDisk == Spec => CrashAtomic
<1>1. Init => CrashInv
  BY Zenon, CtlInit, DataInit, DiskInit DEF CrashInv
<1>2. CrashInv /\ [Next]_vars => CrashInv'
  BY Zenon, CtlStep, DataStep, DiskStep DEF CrashInv
<1> QED BY <1>1, <1>2, RefineInit, RefineStep, PTL DEF Spec, CrashAtomic, Abstract!Spec
=============================================================================
