----------------------------- MODULE LogProofs ------------------------------
(***************************************************************************)
(* Proofs about the log, for any number of processes, any sizes of the log *)
(* and of the reservation, and any number of crashes.                      *)
(***************************************************************************)
EXTENDS Log, FiniteSetTheorems, TLAPS

\* The processes inside an operation, and those in commit().
Ops == {p \in Procs : pc[p] \in {"op", "logging"}}
Committers == {p \in Procs : pc[p] \in {"write_log", "install", "committed"}}

Types ==
    /\ pc \in [Procs -> PCs]
    /\ outstanding \in Nat /\ committing \in BOOLEAN
    /\ lh \in Seq(Blocks) /\ head \in Seq(Blocks)
    /\ written \in [Procs -> SUBSET Blocks]
    /\ wblock \in [Procs -> Blocks \cup {None}]
    /\ \A p \in Procs : pc[p] = "logging" => wblock[p] \in Blocks

\* outstanding counts the operations, and committing is a lock that is taken
\* when none is left.
CommitInv ==
    /\ outstanding = Cardinality(Ops)
    /\ committing <=> Committers # {}
    /\ \A p, q \in Committers : p = q
    /\ committing => Ops = {}

\* During recovery only Boot runs.
BootInv ==
    /\ ~Up => \A p \in Procs \ {Boot} : pc[p] = "off"
    /\ Up => \A p \in Procs : pc[p] \notin {"off", "recover", "reinstall"}

\* Without operations and commit there is nothing in the log, so that begin_op()
\* has room then and whoever sleeps waits for an operation or a commit.
WaitInv ==
    /\ Up /\ Ops = {} /\ ~committing => lh = <<>>
    /\ \A p \in Procs : pc[p] = "committed" => lh = <<>>
    /\ \A p \in Procs : pc[p] = "asleep" => Ops # {} \/ committing

\* The inductive invariant of the control.
CtlInv == Types /\ CommitInv /\ BootInv /\ WaitInv

-----------------------------------------------------------------------------
(* The control *)

\* Operations and committers are finitely many, so that they can be counted.
LEMMA OpsFinite ==
    /\ IsFiniteSet(Ops) /\ Cardinality(Ops) \in Nat
    /\ Cardinality(Ops) = 0 <=> Ops = {}
<1>1. IsFiniteSet(Ops)
  BY Zenon, LogAssumption, FS_Subset, Ops \in SUBSET Procs DEF Ops
<1> QED BY Zenon, <1>1, FS_CardinalityType, FS_EmptySet

\* The control invariant holds when the machine starts.
LEMMA CtlInit == Init => CtlInv
<1> SUFFICES ASSUME Init PROVE CtlInv
  OBVIOUS
<1>1. Ops = {} /\ Committers = {}
  BY Zenon DEF Init, Ops, Committers
<1>2. Types
  <2>1. pc \in [Procs -> PCs] /\ \A p \in Procs : pc[p] # "logging"
    BY Zenon DEF Init, PCs
  <2>2. written \in [Procs -> SUBSET Blocks] /\ wblock \in [Procs -> Blocks \cup {None}]
    BY Zenon DEF Init
  <2>3. lh \in Seq(Blocks) /\ head \in Seq(Blocks) /\ outstanding \in Nat
    BY DEF Init
  <2>4. committing \in BOOLEAN
    BY Zenon DEF Init
  <2> QED BY Zenon, <2>1, <2>2, <2>3, <2>4 DEF Types
<1>3. CommitInv
  BY Zenon, <1>1, FS_EmptySet DEF Init, CommitInv
<1>4. BootInv /\ WaitInv
  BY Zenon, LogAssumption DEF Init, BootInv, WaitInv, Up
<1> QED BY Zenon, <1>2, <1>3, <1>4 DEF CtlInv

\* A step that moves processes without changing who is in an operation or in
\* commit() keeps the counts.
LEMMA CtlSame ==
    ASSUME CtlInv, Ops' = Ops, Committers' = Committers, UNCHANGED <<outstanding, committing>>
    PROVE  CommitInv'
BY Zenon DEF CommitInv, CtlInv

\* Every step, crashes included, preserves the control invariant.
LEMMA CtlStep == CtlInv /\ [Next]_vars => CtlInv'
<1> SUFFICES ASSUME CtlInv, [Next]_vars PROVE CtlInv'
  OBVIOUS
<1> USE DEF opvars, diskvars, cachevars, logvars, bounds
<1>0. /\ IsFiniteSet(Ops) /\ Cardinality(Ops) \in Nat /\ outstanding = Cardinality(Ops)
      /\ Cardinality(Ops) = 0 <=> Ops = {}
  BY Zenon, OpsFinite DEF CtlInv, CommitInv
<1>1. ASSUME NEW p \in Procs, begin_op(p) PROVE CtlInv'
  <2>1. Types'
    BY <1>1 DEF begin_op, CtlInv, Types, PCs
  <2>2. BootInv'
    BY Zenon, <1>1, LogAssumption DEF begin_op, CtlInv, BootInv, Types, Up
  <2>3. CASE NoRoom
    <3>1. Ops' = Ops /\ Committers' = Committers
      BY Zenon, <1>1, <2>3 DEF begin_op, Ops, Committers, CtlInv, Types
    <3>2. UNCHANGED <<outstanding, committing, lh>>
      BY Zenon, <1>1, <2>3 DEF begin_op
    <3>3. Ops # {} \/ committing
      <4> SUFFICES ASSUME Ops = {}, ~committing PROVE FALSE
        OBVIOUS
      <4>1. Up
        BY Zenon, <1>1, LogAssumption DEF begin_op, CtlInv, BootInv, Up
      <4>2. lh = <<>> /\ outstanding = 0
        BY Zenon, <4>1, <1>0 DEF CtlInv, WaitInv
      <4> QED BY <4>2, <2>3, LogAssumption DEF NoRoom
    <3>4. WaitInv'
      BY <1>1, <2>3, <3>1, <3>2, <3>3 DEF begin_op, CtlInv, WaitInv, Types, Up
    <3> QED BY Zenon, <2>1, <2>2, <3>1, <3>2, <3>4, CtlSame DEF CtlInv
  <2>4. CASE ~NoRoom
    <3>1. Ops' = Ops \cup {p} /\ p \notin Ops /\ Committers' = Committers
      BY Zenon, <1>1, <2>4 DEF begin_op, Ops, Committers, CtlInv, Types
    <3>2. outstanding' = outstanding + 1 /\ ~committing /\ UNCHANGED <<committing, lh>>
      BY Zenon, <1>1, <2>4 DEF begin_op, NoRoom
    <3>3. CommitInv'
      BY Zenon, <1>0, <3>1, <3>2, FS_AddElement DEF CtlInv, CommitInv
    <3>4. WaitInv'
      BY Zenon, <1>1, <2>4, <3>1, <3>2 DEF begin_op, CtlInv, WaitInv, Types, Up
    <3> QED BY Zenon, <2>1, <2>2, <3>3, <3>4 DEF CtlInv
  <2> QED BY Zenon, <2>3, <2>4
<1>2. ASSUME NEW p \in Procs, log_write(p) PROVE CtlInv'
  <2>1. Types'
    BY <1>2 DEF log_write, CtlInv, Types, PCs
  <2>2. Ops' = Ops /\ Committers' = Committers /\ p \in Ops
    BY Zenon, <1>2 DEF log_write, Ops, Committers, CtlInv, Types
  <2>3. BootInv' /\ WaitInv'
    BY <1>2, <2>2 DEF log_write, CtlInv, BootInv, WaitInv, CommitInv, Committers, Types, Up
  <2> QED BY Zenon, <1>2, <2>1, <2>2, <2>3, CtlSame DEF CtlInv, log_write
<1>3. ASSUME NEW p \in Procs, end_op(p) PROVE CtlInv'
  <2>1. p \in Ops /\ outstanding > 0 /\ ~committing /\ Committers = {}
    BY <1>0, <1>3 DEF end_op, Ops, CtlInv, CommitInv
  <2>2. Ops' = Ops \ {p}
    BY Zenon, <1>3 DEF end_op, Ops, CtlInv, Types, wakeup
  <2>3. /\ IsFiniteSet(Ops') /\ outstanding' = Cardinality(Ops') /\ Cardinality(Ops') \in Nat
        /\ Cardinality(Ops') = 0 <=> Ops' = {}
    BY Zenon, <1>0, <1>3, <2>1, <2>2, FS_RemoveElement, FS_CardinalityType, FS_EmptySet DEF end_op
  <2>4. Types'
    BY Zenon, <1>3, <2>3 DEF end_op, CtlInv, Types, PCs, wakeup
  <2>5. BootInv'
    <3>1. Up /\ \A q \in Procs : pc'[q] \notin {"off", "recover", "reinstall"}
      BY Zenon, <1>3, LogAssumption DEF end_op, CtlInv, BootInv, Types, Up, wakeup
    <3> QED BY Zenon, <3>1, LogAssumption DEF BootInv, Up
  <2>6. CASE outstanding = 1
    <3>1. Committers' = {p} /\ committing' /\ Ops' = {}
      BY <1>3, <2>1, <2>3, <2>6 DEF end_op, Committers, CtlInv, Types
    <3>2. CommitInv'
      BY Zenon, <2>3, <3>1 DEF CommitInv
    <3>3. WaitInv'
      BY Zenon, <1>3, <2>6, <3>1, <2>1 DEF end_op, CtlInv, WaitInv, Types, Committers
    <3> QED BY Zenon, <2>4, <2>5, <3>2, <3>3 DEF CtlInv
  <2>7. CASE outstanding # 1
    <3>1. Committers' = Committers /\ ~committing' /\ Ops' # {}
      <4>1. Ops' # {} /\ ~committing'
        BY <1>0, <1>3, <2>1, <2>3, <2>7 DEF end_op
      <4>2. pc' = [wakeup(pc) EXCEPT ![p] = "idle"]
        BY Zenon, <1>3, <2>7 DEF end_op
      <4> QED BY Zenon, <4>1, <4>2, <1>3, <2>1 DEF end_op, Committers, CtlInv, Types, wakeup
    <3>2. CommitInv'
      BY Zenon, <2>1, <2>3, <3>1 DEF CommitInv
    <3>3. WaitInv'
      BY Zenon, <1>3, <2>7, <3>1, <2>1 DEF end_op, CtlInv, WaitInv, Types, Committers, wakeup
    <3> QED BY Zenon, <2>4, <2>5, <3>2, <3>3 DEF CtlInv
  <2> QED BY Zenon, <2>6, <2>7
<1>4. ASSUME NEW p \in Procs, write_log(p) \/ write_head(p) \/ install_trans(p) PROVE CtlInv'
  <2>1. Types'
    BY Zenon, <1>4 DEF write_log, write_head, install_trans, CtlInv, Types, PCs
  <2>2. Ops' = Ops /\ Committers' = Committers
    BY Zenon, <1>4 DEF write_log, write_head, install_trans, Ops, Committers, CtlInv, Types
  <2>3. BootInv' /\ WaitInv'
    <3>1. BootInv'
      BY Zenon, <1>4, LogAssumption DEF write_log, write_head, install_trans, CtlInv, BootInv, Types, Up
    <3>2. WaitInv'
      BY Zenon, <1>4, <2>2, LogAssumption
      DEF write_log, write_head, install_trans, CtlInv, BootInv, WaitInv, Types, Up
    <3> QED BY Zenon, <3>1, <3>2
  <2> QED BY Zenon, <1>4, <2>1, <2>2, <2>3, CtlSame DEF CtlInv, write_log, write_head, install_trans
<1>5. ASSUME NEW p \in Procs, clear_head(p) PROVE CtlInv'
  <2>1. Types'
    BY <1>5 DEF clear_head, CtlInv, Types, PCs
  <2>2. Ops' = Ops /\ Committers' = Committers
    BY Zenon, <1>5, LogAssumption DEF clear_head, Ops, Committers, CtlInv, Types, BootInv, Up
  <2>3. BootInv' /\ WaitInv'
    BY Zenon, <1>5, <2>2, LogAssumption DEF clear_head, CtlInv, BootInv, WaitInv, Types, Up
  <2> QED BY Zenon, <1>5, <2>1, <2>2, <2>3, CtlSame DEF CtlInv, clear_head
<1>6. ASSUME NEW p \in Procs, commit_done(p) PROVE CtlInv'
  <2>1. Types'
    BY Zenon, <1>6 DEF commit_done, CtlInv, Types, PCs, wakeup
  <2>2. p \in Committers /\ Ops' = Ops /\ Committers' = Committers \ {p}
    BY Zenon, <1>6 DEF commit_done, Ops, Committers, CtlInv, Types, wakeup
  <2>3. Committers' = {} /\ ~committing' /\ Ops = {} /\ lh = <<>>
    BY Zenon, <1>6, <2>2 DEF commit_done, CtlInv, CommitInv, WaitInv
  <2>4. CommitInv'
    BY Zenon, <1>6, <2>2, <2>3 DEF commit_done, CtlInv, CommitInv
  <2>5. BootInv' /\ WaitInv'
    <3>1. Up /\ \A q \in Procs : pc'[q] \notin {"off", "recover", "reinstall", "asleep"}
      BY Zenon, <1>6, LogAssumption DEF commit_done, CtlInv, BootInv, Types, Up, wakeup
    <3>2. lh' = <<>>
      BY Zenon, <1>6, <2>3 DEF commit_done
    <3> QED BY Zenon, <3>1, <3>2, LogAssumption DEF BootInv, WaitInv, Up
  <2> QED BY Zenon, <2>1, <2>4, <2>5 DEF CtlInv
<1>7. ASSUME NEW p \in Procs, read_head(p) PROVE CtlInv'
  <2>1. Types'
    BY Zenon, <1>7 DEF read_head, CtlInv, Types, PCs
  <2>2. Ops' = Ops /\ Committers' = Committers /\ p = Boot
    BY Zenon, <1>7 DEF read_head, Ops, Committers, CtlInv, Types, BootInv, Up
  <2>3. BootInv' /\ WaitInv'
    BY Zenon, <1>7, <2>2 DEF read_head, CtlInv, BootInv, WaitInv, Types, Up
  <2> QED BY Zenon, <1>7, <2>1, <2>2, <2>3, CtlSame DEF CtlInv, read_head
<1>8. ASSUME NEW p \in Procs, Kill(p) PROVE CtlInv'
  <2>1. Types'
    BY Zenon, <1>8 DEF Kill, CtlInv, Types, PCs
  <2>2. Ops' = Ops /\ Committers' = Committers
    BY Zenon, <1>8 DEF Kill, Ops, Committers, CtlInv, Types
  <2>3. BootInv' /\ WaitInv'
    BY <1>8, <2>2 DEF Kill, CtlInv, BootInv, WaitInv, Types, Up
  <2> QED BY Zenon, <1>8, <2>1, <2>2, <2>3, CtlSame DEF CtlInv, Kill
<1>9. ASSUME NEW p \in Procs, NEW b \in Blocks, NEW v \in Vals, modify(p, b, v) PROVE CtlInv'
  <2>1. Types'
    BY Zenon, <1>9 DEF modify, CtlInv, Types, PCs
  <2>2. Ops' = Ops /\ Committers' = Committers
    BY Zenon, <1>9 DEF modify, Ops, Committers, CtlInv, Types
  <2>3. BootInv' /\ WaitInv'
    BY <1>9, <2>2 DEF modify, CtlInv, BootInv, WaitInv, Types, Up
  <2> QED BY Zenon, <1>9, <2>1, <2>2, <2>3, CtlSame DEF CtlInv, modify
<1>10. ASSUME NEW b \in Blocks, Fill(b) \/ Recycle(b) PROVE CtlInv'
  <2>1. UNCHANGED <<pc, outstanding, committing, lh, head, written, wblock>>
    BY Zenon, <1>10 DEF Fill, Recycle
  <2> QED BY ZenonT(30), <2>1 DEF CtlInv, Types, CommitInv, BootInv, WaitInv, Ops, Committers, Up
<1>11. ASSUME Crash PROVE CtlInv'
  <2>1. Types'
    <3>1. pc' \in [Procs -> PCs] /\ \A p \in Procs : pc'[p] # "logging"
      BY Zenon, <1>11 DEF Crash, PCs
    <3>2. written' \in [Procs -> SUBSET Blocks] /\ wblock' \in [Procs -> Blocks \cup {None}]
      BY Zenon, <1>11 DEF Crash
    <3>3. lh' \in Seq(Blocks) /\ head' \in Seq(Blocks) /\ outstanding' \in Nat
      BY <1>11 DEF Crash, CtlInv, Types
    <3>4. committing' \in BOOLEAN
      BY Zenon, <1>11 DEF Crash
    <3> QED BY Zenon, <3>1, <3>2, <3>3, <3>4 DEF Types
  <2>2. Ops' = {} /\ Committers' = {}
    BY Zenon, <1>11 DEF Crash, Ops, Committers
  <2>3. BootInv' /\ WaitInv'
    BY Zenon, <1>11, <2>2, LogAssumption DEF Crash, BootInv, WaitInv, Up
  <2> QED BY Zenon, <1>11, <2>1, <2>2, <2>3, FS_EmptySet DEF CtlInv, CommitInv, Crash
<1>12. ASSUME UNCHANGED vars PROVE CtlInv'
  BY ZenonT(30), <1>12 DEF vars, CtlInv, Types, CommitInv, BootInv, WaitInv, Ops, Committers, Up
<1> QED BY Zenon, <1>1, <1>2, <1>3, <1>4, <1>5, <1>6, <1>7, <1>8, <1>9, <1>10, <1>11, <1>12
        DEF Next, Step

-----------------------------------------------------------------------------
(* Types of the data *)

DataTypes ==
    /\ disk \in [Blocks -> Vals]
    /\ logdisk \in [1 .. LOGSIZE -> Vals]
    /\ cache \in [Blocks -> Vals \cup {None}]
    /\ dirty \subseteq Blocks
    /\ panicked \in BOOLEAN
    /\ tail \in [Procs -> Nat]
    /\ nops \in Nat /\ ncrash \in Nat

\* What log_write() does to the blocks of the header and to their number.
LEMMA AppendSet ==
    ASSUME NEW S, NEW s \in Seq(S), NEW e \in S
    PROVE  Range(Append(s, e)) = Range(s) \cup {e} /\ Len(Append(s, e)) = Len(s) + 1
<1> DEFINE t == Append(s, e)
<1>1. DOMAIN s = 1 .. Len(s) /\ DOMAIN t = 1 .. Len(s) + 1 /\ Len(s) \in Nat /\ Len(t) = Len(s) + 1
  OBVIOUS
<1>2. t[Len(s) + 1] = e /\ \A i \in 1 .. Len(s) : t[i] = s[i]
  OBVIOUS
<1>3. ASSUME NEW x \in Range(t) PROVE x \in Range(s) \cup {e}
  BY <1>1, <1>2 DEF Range
<1>4. ASSUME NEW x \in Range(s) \cup {e} PROVE x \in Range(t)
  <2> HIDE DEF t
  <2> QED BY <1>1, <1>2 DEF Range
<1> QED BY Zenon, <1>1, <1>3, <1>4

\* What a disk and a cache with values hold, bread() returns.
LEMMA BreadTyped ==
    ASSUME DataTypes, NEW b \in Blocks
    PROVE  bread(b) \in Vals
BY Zenon DEF DataTypes, bread

\* The data have their types when the machine starts.
LEMMA DataInit == Init => DataTypes
<1> SUFFICES ASSUME Init PROVE DataTypes
    OBVIOUS
<1>1. (CHOOSE v \in Vals : TRUE) \in Vals
  BY Zenon, LogAssumption
<1> QED BY Zenon, <1>1, LogAssumption DEF Init, DataTypes

\* Every step keeps the types of the data: what is copied between the cache,
\* the log and the disk are contents of blocks.
LEMMA DataStep ==
    CtlInv /\ DataTypes /\ [Next]_vars => DataTypes'
<1> SUFFICES ASSUME CtlInv, DataTypes, [Next]_vars PROVE DataTypes'
    OBVIOUS
<1>0. Types /\ Len(lh) \in Nat
  BY DEF CtlInv, Types
<1> USE DEF diskvars, cachevars, logvars, opvars, bounds
<1>1. CASE UNCHANGED vars
  BY Zenon, <1>1 DEF DataTypes, vars
<1>2. ASSUME NEW p \in Procs, begin_op(p) PROVE DataTypes'
  BY <1>2 DEF begin_op, DataTypes
<1>3. ASSUME NEW p \in Procs, log_write(p) PROVE DataTypes'
  <2>1. wblock[p] \in Blocks
    BY Zenon, <1>0, <1>3 DEF log_write, Types
  <2> QED BY Zenon, <1>3, <2>1 DEF log_write, DataTypes
<1>4. ASSUME NEW p \in Procs, end_op(p) PROVE DataTypes'
  <2>1. committing \in BOOLEAN
    BY Zenon, <1>0 DEF Types
  <2> QED BY <1>4, <2>1 DEF end_op, DataTypes
<1>5. ASSUME NEW p \in Procs, write_log(p) PROVE DataTypes'
  <2>1. lh[tail[p] + 1] \in Blocks
    BY <1>0, <1>5 DEF write_log, Types, DataTypes
  <2>2. bread(lh[tail[p] + 1]) \in Vals
    BY Zenon, <2>1, BreadTyped
  <2>3. logdisk' \in [1 .. LOGSIZE -> Vals]
    BY Zenon, <1>5, <2>2 DEF write_log, DataTypes
  <2>4. tail' \in [Procs -> Nat]
    BY <1>5 DEF write_log, DataTypes
  <2> QED BY Zenon, <1>5, <2>3, <2>4 DEF write_log, DataTypes
<1>6. ASSUME NEW p \in Procs, write_head(p) PROVE DataTypes'
  BY Zenon, <1>6 DEF write_head, DataTypes
<1>7. ASSUME NEW p \in Procs, clear_head(p) PROVE DataTypes'
  BY Zenon, <1>7 DEF clear_head, DataTypes
<1>8. ASSUME NEW p \in Procs, commit_done(p) \/ read_head(p) \/ Kill(p) PROVE DataTypes'
  BY Zenon, <1>8 DEF commit_done, read_head, Kill, DataTypes
<1>9. ASSUME NEW p \in Procs, NEW b \in Blocks, NEW v \in Vals, modify(p, b, v)
      PROVE  DataTypes'
  BY Zenon, <1>9 DEF modify, DataTypes
<1>10. ASSUME NEW b \in Blocks, Fill(b) \/ Recycle(b) PROVE DataTypes'
  BY Zenon, <1>10 DEF Fill, Recycle, DataTypes
<1>11. CASE Crash
  <2>1. cache' \in [Blocks -> Vals \cup {None}]
    BY Zenon, <1>11 DEF Crash
  <2>2. tail' \in [Procs -> Nat]
    BY Zenon, <1>11 DEF Crash
  <2>3. UNCHANGED <<disk, logdisk, nops>> /\ dirty' = {} /\ panicked' = FALSE
    BY Zenon, <1>11 DEF Crash
  <2>4. ncrash' = ncrash + 1
    BY Zenon, <1>11 DEF Crash
  <2>5. panicked' \in BOOLEAN
    BY Zenon, <2>3
  <2>6. nops' \in Nat /\ ncrash' \in Nat
    BY <2>3, <2>4 DEF DataTypes
  <2>7. disk' \in [Blocks -> Vals] /\ logdisk' \in [1 .. LOGSIZE -> Vals]
    BY Zenon, <2>3 DEF DataTypes
  <2>8. dirty' \subseteq Blocks
    BY Zenon, <2>3
  <2> QED BY Zenon, <2>1, <2>2, <2>5, <2>6, <2>7, <2>8 DEF DataTypes
<1>12. ASSUME LogFits, NEW p \in Procs, install_trans(p) PROVE DataTypes'
  <2>1. lh[tail[p] + 1] \in Blocks
    BY <1>0, <1>12 DEF install_trans, Types, DataTypes
  <2>2. tail[p] + 1 \in 1 .. LOGSIZE
    BY <1>0, <1>12, LogAssumption DEF install_trans, DataTypes, LogFits
  <2>3. logdisk[tail[p] + 1] \in Vals
    BY Zenon, <2>2 DEF DataTypes
  <2> QED BY <1>12, <2>1, <2>3 DEF install_trans, DataTypes
<1> QED BY Zenon, <1>1, <1>2, <1>3, <1>4, <1>5, <1>6, <1>7, <1>8, <1>9, <1>10, <1>11, <1>12
        DEF Next, Step

-----------------------------------------------------------------------------
(* Theorems *)

\* The control invariant holds in every run of the log.
THEOREM ControlCorrect == Spec => []CtlInv
<1>1. CtlInv /\ [Next]_vars => CtlInv'
  BY Zenon, CtlStep
<1> QED BY <1>1, CtlInit, PTL DEF Spec

\* Commit() runs alone (end_op() in log.c): one process commits at a time, and
\* no operation begins or goes on until it is done.
THEOREM CommitIsAlone == Spec => []CommitAlone
<1>1. CtlInv => CommitAlone
  <2> SUFFICES ASSUME CtlInv, NEW p \in Committers
               PROVE  /\ committing /\ outstanding = 0
                      /\ \A q \in Procs \ {p} : pc[q] \in {"idle", "asleep", "begin"}
    BY Zenon DEF CommitAlone, Committers
  <2>1. committing /\ Ops = {} /\ outstanding = 0
    BY Zenon, OpsFinite DEF CtlInv, CommitInv
  <2>2. Up
    BY Zenon, LogAssumption DEF CtlInv, BootInv, Committers, Up
  <2>3. ASSUME NEW q \in Procs \ {p} PROVE pc[q] \in {"idle", "asleep", "begin"}
    <3>1. q \notin Committers /\ q \notin Ops
      BY Zenon, <2>1 DEF CtlInv, CommitInv
    <3>2. pc[q] \in PCs /\ pc[q] \notin {"off", "recover", "reinstall"}
      BY Zenon, <2>2 DEF CtlInv, BootInv, Types
    <3> QED BY Zenon, <3>1, <3>2 DEF Committers, Ops, PCs
  <2> QED BY Zenon, <2>1, <2>3
<1> QED BY <1>1, ControlCorrect, PTL

\* No process sleeps in begin_op() (log.c) with nobody left to wake it.
THEOREM SleepersAreWoken == Spec => []SleeperHasWaker
<1>1. CtlInv => SleeperHasWaker
  BY OpsFinite DEF CtlInv, CommitInv, WaitInv, SleeperHasWaker
<1> QED BY <1>1, ControlCorrect, PTL

\* Of the panics of log.c only one is ever reached: log_write() finds the log
\* full.  No operation is under way in a commit, so that end_op() does not find
\* log.committing set, and one that writes is counted, so that log_write() is not
\* outside of a transaction.
THEOREM OnlyFullPanics ==
    Spec => [][panicked' /\ ~panicked => Len(lh) >= LOGSIZE \/ Len(lh) >= LogBlocks - 1]_vars
<1> DEFINE Full == Len(lh) >= LOGSIZE \/ Len(lh) >= LogBlocks - 1
<1>1. CtlInv /\ [Next]_vars => [panicked' /\ ~panicked => Full]_vars
  <2> SUFFICES ASSUME CtlInv, Next, panicked', ~panicked PROVE Full
    OBVIOUS
  <2>1. ASSUME NEW p \in Procs, NEW b \in Blocks, NEW v \in Vals, modify(p, b, v) PROVE Full
    <3>1. Ops # {}
      BY Zenon, <2>1 DEF modify, Ops
    <3>2. outstanding = Cardinality(Ops) /\ Cardinality(Ops) \in Nat /\ Cardinality(Ops) # 0
      BY Zenon, <3>1, OpsFinite DEF CtlInv, CommitInv
    <3>3. ~(outstanding < 1)
      BY <3>2
    <3> QED BY Zenon, <2>1, <3>3 DEF modify
  <2>2. ASSUME NEW p \in Procs, end_op(p) PROVE FALSE
    <3>1. p \in Ops
      BY Zenon, <2>2 DEF end_op, Ops
    <3>2. ~committing
      BY Zenon, <3>1 DEF CtlInv, CommitInv
    <3> QED BY Zenon, <2>2, <3>2 DEF end_op
  <2>3. ASSUME NEW p \in Procs, Step(p) \/ Kill(p), ~end_op(p) PROVE FALSE
    BY Zenon, <2>3 DEF Step, Kill, begin_op, log_write, write_log, write_head, install_trans,
       clear_head, commit_done, read_head
  <2>4. ASSUME NEW b \in Blocks, Fill(b) \/ Recycle(b) PROVE FALSE
    BY Zenon, <2>4 DEF Fill, Recycle
  <2>5. CASE Crash
    BY Zenon, <2>5 DEF Crash
  <2> QED BY Zenon, <2>1, <2>2, <2>3, <2>4, <2>5 DEF Next
<1> HIDE DEF Full
<1>2. Spec => [][panicked' /\ ~panicked => Full]_vars
  BY <1>1, ControlCorrect, PTL DEF Spec
<1> QED BY <1>2 DEF Full

\* Every variable of the log keeps its type, whatever the sizes and however many
\* blocks the operations log: no index of install_trans() (log.c) leaves the log,
\* and the count of end_op() never goes below zero.
THEOREM TypeCorrect == Spec => []TypeOK
<1>1. Init => CtlInv /\ DataTypes
  BY Zenon, CtlInit, DataInit
<1>2. CtlInv /\ DataTypes /\ [Next]_vars => CtlInv' /\ DataTypes'
  BY Zenon, CtlStep, DataStep
<1>3. CtlInv /\ DataTypes => TypeOK
  BY Zenon DEF CtlInv, Types, DataTypes, TypeOK
<1> QED BY <1>1, <1>2, <1>3, PTL DEF Spec
=============================================================================
