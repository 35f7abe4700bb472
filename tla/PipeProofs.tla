----------------------------- MODULE PipeProofs -----------------------------
(***************************************************************************)
(* Proofs about the pipe, for any numbers of readers and writers, any      *)
(* PIPESIZE and any width of the counters.                                 *)
(***************************************************************************)
EXTENDS Pipe, FiniteSetTheorems, TLAPS

\* The holders of a descriptor of each end.
Open(S) == {p \in S : pc[p] \notin {"closing", "gone"}}

\* p->lock is held by the process inside pipewrite() or piperead(), and each
\* process is where its end of the pipe lets it be.
LockInv ==
    /\ \A p \in Procs : pc[p] \in {"write", "read", "copy", "tosleep"} <=> lock = p
    /\ \A p \in Writers : pc[p] \notin {"read", "copy"}
    /\ \A p \in Readers : pc[p] # "write"

\* What a process saw before it called sleep() is still so: it holds p->lock.
SleepInv ==
    /\ \A p \in Readers : pc[p] = "tosleep" => Empty /\ writeopen
    /\ \A p \in Writers : pc[p] = "tosleep" => Full /\ readopen

\* A reader that has no byte yet found bytes or the end of the file.
CopyInv == \A p \in Readers : pc[p] = "copy" /\ got[p] = 0 => ~Empty \/ ~writeopen

\* The reference counts of the two ends, and what their last fileclose() and
\* pipeclose() may rely on.
RefInv(S, e, open) ==
    /\ ref[e] = Cardinality(Open(S))
    /\ \A p \in S : pc[p] = "closing" => \A q \in S \ {p} : pc[q] = "gone"
    /\ ~open => \A p \in S : pc[p] = "gone"

\* The inductive invariant.
IInv ==
    /\ TypeOK
    /\ NoOverrun
    /\ LockInv
    /\ SleepInv
    /\ CopyInv
    /\ RefInv(Readers, "r", readopen)
    /\ RefInv(Writers, "w", writeopen)
    /\ freed => ~readopen /\ ~writeopen
    /\ NoLostWakeup

-----------------------------------------------------------------------------
(* The invariant holds when pipealloc() has returned. *)

\* pipealloc() establishes the invariant.
LEMMA InitInv == Init => IInv
<1> SUFFICES ASSUME Init PROVE IInv
  OBVIOUS
<1>1. TypeOK
  <2>1. ref \in [{"r", "w"} -> Nat]
    BY Zenon, FS_CardinalityType, PipeAssumption DEF Init
  <2>2. last \in Seq(Bytes)
    BY DEF Init
  <2>3. data \in [0 .. PIPESIZE - 1 -> Bytes]
    BY Zenon DEF Init
  <2>4. pc \in [Procs -> PCs]
    BY Zenon DEF Init, PCs
  <2>5. /\ todo \in [Procs -> 0 .. MaxLen] /\ got \in [Procs -> Nat]
        /\ nread \in 0 .. UintMod - 1 /\ nwrite \in 0 .. UintMod - 1
        /\ ncalls \in Nat
    BY PipeAssumption DEF Init
  <2>6. /\ readopen \in BOOLEAN /\ writeopen \in BOOLEAN /\ freed \in BOOLEAN
        /\ killed \in [Procs -> BOOLEAN] /\ lock \in Procs \cup {NoProc}
    BY Zenon DEF Init
  <2> QED BY Zenon, <2>1, <2>2, <2>3, <2>4, <2>5, <2>6 DEF TypeOK
<1>2. NoOverrun
  BY PipeAssumption DEF Init, NoOverrun, Count
<1>3. LockInv /\ SleepInv /\ CopyInv /\ NoLostWakeup
  BY Zenon, PipeAssumption DEF Init, LockInv, SleepInv, CopyInv, NoLostWakeup, Procs
<1>4. RefInv(Readers, "r", readopen) /\ RefInv(Writers, "w", writeopen)
  <2>1. Open(Readers) = Readers /\ Open(Writers) = Writers
    BY Zenon DEF Open, Init, Procs
  <2> QED BY Zenon, <2>1 DEF RefInv, Init, Procs
<1> QED BY Zenon, <1>1, <1>2, <1>3, <1>4 DEF IInv, Init

-----------------------------------------------------------------------------
(* Types, and the bytes in the ring. *)

\* The assumptions on the numbers, without the divisibility that only the
\* contents of the ring need.
LEMMA Sizes ==
  /\ PIPESIZE \in Nat \ {0} /\ UintMod \in Nat /\ UintMod > PIPESIZE
  /\ MaxLen \in Nat /\ MaxCalls \in Nat
BY Zenon, PipeAssumption

\* Counters that are incremented modulo UintMod stay below it.
LEMMA CounterStep ==
  ASSUME NEW x \in 0 .. UintMod - 1
  PROVE  Plus(x, 1) \in 0 .. UintMod - 1
BY Sizes DEF Plus

\* wakeup() moves processes between labels.
LEMMA WakeupType ==
  ASSUME NEW f \in [Procs -> PCs], NEW S
  PROVE  wakeup(f, S) \in [Procs -> PCs]
BY Zenon DEF wakeup, PCs

\* A process moves to another label.
LEMMA MoveType ==
  ASSUME NEW f \in [Procs -> PCs], NEW S, NEW p \in Procs, NEW l \in PCs
  PROVE  [wakeup(f, S) EXCEPT ![p] = l] \in [Procs -> PCs]
BY Zenon, WakeupType

\* The loop counters stay within the length of a call.
LEMMA TodoType ==
  ASSUME NEW f \in [Procs -> 0 .. MaxLen], NEW p \in Procs
  PROVE  /\ [f EXCEPT ![p] = 0] \in [Procs -> 0 .. MaxLen]
         /\ f[p] > 0 => [f EXCEPT ![p] = @ - 1] \in [Procs -> 0 .. MaxLen]
BY Sizes

\* An open descriptor is counted.
LEMMA RefPositive ==
  ASSUME IInv, NEW p \in Procs, pc[p] = "out"
  PROVE  ref[End(p)] \in Nat \ {0}
<1>1. ASSUME NEW S, NEW e, NEW open, IsFiniteSet(S), RefInv(S, e, open), p \in S
      PROVE  ref[e] \in Nat \ {0}
  <2>1. IsFiniteSet(Open(S)) /\ p \in Open(S)
    BY Zenon, <1>1, FS_Subset DEF Open
  <2> QED BY Zenon, <1>1, <2>1, FS_CardinalityType, FS_EmptySet DEF RefInv
<1> QED BY Zenon, <1>1, PipeAssumption DEF IInv, End, Procs

\* Every step preserves the types.
LEMMA TypeStep == IInv /\ [Next]_vars => TypeOK'
<1> SUFFICES ASSUME IInv, [Next]_vars PROVE TypeOK'
  OBVIOUS
<1>0. TypeOK
  BY Zenon DEF IInv
<1> USE <1>0
<1> USE Sizes DEF TypeOK
<1>1. ASSUME NEW p \in Procs, pipewrite(p) PROVE TypeOK'
  BY <1>1 DEF pipewrite, PCs, pipe
<1>2. ASSUME NEW p \in Procs, piperead(p) PROVE TypeOK'
  BY <1>2 DEF piperead, PCs, pipe
<1>3. ASSUME NEW p \in Procs, WriteByte(p) PROVE TypeOK'
  <2>1. data' \in [0 .. PIPESIZE - 1 -> Bytes]
    BY Zenon, <1>3 DEF WriteByte
  <2>2. todo' \in [Procs -> 0 .. MaxLen]
    BY <1>3 DEF WriteByte
  <2> QED BY Zenon, <1>3, <2>1, <2>2, CounterStep DEF WriteByte
<1>4. ASSUME NEW p \in Procs, WriteFull(p) PROVE TypeOK'
  <2>1. CASE Release(p, "out", {}) /\ todo' = [todo EXCEPT ![p] = 0]
    BY Zenon, <1>4, <2>1, MoveType, TodoType DEF WriteFull, Release, PCs, pipe
  <2>2. CASE /\ pc' = [wakeup(pc, Readers) EXCEPT ![p] = "tosleep"]
             /\ UNCHANGED <<lock, todo>>
    BY Zenon, <1>4, <2>2, MoveType DEF WriteFull, PCs, pipe
  <2> QED BY Zenon, <1>4, <2>1, <2>2 DEF WriteFull
<1>5. ASSUME NEW p \in Procs, WriteDone(p) PROVE TypeOK'
  BY Zenon, <1>5 DEF WriteDone, Release, wakeup, PCs, pipe
<1>6. ASSUME NEW p \in Procs, ReadWait(p) PROVE TypeOK'
  <2>1. CASE Release(p, "out", {}) /\ todo' = [todo EXCEPT ![p] = 0]
    BY Zenon, <1>6, <2>1, MoveType, TodoType DEF ReadWait, Release, PCs, pipe
  <2>2. CASE /\ pc' = [pc EXCEPT ![p] = "tosleep"] \/ pc' = [pc EXCEPT ![p] = "copy"]
             /\ UNCHANGED <<lock, todo>>
    BY Zenon, <1>6, <2>2 DEF ReadWait, PCs, pipe
  <2> QED BY Zenon, <1>6, <2>1, <2>2 DEF ReadWait
<1>7. ASSUME NEW p \in Procs, ReadByte(p) PROVE TypeOK'
  <2>1. nread % PIPESIZE \in 0 .. PIPESIZE - 1
    OBVIOUS
  <2>2. last' \in Seq(Bytes)
    BY <1>7, <2>1 DEF ReadByte
  <2>3. todo' \in [Procs -> 0 .. MaxLen] /\ got' \in [Procs -> Nat]
    BY SMTT(30), <1>7, TodoType DEF ReadByte
  <2> QED BY Zenon, <1>7, <2>2, <2>3, CounterStep DEF ReadByte
<1>8. ASSUME NEW p \in Procs, ReadDone(p) PROVE TypeOK'
  BY <1>8 DEF ReadDone, Release, wakeup, PCs, pipe
<1>9. ASSUME NEW p \in Procs, Sleep(p) PROVE TypeOK'
  BY Zenon, <1>9 DEF Sleep, Release, wakeup, PCs, pipe
<1>10. ASSUME NEW p \in Procs, Reacquire(p) PROVE TypeOK'
  BY Zenon, <1>10 DEF Reacquire, AfterSleep, PCs, pipe
<1>11. ASSUME NEW p \in Procs, pipeclose(p) PROVE TypeOK'
  BY Zenon, <1>11 DEF pipeclose, wakeup, PCs
<1>12. ASSUME NEW p \in Procs, kill(p) PROVE TypeOK'
  BY Zenon, <1>12 DEF kill, wakeup, PCs, pipe
<1>13. ASSUME NEW p \in Procs, fileclose(p) PROVE TypeOK'
  <2>1. ref' \in [{"r", "w"} -> Nat]
    BY <1>13, RefPositive DEF fileclose, End
  <2> QED BY Zenon, <1>13, <2>1 DEF fileclose, PCs, pipe
<1> QED
  BY Zenon, <1>1, <1>2, <1>3, <1>4, <1>5, <1>6, <1>7, <1>8, <1>9, <1>10, <1>11, <1>12, <1>13
  DEF Next, Kernel, vars

\* The ring is touched by WriteByte and ReadByte only.
LEMMA RingUnchanged ==
  ASSUME [Next]_vars,
         \A q \in Procs : ~WriteByte(q) /\ ~ReadByte(q)
  PROVE  UNCHANGED <<nread, nwrite>>
BY Zenon DEF Next, Kernel, vars, pipe, pipewrite, piperead, WriteFull, WriteDone,
       ReadWait, ReadDone, Sleep, Reacquire, pipeclose, kill, fileclose

\* A byte more, a byte less.
LEMMA CountStep ==
  ASSUME TypeOK, NoOverrun, NEW p \in Procs
  PROVE  /\ WriteByte(p) => Count < PIPESIZE /\ Count' = Count + 1
         /\ ReadByte(p) => Count > 0 /\ Count' = Count - 1
<1>0. nread \in 0 .. UintMod - 1 /\ nwrite \in 0 .. UintMod - 1
  BY Zenon DEF TypeOK
<1>1. ASSUME WriteByte(p) PROVE Count < PIPESIZE /\ Count' = Count + 1
  <2>1. ~Full /\ nwrite' = Plus(nwrite, 1) /\ nread' = nread
    BY Zenon, <1>1 DEF WriteByte
  <2> QED BY <1>0, <2>1, Sizes DEF NoOverrun, Count, Plus, Full
<1>2. ASSUME ReadByte(p) PROVE Count > 0 /\ Count' = Count - 1
  <2>1. ~Empty /\ nread' = Plus(nread, 1) /\ nwrite' = nwrite
    BY Zenon, <1>2 DEF ReadByte
  <2> QED BY <1>0, <2>1, Sizes DEF NoOverrun, Count, Plus, Empty
<1> QED BY Zenon, <1>1, <1>2

\* Only WriteByte adds to the ring, and not when it is full.
LEMMA OverrunStep == IInv /\ [Next]_vars => NoOverrun'
<1> SUFFICES ASSUME IInv, [Next]_vars PROVE NoOverrun'
  OBVIOUS
<1>0. TypeOK /\ NoOverrun
  BY Zenon DEF IInv
<1>1. Count \in Nat
  BY <1>0, Sizes DEF TypeOK, Count
<1>2. CASE \E p \in Procs : WriteByte(p) \/ ReadByte(p)
  BY <1>0, <1>1, <1>2, CountStep, Sizes DEF NoOverrun
<1>3. CASE \A p \in Procs : ~WriteByte(p) /\ ~ReadByte(p)
  BY Zenon, <1>0, <1>3, RingUnchanged DEF NoOverrun, Count
<1> QED BY Zenon, <1>2, <1>3

-----------------------------------------------------------------------------
(* The lock and what it protects. *)

\* Every step preserves mutual exclusion by p->lock.
LEMMA LockStep == IInv /\ [Next]_vars => LockInv'
<1> SUFFICES ASSUME IInv, [Next]_vars PROVE LockInv'
  OBVIOUS
<1>0. /\ LockInv /\ Writers \cap Readers = {} /\ NoProc \notin Procs
      /\ pc \in [Procs -> PCs] /\ Procs = Writers \cup Readers
  BY Zenon, PipeAssumption DEF IInv, TypeOK, Procs
<1> USE <1>0 DEF LockInv
<1>1. ASSUME NEW p \in Writers, pipewrite(p) PROVE LockInv'
  BY Zenon, <1>1 DEF pipewrite
<1>2. ASSUME NEW p \in Readers, piperead(p) PROVE LockInv'
  BY Zenon, <1>2 DEF piperead
<1>3. ASSUME NEW p \in Procs, WriteByte(p) \/ ReadByte(p) PROVE LockInv'
  BY Zenon, <1>3 DEF WriteByte, ReadByte
<1>4. ASSUME NEW p \in Procs, WriteFull(p) PROVE LockInv'
  <2>1. CASE Release(p, "out", {})
    BY ZenonT(30), <1>4, <2>1 DEF WriteFull, Release, wakeup
  <2>2. CASE pc' = [wakeup(pc, Readers) EXCEPT ![p] = "tosleep"] /\ lock' = lock
    BY Zenon, <1>4, <2>2 DEF WriteFull, wakeup
  <2> QED BY Zenon, <1>4, <2>1, <2>2 DEF WriteFull
<1>5. ASSUME NEW p \in Procs, WriteDone(p) PROVE LockInv'
  BY Zenon, <1>5 DEF WriteDone, Release, wakeup
<1>6. ASSUME NEW p \in Procs, ReadWait(p) PROVE LockInv'
  <2>1. CASE Release(p, "out", {})
    BY Zenon, <1>6, <2>1 DEF ReadWait, Release, wakeup
  <2>2. CASE pc' = [pc EXCEPT ![p] = "tosleep"] /\ lock' = lock
    BY Zenon, <1>6, <2>2 DEF ReadWait
  <2>3. CASE pc' = [pc EXCEPT ![p] = "copy"] /\ lock' = lock
    BY Zenon, <1>6, <2>3 DEF ReadWait
  <2> QED BY Zenon, <1>6, <2>1, <2>2, <2>3 DEF ReadWait
<1>7. ASSUME NEW p \in Procs, ReadDone(p) PROVE LockInv'
  BY Zenon, <1>7 DEF ReadDone, Release, wakeup
<1>8. ASSUME NEW p \in Procs, Sleep(p) PROVE LockInv'
  BY Zenon, <1>8 DEF Sleep, Release, wakeup
<1>9. ASSUME NEW p \in Procs, Reacquire(p) PROVE LockInv'
  BY Zenon, <1>9 DEF Reacquire, AfterSleep
<1>10. ASSUME NEW p \in Procs, pipeclose(p) PROVE LockInv'
  BY Zenon, <1>10 DEF pipeclose, wakeup
<1>11. ASSUME NEW p \in Procs, kill(p) PROVE LockInv'
  BY Zenon, <1>11 DEF kill, wakeup
<1>12. ASSUME NEW p \in Procs, fileclose(p) PROVE LockInv'
  BY Zenon, <1>12 DEF fileclose
<1>13. CASE UNCHANGED vars
  BY Zenon, <1>13 DEF vars
<1> HIDE <1>0 DEF LockInv
<1> QED
  BY Zenon, <1>1, <1>2, <1>3, <1>4, <1>5, <1>6, <1>7, <1>8, <1>9, <1>10, <1>11, <1>12, <1>13
  DEF Next, Kernel

\* Every step preserves what is known of sleepers and of the copying loops.
LEMMA SleepStep == IInv /\ [Next]_vars => SleepInv' /\ CopyInv'
<1> SUFFICES ASSUME IInv, [Next]_vars PROVE SleepInv' /\ CopyInv'
  OBVIOUS
<1>0. /\ LockInv /\ SleepInv /\ CopyInv
      /\ Writers \cap Readers = {} /\ NoProc \notin Procs
      /\ pc \in [Procs -> PCs] /\ Procs = Writers \cup Readers
      /\ got \in [Procs -> Nat]
  BY Zenon, PipeAssumption DEF IInv, TypeOK, Procs
<1> USE <1>0 DEF LockInv, SleepInv, CopyInv, Empty, Full
<1>1. ASSUME NEW p \in Writers, pipewrite(p) PROVE SleepInv' /\ CopyInv'
  BY Zenon, <1>1 DEF pipewrite, pipe
<1>2. ASSUME NEW p \in Readers, piperead(p) PROVE SleepInv' /\ CopyInv'
  BY Zenon, <1>2 DEF piperead, pipe
<1>3. ASSUME NEW p \in Procs, WriteByte(p) PROVE SleepInv' /\ CopyInv'
  <2>1. \A q \in Procs : pc'[q] \notin {"tosleep", "copy"}
    BY Zenon, <1>3 DEF WriteByte
  <2> QED BY Zenon, <2>1
<1>4. ASSUME NEW p \in Procs, ReadByte(p) PROVE SleepInv' /\ CopyInv'
  <2>1. \A q \in Procs : pc'[q] # "tosleep" /\ (pc'[q] = "copy" => q = p)
    BY Zenon, <1>4 DEF ReadByte
  <2>2. got'[p] # 0
    BY <1>4 DEF ReadByte
  <2> QED BY Zenon, <2>1, <2>2
<1>5. ASSUME NEW p \in Procs, WriteFull(p) PROVE SleepInv' /\ CopyInv'
  <2>1. CASE Release(p, "out", {})
    BY Zenon, <1>5, <2>1 DEF WriteFull, Release, wakeup, pipe
  <2>2. CASE pc' = [wakeup(pc, Readers) EXCEPT ![p] = "tosleep"] /\ readopen
    BY Zenon, <1>5, <2>2 DEF WriteFull, wakeup, pipe
  <2> QED BY Zenon, <1>5, <2>1, <2>2 DEF WriteFull
<1>6. ASSUME NEW p \in Procs, WriteDone(p) PROVE SleepInv' /\ CopyInv'
  BY Zenon, <1>6 DEF WriteDone, Release, wakeup, pipe
<1>7. ASSUME NEW p \in Procs, ReadWait(p) PROVE SleepInv' /\ CopyInv'
  <2>1. CASE Release(p, "out", {})
    BY Zenon, <1>7, <2>1 DEF ReadWait, Release, wakeup, pipe
  <2>2. CASE pc' = [pc EXCEPT ![p] = "tosleep"] /\ Empty /\ writeopen
    BY Zenon, <1>7, <2>2 DEF ReadWait, pipe
  <2>3. CASE pc' = [pc EXCEPT ![p] = "copy"] /\ ~(Empty /\ writeopen)
    BY Zenon, <1>7, <2>3 DEF ReadWait, pipe
  <2> QED BY Zenon, <1>7, <2>1, <2>2, <2>3 DEF ReadWait
<1>8. ASSUME NEW p \in Procs, ReadDone(p) PROVE SleepInv' /\ CopyInv'
  BY Zenon, <1>8 DEF ReadDone, Release, wakeup, pipe
<1>9. ASSUME NEW p \in Procs, Sleep(p) PROVE SleepInv' /\ CopyInv'
  BY Zenon, <1>9 DEF Sleep, Release, wakeup, pipe
<1>10. ASSUME NEW p \in Procs, Reacquire(p) PROVE SleepInv' /\ CopyInv'
  BY Zenon, <1>10 DEF Reacquire, AfterSleep, pipe
<1>11. ASSUME NEW p \in Procs, pipeclose(p) PROVE SleepInv' /\ CopyInv'
  <2>1. \A q \in Procs : pc'[q] \notin {"tosleep", "copy"}
    BY Zenon, <1>11 DEF pipeclose, wakeup
  <2> QED BY Zenon, <2>1
<1>12. ASSUME NEW p \in Procs, kill(p) PROVE SleepInv' /\ CopyInv'
  BY Zenon, <1>12 DEF kill, wakeup, pipe
<1>13. ASSUME NEW p \in Procs, fileclose(p) PROVE SleepInv' /\ CopyInv'
  BY Zenon, <1>13 DEF fileclose, pipe
<1>14. CASE UNCHANGED vars
  BY Zenon, <1>14 DEF vars
<1> HIDE <1>0 DEF LockInv, SleepInv, CopyInv, Empty, Full
<1> QED
  BY ZenonT(30), <1>1, <1>2, <1>3, <1>4, <1>5, <1>6, <1>7, <1>8, <1>9, <1>10, <1>11, <1>12, <1>13,
     <1>14
  DEF Next, Kernel

-----------------------------------------------------------------------------
(* References. *)

\* Only fileclose() and pipeclose() take a process to "closing" or "gone".
LEMMA OpenUnchanged ==
  ASSUME IInv, [Next]_vars,
         \A p \in Procs : ~fileclose(p) /\ ~pipeclose(p)
  PROVE  /\ UNCHANGED <<ref, readopen, writeopen, freed>>
         /\ \A q \in Procs : \A l \in {"closing", "gone"} : pc'[q] = l <=> pc[q] = l
<1>1. UNCHANGED <<ref, readopen, writeopen, freed>>
  BY ZenonT(30) DEF Next, Kernel, vars, pipe, pipewrite, piperead, WriteByte, WriteFull,
         WriteDone, ReadWait, ReadByte, ReadDone, Sleep, Reacquire, kill
<1>2. \A q \in Procs : \A l \in {"closing", "gone"} : pc'[q] = l <=> pc[q] = l
  <2>1. pc \in [Procs -> PCs] /\ Procs = Writers \cup Readers
    BY Zenon DEF IInv, TypeOK, Procs
  <2>2. ASSUME NEW p \in Procs, Kernel(p) \/ kill(p) \/ pipewrite(p) \/ piperead(p),
               NEW q \in Procs, NEW l \in {"closing", "gone"}
        PROVE  pc'[q] = l <=> pc[q] = l
    BY Zenon, <2>1, <2>2
    DEF Kernel, pipewrite, piperead, WriteByte, WriteFull, WriteDone, ReadWait,
        ReadByte, ReadDone, Sleep, Reacquire, kill, Release, wakeup, AfterSleep
  <2> QED BY Zenon, <2>1, <2>2 DEF Next, vars
<1> QED BY Zenon, <1>1, <1>2

\* Every step keeps the reference counts equal to the holders of the ends.
LEMMA RefStep ==
  ASSUME IInv, [Next]_vars
  PROVE  RefInv(Readers, "r", readopen)' /\ RefInv(Writers, "w", writeopen)'
<1>0. /\ RefInv(Readers, "r", readopen) /\ RefInv(Writers, "w", writeopen)
      /\ Writers \cap Readers = {} /\ IsFiniteSet(Writers) /\ IsFiniteSet(Readers)
      /\ pc \in [Procs -> PCs] /\ Procs = Writers \cup Readers
      /\ ref \in [{"r", "w"} -> Nat]
  BY Zenon, PipeAssumption DEF IInv, TypeOK, Procs
<1>1. CASE \A p \in Procs : ~fileclose(p) /\ ~pipeclose(p)
  <2>1. Open(Readers)' = Open(Readers) /\ Open(Writers)' = Open(Writers)
    BY Zenon, <1>0, <1>1, OpenUnchanged DEF Open
  <2> QED BY Zenon, <1>0, <1>1, <2>1, OpenUnchanged DEF RefInv
<1>2. ASSUME NEW p \in Procs, pipeclose(p)
      PROVE  RefInv(Readers, "r", readopen)' /\ RefInv(Writers, "w", writeopen)'
  <2>1. Open(Readers)' = Open(Readers) /\ Open(Writers)' = Open(Writers)
    BY Zenon, <1>0, <1>2 DEF Open, pipeclose, wakeup
  <2>2. CASE p \in Writers
    BY Zenon, <1>0, <1>2, <2>1, <2>2 DEF RefInv, pipeclose, wakeup
  <2>3. CASE p \in Readers
    BY ZenonT(30), <1>0, <1>2, <2>1, <2>3 DEF RefInv, pipeclose, wakeup
  <2> QED BY Zenon, <1>0, <2>2, <2>3
<1>3. ASSUME NEW p \in Procs, fileclose(p)
      PROVE  RefInv(Readers, "r", readopen)' /\ RefInv(Writers, "w", writeopen)'
  <2>1. ASSUME NEW S \in SUBSET Procs, NEW e, NEW open, RefInv(S, e, open), IsFiniteSet(S),
               p \in S, ref[e] \in Nat, ref'[e] = ref[e] - 1,
               pc' = [pc EXCEPT ![p] = IF ref[e] = 1 THEN "closing" ELSE "gone"]
        PROVE  /\ ref'[e] = Cardinality(Open(S)')
               /\ \A q \in S : pc'[q] = "closing" => \A r \in S \ {q} : pc'[r] = "gone"
               /\ ~open => \A q \in S : pc'[q] = "gone"
    <3>1. pc[p] = "out"
      BY Zenon, <1>3 DEF fileclose
    <3>2. IsFiniteSet(Open(S)) /\ p \in Open(S)
      BY Zenon, <2>1, <3>1, FS_Subset DEF Open
    <3>3. Open(S)' = Open(S) \ {p}
      BY Zenon, <1>0, <2>1, <3>1 DEF Open
    <3>4. Cardinality(Open(S)') = Cardinality(Open(S)) - 1
      BY Zenon, <3>2, <3>3, FS_RemoveElement
    <3>5. ASSUME ref[e] = 1 PROVE \A r \in S \ {p} : pc[r] = "gone"
      <4>1. Open(S) \ {p} = {}
        <5>1. Cardinality(Open(S)) = 1
          BY Zenon, <2>1, <3>5 DEF RefInv
        <5>2. IsFiniteSet(Open(S) \ {p}) /\ Cardinality(Open(S) \ {p}) = 0
          BY <3>2, <5>1, FS_RemoveElement
        <5> QED BY Zenon, <5>2, FS_EmptySet
      <4>2. \A r \in S \ {p} : pc[r] \in {"closing", "gone"}
        BY Zenon, <4>1 DEF Open
      <4> QED BY Zenon, <2>1, <3>1, <4>2 DEF RefInv
    <3>6. \A q \in S : pc'[q] = "closing" => \A r \in S \ {q} : pc'[r] = "gone"
      BY Zenon, <1>0, <2>1, <3>1, <3>5 DEF RefInv
    <3>7. ~open => \A q \in S : pc'[q] = "gone"
      BY Zenon, <2>1, <3>1 DEF RefInv
    <3> QED BY Zenon, <2>1, <3>4, <3>6, <3>7 DEF RefInv
  <2>2. CASE p \in Writers
    <3>1. Open(Readers)' = Open(Readers)
      BY Zenon, <1>0, <1>3, <2>2 DEF Open, fileclose
    <3>2. RefInv(Readers, "r", readopen)'
      BY Zenon, <1>0, <1>3, <2>2, <3>1 DEF RefInv, fileclose, End, pipe
    <3>3. RefInv(Writers, "w", writeopen)'
      BY Zenon, <1>0, <1>3, <2>1, <2>2 DEF RefInv, fileclose, End, LastRef, pipe
    <3> QED BY Zenon, <3>2, <3>3
  <2>3. CASE p \in Readers
    <3>1. Open(Writers)' = Open(Writers)
      BY Zenon, <1>0, <1>3, <2>3 DEF Open, fileclose
    <3>2. RefInv(Writers, "w", writeopen)'
      BY Zenon, <1>0, <1>3, <2>3, <3>1 DEF RefInv, fileclose, End, pipe
    <3>3. RefInv(Readers, "r", readopen)'
      BY Zenon, <1>0, <1>3, <2>1, <2>3 DEF RefInv, fileclose, End, LastRef, pipe
    <3> QED BY Zenon, <3>2, <3>3
  <2> QED BY Zenon, <1>0, <2>2, <2>3
<1> QED BY Zenon, <1>1, <1>2, <1>3

-----------------------------------------------------------------------------
(* Wakeups. *)

\* A reader that sleeps although it need not has a waker after every step.
LEMMA ReaderWakeStep ==
  ASSUME IInv, [Next]_vars, NEW r \in Readers,
         pc'[r] = "asleep", ~Empty' \/ ~writeopen'
  PROVE  \E q \in Writers : pc'[q] = "write" \/ killed'[q]
<1> DEFINE Goal == \E q \in Writers : pc'[q] = "write" \/ killed'[q]
<1>0. /\ LockInv /\ SleepInv /\ NoLostWakeup /\ RefInv(Readers, "r", readopen)
      /\ Writers \cap Readers = {} /\ killed \in [Procs -> BOOLEAN]
      /\ pc \in [Procs -> PCs] /\ Procs = Writers \cup Readers
  BY Zenon, PipeAssumption DEF IInv, TypeOK, Procs
\* Most steps leave the reader, its reason to wake and its waker alone.
<1>1. ASSUME pc[r] = "asleep", Empty /\ writeopen => Empty' /\ writeopen',
             \A q \in Writers : /\ pc[q] = "write" => pc'[q] = "write"
                                /\ killed[q] => killed'[q]
      PROVE  Goal
  BY Zenon, <1>0, <1>1 DEF NoLostWakeup
<1> HIDE DEF Goal
<1> USE <1>0 DEF Empty
<1>2. ASSUME NEW p \in Writers, pipewrite(p) PROVE Goal
  BY Zenon, <1>2 DEF pipewrite, Goal
<1>3. ASSUME NEW p \in Readers, piperead(p) PROVE Goal
  BY Zenon, <1>1, <1>3 DEF piperead, pipe
<1>4. ASSUME NEW p \in Procs, WriteByte(p) PROVE Goal
  BY Zenon, <1>4 DEF WriteByte, LockInv, Goal
<1>5. ASSUME NEW p \in Procs, WriteFull(p) PROVE Goal
  <2>1. p \in Writers
    BY Zenon, <1>5 DEF WriteFull, LockInv
  <2>2. CASE Release(p, "out", {}) /\ (~readopen \/ killed[p])
    <3>1. pc[r] = "asleep" /\ readopen
      BY Zenon, <2>2 DEF Release, wakeup, RefInv
    <3> QED BY Zenon, <1>5, <2>1, <2>2, <3>1 DEF WriteFull, Goal
  <2>3. CASE pc' = [wakeup(pc, Readers) EXCEPT ![p] = "tosleep"]
    BY Zenon, <2>1, <2>3 DEF wakeup
  <2> QED BY Zenon, <1>5, <2>2, <2>3 DEF WriteFull
<1>6. ASSUME NEW p \in Procs, WriteDone(p) PROVE Goal
  BY Zenon, <1>6 DEF WriteDone, Release, wakeup
<1>7. ASSUME NEW p \in Procs, ReadWait(p) PROVE Goal
  <2>1. CASE Release(p, "out", {})
    BY Zenon, <1>1, <1>7, <2>1 DEF ReadWait, Release, wakeup, pipe
  <2>2. CASE \E l \in {"tosleep", "copy"} : pc' = [pc EXCEPT ![p] = l]
    BY Zenon, <1>1, <1>7, <2>2 DEF ReadWait, pipe
  <2> QED BY Zenon, <1>7, <2>1, <2>2 DEF ReadWait
<1>8. ASSUME NEW p \in Procs, ReadByte(p) PROVE Goal
  BY Zenon, <1>1, <1>8 DEF ReadByte
<1>9. ASSUME NEW p \in Procs, ReadDone(p) PROVE Goal
  BY Zenon, <1>1, <1>9 DEF ReadDone, Release, wakeup, pipe
<1>10. ASSUME NEW p \in Procs, Sleep(p) PROVE Goal
  <2>1. CASE p = r
    BY Zenon, <1>10, <2>1 DEF Sleep, SleepInv, pipe
  <2>2. CASE p # r
    BY Zenon, <1>1, <1>10, <2>2 DEF Sleep, Release, wakeup, pipe
  <2> QED BY Zenon, <2>1, <2>2
<1>11. ASSUME NEW p \in Procs, Reacquire(p) PROVE Goal
  BY Zenon, <1>1, <1>11 DEF Reacquire, AfterSleep, pipe
<1>12. ASSUME NEW p \in Procs, pipeclose(p) PROVE Goal
  <2>1. CASE p \in Writers
    BY Zenon, <1>12, <2>1 DEF pipeclose, wakeup
  <2>2. CASE p \in Readers
    BY Zenon, <1>1, <1>12, <2>2 DEF pipeclose, wakeup
  <2> QED BY Zenon, <2>1, <2>2
<1>13. ASSUME NEW p \in Procs, kill(p) PROVE Goal
  BY Zenon, <1>1, <1>13 DEF kill, wakeup, pipe
<1>14. ASSUME NEW p \in Procs, fileclose(p) PROVE Goal
  BY Zenon, <1>1, <1>14 DEF fileclose, pipe
<1>15. ASSUME UNCHANGED vars PROVE Goal
  BY Zenon, <1>1, <1>15 DEF vars
<1>16. Goal
  BY ZenonT(30), <1>2, <1>3, <1>4, <1>5, <1>6, <1>7, <1>8, <1>9, <1>10, <1>11, <1>12, <1>13,
     <1>14, <1>15
  DEF Next, Kernel
<1> QED BY Zenon, <1>16 DEF Goal

\* The same for a writer.
LEMMA WriterWakeStep ==
  ASSUME IInv, [Next]_vars, NEW w \in Writers,
         pc'[w] = "asleep", ~Full' \/ ~readopen'
  PROVE  \E q \in Readers : pc'[q] = "copy"
<1> DEFINE Goal == \E q \in Readers : pc'[q] = "copy"
<1>0. /\ LockInv /\ SleepInv /\ NoLostWakeup
      /\ Writers \cap Readers = {}
      /\ pc \in [Procs -> PCs] /\ Procs = Writers \cup Readers
  BY Zenon, PipeAssumption DEF IInv, TypeOK, Procs
<1>1. ASSUME pc[w] = "asleep", Full /\ readopen => Full' /\ readopen',
             \A q \in Readers : pc[q] = "copy" => pc'[q] = "copy"
      PROVE  Goal
  BY Zenon, <1>0, <1>1 DEF NoLostWakeup
<1> HIDE DEF Goal
<1>full. UNCHANGED <<nread, nwrite>> => (Full' <=> Full)
  BY Zenon DEF Full
<1> USE <1>0, <1>full
<1>2. ASSUME NEW p \in Writers, pipewrite(p) PROVE Goal
  BY Zenon, <1>1, <1>2 DEF pipewrite, pipe
<1>3. ASSUME NEW p \in Readers, piperead(p) PROVE Goal
  BY Zenon, <1>1, <1>3 DEF piperead, pipe
<1>4. ASSUME NEW p \in Procs, WriteByte(p) PROVE Goal
  BY Zenon, <1>1, <1>4 DEF WriteByte
<1>5. ASSUME NEW p \in Procs, WriteFull(p) PROVE Goal
  <2>1. CASE Release(p, "out", {})
    BY Zenon, <1>1, <1>5, <2>1 DEF WriteFull, Release, wakeup, pipe
  <2>2. CASE pc' = [wakeup(pc, Readers) EXCEPT ![p] = "tosleep"]
    BY Zenon, <1>1, <1>5, <2>2 DEF WriteFull, wakeup, pipe
  <2> QED BY Zenon, <1>5, <2>1, <2>2 DEF WriteFull
<1>6. ASSUME NEW p \in Procs, WriteDone(p) PROVE Goal
  BY Zenon, <1>1, <1>6 DEF WriteDone, Release, wakeup, pipe
<1>7. ASSUME NEW p \in Procs, ReadWait(p) PROVE Goal
  <2>1. CASE Release(p, "out", {})
    BY Zenon, <1>1, <1>7, <2>1 DEF ReadWait, Release, wakeup, pipe
  <2>2. CASE \E l \in {"tosleep", "copy"} : pc' = [pc EXCEPT ![p] = l]
    BY Zenon, <1>1, <1>7, <2>2 DEF ReadWait, pipe
  <2> QED BY Zenon, <1>7, <2>1, <2>2 DEF ReadWait
<1>8. ASSUME NEW p \in Procs, ReadByte(p) PROVE Goal
  BY Zenon, <1>8 DEF ReadByte, LockInv, Goal
<1>9. ASSUME NEW p \in Procs, ReadDone(p) PROVE Goal
  BY Zenon, <1>9 DEF ReadDone, Release, wakeup, LockInv
<1>10. ASSUME NEW p \in Procs, Sleep(p) PROVE Goal
  <2>1. CASE p = w
    BY Zenon, <1>10, <2>1 DEF Sleep, SleepInv, pipe
  <2>2. CASE p # w
    BY Zenon, <1>1, <1>10, <2>2 DEF Sleep, Release, wakeup, pipe
  <2> QED BY Zenon, <2>1, <2>2
<1>11. ASSUME NEW p \in Procs, Reacquire(p) PROVE Goal
  BY Zenon, <1>1, <1>11 DEF Reacquire, AfterSleep, pipe
<1>12. ASSUME NEW p \in Procs, pipeclose(p) PROVE Goal
  <2>1. CASE p \in Readers
    BY Zenon, <1>12, <2>1 DEF pipeclose, wakeup
  <2>2. CASE p \in Writers
    BY Zenon, <1>1, <1>12, <2>2 DEF pipeclose, wakeup
  <2> QED BY Zenon, <2>1, <2>2
<1>13. ASSUME NEW p \in Procs, kill(p) PROVE Goal
  BY Zenon, <1>1, <1>13 DEF kill, wakeup, pipe
<1>14. ASSUME NEW p \in Procs, fileclose(p) PROVE Goal
  BY Zenon, <1>1, <1>14 DEF fileclose, pipe
<1>15. ASSUME UNCHANGED vars PROVE Goal
  BY Zenon, <1>1, <1>15 DEF vars
<1>16. Goal
  BY Zenon, <1>2, <1>3, <1>4, <1>5, <1>6, <1>7, <1>8, <1>9, <1>10, <1>11, <1>12, <1>13,
     <1>14, <1>15
  DEF Next, Kernel
<1> QED BY Zenon, <1>16 DEF Goal

-----------------------------------------------------------------------------
(* The theorems. *)

\* Every step preserves the inductive invariant.
LEMMA NextInv == IInv /\ [Next]_vars => IInv'
<1> SUFFICES ASSUME IInv, [Next]_vars PROVE IInv'
  OBVIOUS
<1>1. TypeOK' /\ NoOverrun' /\ LockInv' /\ SleepInv' /\ CopyInv'
  BY Zenon, TypeStep, OverrunStep, LockStep, SleepStep
<1>2. RefInv(Readers, "r", readopen)' /\ RefInv(Writers, "w", writeopen)'
  BY Zenon, RefStep
<1>3. (freed => ~readopen /\ ~writeopen)'
  <2>1. CASE \E p \in Procs : pipeclose(p)
    BY Zenon, <2>1 DEF IInv, TypeOK, pipeclose
  <2>2. CASE \A p \in Procs : ~pipeclose(p)
    <3>1. UNCHANGED <<readopen, writeopen, freed>>
      BY ZenonT(30), <2>2 DEF Next, Kernel, vars, pipe, pipewrite, piperead, WriteByte, WriteFull,
         WriteDone, ReadWait, ReadByte, ReadDone, Sleep, Reacquire, kill, fileclose
    <3> QED BY Zenon, <3>1 DEF IInv
  <2> QED BY Zenon, <2>1, <2>2
<1>4. NoLostWakeup'
  BY Zenon, ReaderWakeStep, WriterWakeStep DEF NoLostWakeup
<1> QED BY Zenon, <1>1, <1>2, <1>3, <1>4 DEF IInv

\* Every behaviour of pipewrite(), piperead(), pipeclose() and kill() keeps the
\* inductive invariant.
THEOREM Invariance == Spec => []IInv
BY InitInv, NextInv, PTL DEF Spec

\* The variables of struct pipe and of its callers keep their types; the
\* counters stay in the range of an unsigned int.
THEOREM TypeCorrect == Spec => []TypeOK
<1>1. IInv => TypeOK
  BY Zenon DEF IInv
<1> QED BY <1>1, Invariance, PTL

\* pipewrite() never puts a byte over one that is not yet read, for any
\* PIPESIZE and also when nread and nwrite have wrapped.
THEOREM RingNeverOverruns == Spec => []NoOverrun
<1>1. IInv => NoOverrun
  BY Zenon DEF IInv
<1> QED BY <1>1, Invariance, PTL

\* pipeclose() frees the pipe only after every process has closed it.
THEOREM FreedAfterLastClose == Spec => []NoUseAfterFree
<1>1. IInv => NoUseAfterFree
  BY Zenon DEF IInv, RefInv, NoUseAfterFree, Procs
<1> QED BY <1>1, Invariance, PTL

\* The sleep() and wakeup() calls of pipewrite(), piperead() and pipeclose()
\* lose no wakeup, but for the bytes of a killed writer.
THEOREM WakeupsNotLost == Spec => []NoLostWakeup
<1>1. IInv => NoLostWakeup
  BY Zenon DEF IInv
<1> QED BY <1>1, Invariance, PTL

\* piperead() reports the end of the file only when it is final.
THEOREM EndOfFileIsFinal == Spec => EofIsFinal
<1>1. ASSUME IInv, [Next]_vars, NEW r \in Readers,
             pc[r] = "copy", pc'[r] = "out", todo[r] > 0, got[r] = 0
      PROVE  Empty /\ ~writeopen
  <2>0. /\ LockInv /\ CopyInv /\ r \in Procs /\ Procs = Writers \cup Readers
        /\ pc \in [Procs -> PCs] /\ Writers \cap Readers = {} /\ NoProc \notin Procs
    BY Zenon, <1>1, PipeAssumption DEF IInv, TypeOK, Procs
  <2>1. ReadDone(r)
    <3>1. ASSUME NEW p \in Procs, WriteByte(p) \/ WriteFull(p) \/ WriteDone(p)
          PROVE  FALSE
      BY Zenon, <1>1, <2>0, <3>1 DEF WriteByte, WriteFull, WriteDone, LockInv
    <3>2. ASSUME NEW p \in Procs,
                 \/ pipewrite(p) \/ piperead(p) \/ Reacquire(p) \/ pipeclose(p)
          PROVE  FALSE
      BY Zenon, <1>1, <2>0, <3>2 DEF pipewrite, piperead, Reacquire, pipeclose, LockInv
    <3>3. ASSUME NEW p \in Procs, ReadWait(p) \/ Sleep(p)
          PROVE  FALSE
      BY Zenon, <1>1, <2>0, <3>3 DEF ReadWait, Sleep, LockInv
    <3>4. ASSUME NEW p \in Procs, ReadByte(p) \/ kill(p) \/ fileclose(p)
          PROVE  FALSE
      BY Zenon, <1>1, <2>0, <3>4 DEF ReadByte, kill, fileclose, wakeup
    <3>5. ASSUME NEW p \in Procs, ReadDone(p)
          PROVE  p = r
      BY Zenon, <1>1, <2>0, <3>5 DEF ReadDone, LockInv
    <3> QED BY Zenon, <1>1, <3>1, <3>2, <3>3, <3>4, <3>5 DEF Next, Kernel, vars
  <2>2. Empty
    BY <1>1, <2>0, <2>1 DEF ReadDone
  <2> QED BY Zenon, <1>1, <2>0, <2>2 DEF CopyInv
<1>2. IInv /\ [Next]_vars =>
        [\A p \in Readers :
           pc[p] = "copy" /\ pc'[p] = "out" /\ todo[p] > 0 /\ got[p] = 0 =>
               Empty /\ ~writeopen]_vars
  BY Zenon, <1>1
<1> QED BY <1>2, Invariance, PTL DEF Spec, EofIsFinal

=============================================================================
