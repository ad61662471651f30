-------------------------- MODULE SharedMemProofs --------------------------
(***************************************************************************)
(* Proofs about SharedMem and SharedMemStart, for any number of readers,   *)
(* writers and values.  The lemmas allow for processes that are still      *)
(* being started, so that they serve both specifications.                  *)
(***************************************************************************)
EXTENDS SharedMemStart, Counting, FiniteSetTheorems, TLAPS

-----------------------------------------------------------------------------
(***************************************************************************)
(* Type correctness.                                                       *)
(***************************************************************************)

\* Where a process is while it is started, or once it is lost.
ReaderStart == {"open", "killed", "asleep_sem"}
WriterStart == InitLines \cup {"asleep_sem"}

PcType(at) ==
  /\ at \in [Procs -> ReaderLines \cup WriterLines \cup ReaderStart \cup WriterStart]
  /\ \A r \in Readers : at[r] \in ReaderLines \cup ReaderStart
  /\ \A w \in Writers : at[w] \in WriterLines \cup WriterStart

\* The types of SharedMem's variables, during the start too.
Types ==
  /\ rlock \in Readers \cup {NoProc} /\ wlock \in Writers \cup {NoProc}
  /\ rmtx \in Nat /\ wmtx \in Nat
  /\ readers \in Int /\ writers \in Int
  /\ pint \in Values
  /\ data \in [Writers -> Values]
  /\ shown \in [Readers -> Values]
  /\ tmp \in [Readers -> Int]
  /\ PcType(pc)

\* SharedMem's own types: every process has been started.
Started ==
  (\A r \in Readers : pc[r] \in ReaderLines) /\ (\A w \in Writers : pc[w] \in WriterLines)

\* The two agree once every process has been started.
LEMMA StartedTypes == TypeOK <=> Types /\ Started
  BY DEF TypeOK, Types, PcType, Started, Procs

\* create_shmhead leaves values of the right types.
LEMMA InitTypeOK == Init => TypeOK
  BY SharedMemAssumption DEF Init, TypeOK, Procs, ReaderLines, WriterLines

\* A reader's next line is a reader's line.
LEMMA ReaderGoto ==
  ASSUME Types, NEW r \in Readers, NEW l \in ReaderLines, Goto(r, l)
  PROVE  PcType(pc')
  BY SharedMemAssumption DEF Goto, Types, PcType, Procs

\* A writer's next line is a writer's line.
LEMMA WriterGoto ==
  ASSUME Types, NEW w \in Writers, NEW l \in WriterLines, Goto(w, l)
  PROVE  PcType(pc')
  BY SharedMemAssumption DEF Goto, Types, PcType, Procs

\* Every statement of a reader keeps the types.
LEMMA ReaderType ==
  ASSUME Types, NEW r \in Readers, ReaderStep(r)
  PROVE  Types'
<1>1. PcType(pc')
  <2>1. \E l \in ReaderLines : Goto(r, l)
    BY DEF ReaderStep, WillRead, Read, FinishRead, WaitRmtx, PostRmtx, WaitWmtx, PostWmtx,
           LoadReaders, StoreReaders, LockR, UnlockR, TestReaders, ReaderLines
  <2> QED BY <2>1, ReaderGoto
<1> USE DEF PcType
<1>2. CASE WillRead(r)
  <2>1. CASE At(r, "wait_rmtx") /\ WaitRmtx(r, "inc_load")
    BY <1>1, <2>1 DEF WaitRmtx, Types
  <2>2. CASE At(r, "inc_load") /\ LoadReaders(r, "inc_store")
    BY <1>1, <2>2 DEF LoadReaders, Types
  <2>3. CASE At(r, "inc_store") /\ StoreReaders(r, tmp[r] + 1, "wait_wmtx")
    BY <1>1, <2>3 DEF StoreReaders, Types
  <2>4. CASE At(r, "wait_wmtx") /\ WaitWmtx(r, "post_rmtx")
    BY <1>1, <2>4 DEF WaitWmtx, Types
  <2>5. CASE At(r, "post_rmtx") /\ PostRmtx(r, "read")
    BY <1>1, <2>5 DEF PostRmtx, Types
  <2> QED BY <1>2, <2>1, <2>2, <2>3, <2>4, <2>5 DEF WillRead
<1>3. CASE Read(r) BY <1>1, <1>3 DEF Read, Types
<1>4. CASE FinishRead(r)
  <2>1. CASE At(r, "lock_rlock") /\ LockR(r, "dec_load", "asleep_rlock")
    BY <1>1, <2>1 DEF LockR, Types
  <2>2. CASE At(r, "dec_load") /\ LoadReaders(r, "dec_store")
    BY <1>1, <2>2 DEF LoadReaders, Types
  <2>3. CASE At(r, "dec_store") /\ StoreReaders(r, tmp[r] - 1, "test")
    BY <1>1, <2>3 DEF StoreReaders, Types
  <2>4. CASE TestReaders(r)
    BY <1>1, <2>4 DEF TestReaders, Types
  <2>5. CASE At(r, "post_wmtx") /\ PostWmtx(r, "unlock_rlock")
    BY <1>1, <2>5 DEF PostWmtx, Types
  <2>6. CASE At(r, "unlock_rlock") /\ UnlockR(r, "wait_rmtx")
    BY <1>1, <2>6 DEF UnlockR, Types
  <2> QED BY <1>4, <2>1, <2>2, <2>3, <2>4, <2>5, <2>6 DEF FinishRead
<1> QED BY <1>2, <1>3, <1>4 DEF ReaderStep

\* Every statement of a writer keeps the types.
LEMMA WriterType ==
  ASSUME Types, NEW w \in Writers, Cin(w) \/ WriterStep(w)
  PROVE  Types'
<1>1. PcType(pc')
  <2>1. \E l \in WriterLines : Goto(w, l)
    BY DEF Cin, WriterStep, WillWrite, Write, FinishWrite, WaitRmtx, PostRmtx, WaitWmtx,
           PostWmtx, LockW, UnlockW, IncWriters, DecWriters, WriterLines
  <2> QED BY <2>1, WriterGoto
<1> USE DEF PcType
<1>2. CASE Cin(w) BY <1>1, <1>2 DEF Cin, Types
<1>3. CASE WillWrite(w)
  <2>1. CASE At(w, "lock_enter") /\ LockW(w, "inc", "asleep_enter")
    BY <1>1, <2>1 DEF LockW, Types
  <2>2. CASE IncWriters(w)
    BY <1>1, <2>2 DEF IncWriters, Types
  <2>3. CASE At(w, "wait_rmtx") /\ WaitRmtx(w, "unlock_enter")
    BY <1>1, <2>3 DEF WaitRmtx, Types
  <2>4. CASE At(w, "unlock_enter") /\ UnlockW(w, "wait_wmtx")
    BY <1>1, <2>4 DEF UnlockW, Types
  <2>5. CASE At(w, "wait_wmtx") /\ WaitWmtx(w, "write")
    BY <1>1, <2>5 DEF WaitWmtx, Types
  <2> QED BY <1>3, <2>1, <2>2, <2>3, <2>4, <2>5 DEF WillWrite
<1>4. CASE Write(w) BY <1>1, <1>4 DEF Write, Types
<1>5. CASE FinishWrite(w)
  <2>1. CASE At(w, "post_wmtx") /\ PostWmtx(w, "lock_leave")
    BY <1>1, <2>1 DEF PostWmtx, Types
  <2>2. CASE At(w, "lock_leave") /\ LockW(w, "dec", "asleep_leave")
    BY <1>1, <2>2 DEF LockW, Types
  <2>3. CASE DecWriters(w)
    BY <1>1, <2>3 DEF DecWriters, Types
  <2>4. CASE At(w, "post_rmtx") /\ PostRmtx(w, "unlock_leave")
    BY <1>1, <2>4 DEF PostRmtx, Types
  <2>5. CASE At(w, "unlock_leave") /\ UnlockW(w, "cin")
    BY <1>1, <2>5 DEF UnlockW, Types
  <2> QED BY <1>5, <2>1, <2>2, <2>3, <2>4, <2>5 DEF FinishWrite
<1> QED BY <1>2, <1>3, <1>4, <1>5 DEF WriterStep

\* A started process stays started.
LEMMA NextStarted ==
  ASSUME Types, Started, Next
  PROVE  Started'
<1>1. ASSUME NEW r \in Readers, ReaderStep(r) PROVE Started'
  <2>1. PICK l \in ReaderLines : Goto(r, l)
    BY <1>1 DEF ReaderStep, WillRead, Read, FinishRead, WaitRmtx, PostRmtx, WaitWmtx, PostWmtx,
           LoadReaders, StoreReaders, LockR, UnlockR, TestReaders, ReaderLines
  <2> QED BY <2>1, SharedMemAssumption DEF Started, Goto, Types, PcType, Procs
<1>2. ASSUME NEW w \in Writers, Cin(w) \/ WriterStep(w) PROVE Started'
  <2>1. PICK l \in WriterLines : Goto(w, l)
    BY <1>2 DEF Cin, WriterStep, WillWrite, Write, FinishWrite, WaitRmtx, PostRmtx, WaitWmtx,
           PostWmtx, LockW, UnlockW, IncWriters, DecWriters, WriterLines
  <2> QED BY <2>1, SharedMemAssumption DEF Started, Goto, Types, PcType, Procs
<1> QED BY <1>1, <1>2 DEF Next

\* Every step keeps the types.
LEMMA NextTypes == Types /\ [Next]_vars => Types'
<1> SUFFICES ASSUME Types, [Next]_vars PROVE Types'
  OBVIOUS
<1>1. CASE UNCHANGED vars BY <1>1 DEF vars, Types
<1> QED BY <1>1, ReaderType, WriterType DEF Next

\* ... SharedMem's own included.
LEMMA NextTypeOK == TypeOK /\ [Next]_vars => TypeOK'
<1> SUFFICES ASSUME TypeOK, [Next]_vars PROVE TypeOK'
  OBVIOUS
<1>1. CASE UNCHANGED vars BY <1>1 DEF vars, TypeOK
<1>2. CASE Next
  <2>1. Types' /\ Started' BY <1>2, StartedTypes, NextTypes, NextStarted
  <2> QED BY <2>1, StartedTypes DEF TypeOK, Types, PcType, Started, Procs
<1> QED BY <1>1, <1>2

\* The head of the segment and the processes keep their types; in particular the
\* semaphores of SharedMeM.c are never negative.
THEOREM TypeCorrect == Spec => []TypeOK
  BY InitTypeOK, NextTypeOK, PTL DEF Spec

-----------------------------------------------------------------------------
(***************************************************************************)
(* What a statement does to the semaphores and to its process.             *)
(***************************************************************************)
\* A statement of p moves p only.
Alone(p) == \A q \in Procs \ {p} : pc'[q] = pc[q]

\* A reader takes wmtx and rmtx in will_read and gives back at most what it took.
LEMMA ReaderEffect ==
  ASSUME Types, NEW r \in Readers, ReaderStep(r)
  PROVE  /\ Alone(r) /\ wlock' = wlock /\ writers' = writers
         /\ wmtx' + In(r \in WmtxHolders') <= wmtx + In(r \in WmtxHolders)
         /\ rmtx' + In(r \in EnteringReaders') <= rmtx + In(r \in EnteringReaders)
<1>0. r \in Procs /\ r \notin Writers /\ wmtx \in Nat /\ rmtx \in Nat
  BY SharedMemAssumption DEF Procs, Types
<1> USE <1>0 DEF Types, PcType, At, Goto, Alone, WmtxHolders, EnteringReaders, Entering, In
<1>1. CASE WillRead(r)
  BY <1>1 DEF WillRead, WaitRmtx, PostRmtx, WaitWmtx, LoadReaders, StoreReaders
<1>2. CASE Read(r) BY <1>2 DEF Read
<1>3. CASE FinishRead(r)
  BY <1>3 DEF FinishRead, LockR, UnlockR, PostWmtx, LoadReaders, StoreReaders, TestReaders
<1> QED BY <1>1, <1>2, <1>3 DEF ReaderStep

\* A writer takes wmtx in will_write and gives it back in finish_write.
LEMMA WriterEffect ==
  ASSUME Types, NEW w \in Writers, Cin(w) \/ WriterStep(w)
  PROVE  /\ Alone(w)
         /\ wmtx' + In(w \in WmtxHolders') <= wmtx + In(w \in WmtxHolders)
<1>0. w \in Procs /\ w \notin Readers /\ wmtx \in Nat
  BY SharedMemAssumption DEF Procs, Types
<1> USE <1>0 DEF Types, PcType, At, Goto, Alone, WmtxHolders, In
<1>1. CASE Cin(w) BY <1>1 DEF Cin
<1>2. CASE WillWrite(w)
  BY <1>2 DEF WillWrite, LockW, UnlockW, IncWriters, WaitRmtx, WaitWmtx
<1>3. CASE Write(w) BY <1>3 DEF Write
<1>4. CASE FinishWrite(w)
  BY <1>4 DEF FinishWrite, LockW, UnlockW, DecWriters, PostRmtx, PostWmtx
<1> QED BY <1>1, <1>2, <1>3, <1>4 DEF WriterStep

\* The sets of processes in the invariant are finite.
LEMMA SetsFinite ==
  IsFiniteSet(WmtxHolders) /\ IsFiniteSet(EnteringReaders) /\ IsFiniteSet(Counted)
<1>1. IsFiniteSet(Procs) BY SharedMemAssumption, FS_Union DEF Procs
<1>2. /\ WmtxHolders \in SUBSET Procs /\ EnteringReaders \in SUBSET Procs
      /\ Counted \in SUBSET Procs
  BY DEF WmtxHolders, EnteringReaders, Counted, Procs
<1> QED BY <1>1, <1>2, FS_Subset

-----------------------------------------------------------------------------
(***************************************************************************)
(* The invariant.                                                          *)
(***************************************************************************)
\* What the semaphores and the counter guarantee, during the start too.
IInv == Types /\ WmtxIsOne /\ WlockOwner /\ CounterOK /\ RmtxIsOne

\* wmtx is a lock: it has at most one holder.
LEMMA WmtxStep ==
  ASSUME IInv, Types', NEW p \in Procs, Alone(p),
         wmtx' + In(p \in WmtxHolders') <= wmtx + In(p \in WmtxHolders)
  PROVE  WmtxIsOne'
<1>1. WmtxHolders' \ {p} = WmtxHolders \ {p} BY DEF Alone, WmtxHolders, Procs
<1>2. wmtx \in Int /\ wmtx' \in Int /\ wmtx + Cardinality(WmtxHolders) <= 1
  BY DEF IInv, Types, WmtxIsOne
<1>3. wmtx' + Cardinality(WmtxHolders') <= 1 BY <1>1, <1>2, SetsFinite, Semaphore
<1> QED BY <1>3 DEF WmtxIsOne

\* A reader's statement does not concern the writers' part.
LEMMA ReaderIInv ==
  ASSUME IInv, NEW r \in Readers, ReaderStep(r)
  PROVE  IInv'
<1>0. r \in Procs /\ r \notin Writers BY SharedMemAssumption DEF Procs
<1>1. Types /\ Types' BY ReaderType DEF IInv
<1>2. /\ Alone(r) /\ wlock' = wlock /\ writers' = writers
      /\ wmtx' + In(r \in WmtxHolders') <= wmtx + In(r \in WmtxHolders)
      /\ rmtx' + In(r \in EnteringReaders') <= rmtx + In(r \in EnteringReaders)
  BY <1>1, ReaderEffect
<1>3. WmtxIsOne' BY <1>0, <1>1, <1>2, WmtxStep
<1>4. \A w \in Writers : pc'[w] = pc[w] BY <1>0, <1>2 DEF Alone, Procs
<1>5. Counted' = Counted /\ (GateHeld' <=> GateHeld) BY <1>4 DEF Counted, GateHeld
<1>6. WlockOwner' /\ CounterOK'
  BY <1>2, <1>4, <1>5 DEF IInv, WlockOwner, CounterOK
<1>7. RmtxIsOne'
  <2> DEFINE g == IF GateHeld THEN 1 ELSE 0
  <2>1. EnteringReaders' \ {r} = EnteringReaders \ {r}
    BY <1>2 DEF Alone, EnteringReaders, Entering, Procs
  <2>2. g' = g BY <1>5
  <2>3. rmtx \in Int /\ rmtx' \in Int /\ 1 - g \in Int BY <1>1 DEF Types
  <2>4. Cardinality(EnteringReaders) \in Nat /\ Cardinality(EnteringReaders') \in Nat
    BY <2>1, SetsFinite, OneElement
  <2>5. rmtx + Cardinality(EnteringReaders) <= 1 - g
    BY <2>3, <2>4 DEF IInv, RmtxIsOne
  <2>6. rmtx' + Cardinality(EnteringReaders') <= 1 - g
    BY <1>2, <2>1, <2>3, <2>5, SetsFinite, Semaphore
  <2>7. rmtx' + Cardinality(EnteringReaders') + g' <= 1
    BY <2>2, <2>3, <2>4, <2>6
  <2> QED BY <2>7 DEF RmtxIsOne
<1> QED BY <1>1, <1>3, <1>6, <1>7 DEF IInv

\* What a writer's statement has to show for the gate.
LEMMA GateStep ==
  ASSUME IInv, Types', NEW w \in Writers, Alone(w),
         rmtx' + In(GateHeld') <= rmtx + In(GateHeld)
  PROVE  RmtxIsOne'
<1>1. EnteringReaders' = EnteringReaders
  BY SharedMemAssumption DEF Alone, EnteringReaders, Entering, Procs
<1> DEFINE e == Cardinality(EnteringReaders)
           s0 == rmtx + In(GateHeld)
           s1 == rmtx' + In(GateHeld')
<1>2. e \in Nat BY SetsFinite, FS_CardinalityType
<1>3. rmtx \in Nat /\ rmtx' \in Nat BY DEF IInv, Types
<1>4. In(GateHeld) \in Nat /\ In(GateHeld') \in Nat BY DEF In
<1>5. s0 \in Nat /\ s1 \in Nat BY <1>3, <1>4
<1>6. rmtx + e + In(GateHeld) <= 1 BY DEF IInv, RmtxIsOne, In
<1>7. s0 + e <= 1 BY <1>2, <1>3, <1>4, <1>6
<1>8. s1 <= s0 OBVIOUS
<1>9. s1 + e <= 1
  <2> HIDE DEF e, s0, s1
  <2> QED BY <1>2, <1>5, <1>7, <1>8
<1>10. rmtx' + e + In(GateHeld') <= 1 BY <1>2, <1>3, <1>4, <1>9
<1> QED BY <1>1, <1>10 DEF RmtxIsOne, In

\* Lines of a writer that the counter counts, and lines under wlock.
CountedLines == {"wait_rmtx", "unlock_enter", "wait_wmtx", "write",
                 "post_wmtx", "lock_leave", "asleep_leave", "dec"}
LockedLines == {"inc", "wait_rmtx", "unlock_enter", "dec", "post_rmtx", "unlock_leave"}

\* Most statements of a writer change neither the counter nor the gate.
LEMMA NeutralStep ==
  ASSUME IInv, Types', NEW w \in Writers, Alone(w),
         pc[w] \in CountedLines <=> pc'[w] \in CountedLines,
         pc[w] \notin {"wait_rmtx", "post_rmtx"},
         pc'[w] \notin {"wait_rmtx", "post_rmtx"},
         writers' = writers, rmtx' = rmtx
  PROVE  CounterOK' /\ RmtxIsOne'
<1>1. Counted' = Counted BY DEF Counted, CountedLines, Alone, Procs
<1>2. \A v \in Writers : /\ pc'[v] = "wait_rmtx" <=> pc[v] = "wait_rmtx"
                         /\ pc'[v] = "post_rmtx" <=> pc[v] = "post_rmtx"
  BY DEF Alone, Procs
<1>3. GateHeld' <=> GateHeld BY <1>1, <1>2 DEF GateHeld
<1>4. CounterOK' BY <1>1, <1>2 DEF IInv, CounterOK
<1>5. rmtx' + In(GateHeld') <= rmtx + In(GateHeld)
  BY <1>3 DEF In, IInv, Types
<1> QED BY <1>4, <1>5, GateStep

\* The owner of wlock is alone between lock and unlock.
LEMMA WlockAlone ==
  ASSUME IInv, NEW w \in Writers, pc[w] \in LockedLines
  PROVE  \A v \in Writers \ {w} : pc[v] \notin LockedLines
  BY DEF IInv, WlockOwner, LockedLines

\* One writer more, or less, is counted.
LEMMA CountedStep ==
  ASSUME NEW w \in Writers, Alone(w)
  PROVE  /\ Cardinality(Counted) \in Nat /\ Cardinality(Counted') \in Nat
         /\ Cardinality(Counted') + In(pc[w] \in CountedLines)
              = Cardinality(Counted) + In(pc'[w] \in CountedLines)
<1>1. Counted' \ {w} = Counted \ {w} BY DEF Counted, Alone, Procs
<1>2. w \in Counted <=> pc[w] \in CountedLines BY DEF Counted, CountedLines
<1>3. w \in Counted' <=> pc'[w] \in CountedLines BY DEF Counted, CountedLines
<1>4. /\ Cardinality(Counted) \in Nat /\ Cardinality(Counted') \in Nat
      /\ Cardinality(Counted') + In(w \in Counted) = Cardinality(Counted) + In(w \in Counted')
  BY <1>1, SetsFinite, OneElement
<1> QED BY <1>2, <1>3, <1>4 DEF In

\* ++writers under wlock: the first writer goes to the gate, the others find it held.
LEMMA IncIInv ==
  ASSUME IInv, Types', NEW w \in Writers, Alone(w), IncWriters(w)
  PROVE  WlockOwner' /\ CounterOK' /\ RmtxIsOne'
<1>1. /\ pc[w] = "inc" /\ writers' = writers + 1 /\ wlock' = wlock /\ rmtx' = rmtx
      /\ pc'[w] = IF writers + 1 = 1 THEN "wait_rmtx" ELSE "unlock_enter"
  BY DEF IncWriters, At, Goto, IInv, Types, PcType, Procs
<1>2. \A v \in Writers \ {w} : pc'[v] = pc[v] /\ pc[v] \notin LockedLines
  BY <1>1, WlockAlone DEF Alone, Procs, LockedLines
<1>3. WlockOwner'
  BY <1>1, <1>2 DEF IInv, WlockOwner, LockedLines
<1>4. writers = Cardinality(Counted) /\ writers \in Nat
  BY CountedStep DEF IInv, CounterOK
<1>5. Cardinality(Counted') = writers'
  BY <1>1, <1>4, CountedStep DEF CountedLines, In
<1>6. CounterOK'
  BY <1>1, <1>2, <1>4, <1>5 DEF CounterOK, LockedLines
<1>7. GateHeld' <=> GateHeld
  <2>1. \A v \in Writers : pc[v] # "wait_rmtx" /\ pc[v] # "post_rmtx"
    BY <1>1, <1>2 DEF LockedLines
  <2>2. GateHeld <=> Counted # {} BY <2>1 DEF GateHeld
  <2>3. Counted # {} <=> writers # 0 BY <1>4, SetsFinite, FS_EmptySet
  <2>4. CASE writers = 0
    <3>1. pc'[w] = "wait_rmtx" BY <1>1, <1>4, <2>4
    <3>2. \A v \in Writers : pc'[v] # "post_rmtx" BY <1>2, <3>1 DEF LockedLines
    <3> QED BY <2>2, <2>3, <2>4, <3>1, <3>2 DEF GateHeld
  <2>5. CASE writers # 0
    <3>1. pc'[w] = "unlock_enter" BY <1>1, <1>4, <2>5
    <3>2. \A v \in Writers : pc'[v] # "wait_rmtx" BY <1>2, <3>1 DEF LockedLines
    <3>3. w \in Counted' BY <3>1 DEF Counted
    <3> QED BY <2>2, <2>3, <2>5, <3>2, <3>3 DEF GateHeld
  <2> QED BY <2>4, <2>5
<1>8. rmtx' + In(GateHeld') <= rmtx + In(GateHeld)
  BY <1>1, <1>7 DEF In, IInv, Types
<1> QED BY <1>3, <1>6, <1>8, GateStep

\* sem_wait(rmtx) of the first writer: the semaphore's unit becomes the gate.
LEMMA GateTaken ==
  ASSUME IInv, Types', NEW w \in Writers, Alone(w),
         At(w, "wait_rmtx"), WaitRmtx(w, "unlock_enter")
  PROVE  WlockOwner' /\ CounterOK' /\ RmtxIsOne'
<1>1. /\ pc[w] = "wait_rmtx" /\ pc'[w] = "unlock_enter" /\ writers' = writers
      /\ wlock' = wlock /\ rmtx' = rmtx - 1
  BY DEF WaitRmtx, At, Goto, IInv, Types, PcType, Procs
<1>2. \A v \in Writers \ {w} : pc'[v] = pc[v] /\ pc[v] \notin LockedLines
  BY <1>1, WlockAlone DEF Alone, Procs, LockedLines
<1>3. WlockOwner'
  BY <1>1, <1>2 DEF IInv, WlockOwner, LockedLines
<1>4. Counted' = Counted BY <1>1, <1>2 DEF Counted
<1>5. CounterOK'
  BY <1>1, <1>2, <1>4 DEF IInv, CounterOK, LockedLines
<1>6. ~GateHeld BY <1>1, <1>2 DEF GateHeld, LockedLines
<1>7. rmtx' + In(GateHeld') <= rmtx + In(GateHeld)
  BY <1>1, <1>6 DEF In, IInv, Types
<1> QED BY <1>3, <1>5, <1>7, GateStep

\* --writers under wlock: the last writer keeps the gate until its post.
LEMMA DecIInv ==
  ASSUME IInv, Types', NEW w \in Writers, Alone(w), DecWriters(w)
  PROVE  WlockOwner' /\ CounterOK' /\ RmtxIsOne'
<1>1. /\ pc[w] = "dec" /\ writers' = writers - 1 /\ wlock' = wlock /\ rmtx' = rmtx
      /\ pc'[w] = IF writers - 1 = 0 THEN "post_rmtx" ELSE "unlock_leave"
  BY DEF DecWriters, At, Goto, IInv, Types, PcType, Procs
<1>2. \A v \in Writers \ {w} : pc'[v] = pc[v] /\ pc[v] \notin LockedLines
  BY <1>1, WlockAlone DEF Alone, Procs, LockedLines
<1>3. WlockOwner'
  BY <1>1, <1>2 DEF IInv, WlockOwner, LockedLines
<1>4. writers = Cardinality(Counted) /\ writers \in Nat
  BY CountedStep DEF IInv, CounterOK
<1>5. Cardinality(Counted') = writers'
  BY <1>1, <1>4, CountedStep DEF CountedLines, In
<1>6. CounterOK'
  BY <1>1, <1>2, <1>4, <1>5 DEF CounterOK, LockedLines
<1>7. GateHeld
  <2>1. \A v \in Writers : pc[v] # "wait_rmtx" BY <1>1, <1>2 DEF LockedLines
  <2>2. w \in Counted BY <1>1 DEF Counted
  <2> QED BY <2>1, <2>2 DEF GateHeld
<1>8. rmtx' + In(GateHeld') <= rmtx + In(GateHeld)
  BY <1>1, <1>7 DEF In, IInv, Types
<1> QED BY <1>3, <1>6, <1>8, GateStep

\* sem_post(rmtx) of the last writer: the gate becomes the semaphore's unit.
LEMMA GateGiven ==
  ASSUME IInv, Types', NEW w \in Writers, Alone(w),
         At(w, "post_rmtx"), PostRmtx(w, "unlock_leave")
  PROVE  WlockOwner' /\ CounterOK' /\ RmtxIsOne'
<1>1. /\ pc[w] = "post_rmtx" /\ pc'[w] = "unlock_leave" /\ writers' = writers
      /\ wlock' = wlock /\ rmtx' = rmtx + 1
  BY DEF PostRmtx, At, Goto, IInv, Types, PcType, Procs
<1>2. \A v \in Writers \ {w} : pc'[v] = pc[v] /\ pc[v] \notin LockedLines
  BY <1>1, WlockAlone DEF Alone, Procs, LockedLines
<1>3. WlockOwner'
  BY <1>1, <1>2 DEF IInv, WlockOwner, LockedLines
<1>4. Counted' = Counted BY <1>1, <1>2 DEF Counted
<1>5. CounterOK'
  BY <1>1, <1>2, <1>4 DEF IInv, CounterOK, LockedLines
<1>6. GateHeld BY <1>1 DEF GateHeld
<1>7. Counted = {}
  BY <1>1, SetsFinite, FS_EmptySet DEF IInv, CounterOK
<1>8. ~GateHeld' BY <1>1, <1>2, <1>4, <1>7 DEF GateHeld, LockedLines
<1>9. rmtx' + In(GateHeld') <= rmtx + In(GateHeld)
  BY <1>1, <1>6, <1>8 DEF In, IInv, Types
<1> QED BY <1>3, <1>5, <1>9, GateStep

\* Every statement of a writer keeps the invariant.
LEMMA WriterIInv ==
  ASSUME IInv, NEW w \in Writers, Cin(w) \/ WriterStep(w)
  PROVE  IInv'
<1>0. w \in Procs /\ w # NoProc BY SharedMemAssumption DEF Procs
<1>1. Types /\ Types' BY WriterType DEF IInv
<1>2. Alone(w) /\ wmtx' + In(w \in WmtxHolders') <= wmtx + In(w \in WmtxHolders)
  BY <1>1, WriterEffect
<1>3. WmtxIsOne' BY <1>0, <1>1, <1>2, WmtxStep
<1>4. ASSUME pc[w] \notin LockedLines, pc'[w] \notin LockedLines, wlock' = wlock,
             pc[w] \in CountedLines <=> pc'[w] \in CountedLines,
             writers' = writers, rmtx' = rmtx
      PROVE  WlockOwner' /\ CounterOK' /\ RmtxIsOne'
  <2>1. CounterOK' /\ RmtxIsOne'
    BY <1>1, <1>2, <1>4, NeutralStep DEF LockedLines
  <2>2. WlockOwner'
    BY <1>2, <1>4 DEF IInv, WlockOwner, LockedLines, Alone, Procs
  <2> QED BY <2>1, <2>2
<1>5. ASSUME NEW to \in {"inc", "dec"}, NEW asleep \in {"asleep_enter", "asleep_leave"},
             pc[w] \in {"lock_enter", "lock_leave"}, LockW(w, to, asleep),
             pc[w] = "lock_enter" <=> to = "inc",
             pc[w] = "lock_enter" <=> asleep = "asleep_enter"
      PROVE  WlockOwner' /\ CounterOK' /\ RmtxIsOne'
  <2>0. writers' = writers /\ rmtx' = rmtx BY <1>5 DEF LockW
  <2>1. CASE wlock = NoProc /\ wlock' = w /\ Goto(w, to)
    <3>1. pc'[w] = to BY <1>0, <1>1, <2>1 DEF Goto, Types, PcType
    <3>2. CounterOK' /\ RmtxIsOne'
      BY <1>1, <1>2, <1>5, <2>0, <3>1, NeutralStep DEF CountedLines
    <3>3. \A v \in Writers : pc[v] \notin LockedLines
      BY <2>1, SharedMemAssumption DEF IInv, WlockOwner, LockedLines, Procs
    <3>4. WlockOwner'
      BY <1>2, <2>1, <3>3 DEF WlockOwner, LockedLines, Alone, Procs
    <3> QED BY <3>2, <3>4
  <2>2. CASE Goto(w, asleep) /\ UNCHANGED wlock
    <3>1. pc'[w] = asleep BY <1>0, <1>1, <2>2 DEF Goto, Types, PcType
    <3> QED BY <1>4, <1>5, <2>0, <2>2, <3>1 DEF LockedLines, CountedLines
  <2> QED BY <1>5, <2>1, <2>2 DEF LockW
<1>6. ASSUME NEW to \in {"wait_wmtx", "cin"},
             pc[w] \in {"unlock_enter", "unlock_leave"}, UnlockW(w, to),
             pc[w] = "unlock_enter" <=> to = "wait_wmtx"
      PROVE  WlockOwner' /\ CounterOK' /\ RmtxIsOne'
  <2>1. pc'[w] = to /\ writers' = writers /\ rmtx' = rmtx
    BY <1>0, <1>1, <1>6 DEF UnlockW, Goto, Types, PcType
  <2>2. CounterOK' /\ RmtxIsOne'
    BY <1>1, <1>2, <1>6, <2>1, NeutralStep DEF CountedLines
  <2>3. \A v \in Writers : pc'[v] \notin LockedLines
    BY <1>2, <1>6, <2>1, WlockAlone DEF LockedLines, Alone, Procs
  <2>4. WlockOwner' BY <2>3 DEF WlockOwner, LockedLines
  <2> QED BY <2>2, <2>4
<1>7. WlockOwner' /\ CounterOK' /\ RmtxIsOne'
  <2>1. CASE Cin(w)
    BY <1>0, <1>1, <1>4, <2>1 DEF Cin, At, Goto, Types, PcType, LockedLines, CountedLines
  <2>2. CASE WillWrite(w)
    <3>1. CASE At(w, "lock_enter") /\ LockW(w, "inc", "asleep_enter")
      BY <1>5, <3>1 DEF At
    <3>2. CASE IncWriters(w) BY <1>1, <1>2, <3>2, IncIInv
    <3>3. CASE At(w, "wait_rmtx") /\ WaitRmtx(w, "unlock_enter")
      BY <1>1, <1>2, <3>3, GateTaken
    <3>4. CASE At(w, "unlock_enter") /\ UnlockW(w, "wait_wmtx")
      BY <1>6, <3>4 DEF At
    <3>5. CASE At(w, "wait_wmtx") /\ WaitWmtx(w, "write")
      BY <1>0, <1>1, <1>4, <3>5 DEF WaitWmtx, At, Goto, Types, PcType, LockedLines, CountedLines
    <3> QED BY <2>2, <3>1, <3>2, <3>3, <3>4, <3>5 DEF WillWrite
  <2>3. CASE Write(w)
    BY <1>0, <1>1, <1>4, <2>3 DEF Write, At, Goto, Types, PcType, LockedLines, CountedLines
  <2>4. CASE FinishWrite(w)
    <3>1. CASE At(w, "post_wmtx") /\ PostWmtx(w, "lock_leave")
      BY <1>0, <1>1, <1>4, <3>1 DEF PostWmtx, At, Goto, Types, PcType, LockedLines, CountedLines
    <3>2. CASE At(w, "lock_leave") /\ LockW(w, "dec", "asleep_leave")
      BY <1>5, <3>2 DEF At
    <3>3. CASE DecWriters(w) BY <1>1, <1>2, <3>3, DecIInv
    <3>4. CASE At(w, "post_rmtx") /\ PostRmtx(w, "unlock_leave")
      BY <1>1, <1>2, <3>4, GateGiven
    <3>5. CASE At(w, "unlock_leave") /\ UnlockW(w, "cin")
      BY <1>6, <3>5 DEF At
    <3> QED BY <2>4, <3>1, <3>2, <3>3, <3>4, <3>5 DEF FinishWrite
  <2> QED BY <2>1, <2>2, <2>3, <2>4 DEF WriterStep
<1> QED BY <1>1, <1>3, <1>7 DEF IInv

-----------------------------------------------------------------------------
\* create_shmhead establishes the invariant.
LEMMA InitIInv == Init => IInv
<1> SUFFICES ASSUME Init PROVE IInv
  OBVIOUS
<1>1. Types BY InitTypeOK, StartedTypes
<1>2. /\ \A r \in Readers : pc[r] = "wait_rmtx"
      /\ \A w \in Writers : pc[w] = "cin"
  BY SharedMemAssumption DEF Init, Procs
<1>3. WmtxHolders = {} /\ EnteringReaders = {} /\ Counted = {}
  BY <1>2 DEF WmtxHolders, EnteringReaders, Entering, Counted
<1>4. ~GateHeld BY <1>2, <1>3 DEF GateHeld
<1>5. WmtxIsOne /\ RmtxIsOne
  BY <1>3, <1>4, FS_EmptySet DEF Init, WmtxIsOne, RmtxIsOne
<1>6. WlockOwner /\ CounterOK
  BY <1>2, <1>3, FS_EmptySet DEF Init, WlockOwner, CounterOK
<1> QED BY <1>1, <1>5, <1>6 DEF IInv

\* Every step keeps the invariant.
LEMMA NextIInv == IInv /\ [Next]_vars => IInv'
<1> SUFFICES ASSUME IInv, [Next]_vars PROVE IInv'
  OBVIOUS
<1>1. CASE UNCHANGED vars
  <2>1. /\ WmtxHolders' = WmtxHolders /\ EnteringReaders' = EnteringReaders
        /\ Counted' = Counted /\ (GateHeld' <=> GateHeld)
    BY <1>1 DEF vars, WmtxHolders, EnteringReaders, Entering, Counted, GateHeld
  <2>2. Types' BY <1>1 DEF IInv, Types, vars
  <2>3. WmtxIsOne' /\ RmtxIsOne'
    BY <1>1, <2>1 DEF IInv, WmtxIsOne, RmtxIsOne, vars
  <2>4. WlockOwner' /\ CounterOK'
    BY <1>1, <2>1 DEF IInv, WlockOwner, CounterOK, vars
  <2> QED BY <2>2, <2>3, <2>4 DEF IInv
<1> QED BY <1>1, ReaderIInv, WriterIInv DEF Next

\* The inductive invariant holds in every reachable state.
THEOREM Invariance == Spec => []IInv
  BY InitIInv, NextIInv, PTL DEF Spec

\* Two processes at their accesses would both hold the one unit of wmtx.
LEMMA WmtxExcludes == IInv => Exclusive
<1> SUFFICES ASSUME IInv, NEW p \in Procs, NEW q \in Procs, Accessing(p), Accessing(q)
             PROVE  p = q
  BY DEF Exclusive
<1>1. p \in WmtxHolders /\ q \in WmtxHolders
  BY DEF WmtxHolders, Accessing, IInv, Types, PcType, Procs, ReaderLines, WriterLines,
         ReaderStart, WriterStart, InitLines
<1>2. Cardinality(WmtxHolders) \in Nat /\ wmtx \in Nat
  BY SetsFinite, FS_CardinalityType DEF IInv, Types
<1>3. Cardinality(WmtxHolders) <= 1 BY <1>2 DEF IInv, WmtxIsOne
<1> QED BY <1>1, <1>3, SetsFinite, AtMostOne

\* will_read and will_write: no two processes access the shared int together.
THEOREM Exclusion == Spec => []Exclusive
  BY Invariance, WmtxExcludes, PTL

\* A writer on stage means that the writers have the gate.
LEMMA StageHoldsGate ==
  ASSUME IInv, NEW w \in Writers, OnStage(w)
  PROVE  GateHeld
<1>1. CASE pc[w] = "post_rmtx" BY <1>1 DEF GateHeld
<1>2. CASE pc[w] # "post_rmtx"
  <2>1. w \in Counted BY <1>2 DEF OnStage, Counted
  <2>2. ASSUME NEW v \in Writers, pc[v] = "wait_rmtx" PROVE FALSE
    <3>1. v \in Counted /\ v # w BY <2>2 DEF Counted, OnStage
    <3>2. Cardinality(Counted) = 1 BY <2>2 DEF IInv, CounterOK
    <3> QED BY <2>1, <3>1, <3>2, SetsFinite, AtMostOne
  <2> QED BY <2>1, <2>2 DEF GateHeld
<1> QED BY <1>1, <1>2

\* With the gate held there is no unit of rmtx for a reader.
LEMMA GateShutsReadersOut == IInv => WritersShutReadersOut
<1> SUFFICES ASSUME IInv, NEW w \in Writers, NEW r \in Readers, OnStage(w), Entering(r)
             PROVE  FALSE
  BY DEF WritersShutReadersOut
<1>1. GateHeld BY StageHoldsGate
<1>2. r \in EnteringReaders BY DEF EnteringReaders
<1>3. Cardinality(EnteringReaders) \in Nat \ {0} /\ rmtx \in Nat
  BY <1>2, SetsFinite, FS_CardinalityType, FS_EmptySet DEF IInv, Types
<1>4. rmtx + Cardinality(EnteringReaders) + 1 <= 1 BY <1>1 DEF IInv, RmtxIsOne
<1> QED BY <1>3, <1>4

\* SharedMeM.c's promise: while a writer is on stage no reader gets in, however
\* many writers share the gate.
THEOREM WritersFirst == Spec => []WritersShutReadersOut
  BY Invariance, GateShutsReadersOut, PTL

-----------------------------------------------------------------------------
(***************************************************************************)
(* The start: shm_init beside processes that are already running.          *)
(***************************************************************************)
\* Until a writer has initialised wmtx it has no unit: no reader gets past its wait
\* in will_read, and no writer has left shm_init.
BeforeGate ==
  seg # "gated" =>
    /\ wmtx = 0
    /\ \A r \in Readers : pc[r] \in ReaderStart \cup {"wait_rmtx", "inc_load", "inc_store",
                                                      "wait_wmtx"}
    /\ \A w \in Writers : pc[w] \in {"ftruncate", "init_rlock", "init_wlock", "init_rmtx",
                                     "init_wmtx"}

\* The guarantees of the running processes hold unless shm_init met one in its round.
StartIInv == Types /\ BeforeGate /\ clobbered \in BOOLEAN /\ (~clobbered => IInv)

\* Nobody is between will_* and finish_*, or is waiting there.
Still ==
  /\ \A r \in Readers : pc[r] \in ReaderStart \cup {"wait_rmtx"}
  /\ \A w \in Writers : pc[w] \in WriterStart \cup {"cin", "lock_enter", "asleep_enter"}

\* Then nobody holds anything.
LEMMA StillSets ==
  ASSUME Still
  PROVE  /\ WmtxHolders = {} /\ EnteringReaders = {} /\ Counted = {} /\ ~GateHeld
         /\ \A w \in Writers : pc[w] \notin LockedLines
<1> USE DEF Still, ReaderStart, WriterStart, InitLines
<1>1. WmtxHolders = {} /\ EnteringReaders = {} BY DEF WmtxHolders, EnteringReaders, Entering
<1>2. Counted = {} BY DEF Counted
<1>3. \A w \in Writers : pc[w] \notin LockedLines BY DEF LockedLines
<1>4. ~GateHeld BY <1>2, <1>3 DEF GateHeld, LockedLines
<1> QED BY <1>1, <1>2, <1>3, <1>4

\* While nobody is engaged everybody is still.
LEMMA IdleIsStill ==
  ASSUME Types, \A p \in Procs : ~Engaged(p)
  PROVE  Still
<1>1. ASSUME NEW r \in Readers PROVE pc[r] \in ReaderStart \cup {"wait_rmtx"}
  BY SharedMemAssumption
  DEF Engaged, At, Types, PcType, Procs, ReaderLines, ReaderStart, InitLines
<1>2. ASSUME NEW w \in Writers PROVE pc[w] \in WriterStart \cup {"cin", "lock_enter", "asleep_enter"}
  BY SharedMemAssumption
  DEF Engaged, At, Types, PcType, Procs, WriterLines, WriterStart, InitLines
<1> QED BY <1>1, <1>2 DEF Still

\* In a still state the invariant says that the semaphores have one unit at most and
\* that no writer is counted.
LEMMA StillValues ==
  ASSUME IInv, Still
  PROVE  rmtx <= 1 /\ wmtx <= 1 /\ writers = 0
<1>1. wmtx \in Nat /\ rmtx \in Nat BY DEF IInv, Types
<1>2. wmtx + 0 <= 1 /\ writers = 0
  BY StillSets, FS_EmptySet DEF IInv, WmtxIsOne, CounterOK
<1>3. rmtx + 0 + 0 <= 1 BY StillSets, FS_EmptySet DEF IInv, RmtxIsOne
<1> QED BY <1>1, <1>2, <1>3

\* ... and nothing else, whoever owns the mutexes.
LEMMA StillIInv == Types /\ Still /\ rmtx <= 1 /\ wmtx <= 1 /\ writers = 0 => IInv
<1> SUFFICES ASSUME Types, Still, rmtx <= 1, wmtx <= 1, writers = 0 PROVE IInv
  OBVIOUS
<1>0. wmtx \in Nat /\ rmtx \in Nat BY DEF Types
<1>1. WmtxIsOne BY <1>0, StillSets, FS_EmptySet DEF WmtxIsOne
<1>2. RmtxIsOne BY <1>0, StillSets, FS_EmptySet DEF RmtxIsOne
<1>3. WlockOwner /\ CounterOK
  BY StillSets, FS_EmptySet DEF WlockOwner, CounterOK, LockedLines
<1> QED BY <1>1, <1>2, <1>3 DEF IInv

\* The processes that are not yet using the segment change nothing of it.
LEMMA StartingIInv ==
  ASSUME IInv, Types', NEW p \in Procs, Alone(p),
         UNCHANGED <<rlock, wlock, rmtx, wmtx, readers, writers>>,
         \/ p \in Readers /\ pc[p] \in {"open", "wait_rmtx"} /\ pc'[p] \in {"wait_rmtx", "killed"}
         \/ p \in Writers /\ pc[p] = "ftruncate" /\ pc'[p] = "init_rlock"
  PROVE  IInv'
<1>1. Readers \cap Writers = {} BY SharedMemAssumption
<1>2. WmtxHolders' = WmtxHolders BY <1>1 DEF WmtxHolders, Alone, Procs
<1>3. EnteringReaders' = EnteringReaders BY <1>1 DEF EnteringReaders, Entering, Alone, Procs
<1>4. Counted' = Counted BY <1>1 DEF Counted, Alone, Procs
<1>5. \A w \in Writers : pc'[w] = pc[w] \/ (pc[w] = "ftruncate" /\ pc'[w] = "init_rlock")
  BY <1>1 DEF Alone, Procs
<1>6. GateHeld' <=> GateHeld BY <1>4, <1>5 DEF GateHeld
<1>7. WmtxIsOne' /\ RmtxIsOne' BY <1>2, <1>3, <1>6 DEF IInv, WmtxIsOne, RmtxIsOne
<1>8. WlockOwner' /\ CounterOK' BY <1>4, <1>5 DEF IInv, WlockOwner, CounterOK
<1> QED BY <1>7, <1>8 DEF IInv

\* Open and Bus.
LEMMA OpenBusIInv ==
  ASSUME StartIInv, NEW r \in Readers, Open(r) \/ Bus(r)
  PROVE  StartIInv'
<1>0. r \in Procs BY DEF Procs
<1>1. /\ UNCHANGED <<rlock, wlock, rmtx, wmtx, readers, writers, pint, data, shown, tmp,
                     seg, clobbered>>
      /\ pc[r] \in {"open", "wait_rmtx"}
      /\ pc' = [pc EXCEPT ![r] = "wait_rmtx"] \/ pc' = [pc EXCEPT ![r] = "killed"]
  BY DEF Open, Bus, At, Goto
<1>2. pc \in [Procs -> ReaderLines \cup WriterLines \cup ReaderStart \cup WriterStart]
  BY DEF StartIInv, Types, PcType
<1>3. Alone(r) /\ pc'[r] \in {"wait_rmtx", "killed"} BY <1>0, <1>1, <1>2 DEF Alone
<1>4. Types'
  <2>1. PcType(pc') BY <1>0, <1>1, SharedMemAssumption
    DEF StartIInv, Types, PcType, Procs, ReaderLines, ReaderStart
  <2> QED BY <1>1, <2>1 DEF StartIInv, Types
<1>5. BeforeGate'
  BY <1>1, <1>3, SharedMemAssumption DEF StartIInv, BeforeGate, Alone, Procs, ReaderStart
<1>6. ASSUME ~clobbered PROVE IInv'
  BY <1>0, <1>1, <1>3, <1>4, <1>6, StartingIInv DEF StartIInv
<1> QED BY <1>1, <1>4, <1>5, <1>6 DEF StartIInv

\* create_shm.
LEMMA FtruncateIInv ==
  ASSUME StartIInv, NEW w \in Writers, Ftruncate(w)
  PROVE  StartIInv'
<1>0. w \in Procs BY DEF Procs
<1>1. /\ UNCHANGED <<rlock, wlock, rmtx, wmtx, readers, writers, pint, data, shown, tmp,
                     clobbered>>
      /\ pc[w] = "ftruncate" /\ pc' = [pc EXCEPT ![w] = "init_rlock"]
      /\ seg' = IF seg = "empty" THEN "zero" ELSE seg
  BY DEF Ftruncate, At, Goto
<1>2. pc \in [Procs -> ReaderLines \cup WriterLines \cup ReaderStart \cup WriterStart]
  BY DEF StartIInv, Types, PcType
<1>3. Alone(w) /\ pc'[w] = "init_rlock" BY <1>0, <1>1, <1>2 DEF Alone
<1>4. Types'
  <2>1. PcType(pc') BY <1>0, <1>1, SharedMemAssumption
    DEF StartIInv, Types, PcType, Procs, WriterStart, InitLines
  <2> QED BY <1>1, <2>1 DEF StartIInv, Types
<1>5. BeforeGate'
  BY <1>1, <1>3, SharedMemAssumption DEF StartIInv, BeforeGate, Alone, Procs
<1>6. ASSUME ~clobbered PROVE IInv'
  BY <1>0, <1>1, <1>3, <1>4, <1>6, StartingIInv DEF StartIInv
<1> QED BY <1>1, <1>4, <1>5, <1>6 DEF StartIInv

\* create_shmhead, statement by statement: it keeps the guarantees if everybody is still.
LEMMA CreateIInv ==
  ASSUME StartIInv, NEW w \in Writers, CreateShmhead(w)
  PROVE  StartIInv'
<1>0. w \in Procs /\ w \notin Readers BY SharedMemAssumption DEF Procs
<1> DEFINE Moves(from, to) == pc[w] = from /\ pc'[w] = to
<1>1. pc \in [Procs -> ReaderLines \cup WriterLines \cup ReaderStart \cup WriterStart]
  BY DEF StartIInv, Types, PcType
<1>2. /\ DOMAIN pc' = Procs
      /\ \A p \in Procs \ {w} : \/ pc'[p] = pc[p]
                                \/ pc[p] \in {"wait_rmtx", "wait_wmtx"} /\ pc'[p] = "asleep_sem"
      /\ \/ Moves("init_rlock", "init_wlock") \/ Moves("init_wlock", "init_rmtx")
         \/ Moves("init_rmtx", "init_wmtx") \/ (Moves("init_wmtx", "init_writers") /\ seg' = "gated")
         \/ Moves("init_writers", "init_readers") \/ Moves("init_readers", "cin")
      /\ pc' = [p \in Procs |-> pc'[p]]
  <2>1. ASSUME NEW l, pc' = [pc EXCEPT ![w] = l]
        PROVE  /\ DOMAIN pc' = Procs /\ pc'[w] = l /\ \A p \in Procs \ {w} : pc'[p] = pc[p]
               /\ pc' = [p \in Procs |-> pc'[p]]
    BY <1>0, <1>1, <2>1
  <2>2. ASSUME NEW l, NEW from \in {"wait_rmtx", "wait_wmtx"}, NEW sem, Forgets(w, from, sem, l),
               pc[w] # from
        PROVE  /\ DOMAIN pc' = Procs /\ pc'[w] = l
               /\ \A p \in Procs \ {w} : pc'[p] = pc[p] \/ (pc[p] = from /\ pc'[p] = "asleep_sem")
               /\ pc' = [p \in Procs |-> pc'[p]]
    <3>1. PICK S \in SUBSET {p \in Procs : sem = 0 /\ At(p, from)} :
            pc' = [p \in Procs |-> CASE p = w -> l [] p \in S -> "asleep_sem" [] OTHER -> pc[p]]
      BY <2>2 DEF Forgets
    <3> DEFINE Line(p) == CASE p = w -> l [] p \in S -> "asleep_sem" [] OTHER -> pc[p]
    <3>2. DOMAIN pc' = Procs /\ pc'[w] = l /\ pc' = [p \in Procs |-> pc'[p]]
      <4>1. Line(w) = l
        <5>1. w \notin S BY <2>2, <3>1 DEF At
        <5> QED BY <5>1
      <4> HIDE DEF Line
      <4>2. pc' = [p \in Procs |-> Line(p)] BY <3>1 DEF Line
      <4> QED BY <1>0, <4>1, <4>2
    <3>3. ASSUME NEW p \in Procs \ {w}
          PROVE  pc'[p] = pc[p] \/ (pc[p] = from /\ pc'[p] = "asleep_sem")
      BY <3>1 DEF At
    <3> QED BY <3>2, <3>3
  <2>3. CASE InitLocks(w) BY <2>1, <2>3 DEF InitLocks, At, Goto
  <2>4. CASE InitSems(w)
    <3>1. CASE At(w, "init_rmtx") /\ Forgets(w, "wait_rmtx", rmtx, "init_wmtx")
      <4>1. /\ DOMAIN pc' = Procs /\ pc'[w] = "init_wmtx" /\ pc' = [p \in Procs |-> pc'[p]]
            /\ \A p \in Procs \ {w} : pc'[p] = pc[p] \/ (pc[p] = "wait_rmtx" /\ pc'[p] = "asleep_sem")
        BY <2>2, <3>1 DEF At
      <4> QED BY <3>1, <4>1 DEF At
    <3>2. CASE At(w, "init_wmtx") /\ Forgets(w, "wait_wmtx", wmtx, "init_writers") /\ seg' = "gated"
      <4>1. /\ DOMAIN pc' = Procs /\ pc'[w] = "init_writers" /\ pc' = [p \in Procs |-> pc'[p]]
            /\ \A p \in Procs \ {w} : pc'[p] = pc[p] \/ (pc[p] = "wait_wmtx" /\ pc'[p] = "asleep_sem")
        BY <2>2, <3>2 DEF At
      <4> QED BY <3>2, <4>1 DEF At
    <3> QED BY <2>4, <3>1, <3>2 DEF InitSems
  <2>5. CASE InitCounters(w) BY <2>1, <2>5 DEF InitCounters, At, Goto
  <2> QED BY <2>3, <2>4, <2>5 DEF CreateShmhead
<1>3. /\ UNCHANGED <<pint, data, shown, tmp>>
      /\ rlock' \in {rlock, NoProc} /\ wlock' \in {wlock, NoProc}
      /\ rmtx' \in {rmtx, 1} /\ readers' \in {readers, 0} /\ writers' \in {writers, 0}
      /\ wmtx' = wmtx \/ (wmtx' = 1 /\ seg' = "gated")
      /\ seg' = seg \/ seg' = "gated"
      /\ Clobber
  BY DEF CreateShmhead, InitLocks, InitSems, InitCounters, InitialWriters
<1>4. pc[w] \in InitLines /\ pc'[w] \in InitLines \cup {"cin"} BY <1>2 DEF InitLines
<1>5. \A r \in Readers : pc'[r] = pc[r] \/ pc'[r] = "asleep_sem" BY <1>0, <1>2 DEF Procs
<1>6. \A v \in Writers : \/ v = w \/ pc'[v] = pc[v]
                         \/ pc[v] \in {"wait_rmtx", "wait_wmtx"} /\ pc'[v] = "asleep_sem"
  BY <1>2 DEF Procs
<1>7. Types'
  <2>1. \A r \in Readers : pc'[r] \in ReaderLines \cup ReaderStart
    BY <1>5 DEF StartIInv, Types, PcType, ReaderStart
  <2>2. \A v \in Writers : pc'[v] \in WriterLines \cup WriterStart
    BY <1>4, <1>6 DEF StartIInv, Types, PcType, WriterStart, WriterLines
  <2>3. PcType(pc') BY <1>2, <2>1, <2>2 DEF PcType, Procs
  <2>4. rmtx' \in Nat /\ wmtx' \in Nat /\ readers' \in Int /\ writers' \in Int
    BY <1>3 DEF StartIInv, Types
  <2> QED BY <1>3, <2>3, <2>4 DEF StartIInv, Types
<1>8. BeforeGate'
  <2> SUFFICES ASSUME seg' # "gated"
               PROVE  /\ wmtx' = 0
                      /\ \A r \in Readers : pc'[r] \in ReaderStart \cup {"wait_rmtx", "inc_load",
                                                         "inc_store", "wait_wmtx"}
                      /\ \A v \in Writers : pc'[v] \in {"ftruncate", "init_rlock", "init_wlock",
                                                         "init_rmtx", "init_wmtx"}
    BY DEF BeforeGate
  <2>1. seg # "gated" /\ wmtx' = wmtx BY <1>3
  <2>2. pc'[w] \in {"init_rlock", "init_wlock", "init_rmtx", "init_wmtx"}
    BY <1>2, <2>1 DEF StartIInv, BeforeGate
  <2> QED BY <1>5, <1>6, <2>1, <2>2 DEF StartIInv, BeforeGate, ReaderStart
<1>9. clobbered' \in BOOLEAN BY <1>3 DEF Clobber, StartIInv
<1>10. ASSUME ~clobbered' PROVE IInv'
  <2>1. ~clobbered /\ \A p \in Procs : ~Engaged(p) BY <1>3, <1>10 DEF Clobber
  <2>2. IInv /\ Still BY <2>1, IdleIsStill DEF StartIInv
  <2>3. rmtx <= 1 /\ wmtx <= 1 /\ writers = 0 BY <2>2, StillValues
  <2>4. Still'
    BY <1>4, <1>5, <1>6, <2>2 DEF Still, ReaderStart, WriterStart
  <2>5. rmtx' <= 1 /\ wmtx' <= 1 /\ writers' = 0 BY <1>3, <2>3
  <2>6. (Types /\ Still /\ rmtx <= 1 /\ wmtx <= 1 /\ writers = 0 => IInv)'
    BY StillIInv, PTL
  <2> QED BY <1>7, <2>4, <2>5, <2>6
<1> QED BY <1>7, <1>8, <1>9, <1>10 DEF StartIInv

\* The processes that already run, next to those being started.
LEMMA RunningIInv ==
  ASSUME StartIInv, [Next]_vars, UNCHANGED <<seg, clobbered>>
  PROVE  StartIInv'
<1>1. Types' BY NextTypes DEF StartIInv
<1>2. ~clobbered' => IInv' BY NextIInv DEF StartIInv
<1>3. BeforeGate'
  <2> SUFFICES ASSUME seg # "gated" PROVE BeforeGate'
    BY DEF BeforeGate
  <2> USE DEF StartIInv, BeforeGate
  <2>0. wmtx = 0 OBVIOUS
  <2>1. CASE UNCHANGED vars BY <2>1 DEF vars
  <2>2. ASSUME NEW w \in Writers, Cin(w) \/ WriterStep(w) PROVE FALSE
    BY <2>2 DEF Cin, WriterStep, WillWrite, IncWriters, Write, FinishWrite, DecWriters, At
  <2>3. ASSUME NEW r \in Readers, ReaderStep(r) PROVE BeforeGate'
    <3>0. r \in Procs /\ r \notin Writers BY SharedMemAssumption DEF Procs
    <3>1. pc[r] \in {"wait_rmtx", "inc_load", "inc_store"} /\ wmtx' = wmtx
      BY <2>0, <2>3 DEF ReaderStep, WillRead, Read, FinishRead, TestReaders, At, ReaderStart,
           WaitRmtx, LoadReaders, StoreReaders, WaitWmtx
    <3>2. Goto(r, "inc_load") \/ Goto(r, "inc_store") \/ Goto(r, "wait_wmtx")
      BY <2>3, <3>1 DEF ReaderStep, WillRead, Read, FinishRead, TestReaders, At,
           WaitRmtx, LoadReaders, StoreReaders
    <3>3. Alone(r) /\ pc'[r] \in {"inc_load", "inc_store", "wait_wmtx"}
      BY <3>0, <3>2 DEF Goto, Alone, Types, PcType
    <3> QED BY <3>0, <3>1, <3>3 DEF Alone, Procs
  <2> QED BY <2>1, <2>2, <2>3 DEF Next
<1> QED BY <1>1, <1>2, <1>3 DEF StartIInv

\* On an empty segment everybody is still, and no semaphore has a unit.
LEMMA StartInitIInv == StartInit => StartIInv
<1> SUFFICES ASSUME StartInit PROVE StartIInv
  OBVIOUS
<1>1. /\ \A r \in Readers : pc[r] = "open"
      /\ \A w \in Writers : pc[w] = "ftruncate"
  BY SharedMemAssumption DEF StartInit, Procs
<1>2. Types
  <2>1. PcType(pc)
    BY <1>1 DEF StartInit, PcType, Procs, ReaderStart, WriterStart, InitLines
  <2> QED BY <2>1 DEF StartInit, Types
<1>3. Still BY <1>1 DEF Still, ReaderStart, WriterStart, InitLines
<1>4. IInv BY <1>2, <1>3, StillIInv DEF StartInit
<1>5. BeforeGate BY <1>1 DEF BeforeGate, StartInit, ReaderStart
<1> QED BY <1>2, <1>4, <1>5 DEF StartIInv, StartInit

\* Every step of the start keeps its invariant.
LEMMA StartNextIInv == StartIInv /\ [StartNext]_startVars => StartIInv'
<1> SUFFICES ASSUME StartIInv, [StartNext]_startVars PROVE StartIInv'
  OBVIOUS
<1>1. CASE Next /\ UNCHANGED <<seg, clobbered>> BY <1>1, RunningIInv
<1>2. CASE UNCHANGED startVars BY <1>2, RunningIInv DEF startVars
<1> QED BY <1>1, <1>2, OpenBusIInv, FtruncateIInv, CreateIInv DEF StartNext

\* The invariant of the start holds in every state.
LEMMA StartInvariance == StartSpec => []StartIInv
  BY StartInitIInv, StartNextIInv, PTL DEF StartSpec

\* In whatever order processes are started, nobody reads or writes the shared int before
\* a writer has initialised both semaphores.
THEOREM InitComesFirst == StartSpec => []NoReadBeforeInit
<1>1. StartIInv => NoReadBeforeInit
  BY SharedMemAssumption
  DEF StartIInv, BeforeGate, NoReadBeforeInit, Accessing, Procs, ReaderStart
<1> QED BY <1>1, StartInvariance, PTL

\* Writers may be started at any time between two rounds of the others: exclusion and the
\* writers' gate are lost only if shm_init runs while another process is in its round.
THEOREM InitIsHarmless == StartSpec => []IdleInitHarmless
<1>1. StartIInv => IdleInitHarmless
  BY WmtxExcludes, GateShutsReadersOut DEF StartIInv, IdleInitHarmless
<1> QED BY <1>1, StartInvariance, PTL
=============================================================================
