---------------------------- MODULE ProComProofs ----------------------------
(***************************************************************************)
(* Proofs about ProCom and ProComRestart, for any number of producers and  *)
(* consumers and any buffer size.                                          *)
(***************************************************************************)
EXTENDS ProComRestart, Counting, FiniteSetTheorems, SequenceTheorems, TLAPS

-----------------------------------------------------------------------------
(***************************************************************************)
(* Type correctness.  That the scripts never write a negative number is    *)
(* part of it and rests on _sem_wait_'s test alone.                        *)
(***************************************************************************)

\* The types of ProCom's variables, with the scripts of ProComRestart that do not
\* run among the others.
Types ==
  /\ sem \in [Sems -> Nat]
  /\ flock4 \in Procs \cup {NoProc}
  /\ buffer \in Seq(Producers)
  /\ stage \in [Procs -> ProducerStages \cup ConsumerStages \cup {"off"}]
  /\ \A p \in Producers : stage[p] \in ProducerStages \cup {"off"}
  /\ \A c \in Consumers : stage[c] \in ConsumerStages \cup {"off"}
  /\ line \in [Procs -> {"flock", "cat", "echo", "unlock"}]
  /\ sem_val \in [Procs -> Nat]
  /\ result \in [Consumers -> Producers \cup {NoItem}]
  /\ temp \in [Consumers -> Seq(Producers)]
  /\ eaten \in [Consumers -> Producers \cup {NoItem}]

\* In ProCom itself every script runs for ever.
Running == \A p \in Procs : stage[p] # "off"

\* The inductive invariant of the scripts, whoever of them runs.
IInv == Types /\ LockOwner /\ NoLostUpdate /\ Accounting /\ DeletesHead

\* ProCom starts in a state of the right types.
LEMMA InitTypes == Init => Types /\ Running
  BY ProComAssumption
  DEF Init, Types, Running, InitSems, Sems, FirstStage, ProducerStages, ConsumerStages, Procs

\* The commands of produce() follow each other.
LEMMA ProduceStages ==
  \A st \in ProducerStages \cup {"off"} : ProduceNext(st) \in ProducerStages
  BY DEF ProduceNext, ProducerStages

\* The commands of comsume() follow each other.
LEMMA ComsumeStages ==
  \A st \in ConsumerStages \cup {"off"} : ComsumeNext(st) \in ConsumerStages
  BY DEF ComsumeNext, ConsumerStages

\* What Advance does to the types of the stages.
LEMMA AdvanceType ==
  ASSUME Types, NEW p \in Procs, Advance(p)
  PROVE  /\ stage' \in [Procs -> ProducerStages \cup ConsumerStages \cup {"off"}]
         /\ \A q \in Producers : stage'[q] \in ProducerStages \cup {"off"}
         /\ \A c \in Consumers : stage'[c] \in ConsumerStages \cup {"off"}
  BY ProduceStages, ComsumeStages, ProComAssumption DEF Types, Advance, NextStage, Procs

\* A helper is called with one of the three semaphore files.
LEMMA SemOfType == \A st : SemOf(st) \in Sems
  BY DEF SemOf, Sems

\* Every step of a helper keeps the types.
LEMMA HelperType ==
  ASSUME Types, NEW p \in Procs, HelperStep(p)
  PROVE  Types'
<1> USE DEF Types, bufVars
<1>1. CASE Flock(p) BY <1>1 DEF Flock
<1>2. CASE Cat(p) BY <1>2, SemOfType DEF Cat
<1>3. CASE WaitTake(p)
  <2>1. sem_val[p] - 1 \in Nat BY <1>3 DEF WaitTake
  <2> QED BY <1>3, <2>1, SemOfType DEF WaitTake
<1>4. CASE WaitRetry(p) BY <1>4 DEF WaitRetry
<1>5. CASE PostAdd(p) BY <1>5, SemOfType DEF PostAdd
<1> QED BY <1>1, <1>2, <1>3, <1>4, <1>5 DEF HelperStep

\* The end of a helper, and the step of its script to the next command.
LEMMA UnlockType ==
  ASSUME Types, NEW p \in Procs, Unlock(p)
  PROVE  Types'
<1>1. Release(p) /\ Advance(p) BY DEF Unlock
<1> QED BY <1>1, AdvanceType DEF Release, Types, bufVars

\* Every step of a producer or a consumer keeps the types.
LEMMA NextTypes == Types /\ [Next]_vars => Types'
<1> SUFFICES ASSUME Types, [Next]_vars PROVE Types'
  OBVIOUS
<1>1. ASSUME NEW p \in Producers, Produce(p) PROVE Types'
  <2>0. p \in Procs BY DEF Procs
  <2>1. CASE HelperStep(p) BY <2>0, <2>1, HelperType
  <2>2. CASE Unlock(p) BY <2>0, <2>2, UnlockType
  <2>3. CASE AppendItem(p)
    BY <2>0, <2>3, AdvanceType DEF AppendItem, Types, helperVars
  <2> QED BY <1>1, <2>1, <2>2, <2>3 DEF Produce
<1>2. ASSUME NEW c \in Consumers, Comsume(c) PROVE Types'
  <2>0. c \in Procs BY DEF Procs
  <2>1. CASE HelperStep(c) BY <2>0, <2>1, HelperType
  <2>2. CASE Unlock(c) BY <2>0, <2>2, UnlockType
  <2>3. CASE SedPrint(c)
    <3>1. buffer # <<>> => Head(buffer) \in Producers BY DEF Types
    <3> QED BY <2>0, <2>3, <3>1, AdvanceType DEF SedPrint, Types, helperVars
  <2>4. CASE SedCopy(c)
    <3>1. buffer # <<>> => Tail(buffer) \in Seq(Producers) BY DEF Types
    <3> QED BY <2>0, <2>4, <3>1, AdvanceType DEF SedCopy, Types, helperVars
  <2>5. CASE SedRename(c)
    BY <2>0, <2>5, AdvanceType DEF SedRename, Rename, Types, helperVars
  <2>6. CASE EchoEat(c)
    BY <2>0, <2>6, AdvanceType DEF EchoEat, Types, helperVars
  <2> QED BY <1>2, <2>1, <2>2, <2>3, <2>4, <2>5, <2>6 DEF Comsume
<1>3. CASE UNCHANGED vars BY <1>3 DEF vars, Types
<1> QED BY <1>1, <1>2, <1>3 DEF Next

\* No script stops.
LEMMA NextRunning == Types /\ Running /\ [Next]_vars => Running'
<1> SUFFICES ASSUME Types, Running, [Next]_vars PROVE Running'
  OBVIOUS
<1>1. ASSUME NEW p \in Procs, Advance(p) PROVE Running'
  <2>1. stage'[p] # "off"
    BY <1>1, ProduceStages, ComsumeStages
    DEF Types, Advance, NextStage, Procs, ProducerStages, ConsumerStages
  <2> QED BY <1>1, <2>1 DEF Types, Running, Advance
<1>2. ASSUME stage' = stage PROVE Running'
  BY <1>2 DEF Running
<1> QED
  BY <1>1, <1>2 DEF Next, Procs, Produce, Comsume, HelperStep, Flock, Cat, WaitTake, WaitRetry,
     PostAdd, Unlock, AppendItem, SedPrint, SedCopy, SedRename, EchoEat, vars

\* The scripts and helpers of pro_com keep every file and variable in its type:
\* in particular no semaphore file ever holds a negative number.
THEOREM TypeCorrect == Spec => []TypeOK
<1>1. Types /\ Running => TypeOK
  BY DEF Types, Running, TypeOK, Procs
<1> QED BY <1>1, InitTypes, NextTypes, NextRunning, PTL DEF Spec

-----------------------------------------------------------------------------
(***************************************************************************)
(* Counting who holds what.                                                *)
(***************************************************************************)
\* There are finitely many scripts, so the sets of holders are finite.
LEMMA HoldersFinite ==
  IsFiniteSet(FreeHolders) /\ IsFiniteSet(UnitHolders) /\ IsFiniteSet(OffTheBooks)
<1>1. IsFiniteSet(Procs) BY ProComAssumption, FS_Union DEF Procs
<1>2. /\ FreeHolders \in SUBSET Procs
      /\ UnitHolders \in SUBSET Procs
      /\ OffTheBooks \in SUBSET Procs
  BY DEF FreeHolders, UnitHolders, OffTheBooks
<1> QED BY <1>1, <1>2, FS_Subset

\* A command of one script leaves the others where they are.
Alone(p) ==
  \A q \in Procs \ {p} : stage'[q] = stage[q] /\ line'[q] = line[q]

\* ... and so changes the sets of holders in at most that script.
LEMMA AloneHolders ==
  ASSUME NEW p \in Procs, Alone(p)
  PROVE  /\ FreeHolders' \ {p} = FreeHolders \ {p}
         /\ UnitHolders' \ {p} = UnitHolders \ {p}
         /\ OffTheBooks' \ {p} = OffTheBooks \ {p}
<1>1. FreeHolders' \ {p} = FreeHolders \ {p}
  BY DEF Alone, FreeHolders, HoldsFree, Holding
<1>2. UnitHolders' \ {p} = UnitHolders \ {p}
  BY DEF Alone, UnitHolders, HoldsUnit, Holding
<1>3. OffTheBooks' \ {p} = OffTheBooks \ {p}
  BY DEF Alone, OffTheBooks, Unannounced, Claiming
<1> QED BY <1>1, <1>2, <1>3

\* What a script has in its hands.
FreeUnits(p) == In(HoldsFree(p))
Units(p) == In(HoldsUnit(p))
Lines(p) == In(Unannounced(p) \/ Claiming(p))

\* A step of p keeps the accounting if it moves units only between the files and
\* p's own hands.
LEMMA Balance ==
  ASSUME Types, Types', Accounting, NEW p \in Procs, Alone(p),
         sem'["free"] + FreeUnits(p)' = sem["free"] + FreeUnits(p),
         sem'["space"] + sem'["data"] + Units(p)' = sem["space"] + sem["data"] + Units(p),
         (Len(buffer') - sem'["data"]) + Lines(p) = (Len(buffer) - sem["data"]) + Lines(p)'
  PROVE  Accounting'
<1> DEFINE cf == Cardinality(FreeHolders)
           cu == Cardinality(UnitHolders)
           co == Cardinality(OffTheBooks)
<1>1. cf \in Nat /\ cf' \in Nat /\ cf' + FreeUnits(p) = cf + FreeUnits(p)'
  <2>1. cf \in Nat /\ cf' \in Nat /\ cf' + In(p \in FreeHolders) = cf + In(p \in FreeHolders')
    BY AloneHolders, HoldersFinite, OneElement
  <2>2. (p \in FreeHolders <=> HoldsFree(p)) /\ (p \in FreeHolders' <=> HoldsFree(p)')
    BY DEF FreeHolders
  <2> QED BY <2>1, <2>2 DEF FreeUnits, In
<1>2. cu \in Nat /\ cu' \in Nat /\ cu' + Units(p) = cu + Units(p)'
  <2>1. cu \in Nat /\ cu' \in Nat /\ cu' + In(p \in UnitHolders) = cu + In(p \in UnitHolders')
    BY AloneHolders, HoldersFinite, OneElement
  <2>2. (p \in UnitHolders <=> HoldsUnit(p)) /\ (p \in UnitHolders' <=> HoldsUnit(p)')
    BY DEF UnitHolders
  <2> QED BY <2>1, <2>2 DEF Units, In
<1>3. co \in Nat /\ co' \in Nat /\ co' + Lines(p) = co + Lines(p)'
  <2>1. co \in Nat /\ co' \in Nat /\ co' + In(p \in OffTheBooks) = co + In(p \in OffTheBooks')
    BY AloneHolders, HoldersFinite, OneElement
  <2>2. /\ p \in OffTheBooks <=> (Unannounced(p) \/ Claiming(p))
        /\ p \in OffTheBooks' <=> (Unannounced(p) \/ Claiming(p))'
    BY DEF OffTheBooks
  <2> QED BY <2>1, <2>2 DEF Lines, In
<1>4. \A s \in Sems : sem[s] \in Nat /\ sem'[s] \in Nat
  BY DEF Types
<1>5. sem["free"] \in Nat /\ sem'["free"] \in Nat BY <1>4 DEF Sems
<1>6. /\ sem["space"] \in Nat /\ sem'["space"] \in Nat
      /\ sem["data"] \in Nat /\ sem'["data"] \in Nat
  BY <1>4 DEF Sems
<1>7. sem'["free"] + cf' = 1
  <2>1. FreeUnits(p) \in Nat /\ FreeUnits(p)' \in Nat BY DEF FreeUnits, In
  <2>2. sem["free"] + cf = 1 BY DEF Accounting
  <2>3. sem'["free"] + FreeUnits(p)' = sem["free"] + FreeUnits(p) OBVIOUS
  <2>4. /\ sem["free"] \in Int /\ cf \in Int /\ FreeUnits(p) \in Int /\ 1 \in Int
        /\ sem'["free"] \in Int /\ cf' \in Int /\ FreeUnits(p)' \in Int
    BY <1>1, <1>5, <2>1
  <2>5. cf' + FreeUnits(p) = cf + FreeUnits(p)' BY <1>1
  <2> HIDE DEF cf
  <2> QED BY <2>2, <2>3, <2>4, <2>5, Transfer
<1>8. sem'["space"] + sem'["data"] + cu' = bufsize
  <2> DEFINE s0 == sem["space"] + sem["data"]
             s1 == sem'["space"] + sem'["data"]
  <2>1. Units(p) \in Nat /\ Units(p)' \in Nat BY DEF Units, In
  <2>2. s0 \in Nat /\ s1 \in Nat BY <1>6
  <2>3. s0 + cu = bufsize BY DEF Accounting
  <2>4. s1 + Units(p)' = s0 + Units(p) OBVIOUS
  <2> HIDE DEF s0, s1
  <2>5. s1 + cu' = bufsize BY <1>2, <2>1, <2>2, <2>3, <2>4
  <2> QED BY <2>5 DEF s1
<1>9. Len(buffer') = sem'["data"] + co'
  <2> DEFINE d0 == Len(buffer) - sem["data"]
             d1 == Len(buffer') - sem'["data"]
  <2>1. Lines(p) \in Nat /\ Lines(p)' \in Nat BY DEF Lines, In
  <2>2. Len(buffer) \in Nat /\ Len(buffer') \in Nat BY DEF Types
  <2>3. Len(buffer) = sem["data"] + co BY DEF Accounting
  <2>4. d1 + Lines(p) = d0 + Lines(p)' OBVIOUS
  <2>5. d0 \in Int /\ d1 \in Int BY <1>6, <2>2
  <2>6. d0 = co BY <1>3, <1>6, <2>3
  <2>7. d1 = co'
    <3> HIDE DEF d0, d1
    <3> QED BY <1>3, <2>1, <2>4, <2>5, <2>6
  <2> QED BY <1>3, <1>6, <2>2, <2>7
<1> QED BY <1>7, <1>8, <1>9 DEF Accounting

-----------------------------------------------------------------------------
(***************************************************************************)
(* What the accounting gives.                                              *)
(***************************************************************************)

\* There is one unit of free.sem, so there is one holder at most.
LEMMA OneFreeHolder ==
  ASSUME Types, Accounting, NEW p \in Procs, NEW q \in Procs,
         HoldsFree(p), HoldsFree(q)
  PROVE  p = q /\ sem["free"] = 0
<1>1. p \in FreeHolders /\ q \in FreeHolders BY DEF FreeHolders
<1>2. Cardinality(FreeHolders) \in Nat \ {0} /\ sem["free"] \in Nat
  BY <1>1, HoldersFinite, FS_CardinalityType, FS_EmptySet DEF Types, Sems
<1>3. Cardinality(FreeHolders) = 1 /\ sem["free"] = 0
  BY <1>2 DEF Accounting
<1> QED BY <1>1, <1>3, HoldersFinite, AtMostOne

\* Whoever puts or removes a line holds free.sem.
LEMMA AccountingExcludes == Types /\ Accounting => BufferExclusive
  BY OneFreeHolder DEF BufferExclusive, HoldsFree, Holding

\* Only producers have an unannounced item, only consumers claim one.
LEMMA ClaimedIsThere ==
  ASSUME Types, Accounting, NEW c \in Consumers, Claiming(c)
  PROVE  buffer # <<>>
<1>1. c \in OffTheBooks BY DEF OffTheBooks, Procs
<1>2. Cardinality(OffTheBooks) \in Nat \ {0}
  BY <1>1, HoldersFinite, FS_EmptySet, FS_CardinalityType
<1>3. sem["data"] \in Nat BY DEF Types, Sems
<1>4. Len(buffer) > 0 BY <1>2, <1>3 DEF Accounting
<1> QED BY <1>4

-----------------------------------------------------------------------------
(***************************************************************************)
(* The invariant, helper by helper and command by command.                 *)
(***************************************************************************)

\* produce()'s commands in order.
LEMMA ProducerPath ==
  ASSUME NEW p \in Producers
  PROVE  /\ NextStage(p, "wait_space") = "wait_free"
         /\ NextStage(p, "wait_free") = "append"
         /\ NextStage(p, "append") = "post_free"
         /\ NextStage(p, "post_free") = "post_data"
         /\ NextStage(p, "post_data") = "wait_space"
  BY Zenon DEF NextStage, ProduceNext

\* comsume()'s commands in order.
LEMMA ConsumerPath ==
  ASSUME NEW c \in Consumers
  PROVE  /\ NextStage(c, "wait_data") = "wait_free"
         /\ NextStage(c, "wait_free") = "sed_print"
         /\ NextStage(c, "sed_print") = "sed_copy"
         /\ NextStage(c, "sed_copy") = "sed_rename"
         /\ NextStage(c, "sed_rename") = "echo_eat"
         /\ NextStage(c, "echo_eat") = "post_free"
         /\ NextStage(c, "post_free") = "post_space"
         /\ NextStage(c, "post_space") = "wait_data"
<1>1. c \notin Producers BY ProComAssumption
<1> QED BY <1>1, Zenon DEF NextStage, ComsumeNext

\* The file of each helper.
LEMMA SemNames ==
  /\ SemOf("wait_free") = "free" /\ SemOf("post_free") = "free"
  /\ SemOf("wait_space") = "space" /\ SemOf("post_space") = "space"
  /\ SemOf("wait_data") = "data" /\ SemOf("post_data") = "data"
  BY Zenon DEF SemOf

\* Two helpers are never both past their flock.
LEMMA OneHelper ==
  ASSUME LockOwner, NEW p \in Procs, NEW q \in Procs,
         line[p] # "flock", line[q] # "flock"
  PROVE  p = q
  BY DEF LockOwner

\* The flock protects the read and the write of a semaphore file.
LEMMA HelperLock ==
  ASSUME Types, LockOwner, NoLostUpdate, NEW p \in Procs, HelperStep(p)
  PROVE  LockOwner' /\ NoLostUpdate' /\ Alone(p)
<1> USE DEF Types, LockOwner, NoLostUpdate, Alone
<1>1. CASE Flock(p)
  BY <1>1, ProComAssumption DEF Flock
<1>2. CASE Cat(p)
  BY <1>2, OneHelper DEF Cat
<1>3. CASE WaitTake(p)
  BY <1>3, OneHelper DEF WaitTake, SemStages
<1>4. CASE WaitRetry(p)
  BY <1>4, OneHelper DEF WaitRetry, SemStages
<1>5. CASE PostAdd(p)
  BY <1>5, OneHelper DEF PostAdd, SemStages
<1> QED BY <1>1, <1>2, <1>3, <1>4, <1>5 DEF HelperStep

\* Between two commands of its helper a script holds what it held.
LEMMA SameHands ==
  ASSUME NEW p \in Procs, stage'[p] = stage[p],
         line[p] # "unlock", line'[p] # "unlock"
  PROVE  FreeUnits(p)' = FreeUnits(p) /\ Units(p)' = Units(p) /\ Lines(p)' = Lines(p)
<1>1. HoldsFree(p)' <=> HoldsFree(p) BY DEF HoldsFree, Holding
<1>2. HoldsUnit(p)' <=> HoldsUnit(p) BY DEF HoldsUnit, Holding
<1>3. (Unannounced(p) \/ Claiming(p))' <=> (Unannounced(p) \/ Claiming(p))
  BY DEF Unannounced, Claiming
<1> QED BY <1>1, <1>2, <1>3 DEF FreeUnits, Units, Lines, In

\* A helper that writes nothing does not disturb the accounting.
LEMMA QuietHelper ==
  ASSUME Types, Types', Accounting, NEW p \in Procs, Alone(p),
         stage'[p] = stage[p], line[p] # "unlock", line'[p] # "unlock",
         sem' = sem, buffer' = buffer
  PROVE  Accounting'
  BY SameHands, Balance

\* The values of the three semaphore files are numbers.
LEMMA SemType ==
  ASSUME Types
  PROVE  sem["free"] \in Nat /\ sem["space"] \in Nat /\ sem["data"] \in Nat
  BY DEF Types, Sems

\* _sem_wait_'s write moves one unit from the file to the script.
LEMMA WaitTakeAccounting ==
  ASSUME IInv, Types', NEW p \in Procs, Alone(p), WaitTake(p)
  PROVE  Accounting'
<1> USE DEF IInv
<1>1. /\ sem_val[p] = sem[SemOf(stage[p])]
      /\ sem' = [sem EXCEPT ![SemOf(stage[p])] = sem_val[p] - 1]
      /\ line[p] = "echo" /\ line'[p] = "unlock"
      /\ stage'[p] = stage[p] /\ buffer' = buffer
  BY DEF WaitTake, NoLostUpdate, Types, bufVars
<1>2. DOMAIN sem = {"free", "space", "data"} BY DEF Types, Sems
<1>3. CASE stage[p] = "wait_free"
  <2>1. /\ sem'["free"] = sem["free"] - 1
        /\ sem'["space"] = sem["space"] /\ sem'["data"] = sem["data"]
    BY <1>1, <1>2, <1>3, SemNames
  <2>2. FreeUnits(p) = 0 /\ FreeUnits(p)' = 1
    BY <1>1, <1>3 DEF FreeUnits, In, HoldsFree, Holding, CriticalStages
  <2>3. Units(p)' = Units(p) /\ Lines(p)' = Lines(p)
    BY <1>1, <1>3 DEF Units, Lines, In, HoldsUnit, Holding, Unannounced, Claiming
  <2>4. sem'["free"] + FreeUnits(p)' = sem["free"] + FreeUnits(p)
    BY <2>1, <2>2, SemType
  <2> QED BY <1>1, <2>1, <2>3, <2>4, Balance
<1>4. CASE stage[p] = "wait_space"
  <2>1. /\ sem'["space"] = sem["space"] - 1
        /\ sem'["free"] = sem["free"] /\ sem'["data"] = sem["data"]
    BY <1>1, <1>2, <1>4, SemNames
  <2>2. Units(p) = 0 /\ Units(p)' = 1
    BY <1>1, <1>4 DEF Units, In, HoldsUnit, Holding
  <2>3. FreeUnits(p)' = FreeUnits(p) /\ Lines(p)' = Lines(p)
    BY <1>1, <1>4 DEF FreeUnits, Lines, In, HoldsFree, Holding, CriticalStages,
                      Unannounced, Claiming
  <2>4. sem'["space"] + sem'["data"] + Units(p)' = sem["space"] + sem["data"] + Units(p)
    BY <2>1, <2>2, SemType
  <2> QED BY <1>1, <2>1, <2>3, <2>4, Balance
<1>5. CASE stage[p] = "wait_data"
  <2>0. p \in Consumers
    BY <1>5 DEF Types, Procs, ProducerStages
  <2>1. /\ sem'["data"] = sem["data"] - 1
        /\ sem'["free"] = sem["free"] /\ sem'["space"] = sem["space"]
    BY <1>1, <1>2, <1>5, SemNames
  <2>2. Units(p) = 0 /\ Units(p)' = 1
    BY <1>1, <1>5 DEF Units, In, HoldsUnit, Holding
  <2>3. FreeUnits(p)' = FreeUnits(p)
    BY <1>1, <1>5 DEF FreeUnits, In, HoldsFree, Holding, CriticalStages
  <2>4. Lines(p) = 0 /\ Lines(p)' = 1
    BY <1>1, <1>5, <2>0 DEF Lines, In, Unannounced, Claiming
  <2>5. sem'["space"] + sem'["data"] + Units(p)' = sem["space"] + sem["data"] + Units(p)
    BY <2>1, <2>2, SemType
  <2>6. (Len(buffer') - sem'["data"]) + Lines(p) = (Len(buffer) - sem["data"]) + Lines(p)'
    <3>1. Len(buffer) \in Nat BY DEF Types
    <3> QED BY <1>1, <2>1, <2>4, <3>1, SemType
  <2> QED BY <1>1, <2>1, <2>3, <2>5, <2>6, Balance
<1> QED BY <1>3, <1>4, <1>5 DEF WaitTake, WaitStages

\* _sem_post_'s write moves one unit from the script to the file.
LEMMA PostAddAccounting ==
  ASSUME IInv, Types', NEW p \in Procs, Alone(p), PostAdd(p)
  PROVE  Accounting'
<1> USE DEF IInv
<1>1. /\ sem_val[p] = sem[SemOf(stage[p])]
      /\ sem' = [sem EXCEPT ![SemOf(stage[p])] = sem_val[p] + 1]
      /\ line[p] = "echo" /\ line'[p] = "unlock"
      /\ stage'[p] = stage[p] /\ buffer' = buffer
  BY DEF PostAdd, NoLostUpdate, Types, bufVars
<1>2. DOMAIN sem = {"free", "space", "data"} BY DEF Types, Sems
<1>3. CASE stage[p] = "post_free"
  <2>1. /\ sem'["free"] = sem["free"] + 1
        /\ sem'["space"] = sem["space"] /\ sem'["data"] = sem["data"]
    BY <1>1, <1>2, <1>3, SemNames
  <2>2. FreeUnits(p) = 1 /\ FreeUnits(p)' = 0
    BY <1>1, <1>3 DEF FreeUnits, In, HoldsFree, Holding, CriticalStages
  <2>3. Units(p)' = Units(p) /\ Lines(p)' = Lines(p)
    BY <1>1, <1>3 DEF Units, Lines, In, HoldsUnit, Holding, Unannounced, Claiming
  <2>4. sem'["free"] + FreeUnits(p)' = sem["free"] + FreeUnits(p)
    BY <2>1, <2>2, SemType
  <2> QED BY <1>1, <2>1, <2>3, <2>4, Balance
<1>4. CASE stage[p] = "post_space"
  <2>1. /\ sem'["space"] = sem["space"] + 1
        /\ sem'["free"] = sem["free"] /\ sem'["data"] = sem["data"]
    BY <1>1, <1>2, <1>4, SemNames
  <2>2. Units(p) = 1 /\ Units(p)' = 0
    BY <1>1, <1>4 DEF Units, In, HoldsUnit, Holding
  <2>3. FreeUnits(p)' = FreeUnits(p) /\ Lines(p)' = Lines(p)
    BY <1>1, <1>4 DEF FreeUnits, Lines, In, HoldsFree, Holding, CriticalStages,
                      Unannounced, Claiming
  <2>4. sem'["space"] + sem'["data"] + Units(p)' = sem["space"] + sem["data"] + Units(p)
    BY <2>1, <2>2, SemType
  <2> QED BY <1>1, <2>1, <2>3, <2>4, Balance
<1>5. CASE stage[p] = "post_data"
  <2>0. p \in Producers
    BY <1>5 DEF Types, Procs, ConsumerStages
  <2>1. /\ sem'["data"] = sem["data"] + 1
        /\ sem'["free"] = sem["free"] /\ sem'["space"] = sem["space"]
    BY <1>1, <1>2, <1>5, SemNames
  <2>2. Units(p) = 1 /\ Units(p)' = 0
    BY <1>1, <1>5 DEF Units, In, HoldsUnit, Holding
  <2>3. FreeUnits(p)' = FreeUnits(p)
    BY <1>1, <1>5 DEF FreeUnits, In, HoldsFree, Holding, CriticalStages
  <2>4. Lines(p) = 1 /\ Lines(p)' = 0
    BY <1>1, <1>5, <2>0 DEF Lines, In, Unannounced, Claiming
  <2>5. sem'["space"] + sem'["data"] + Units(p)' = sem["space"] + sem["data"] + Units(p)
    BY <2>1, <2>2, SemType
  <2>6. (Len(buffer') - sem'["data"]) + Lines(p) = (Len(buffer) - sem["data"]) + Lines(p)'
    <3>1. Len(buffer) \in Nat BY DEF Types
    <3> QED BY <1>1, <2>1, <2>4, <3>1, SemType
  <2> QED BY <1>1, <2>1, <2>3, <2>5, <2>6, Balance
<1> QED BY <1>3, <1>4, <1>5 DEF PostAdd, PostStages

\* Every command of a helper keeps the invariant.
LEMMA HelperIInv ==
  ASSUME IInv, NEW p \in Procs, HelperStep(p)
  PROVE  IInv'
<1> USE DEF IInv
<1>1. Types' BY HelperType
<1>2. LockOwner' /\ NoLostUpdate' /\ Alone(p) BY HelperLock
<1>3. Accounting'
  <2>1. CASE Flock(p)
    BY <1>1, <1>2, <2>1, QuietHelper DEF Flock, Types, bufVars
  <2>2. CASE Cat(p)
    BY <1>1, <1>2, <2>2, QuietHelper DEF Cat, Types, bufVars
  <2>3. CASE WaitTake(p) BY <1>1, <1>2, <2>3, WaitTakeAccounting
  <2>4. CASE WaitRetry(p)
    BY <1>1, <1>2, <2>4, QuietHelper DEF WaitRetry, Types, bufVars
  <2>5. CASE PostAdd(p) BY <1>1, <1>2, <2>5, PostAddAccounting
  <2> QED BY <2>1, <2>2, <2>3, <2>4, <2>5 DEF HelperStep
<1>4. DeletesHead'
  <2>1. UNCHANGED <<stage, bufVars>>
    BY DEF HelperStep, Flock, Cat, WaitTake, WaitRetry, PostAdd
  <2> QED BY <2>1 DEF DeletesHead, bufVars
<1> QED BY <1>1, <1>2, <1>3, <1>4

\* A step in which a script goes on to its next command while no line is put or
\* removed keeps the accounting if its hands stay the same.
LEMMA AdvanceAccounting ==
  ASSUME Types, Types', Accounting, NEW p \in Procs, Alone(p),
         HoldsFree(p)' <=> HoldsFree(p),
         HoldsUnit(p)' <=> HoldsUnit(p),
         (Unannounced(p) \/ Claiming(p))' <=> (Unannounced(p) \/ Claiming(p)),
         sem' = sem, Len(buffer') = Len(buffer)
  PROVE  Accounting'
<1>1. FreeUnits(p)' = FreeUnits(p) /\ Units(p)' = Units(p) /\ Lines(p)' = Lines(p)
  BY DEF FreeUnits, Units, Lines, In
<1> QED BY <1>1, Balance

\* The end of a helper keeps the invariant.
LEMMA UnlockIInv ==
  ASSUME IInv, NEW p \in Procs, Unlock(p)
  PROVE  IInv'
<1> USE DEF IInv
<1>1. Types' BY UnlockType
<1>2. /\ stage[p] \in SemStages /\ line[p] = "unlock" /\ line'[p] = "flock"
      /\ stage'[p] = NextStage(p, stage[p])
      /\ sem' = sem /\ buffer' = buffer /\ result' = result /\ temp' = temp
      /\ flock4' = NoProc
      /\ Alone(p)
  BY DEF Unlock, Release, Advance, Types, Alone, bufVars
<1>3. \A q \in Procs : line'[q] = "flock"
  BY <1>2, OneHelper DEF Alone
<1>4. LockOwner' /\ NoLostUpdate'
  BY <1>3 DEF LockOwner, NoLostUpdate
<1>5. Accounting' /\ DeletesHead'
  <2>1. CASE p \in Producers
    <3>1. stage[p] \in {"wait_space", "wait_free", "post_free", "post_data"}
      BY <1>2, <2>1 DEF Types, ProducerStages, SemStages, WaitStages, PostStages
    <3>2. p \notin Consumers BY <2>1, ProComAssumption
    <3>3. /\ HoldsFree(p)' <=> HoldsFree(p)
          /\ HoldsUnit(p)' <=> HoldsUnit(p)
          /\ (Unannounced(p) \/ Claiming(p))' <=> (Unannounced(p) \/ Claiming(p))
      BY <1>2, <2>1, <3>1, <3>2, ProducerPath
      DEF HoldsFree, HoldsUnit, Holding, CriticalStages, Unannounced, Claiming
    <3>4. Accounting' BY <1>1, <1>2, <3>3, AdvanceAccounting
    <3>5. \A c \in Consumers : stage'[c] = stage[c]
      BY <1>2, <3>2 DEF Alone, Procs
    <3> QED BY <1>2, <3>4, <3>5 DEF DeletesHead
  <2>2. CASE p \in Consumers
    <3>1. stage[p] \in {"wait_data", "wait_free", "post_free", "post_space"}
      BY <1>2, <2>2 DEF Types, ConsumerStages, SemStages, WaitStages, PostStages
    <3>2. p \notin Producers BY <2>2, ProComAssumption
    <3>3. /\ HoldsFree(p)' <=> HoldsFree(p)
          /\ HoldsUnit(p)' <=> HoldsUnit(p)
          /\ (Unannounced(p) \/ Claiming(p))' <=> (Unannounced(p) \/ Claiming(p))
      BY <1>2, <2>2, <3>1, <3>2, ConsumerPath
      DEF HoldsFree, HoldsUnit, Holding, CriticalStages, Unannounced, Claiming
    <3>4. Accounting' BY <1>1, <1>2, <3>3, AdvanceAccounting
    <3>5. \A c \in Consumers \ {p} : stage'[c] = stage[c]
      BY <1>2 DEF Alone, Procs
    <3>6. stage'[p] \notin {"sed_copy", "sed_rename"}
      BY <1>2, <2>2, <3>1, ConsumerPath
    <3> QED BY <1>2, <3>4, <3>5, <3>6 DEF DeletesHead
  <2> QED BY <2>1, <2>2 DEF Procs
<1> QED BY <1>1, <1>4, <1>5

\* What a command outside the helpers does to its script.
LEMMA CommandStep ==
  ASSUME IInv, NEW p \in Procs, stage[p] \in CriticalStages, Advance(p), UNCHANGED helperVars
  PROVE  /\ Alone(p) /\ LockOwner' /\ NoLostUpdate'
         /\ stage'[p] = NextStage(p, stage[p])
         /\ line'[p] = "flock" /\ line[p] = "flock" /\ sem' = sem
<1> USE DEF IInv
<1>1. line[p] = "flock"
  BY DEF LockOwner, CriticalStages, SemStages, WaitStages, PostStages
<1>2. Alone(p) /\ stage'[p] = NextStage(p, stage[p])
  BY DEF Advance, helperVars, Alone, Types
<1>3. sem' = sem /\ flock4' = flock4 /\ line' = line /\ sem_val' = sem_val
  BY DEF helperVars
<1>4. LockOwner' BY <1>1, <1>2, <1>3 DEF LockOwner, Alone
<1>5. NoLostUpdate' BY <1>1, <1>2, <1>3 DEF NoLostUpdate, Alone
<1> QED BY <1>1, <1>2, <1>3, <1>4, <1>5

\* A script that puts or removes a line meets no consumer between its seds.
LEMMA NobodyElseDeletes ==
  ASSUME IInv, NEW p \in Procs, stage[p] \in CriticalStages,
         NEW c \in Consumers, stage[c] \in {"sed_copy", "sed_rename"}
  PROVE  c = p
<1>1. c \in Procs /\ stage[c] \in CriticalStages BY DEF Procs, CriticalStages
<1> QED BY <1>1, AccountingExcludes DEF IInv, BufferExclusive

\* echo >> buffer.txt: the new line is off the books until data.sem counts it.
LEMMA AppendIInv ==
  ASSUME IInv, NEW p \in Producers, AppendItem(p)
  PROVE  IInv'
<1> USE DEF IInv
<1>0. p \in Procs /\ p \notin Consumers BY ProComAssumption DEF Procs
<1>1. Types' BY <1>0, AdvanceType DEF AppendItem, Types, helperVars
<1>2. /\ stage[p] = "append" /\ buffer' = Append(buffer, p) /\ Advance(p)
      /\ UNCHANGED helperVars /\ stage[p] \in CriticalStages
      /\ result' = result /\ temp' = temp
  BY DEF AppendItem, CriticalStages
<1>3. /\ Alone(p) /\ LockOwner' /\ NoLostUpdate'
      /\ stage'[p] = "post_free" /\ line'[p] = "flock" /\ line[p] = "flock" /\ sem' = sem
  BY <1>0, <1>2, CommandStep, ProducerPath
<1>4. Accounting'
  <2>1. FreeUnits(p)' = FreeUnits(p) /\ Units(p)' = Units(p)
    BY <1>2, <1>3 DEF FreeUnits, Units, In, HoldsFree, HoldsUnit, Holding, CriticalStages
  <2>2. Lines(p) = 0 /\ Lines(p)' = 1
    BY <1>0, <1>2, <1>3 DEF Lines, In, Unannounced, Claiming
  <2>3. Len(buffer) \in Nat /\ Len(buffer') = Len(buffer) + 1
    BY <1>2 DEF Types
  <2>4. (Len(buffer') - sem'["data"]) + Lines(p) = (Len(buffer) - sem["data"]) + Lines(p)'
    BY <1>3, <2>2, <2>3, SemType
  <2> QED BY <1>0, <1>1, <1>3, <2>1, <2>4, Balance
<1>5. DeletesHead'
  <2>1. \A c \in Consumers : stage[c] \notin {"sed_copy", "sed_rename"}
    BY <1>0, <1>2, NobodyElseDeletes
  <2>2. \A c \in Consumers : stage'[c] = stage[c]
    BY <1>0, <1>3 DEF Alone, Procs
  <2> QED BY <2>1, <2>2 DEF DeletesHead
<1> QED BY <1>1, <1>3, <1>4, <1>5

\* The two reading seds, and the echo, move no line.
LEMMA ReadingIInv ==
  ASSUME IInv, NEW c \in Consumers, SedPrint(c) \/ SedCopy(c) \/ EchoEat(c)
  PROVE  IInv'
<1> USE DEF IInv
<1>0. c \in Procs /\ c \notin Producers BY ProComAssumption DEF Procs
<1>1. Types'
  <2>1. /\ buffer # <<>> => Head(buffer) \in Producers
        /\ buffer # <<>> => Tail(buffer) \in Seq(Producers)
    BY DEF Types
  <2>2. CASE SedPrint(c) BY <1>0, <2>1, <2>2, AdvanceType DEF SedPrint, Types, helperVars
  <2>3. CASE SedCopy(c) BY <1>0, <2>1, <2>3, AdvanceType DEF SedCopy, Types, helperVars
  <2>4. CASE EchoEat(c) BY <1>0, <2>4, AdvanceType DEF EchoEat, Types, helperVars
  <2> QED BY <2>2, <2>3, <2>4
<1>2. /\ stage[c] \in {"sed_print", "sed_copy", "echo_eat"} /\ stage[c] \in CriticalStages
      /\ Advance(c) /\ UNCHANGED helperVars /\ buffer' = buffer
  BY DEF SedPrint, SedCopy, EchoEat, CriticalStages
<1>3. /\ Alone(c) /\ LockOwner' /\ NoLostUpdate'
      /\ stage'[c] = NextStage(c, stage[c])
      /\ line'[c] = "flock" /\ line[c] = "flock" /\ sem' = sem
  BY <1>0, <1>2, CommandStep
<1>4. Accounting'
  <2>1. /\ HoldsFree(c)' <=> HoldsFree(c)
        /\ HoldsUnit(c)' <=> HoldsUnit(c)
        /\ (Unannounced(c) \/ Claiming(c))' <=> (Unannounced(c) \/ Claiming(c))
    BY <1>0, <1>2, <1>3, ConsumerPath
    DEF HoldsFree, HoldsUnit, Holding, CriticalStages, Unannounced, Claiming
  <2> QED BY <1>0, <1>1, <1>2, <1>3, <2>1, AdvanceAccounting
<1>5. DeletesHead'
  <2>1. \A d \in Consumers \ {c} : stage'[d] = stage[d]
    BY <1>3 DEF Alone, Procs
  <2>2. CASE SedPrint(c)
    <3>1. buffer # <<>> BY <2>2, ClaimedIsThere DEF SedPrint, Claiming
    <3>2. stage'[c] = "sed_copy" /\ result'[c] = Head(buffer) /\ temp' = temp
      BY <1>3, <2>2, <3>1, ConsumerPath DEF SedPrint, Types
    <3>3. \A d \in Consumers \ {c} : result'[d] = result[d]
      BY <2>2 DEF SedPrint, Types
    <3> QED BY <1>2, <2>1, <3>1, <3>2, <3>3 DEF DeletesHead
  <2>3. CASE SedCopy(c)
    <3>1. buffer # <<>> /\ result[c] = Head(buffer) /\ result' = result
      BY <2>3 DEF SedCopy, DeletesHead
    <3>2. stage'[c] = "sed_rename" /\ temp'[c] = Tail(buffer)
      BY <1>3, <2>3, <3>1, ConsumerPath DEF SedCopy, Types
    <3>3. \A d \in Consumers \ {c} : temp'[d] = temp[d]
      BY <2>3 DEF SedCopy, Types
    <3> QED BY <1>2, <2>1, <3>1, <3>2, <3>3 DEF DeletesHead
  <2>4. CASE EchoEat(c)
    <3>1. stage'[c] = "post_free" /\ result' = result /\ temp' = temp
      BY <1>3, <2>4, ConsumerPath DEF EchoEat
    <3> QED BY <1>2, <2>1, <3>1 DEF DeletesHead
  <2> QED BY <2>2, <2>3, <2>4
<1> QED BY <1>1, <1>3, <1>4, <1>5

\* The rename removes exactly the line the consumer has claimed.
LEMMA SedRenameIInv ==
  ASSUME IInv, NEW c \in Consumers, SedRename(c)
  PROVE  IInv'
<1> USE DEF IInv
<1>0. c \in Procs /\ c \notin Producers BY ProComAssumption DEF Procs
<1>1. Types' BY <1>0, AdvanceType DEF SedRename, Rename, Types, helperVars
<1>2. /\ stage[c] = "sed_rename" /\ stage[c] \in CriticalStages
      /\ Advance(c) /\ UNCHANGED helperVars
      /\ buffer' = temp[c]
  BY DEF SedRename, Rename, CriticalStages
<1>3. /\ Alone(c) /\ LockOwner' /\ NoLostUpdate'
      /\ stage'[c] = "echo_eat" /\ line'[c] = "flock" /\ line[c] = "flock" /\ sem' = sem
  BY <1>0, <1>2, CommandStep, ConsumerPath
<1>4. buffer # <<>> /\ buffer' = Tail(buffer) BY <1>2 DEF DeletesHead
<1>5. Accounting'
  <2>1. FreeUnits(c)' = FreeUnits(c) /\ Units(c)' = Units(c)
    BY <1>2, <1>3 DEF FreeUnits, Units, In, HoldsFree, HoldsUnit, Holding, CriticalStages
  <2>2. Lines(c) = 1 /\ Lines(c)' = 0
    BY <1>0, <1>2, <1>3 DEF Lines, In, Unannounced, Claiming
  <2>3. Len(buffer) \in Nat /\ Len(buffer') = Len(buffer) - 1
    BY <1>4 DEF Types
  <2>4. (Len(buffer') - sem'["data"]) + Lines(c) = (Len(buffer) - sem["data"]) + Lines(c)'
    BY <1>3, <2>2, <2>3, SemType
  <2> QED BY <1>0, <1>1, <1>3, <2>1, <2>4, Balance
<1>6. DeletesHead'
  <2>1. \A d \in Consumers \ {c} : stage[d] \notin {"sed_copy", "sed_rename"}
    BY <1>0, <1>2, NobodyElseDeletes
  <2>2. \A d \in Consumers \ {c} : stage'[d] = stage[d]
    BY <1>3 DEF Alone, Procs
  <2> QED BY <1>3, <2>1, <2>2 DEF DeletesHead
<1> QED BY <1>1, <1>3, <1>5, <1>6

-----------------------------------------------------------------------------
\* The files as run.sh writes them, and every script at its first command or not
\* running.
Fresh ==
  /\ Types
  /\ sem["free"] = 1 /\ sem["space"] = bufsize /\ sem["data"] = 0 /\ buffer = <<>>
  /\ \A p \in Procs : line[p] = "flock" /\ stage[p] \in {"wait_space", "wait_data", "off"}

\* The scripts can start from there.
LEMMA FreshIInv == Fresh => IInv
<1> SUFFICES ASSUME Fresh PROVE IInv
  OBVIOUS
<1> USE DEF Fresh
<1>1. LockOwner /\ NoLostUpdate /\ DeletesHead
  BY DEF LockOwner, NoLostUpdate, DeletesHead, Procs
<1>2. FreeHolders = {} /\ UnitHolders = {} /\ OffTheBooks = {}
  BY DEF FreeHolders, UnitHolders, OffTheBooks, HoldsFree, HoldsUnit, Holding,
         CriticalStages, Unannounced, Claiming
<1>3. Accounting BY <1>2, FS_EmptySet, ProComAssumption DEF Accounting
<1> QED BY <1>1, <1>3 DEF IInv

\* run.sh's initial values satisfy the invariant.
LEMMA InitIInv == Init => IInv
<1> SUFFICES ASSUME Init PROVE Fresh
  BY FreshIInv
<1>1. \A p \in Procs : line[p] = "flock" /\ stage[p] \in {"wait_space", "wait_data", "off"}
  BY DEF Init, FirstStage
<1>2. sem["free"] = 1 /\ sem["space"] = bufsize /\ sem["data"] = 0 /\ buffer = <<>>
  BY DEF Init, InitSems, Sems
<1> QED BY <1>1, <1>2, InitTypes DEF Fresh

\* Every step keeps the invariant.
LEMMA NextIInv == IInv /\ [Next]_vars => IInv'
<1> SUFFICES ASSUME IInv, [Next]_vars PROVE IInv'
  OBVIOUS
<1>1. ASSUME NEW p \in Producers, Produce(p) PROVE IInv'
  BY <1>1, HelperIInv, UnlockIInv, AppendIInv DEF Produce, Procs
<1>2. ASSUME NEW c \in Consumers, Comsume(c) PROVE IInv'
  BY <1>2, HelperIInv, UnlockIInv, ReadingIInv, SedRenameIInv DEF Comsume, Procs
<1>3. CASE UNCHANGED vars
  <2>1. Types' BY <1>3 DEF IInv, Types, vars
  <2>2. LockOwner' /\ NoLostUpdate' /\ DeletesHead'
    BY <1>3 DEF IInv, LockOwner, NoLostUpdate, DeletesHead, vars
  <2>3. FreeHolders' = FreeHolders /\ UnitHolders' = UnitHolders /\ OffTheBooks' = OffTheBooks
    BY <1>3 DEF vars, FreeHolders, UnitHolders, OffTheBooks, HoldsFree, HoldsUnit,
                Holding, Unannounced, Claiming
  <2>4. Accounting' BY <1>3, <2>3 DEF IInv, Accounting, vars
  <2> QED BY <2>1, <2>2, <2>4 DEF IInv
<1> QED BY <1>1, <1>2, <1>3 DEF Next

\* The inductive invariant holds in every reachable state.
THEOREM Invariance == Spec => []IInv
  BY InitIInv, NextIInv, PTL DEF Spec

\* The flock of the helpers makes every change of a semaphore file atomic.
THEOREM UpdatesAreKept == Spec => []NoLostUpdate
<1>1. IInv => NoLostUpdate BY DEF IInv
<1> QED BY <1>1, Invariance, PTL

\* The semaphore files account for every line of the buffer and every unit.
THEOREM BooksAreExact == Spec => []Accounting
<1>1. IInv => Accounting BY DEF IInv
<1> QED BY <1>1, Invariance, PTL

\* At most one script is at its commands on the buffer file.
THEOREM Exclusion == Spec => []BufferExclusive
<1>1. IInv => BufferExclusive BY AccountingExcludes DEF IInv
<1> QED BY <1>1, Invariance, PTL

-----------------------------------------------------------------------------
(***************************************************************************)
(* The scripts of pro_com implement BoundedBuffer.                         *)
(***************************************************************************)
\* Taking the first element off a sequence and putting it back.
LEMMA Cons ==
  ASSUME NEW S, NEW x \in S, NEW b \in Seq(S)
  PROVE  /\ <<x>> \o b # <<>>
         /\ Head(<<x>> \o b) = x
         /\ Tail(<<x>> \o b) = b
<1>1. <<x>> \in Seq(S) /\ Len(<<x>>) = 1 /\ <<x>>[1] = x OBVIOUS
<1>2. /\ <<x>> \o b \in Seq(S)
      /\ Len(<<x>> \o b) = 1 + Len(b)
      /\ \A i \in 1..(1 + Len(b)) : (<<x>> \o b)[i] = IF i <= 1 THEN <<x>>[i] ELSE b[i - 1]
  BY <1>1, ConcatProperties
<1>3. Len(b) \in Nat OBVIOUS
<1>4. <<x>> \o b # <<>> BY <1>2, <1>3
<1>5. Head(<<x>> \o b) = x BY <1>1, <1>2, <1>3, <1>4
<1>6. Tail(<<x>> \o b) = b
  <2>1. /\ Tail(<<x>> \o b) \in Seq(S)
        /\ Len(Tail(<<x>> \o b)) = Len(b)
        /\ \A i \in 1..Len(b) : Tail(<<x>> \o b)[i] = (<<x>> \o b)[i + 1]
    BY <1>2, <1>3, <1>4, HeadTailProperties
  <2>2. \A i \in 1..Len(b) : Tail(<<x>> \o b)[i] = b[i]
    BY <1>2, <1>3, <2>1
  <2> QED BY <2>1, <2>2, SeqEqual
<1> QED BY <1>4, <1>5, <1>6

\* ... and the other way round.
LEMMA Uncons ==
  ASSUME NEW S, NEW b \in Seq(S), b # <<>>
  PROVE  <<Head(b)>> \o Tail(b) = b
<1>1. Head(b) \in S /\ Tail(b) \in Seq(S) /\ Len(Tail(b)) = Len(b) - 1 /\ Len(b) \in Nat \ {0}
  BY HeadTailProperties
<1>2. \A i \in 1..Len(Tail(b)) : Tail(b)[i] = b[i + 1] BY HeadTailProperties
<1>3. <<Head(b)>> \in Seq(S) /\ Len(<<Head(b)>>) = 1 /\ <<Head(b)>>[1] = b[1]
  BY <1>1
<1>4. /\ <<Head(b)>> \o Tail(b) \in Seq(S)
      /\ Len(<<Head(b)>> \o Tail(b)) = Len(b)
      /\ \A i \in 1..Len(b) : (<<Head(b)>> \o Tail(b))[i]
                               = IF i <= 1 THEN <<Head(b)>>[i] ELSE Tail(b)[i - 1]
  BY <1>1, <1>3, ConcatProperties
<1>5. \A i \in 1..Len(b) : (<<Head(b)>> \o Tail(b))[i] = b[i]
  BY <1>1, <1>2, <1>3, <1>4
<1> QED BY <1>4, <1>5, SeqEqual

\* Nobody is about to echo: nothing is in transit.
LEMMA TransitNone ==
  ASSUME NEW at, NEW res, \A c \in Consumers : at[c] # "echo_eat"
  PROVE  Transit(at, res) = <<>>
  BY DEF Transit

\* One consumer is about to echo: what is in transit is its result.
LEMMA TransitOne ==
  ASSUME NEW at, NEW res, NEW c \in Consumers, at[c] = "echo_eat",
         \A d \in Consumers : at[d] = "echo_eat" => d = c
  PROVE  Transit(at, res) = <<res[c]>>
<1>1. (CHOOSE d \in Consumers : at[d] = "echo_eat") = c OBVIOUS
<1> QED BY <1>1 DEF Transit

\* While somebody else is at its commands on the buffer, nothing is in transit.
LEMMA NoEcho ==
  ASSUME IInv, NEW p \in Procs, stage[p] \in CriticalStages, stage[p] # "echo_eat"
  PROVE  \A c \in Consumers : stage[c] # "echo_eat"
<1>1. BufferExclusive BY AccountingExcludes DEF IInv
<1> QED BY <1>1 DEF BufferExclusive, CriticalStages, Procs

\* A step after which the same consumers are about to echo the same results, and
\* that leaves the file and the output alone, does nothing the buffer can see.
LEMMA SameTransit ==
  ASSUME IInv, UNCHANGED <<result, buffer, eaten>>,
         \A c \in Consumers : stage'[c] = "echo_eat" <=> stage[c] = "echo_eat"
  PROVE  UNCHANGED <<InTransit \o buffer, eaten>>
<1>1. CASE \A c \in Consumers : stage[c] # "echo_eat"
  <2>1. InTransit = <<>> /\ InTransit' = <<>>
    BY <1>1, TransitNone DEF InTransit
  <2> QED BY <2>1
<1>2. CASE \E c \in Consumers : stage[c] = "echo_eat"
  <2>1. PICK c \in Consumers : stage[c] = "echo_eat" BY <1>2
  <2>2. \A d \in Consumers : stage[d] = "echo_eat" => d = c
    BY <2>1, AccountingExcludes DEF IInv, BufferExclusive, CriticalStages, Procs
  <2>3. Transit(stage, result) = <<result[c]>> BY <2>1, <2>2, TransitOne
  <2>4. Transit(stage', result') = <<result'[c]>>
    BY <2>1, <2>2, TransitOne
  <2> QED BY <2>3, <2>4 DEF InTransit
<1> QED BY <1>1, <1>2

\* The helpers are invisible to the buffer.
LEMMA HelperStutters ==
  ASSUME IInv, NEW p \in Procs, HelperStep(p) \/ Unlock(p)
  PROVE  UNCHANGED <<InTransit \o buffer, eaten>>
<1>1. CASE HelperStep(p)
  <2>1. UNCHANGED <<stage, bufVars>>
    BY <1>1 DEF HelperStep, Flock, Cat, WaitTake, WaitRetry, PostAdd
  <2> QED BY <2>1, SameTransit DEF bufVars
<1>2. CASE Unlock(p)
  <2>1. /\ stage[p] \in SemStages /\ stage'[p] = NextStage(p, stage[p])
        /\ \A q \in Procs \ {p} : stage'[q] = stage[q]
        /\ UNCHANGED <<result, buffer, eaten>>
    BY <1>2 DEF Unlock, Release, Advance, bufVars, IInv, Types
  <2>2. stage[p] # "echo_eat"
    BY <2>1 DEF SemStages, WaitStages, PostStages
  <2>3. p \in Consumers => stage'[p] # "echo_eat"
    <3> SUFFICES ASSUME p \in Consumers PROVE stage'[p] # "echo_eat"
      OBVIOUS
    <3>1. stage[p] \in {"wait_data", "wait_free", "post_free", "post_space"}
      BY <2>1 DEF IInv, Types, ConsumerStages, SemStages, WaitStages, PostStages
    <3> QED BY <2>1, <3>1, ConsumerPath
  <2> QED BY <2>1, <2>2, <2>3, SameTransit DEF Procs
<1> QED BY <1>1, <1>2

\* A producer that appends finds room: its own unit and those of all the lines
\* off the books are among the bufsize units.
LEMMA RoomToAppend ==
  ASSUME IInv, NEW p \in Producers, stage[p] = "append"
  PROVE  Len(buffer) < bufsize
<1> USE DEF IInv
<1> DEFINE rest == UnitHolders \ {p}
<1>1. p \in UnitHolders BY DEF UnitHolders, HoldsUnit, Holding, Procs
<1>2. IsFiniteSet(rest) /\ Cardinality(rest) = Cardinality(UnitHolders) - 1
  BY <1>1, HoldersFinite, FS_RemoveElement
<1>3. OffTheBooks \in SUBSET rest
  <2>1. p \notin OffTheBooks
    BY DEF OffTheBooks, Unannounced, Claiming
  <2>2. \A q \in Procs : Unannounced(q) \/ Claiming(q) => HoldsUnit(q)
    BY DEF Unannounced, Claiming, HoldsUnit, Holding
  <2> QED BY <2>1, <2>2 DEF OffTheBooks, UnitHolders
<1>4. Cardinality(OffTheBooks) <= Cardinality(rest) BY <1>2, <1>3, FS_Subset
<1>5. Cardinality(OffTheBooks) \in Nat /\ Cardinality(UnitHolders) \in Nat
  BY HoldersFinite, FS_CardinalityType
<1>6. Cardinality(OffTheBooks) <= Cardinality(UnitHolders) - 1
  BY <1>2, <1>4
<1>7. /\ sem["space"] + sem["data"] + Cardinality(UnitHolders) = bufsize
      /\ Len(buffer) = sem["data"] + Cardinality(OffTheBooks)
  BY DEF Accounting
<1>8. sem["space"] \in Nat /\ sem["data"] \in Nat BY SemType
<1> QED BY <1>5, <1>6, <1>7, <1>8, ProComAssumption

\* echo >> buffer.txt is the abstract put.
LEMMA AppendPuts ==
  ASSUME IInv, NEW p \in Producers, AppendItem(p)
  PROVE  Abstract!Put(p)
<1>0. p \in Procs /\ p \notin Consumers BY ProComAssumption DEF Procs
<1>1. /\ stage[p] = "append" /\ buffer' = Append(buffer, p) /\ eaten' = eaten
      /\ \A c \in Consumers : stage'[c] = stage[c]
      /\ buffer \in Seq(Producers)
  BY <1>0 DEF AppendItem, Advance, IInv, Types, Procs
<1>2. \A c \in Consumers : stage[c] # "echo_eat"
  BY <1>0, <1>1, NoEcho DEF CriticalStages
<1>3. InTransit = <<>> /\ InTransit' = <<>>
  BY <1>1, <1>2, TransitNone DEF InTransit
<1>4. InTransit \o buffer = buffer /\ (InTransit \o buffer)' = buffer'
  BY <1>1, <1>3
<1> QED BY <1>1, <1>4, RoomToAppend DEF Abstract!Put

\* The seds are invisible: what leaves the file is in transit.
LEMMA SedStutters ==
  ASSUME IInv, NEW c \in Consumers, SedPrint(c) \/ SedCopy(c) \/ SedRename(c)
  PROVE  UNCHANGED <<InTransit \o buffer, eaten>>
<1>0. c \in Procs BY DEF Procs
<1>1. /\ stage[c] \in {"sed_print", "sed_copy", "sed_rename"}
      /\ stage'[c] = NextStage(c, stage[c])
      /\ \A d \in Consumers \ {c} : stage'[d] = stage[d]
      /\ buffer \in Seq(Producers)
      /\ eaten' = eaten
  BY DEF SedPrint, SedCopy, SedRename, Rename, Advance, IInv, Types, Procs
<1>2. \A d \in Consumers : stage[d] # "echo_eat"
  BY <1>0, <1>1, NoEcho DEF CriticalStages
<1>3. InTransit = <<>> BY <1>2, TransitNone DEF InTransit
<1>4. CASE SedPrint(c) \/ SedCopy(c)
  <2>1. stage'[c] # "echo_eat" /\ buffer' = buffer
    BY <1>1, <1>4, ConsumerPath DEF SedPrint, SedCopy
  <2>2. InTransit' = <<>> BY <1>1, <1>2, <2>1, TransitNone DEF InTransit
  <2> QED BY <1>1, <1>3, <2>1, <2>2
<1>5. CASE SedRename(c)
  <2>1. /\ stage[c] = "sed_rename" /\ stage'[c] = "echo_eat"
        /\ buffer' = temp[c] /\ result' = result
    BY <1>1, <1>5, ConsumerPath DEF SedRename, Rename
  <2>2. buffer # <<>> /\ result[c] = Head(buffer) /\ temp[c] = Tail(buffer)
    BY <2>1 DEF IInv, DeletesHead
  <2>3. \A d \in Consumers : stage'[d] = "echo_eat" => d = c
    BY <1>1, <1>2
  <2>4. Transit(stage', result') = <<result'[c]>> BY <2>1, <2>3, TransitOne
  <2>5. (InTransit \o buffer)' = <<Head(buffer)>> \o Tail(buffer)
    BY <2>1, <2>2, <2>4 DEF InTransit
  <2>6. <<Head(buffer)>> \o Tail(buffer) = buffer BY <1>1, <2>2, Uncons
  <2> QED BY <1>1, <1>3, <2>5, <2>6
<1> QED BY <1>4, <1>5

\* The consumer's echo is the abstract eat of the oldest item.
LEMMA EchoEats ==
  ASSUME IInv, NEW c \in Consumers, EchoEat(c)
  PROVE  Abstract!Eat(c)
<1> DEFINE Items == Producers \cup {NoItem}
<1>0. c \in Procs BY DEF Procs
<1>1. /\ stage[c] = "echo_eat" /\ stage'[c] = "post_free"
      /\ \A d \in Consumers \ {c} : stage'[d] = stage[d]
      /\ buffer' = buffer
      /\ eaten' = [eaten EXCEPT ![c] = result[c]]
  <2>1. stage'[c] = NextStage(c, stage[c])
    BY <1>0 DEF EchoEat, Advance, IInv, Types
  <2> QED BY <2>1, ConsumerPath DEF EchoEat, Advance, IInv, Types, Procs
<1>2. buffer \in Seq(Items) /\ result[c] \in Items
  <2>1. buffer \in Seq(Producers) /\ result[c] \in Items BY DEF IInv, Types
  <2> QED BY <2>1, SeqMonotonic
<1>3. \A d \in Consumers : stage[d] = "echo_eat" => d = c
  BY <1>0, <1>1, AccountingExcludes DEF IInv, BufferExclusive, CriticalStages, Procs
<1>4. InTransit = <<result[c]>> BY <1>1, <1>3, TransitOne DEF InTransit
<1>5. InTransit' = <<>>
  <2>1. \A d \in Consumers : stage'[d] # "echo_eat" BY <1>1, <1>3
  <2> QED BY <2>1, TransitNone DEF InTransit
<1>6. /\ InTransit \o buffer # <<>>
      /\ Head(InTransit \o buffer) = result[c]
      /\ Tail(InTransit \o buffer) = buffer
  BY <1>2, <1>4, Cons
<1>7. (InTransit \o buffer)' = buffer BY <1>1, <1>2, <1>5
<1> QED BY <1>1, <1>6, <1>7 DEF Abstract!Eat

-----------------------------------------------------------------------------
\* run.sh starts on an empty buffer.
LEMMA InitRefines == Init => Abstract!Init
<1> SUFFICES ASSUME Init PROVE Abstract!Init
  OBVIOUS
<1>1. \A c \in Consumers : stage[c] # "echo_eat"
  BY DEF Init, FirstStage, Procs
<1>2. InTransit = <<>> BY <1>1, TransitNone DEF InTransit
<1> QED BY <1>2 DEF Init, Abstract!Init

\* Every step of the scripts is a put, an eat, or invisible.
LEMMA NextRefines ==
  IInv /\ [Next]_vars => [Abstract!Next]_<<InTransit \o buffer, eaten>>
<1> SUFFICES ASSUME IInv, [Next]_vars
             PROVE  Abstract!Next \/ UNCHANGED <<InTransit \o buffer, eaten>>
  OBVIOUS
<1>1. ASSUME NEW p \in Producers, Produce(p)
      PROVE  Abstract!Next \/ UNCHANGED <<InTransit \o buffer, eaten>>
  BY <1>1, HelperStutters, AppendPuts DEF Produce, Abstract!Next, Procs
<1>2. ASSUME NEW c \in Consumers, Comsume(c)
      PROVE  Abstract!Next \/ UNCHANGED <<InTransit \o buffer, eaten>>
  BY <1>2, HelperStutters, SedStutters, EchoEats DEF Comsume, Abstract!Next, Procs
<1>3. CASE UNCHANGED vars
  BY <1>3 DEF vars, InTransit
<1> QED BY <1>1, <1>2, <1>3 DEF Next

\* The scripts of pro_com are a FIFO buffer of bufsize items: each item put is
\* eaten at most once, in order, and never more than bufsize are waiting.
THEOREM Refinement == Spec => ImplementsBoundedBuffer
  BY InitRefines, NextRefines, Invariance, PTL
  DEF Spec, ImplementsBoundedBuffer, Abstract!Spec

-----------------------------------------------------------------------------
(***************************************************************************)
(* clear.sh and a second run.sh.  Through all of it only the holder of the *)
(* lock is past flock, whether its script is alive or not.                 *)
(***************************************************************************)
ClearedPhases == {"cleared", "free_set", "space_set", "data_set"}

\* Who is left of the first run, command by command of clear.sh.
Remains ==
  /\ phase \in {"pkill_producer", "truncate"} \cup ClearedPhases => alive \cap Consumers = {}
  /\ phase \in {"truncate"} \cup ClearedPhases => alive \cap Producers = {}
  /\ phase # "rerun" => \A p \in Procs : p \in alive \/ p \in orphans \/ stage[p] = "off"

\* After a quiet clear.sh nobody is left, the buffer is empty, and run.sh has
\* written the semaphores up to where it is.
Reset ==
  quiet /\ phase \in ClearedPhases =>
    /\ orphans = {} /\ buffer = <<>>
    /\ phase # "cleared" => sem["free"] = 1
    /\ phase \in {"space_set", "data_set"} => sem["space"] = bufsize
    /\ phase = "data_set" => sem["data"] = 0

\* The second run has the invariant of the first, and no orphan meets it.
Again == quiet /\ phase = "rerun" => orphans = {} /\ IInv

\* The inductive invariant of the restart.
RInv == Types /\ LockOwner /\ Remains /\ Reset /\ Again

\* The commands of a helper keep the lock with its holder, whatever is in the files.
LEMMA HelperOwner ==
  ASSUME Types, LockOwner, NEW p \in Procs, HelperStep(p)
  PROVE  LockOwner' /\ Alone(p) /\ stage' = stage
<1> USE DEF Types, LockOwner, Alone
<1>1. CASE Flock(p) BY <1>1, ProComAssumption DEF Flock
<1>2. CASE Cat(p) BY <1>2, OneHelper DEF Cat
<1>3. CASE WaitTake(p) BY <1>3, OneHelper DEF WaitTake, SemStages
<1>4. CASE WaitRetry(p) BY <1>4, OneHelper DEF WaitRetry, SemStages
<1>5. CASE PostAdd(p) BY <1>5, OneHelper DEF PostAdd, SemStages
<1> QED BY <1>1, <1>2, <1>3, <1>4, <1>5 DEF HelperStep

\* So does the end of a helper.
LEMMA ReleaseOwner ==
  ASSUME Types, LockOwner, NEW p \in Procs, Release(p)
  PROVE  LockOwner'
<1>1. line[p] = "unlock" /\ line' = [line EXCEPT ![p] = "flock"] BY DEF Release
<1>2. \A q \in Procs : line'[q] = "flock"
  BY <1>1, OneHelper DEF Types
<1> QED BY <1>2 DEF LockOwner

\* A command outside the helpers, after which its script is anywhere.
LEMMA CommandOwner ==
  ASSUME Types, LockOwner, NEW p \in Procs, stage[p] \notin SemStages,
         UNCHANGED helperVars, \A q \in Procs \ {p} : stage'[q] = stage[q]
  PROVE  LockOwner'
<1>1. line' = line /\ flock4' = flock4 /\ line[p] = "flock"
  BY DEF helperVars, LockOwner
<1> QED BY <1>1 DEF LockOwner

\* A script's command moves nobody else, and neither clear.sh nor run.sh.
LEMMA ScriptOwner ==
  ASSUME Types, LockOwner, NEW p \in Procs,
         (p \in Producers /\ Produce(p)) \/ (p \in Consumers /\ Comsume(p))
  PROVE  Types' /\ LockOwner' /\ \A q \in Procs \ {p} : stage'[q] = stage[q]
<1>1. Types' BY NextTypes DEF Next
<1>2. CASE HelperStep(p) BY <1>1, <1>2, HelperOwner
<1>3. CASE Unlock(p)
  BY <1>1, <1>3, ReleaseOwner DEF Unlock, Advance, Types
<1>4. CASE AppendItem(p) \/ SedPrint(p) \/ SedCopy(p) \/ SedRename(p) \/ EchoEat(p)
  <2>1. /\ stage[p] \in CriticalStages /\ Advance(p) /\ UNCHANGED helperVars
    BY <1>4 DEF AppendItem, SedPrint, SedCopy, SedRename, Rename, EchoEat, CriticalStages
  <2>2. \A q \in Procs \ {p} : stage'[q] = stage[q] BY <2>1 DEF Advance, Types
  <2>3. stage[p] \notin SemStages
    BY <2>1 DEF CriticalStages, SemStages, WaitStages, PostStages
  <2> QED BY <1>1, <2>1, <2>2, <2>3, CommandOwner
<1> QED BY <1>2, <1>3, <1>4 DEF Produce, Comsume

\* Before the second run, whoever works belongs to the first, and nobody works
\* after a quiet clear.sh.
LEMMA FirstRunWorks ==
  ASSUME RInv, Types', LockOwner', NEW p \in Procs, p \in alive \cup orphans,
         \A q \in Procs \ {p} : stage'[q] = stage[q],
         alive' = alive, phase' = phase, quiet' = quiet,
         orphans' = orphans \/ (orphans' = orphans \ {p} /\ stage'[p] = "off"),
         ~(quiet /\ phase = "rerun")
  PROVE  RInv'
<1> USE DEF RInv
<1>1. Remains' BY DEF Remains
<1>2. ~(quiet /\ phase \in ClearedPhases)
  BY DEF Remains, Reset, Procs
<1>3. Reset' /\ Again' BY <1>2 DEF Reset, Again
<1> QED BY <1>1, <1>3

\* A script works, in the first run or the second.
LEMMA ScriptRInv ==
  ASSUME RInv, NEW p \in Procs, ScriptStep(p)
  PROVE  RInv'
<1> USE DEF RInv
<1>1. /\ p \in alive
      /\ (p \in Producers /\ Produce(p)) \/ (p \in Consumers /\ Comsume(p))
      /\ alive' = alive /\ orphans' = orphans /\ phase' = phase /\ quiet' = quiet
  BY DEF ScriptStep, restartVars
<1>2. Types' /\ LockOwner' /\ \A q \in Procs \ {p} : stage'[q] = stage[q]
  BY <1>1, ScriptOwner
<1>3. CASE quiet /\ phase = "rerun"
  <2>1. IInv' BY <1>1, <1>3, NextIInv DEF Again, Next
  <2>2. Again' BY <1>1, <1>3, <2>1 DEF Again
  <2> QED BY <1>1, <1>2, <1>3, <2>2 DEF Remains, Reset, ClearedPhases
<1>4. CASE ~(quiet /\ phase = "rerun")
  BY <1>1, <1>2, <1>4, FirstRunWorks
<1> QED BY <1>3, <1>4

\* A child works that has outlived its script.
LEMMA OrphanRInv ==
  ASSUME RInv, NEW p \in Procs, OrphanRuns(p) \/ OrphanEnds(p)
  PROVE  RInv'
<1> USE DEF RInv
<1>1. p \in orphans /\ ~(quiet /\ phase = "rerun")
  BY DEF OrphanRuns, OrphanEnds, Again
<1>2. CASE OrphanRuns(p)
  <2>1. UNCHANGED restartVars BY <1>2 DEF OrphanRuns
  <2>2. CASE HelperStep(p)
    BY <1>1, <2>1, <2>2, HelperType, HelperOwner, FirstRunWorks DEF restartVars
  <2>3. CASE SedCopy(p)
    <3>1. p \in Consumers
      BY <2>3 DEF SedCopy, Types, Procs, ProducerStages
    <3>2. Comsume(p) BY <2>3 DEF Comsume
    <3> QED BY <1>1, <2>1, <3>1, <3>2, ScriptOwner, FirstRunWorks DEF restartVars
  <2> QED BY <1>2, <2>2, <2>3 DEF OrphanRuns
<1>3. CASE OrphanEnds(p)
  <2>1. /\ stage' = [stage EXCEPT ![p] = "off"] /\ orphans' = orphans \ {p}
        /\ alive' = alive /\ phase' = phase /\ quiet' = quiet
    BY <1>3 DEF OrphanEnds, OrphanGone
  <2>2. stage'[p] = "off" /\ \A q \in Procs \ {p} : stage'[q] = stage[q]
    BY <2>1 DEF Types
  <2>3. Types' /\ LockOwner'
    <3>1. CASE Release(p)
      <4>1. LockOwner' BY <3>1, ReleaseOwner
      <4>2. Types' BY <2>1, <3>1 DEF Release, Types, bufVars
      <4> QED BY <4>1, <4>2
    <3>2. CASE Rename(p)
      <4>1. p \in Consumers BY <3>2 DEF Rename, Types, Procs, ProducerStages
      <4>2. stage[p] \notin SemStages BY <3>2 DEF Rename, SemStages, WaitStages, PostStages
      <4>3. UNCHANGED helperVars BY <3>2 DEF Rename
      <4>4. LockOwner' BY <2>2, <4>2, <4>3, CommandOwner
      <4> QED BY <2>1, <3>2, <4>1, <4>4 DEF Rename, Types, helperVars
    <3> QED BY <1>3, <3>1, <3>2 DEF OrphanEnds
  <2> QED BY <1>1, <2>1, <2>2, <2>3, FirstRunWorks
<1> QED BY <1>2, <1>3

\* pkill ends a script, and perhaps its child too.
LEMMA PkillRInv ==
  ASSUME RInv, NEW p \in Procs, Pkill(p)
  PROVE  RInv'
<1> USE DEF RInv
<1>1. /\ alive' = alive \ {p} /\ phase' = phase /\ quiet' = quiet
      /\ phase \in {"pkill_comsumer", "pkill_producer"}
      /\ UNCHANGED helperVars /\ UNCHANGED bufVars
      /\ KillAlone(p) \/ KillOrphaning(p)
  BY DEF Pkill
<1>2. Reset' /\ Again' BY <1>1 DEF Reset, Again, ClearedPhases
<1>3. CASE KillAlone(p)
  <2>1. stage' = [stage EXCEPT ![p] = "off"] /\ orphans' = orphans /\ ~ChildRunning(p)
    BY <1>3 DEF KillAlone
  <2>2. Types' BY <1>1, <2>1 DEF Types, helperVars, bufVars
  <2>3. line[p] = "flock" BY <2>1 DEF ChildRunning, LockOwner
  <2>4. LockOwner' BY <1>1, <2>1, <2>3 DEF LockOwner, helperVars, Types
  <2>5. Remains' BY <1>1, <2>1 DEF Remains, Types
  <2> QED BY <1>2, <2>2, <2>4, <2>5
<1>4. CASE KillOrphaning(p)
  <2>1. stage' = stage /\ orphans' = orphans \cup {p} BY <1>4 DEF KillOrphaning
  <2>2. Types' BY <1>1, <2>1 DEF Types, helperVars, bufVars
  <2>3. LockOwner' BY <1>1, <2>1 DEF LockOwner, helperVars
  <2>4. Remains' BY <1>1, <2>1 DEF Remains
  <2> QED BY <1>2, <2>2, <2>3, <2>4
<1> QED BY <1>1, <1>3, <1>4

\* The commands of clear.sh between and after the pkills.
LEMMA ClearRInv ==
  ASSUME RInv, StartClear \/ PkillDone \/ ClearBuffer
  PROVE  RInv'
<1> USE DEF RInv
<1>1. CASE StartClear \/ PkillDone
  <2>1. UNCHANGED vars /\ UNCHANGED <<alive, orphans, quiet>>
    BY <1>1 DEF StartClear, PkillDone
  <2>2. /\ phase \in {"run", "pkill_comsumer", "pkill_producer"}
        /\ phase' \in {"pkill_comsumer", "pkill_producer", "truncate"}
        /\ phase' = "pkill_producer" => alive \cap Consumers = {}
        /\ phase' = "truncate" => phase = "pkill_producer" /\ alive \cap Producers = {}
    BY <1>1 DEF StartClear, PkillDone
  <2>3. Types' BY <2>1 DEF vars, Types
  <2>4. LockOwner' BY <2>1 DEF vars, LockOwner
  <2>5. Remains' BY <2>1, <2>2 DEF vars, Remains, ClearedPhases
  <2>6. Reset' /\ Again' BY <2>2 DEF Reset, Again, ClearedPhases
  <2> QED BY <2>3, <2>4, <2>5, <2>6
<1>2. CASE ClearBuffer
  <2>1. /\ phase = "truncate" /\ phase' = "cleared" /\ buffer' = <<>>
        /\ quiet' = (orphans = {}) /\ orphans' = orphans /\ alive' = alive /\ stage' = stage
        /\ result' = result /\ temp' = temp /\ eaten' = eaten /\ UNCHANGED helperVars
    BY <1>2 DEF ClearBuffer
  <2>2. Types' BY <2>1 DEF Types, helperVars
  <2>3. LockOwner' BY <2>1 DEF LockOwner, helperVars
  <2>4. Remains' BY <2>1 DEF Remains, ClearedPhases
  <2>5. Reset' /\ Again' BY <2>1 DEF Reset, Again, ClearedPhases
  <2> QED BY <2>2, <2>3, <2>4, <2>5
<1> QED BY <1>1, <1>2

\* run.sh writes a semaphore file.
LEMMA RunInitRInv ==
  ASSUME RInv, RunInit
  PROVE  RInv'
<1> USE DEF RInv
<1>1. PICK from \in ClearedPhases, s \in Sems, to \in ClearedPhases :
        /\ RunWrites(from, s, to)
        /\ \/ from = "cleared" /\ s = "free" /\ to = "free_set"
           \/ from = "free_set" /\ s = "space" /\ to = "space_set"
           \/ from = "space_set" /\ s = "data" /\ to = "data_set"
  BY DEF RunInit, ClearedPhases, Sems
<1>2. /\ phase = from /\ phase' = to /\ sem' = [sem EXCEPT ![s] = InitSems[s]]
      /\ flock4' = flock4 /\ line' = line /\ sem_val' = sem_val /\ stage' = stage
      /\ UNCHANGED bufVars /\ alive' = alive /\ orphans' = orphans /\ quiet' = quiet
  BY <1>1 DEF RunWrites
<1>3. /\ InitSems \in [Sems -> Nat]
      /\ InitSems["free"] = 1 /\ InitSems["space"] = bufsize /\ InitSems["data"] = 0
  BY ProComAssumption DEF InitSems, Sems
<1>4. Types' BY <1>2, <1>3 DEF Types, bufVars
<1>5. LockOwner' BY <1>2 DEF LockOwner
<1>6. Remains' BY <1>1, <1>2 DEF Remains, ClearedPhases
<1>7. Reset'
  <2>1. DOMAIN sem = {"free", "space", "data"} BY DEF Types, Sems
  <2>2. s = "free" => sem'["free"] = 1 BY <1>2, <1>3, <2>1
  <2>3. s = "space" => sem'["space"] = bufsize /\ sem'["free"] = sem["free"]
    BY <1>2, <1>3, <2>1
  <2>4. s = "data" => /\ sem'["data"] = 0 /\ sem'["free"] = sem["free"]
                      /\ sem'["space"] = sem["space"]
    BY <1>2, <1>3, <2>1
  <2> QED BY <1>1, <1>2, <2>2, <2>3, <2>4 DEF Reset, ClearedPhases, bufVars
<1>8. Again' BY <1>1, <1>2 DEF Again, ClearedPhases
<1> QED BY <1>4, <1>5, <1>6, <1>7, <1>8

\* run.sh starts the second run.
LEMMA RunStartRInv ==
  ASSUME RInv, RunStart
  PROVE  RInv'
<1> USE DEF RInv
<1>1. /\ phase = "data_set" /\ phase' = "rerun"
      /\ stage' = [p \in Procs |-> IF p \in SecondRun THEN FirstStage(p) ELSE stage[p]]
      /\ UNCHANGED helperVars /\ UNCHANGED bufVars /\ orphans' = orphans /\ quiet' = quiet
  BY DEF RunStart
<1>2. Types'
  <2>1. \A p \in Procs : \/ p \in Producers /\ FirstStage(p) \in ProducerStages
                         \/ p \in Consumers /\ p \notin Producers /\ FirstStage(p) \in ConsumerStages
    BY ProComAssumption DEF Procs, FirstStage, ProducerStages, ConsumerStages
  <2>2. /\ stage' \in [Procs -> ProducerStages \cup ConsumerStages \cup {"off"}]
        /\ \A p \in Producers : stage'[p] \in ProducerStages \cup {"off"}
        /\ \A c \in Consumers : stage'[c] \in ConsumerStages \cup {"off"}
    BY <1>1, <2>1, ProComAssumption DEF Types, Procs
  <2> QED BY <1>1, <2>2 DEF Types, helperVars, bufVars
<1>3. LockOwner'
  <2>1. \A p : FirstStage(p) \in SemStages
    BY DEF FirstStage, SemStages, WaitStages
  <2> QED BY <1>1, <2>1 DEF LockOwner, helperVars
<1>4. Remains' /\ Reset' BY <1>1 DEF Remains, Reset, ClearedPhases
<1>5. ASSUME quiet PROVE orphans = {} /\ IInv'
  <2>1. /\ orphans = {} /\ buffer = <<>> /\ sem["free"] = 1
        /\ sem["space"] = bufsize /\ sem["data"] = 0
    BY <1>1, <1>5 DEF Reset, ClearedPhases
  <2>2. \A p \in Procs : stage[p] = "off"
    BY <1>1, <2>1 DEF Remains, ClearedPhases, Procs
  <2>3. \A p \in Procs : line[p] = "flock"
    BY <2>2 DEF LockOwner, SemStages, WaitStages, PostStages
  <2>4. \A p \in Procs : line'[p] = "flock" /\ stage'[p] \in {"wait_space", "wait_data", "off"}
    BY <1>1, <2>2, <2>3 DEF helperVars, FirstStage
  <2>5. sem' = sem /\ buffer' = buffer BY <1>1 DEF helperVars, bufVars
  <2>6. Fresh' BY <1>2, <2>1, <2>4, <2>5 DEF Fresh
  <2>7. (Fresh => IInv)' BY FreshIInv, PTL
  <2> QED BY <2>1, <2>6, <2>7
<1>6. Again' BY <1>1, <1>5 DEF Again
<1> QED BY <1>2, <1>3, <1>4, <1>6

\* Every step of the scripts, their orphans, clear.sh and run.sh keeps it.
LEMMA NextRInv == RInv /\ [RestartNext]_allVars => RInv'
<1> SUFFICES ASSUME RInv, [RestartNext]_allVars PROVE RInv'
  OBVIOUS
<1>1. ASSUME NEW p \in Procs, ScriptStep(p) \/ OrphanRuns(p) \/ OrphanEnds(p) \/ Pkill(p)
      PROVE  RInv'
  BY <1>1, ScriptRInv, OrphanRInv, PkillRInv
<1>2. CASE StartClear \/ PkillDone \/ ClearBuffer BY <1>2, ClearRInv
<1>3. CASE RunInit BY <1>3, RunInitRInv
<1>4. CASE RunStart BY <1>4, RunStartRInv
<1>5. CASE UNCHANGED allVars
  <2>1. UNCHANGED vars /\ alive' = alive /\ orphans' = orphans /\ phase' = phase /\ quiet' = quiet
    BY <1>5 DEF allVars, restartVars
  <2>2. Types' BY <2>1 DEF RInv, Types, vars
  <2>3. LockOwner' /\ Remains' /\ Reset' BY <2>1 DEF RInv, LockOwner, Remains, Reset, vars
  <2>4. Again' BY <2>1, NextIInv DEF RInv, Again
  <2> QED BY <2>2, <2>3, <2>4 DEF RInv
<1> QED BY <1>1, <1>2, <1>3, <1>4, <1>5 DEF RestartNext

\* The first run starts as in ProCom; the scripts of the second are not there yet.
LEMMA InitRInv == RestartInit => RInv
<1> SUFFICES ASSUME RestartInit PROVE RInv
  OBVIOUS
<1>1. Types
  BY ProComAssumption, SecondRunAssumption
  DEF RestartInit, Types, InitSems, Sems, FirstStage, ProducerStages, ConsumerStages, Procs
<1>2. LockOwner BY DEF RestartInit, LockOwner
<1>3. Remains /\ Reset /\ Again
  BY DEF RestartInit, Remains, Reset, Again, ClearedPhases
<1> QED BY <1>1, <1>2, <1>3 DEF RInv

\* clear.sh at any moment of a run and then run.sh again: if no helper and no sed of
\* the first run is left when clear.sh empties the buffer, the second run starts on
\* an empty buffer and has the exclusion and the accounting of the first, whatever
\* command each script was killed at.
THEOREM RestartIsSound == RestartSpec => []QuietRestartSound
<1>1. RInv => QuietRestartSound
  BY AccountingExcludes DEF RInv, Reset, Again, IInv, QuietRestartSound, ClearedPhases
<1> QED BY <1>1, InitRInv, NextRInv, PTL DEF RestartSpec
=============================================================================
