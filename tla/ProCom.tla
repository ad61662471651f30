------------------------------- MODULE ProCom -------------------------------
(***************************************************************************)
(* pro_com/: producers and consumers written as shell scripts.             *)
(*                                                                         *)
(* The buffer is resrc/buffer.txt, one item per line.  Three counting      *)
(* semaphores are files holding a number (resrc/free.sem, space.sem and    *)
(* data.sem); bin/_sem_wait_.sh and bin/_sem_post_.sh read the number and  *)
(* write it back inside flock(resrc/lock).  run.sh sets the initial values *)
(* and starts the scripts, which loop forever.                             *)
(*                                                                         *)
(* Every script is a process.  stage[p] is the command of produce() or     *)
(* comsume() it is at; while that command is a semaphore helper, line[p]   *)
(* is the helper's next command.                                           *)
(***************************************************************************)
EXTENDS Integers, Sequences, FiniteSets

CONSTANTS
  Producers,  \* the producer.sh processes; a producer's item is itself
  Consumers,  \* the comsumer.sh processes
  bufsize,    \* run.sh's bufsize
  NoProc,     \* nobody holds the flock
  NoItem      \* the empty string sed prints for an empty file

Procs == Producers \cup Consumers

ASSUME ProComAssumption ==
  /\ IsFiniteSet(Producers) /\ IsFiniteSet(Consumers)
  /\ Producers \cap Consumers = {}
  /\ NoProc \notin Procs
  /\ NoItem \notin Procs
  /\ bufsize \in Nat \ {0}

VARIABLES
  sem,      \* the number in each semaphore file
  flock4,   \* the process whose helper holds the lock on resrc/lock
  buffer,   \* the lines of resrc/buffer.txt
  stage,    \* the command each script is at
  line,     \* the next command of its running helper
  sem_val,  \* the helper's shell variable
  result,   \* comsumer.sh's shell variable
  temp,     \* the temporary file of a running sed -i
  eaten     \* the last item each consumer printed

vars == <<sem, flock4, buffer, stage, line, sem_val, result, temp, eaten>>
bufVars == <<buffer, result, temp, eaten>>
helperVars == <<sem, flock4, line, sem_val>>

-----------------------------------------------------------------------------
Sems == {"free", "space", "data"}

WaitStages == {"wait_space", "wait_data", "wait_free"}
PostStages == {"post_free", "post_data", "post_space"}
SemStages  == WaitStages \cup PostStages

\* The file the helper is called with.
SemOf(st) ==
  CASE st \in {"wait_free", "post_free"}   -> "free"
    [] st \in {"wait_space", "post_space"} -> "space"
    [] OTHER                               -> "data"

\* Mutant: produce() without its _sem_wait_ on free.sem.
ProduceNextNoWait(st) ==
  CASE st = "wait_space" -> "append"
    [] st = "append"     -> "post_free"
    [] st = "post_free"  -> "post_data"
    [] OTHER             -> "wait_space"

\* Mutant: produce() without its _sem_post_ on data.sem.
ProduceNextNoPost(st) ==
  CASE st = "wait_space" -> "wait_free"
    [] st = "wait_free"  -> "append"
    [] st = "append"     -> "post_free"
    [] OTHER             -> "wait_space"

\* produce(): the command after st, in the endless loop.
ProduceNext(st) ==
  CASE st = "wait_space" -> "wait_free"
    [] st = "wait_free"  -> "append"
    [] st = "append"     -> "post_free"
    [] st = "post_free"  -> "post_data"
    [] OTHER             -> "wait_space"

\* Mutant: comsume() that deletes the first line before it prints it.
ComsumeNextDeleteFirst(st) ==
  CASE st = "wait_data"  -> "wait_free"
    [] st = "wait_free"  -> "sed_copy"
    [] st = "sed_copy"   -> "sed_rename"
    [] st = "sed_rename" -> "sed_print"
    [] st = "sed_print"  -> "echo_eat"
    [] st = "echo_eat"   -> "post_free"
    [] st = "post_free"  -> "post_space"
    [] OTHER             -> "wait_data"

\* Mutant: comsume() without its _sem_post_ on space.sem.
ComsumeNextNoPost(st) ==
  CASE st = "wait_data"  -> "wait_free"
    [] st = "wait_free"  -> "sed_print"
    [] st = "sed_print"  -> "sed_copy"
    [] st = "sed_copy"   -> "sed_rename"
    [] st = "sed_rename" -> "echo_eat"
    [] st = "echo_eat"   -> "post_free"
    [] OTHER             -> "wait_data"

\* comsume(): the command after st, in the endless loop.
ComsumeNext(st) ==
  CASE st = "wait_data"  -> "wait_free"
    [] st = "wait_free"  -> "sed_print"
    [] st = "sed_print"  -> "sed_copy"
    [] st = "sed_copy"   -> "sed_rename"
    [] st = "sed_rename" -> "echo_eat"
    [] st = "echo_eat"   -> "post_free"
    [] st = "post_free"  -> "post_space"
    [] OTHER             -> "wait_data"

NextStage(p, st) == IF p \in Producers THEN ProduceNext(st) ELSE ComsumeNext(st)

Advance(p) == stage' = [stage EXCEPT ![p] = NextStage(p, @)]

-----------------------------------------------------------------------------
\* run.sh: the semaphores' initial values, then all the scripts.
InitSems == [s \in Sems |-> IF s = "free" THEN 1
                            ELSE IF s = "space" THEN bufsize ELSE 0]

FirstStage(p) == IF p \in Producers THEN "wait_space" ELSE "wait_data"

Init ==
  /\ sem = InitSems
  /\ flock4 = NoProc
  /\ buffer = <<>>
  /\ stage = [p \in Procs |-> FirstStage(p)]
  /\ line = [p \in Procs |-> "flock"]
  /\ sem_val = [p \in Procs |-> 0]
  /\ result = [c \in Consumers |-> NoItem]
  /\ temp = [c \in Consumers |-> <<>>]
  /\ eaten = [c \in Consumers |-> NoItem]

-----------------------------------------------------------------------------
(***************************************************************************)
(* The semaphore helpers.                                                  *)
(***************************************************************************)

\* Mutant: the helper without flock, the lock file opened in vain.
FlockUnlocked(p) ==
  /\ stage[p] \in SemStages
  /\ line[p] = "flock"
  /\ flock4' = p
  /\ line' = [line EXCEPT ![p] = "cat"]
  /\ UNCHANGED <<sem, stage, sem_val, bufVars>>

\* flock 4
Flock(p) ==
  /\ stage[p] \in SemStages
  /\ line[p] = "flock"
  /\ flock4 = NoProc
  /\ flock4' = p
  /\ line' = [line EXCEPT ![p] = "cat"]
  /\ UNCHANGED <<sem, stage, sem_val, bufVars>>

\* sem_val=$(cat "$sem_val_file")
Cat(p) ==
  /\ stage[p] \in SemStages
  /\ line[p] = "cat"
  /\ sem_val' = [sem_val EXCEPT ![p] = sem[SemOf(stage[p])]]
  /\ line' = [line EXCEPT ![p] = "echo"]
  /\ UNCHANGED <<sem, flock4, stage, bufVars>>

\* Mutant: -ge 0 instead of -gt 0 in the helper's test.
WaitTakeAtZero(p) ==
  /\ stage[p] \in WaitStages
  /\ line[p] = "echo"
  /\ sem_val[p] >= 0
  /\ sem' = [sem EXCEPT ![SemOf(stage[p])] = sem_val[p] - 1]
  /\ line' = [line EXCEPT ![p] = "unlock"]
  /\ UNCHANGED <<flock4, stage, sem_val, bufVars>>

\* _sem_wait_, positive value: echo $((sem_val-1)) > file
WaitTake(p) ==
  /\ stage[p] \in WaitStages
  /\ line[p] = "echo"
  /\ sem_val[p] > 0
  /\ sem' = [sem EXCEPT ![SemOf(stage[p])] = sem_val[p] - 1]
  /\ line' = [line EXCEPT ![p] = "unlock"]
  /\ UNCHANGED <<flock4, stage, sem_val, bufVars>>

\* _sem_wait_, no unit left: flock -u 4, sleep, and around the loop again.
WaitRetry(p) ==
  /\ stage[p] \in WaitStages
  /\ line[p] = "echo"
  /\ ~(sem_val[p] > 0)
  /\ flock4' = NoProc
  /\ line' = [line EXCEPT ![p] = "flock"]
  /\ sem_val' = [sem_val EXCEPT ![p] = 0]
  /\ UNCHANGED <<sem, stage, bufVars>>

\* _sem_post_: echo $((sem_val+1)) > file
PostAdd(p) ==
  /\ stage[p] \in PostStages
  /\ line[p] = "echo"
  /\ sem' = [sem EXCEPT ![SemOf(stage[p])] = sem_val[p] + 1]
  /\ line' = [line EXCEPT ![p] = "unlock"]
  /\ UNCHANGED <<flock4, stage, sem_val, bufVars>>

\* flock -u 4 and the end of the helper process.
Release(p) ==
  /\ stage[p] \in SemStages
  /\ line[p] = "unlock"
  /\ flock4' = NoProc
  /\ line' = [line EXCEPT ![p] = "flock"]
  /\ sem_val' = [sem_val EXCEPT ![p] = 0]
  /\ UNCHANGED <<sem, bufVars>>

\* ... after which the calling script goes on with its next command.
Unlock(p) == Release(p) /\ Advance(p)

HelperStep(p) ==
  Flock(p) \/ Cat(p) \/ WaitTake(p) \/ WaitRetry(p) \/ PostAdd(p)

-----------------------------------------------------------------------------
(***************************************************************************)
(* The commands on the buffer file.                                        *)
(***************************************************************************)

\* echo "$val" >> resrc/buffer.txt
AppendItem(p) ==
  /\ stage[p] = "append"
  /\ buffer' = Append(buffer, p)
  /\ Advance(p)
  /\ UNCHANGED <<result, temp, eaten, helperVars>>

\* result=$(sed -n "1p" resrc/buffer.txt)
SedPrint(c) ==
  /\ stage[c] = "sed_print"
  /\ result' = [result EXCEPT ![c] = IF buffer = <<>> THEN NoItem ELSE Head(buffer)]
  /\ Advance(c)
  /\ UNCHANGED <<buffer, temp, eaten, helperVars>>

\* sed -i '1d', first half: all lines but the first into a temporary file.
SedCopy(c) ==
  /\ stage[c] = "sed_copy"
  /\ temp' = [temp EXCEPT ![c] = IF buffer = <<>> THEN <<>> ELSE Tail(buffer)]
  /\ Advance(c)
  /\ UNCHANGED <<buffer, result, eaten, helperVars>>

\* sed -i '1d', second half: the temporary file renamed over the buffer.
Rename(c) ==
  /\ stage[c] = "sed_rename"
  /\ buffer' = temp[c]
  /\ temp' = [temp EXCEPT ![c] = <<>>]
  /\ UNCHANGED <<result, eaten, helperVars>>

SedRename(c) == Rename(c) /\ Advance(c)

\* echo "[comsumer] eat $result"
EchoEat(c) ==
  /\ stage[c] = "echo_eat"
  /\ eaten' = [eaten EXCEPT ![c] = result[c]]
  /\ Advance(c)
  /\ UNCHANGED <<buffer, result, temp, helperVars>>

-----------------------------------------------------------------------------
Produce(p) == HelperStep(p) \/ Unlock(p) \/ AppendItem(p)

Comsume(c) ==
  \/ HelperStep(c) \/ Unlock(c)
  \/ SedPrint(c) \/ SedCopy(c) \/ SedRename(c) \/ EchoEat(c)

Next ==
  \/ \E p \in Producers : Produce(p)
  \/ \E c \in Consumers : Comsume(c)

Spec == Init /\ [][Next]_vars

(***************************************************************************)
(* Every script keeps running (WF).  A helper blocked in flock gets the    *)
(* lock eventually (SF): whoever polls a semaphore in vain sleeps 0.1s     *)
(* after each flock -u, so the lock is free again and again while the      *)
(* others are asleep.                                                      *)
(***************************************************************************)
FairSpec ==
  /\ Spec
  /\ \A p \in Producers : WF_vars(Produce(p)) /\ SF_vars(Flock(p))
  /\ \A c \in Consumers : WF_vars(Comsume(c)) /\ SF_vars(Flock(c))
-----------------------------------------------------------------------------
(***************************************************************************)
(* Properties.                                                             *)
(***************************************************************************)

ProducerStages == {"wait_space", "wait_free", "append", "post_free", "post_data"}
ConsumerStages == {"wait_data", "wait_free", "sed_print", "sed_copy",
                   "sed_rename", "echo_eat", "post_free", "post_space"}

\* The values every variable of the scripts, helpers and files can have.
TypeOK ==
  /\ sem \in [Sems -> Nat]
  /\ flock4 \in Procs \cup {NoProc}
  /\ buffer \in Seq(Producers)
  /\ stage \in [Procs -> ProducerStages \cup ConsumerStages]
  /\ \A p \in Producers : stage[p] \in ProducerStages
  /\ \A c \in Consumers : stage[c] \in ConsumerStages
  /\ line \in [Procs -> {"flock", "cat", "echo", "unlock"}]
  /\ sem_val \in [Procs -> Nat]
  /\ result \in [Consumers -> Producers \cup {NoItem}]
  /\ temp \in [Consumers -> Seq(Producers)]
  /\ eaten \in [Consumers -> Producers \cup {NoItem}]

\* The commands that touch resrc/buffer.txt, between the helpers on free.sem.
CriticalStages == {"append", "sed_print", "sed_copy", "sed_rename", "echo_eat"}

\* The free.sem protocol of producer.sh and comsumer.sh: at most one script is
\* between its wait and its post on free.sem, so no append and no sed -i of
\* two scripts overlap.
BufferExclusive ==
  \A p, q \in Procs :
    stage[p] \in CriticalStages /\ stage[q] \in CriticalStages => p = q

\* The flock of the helpers: the number a helper has read is still the file's
\* number when it writes, so no decrement and no increment is ever lost.
NoLostUpdate ==
  \A p \in Procs : line[p] = "echo" => sem_val[p] = sem[SemOf(stage[p])]

Holding(p, waited, between, posting) ==
  \/ stage[p] = waited /\ line[p] = "unlock"
  \/ stage[p] \in between
  \/ stage[p] = posting /\ line[p] # "unlock"

\* p has taken the unit of free.sem and not given it back.
HoldsFree(p) == Holding(p, "wait_free", CriticalStages, "post_free")

\* p has taken a unit of space.sem or data.sem and not yet passed it on to the
\* other of the two.
HoldsUnit(p) ==
  \/ Holding(p, "wait_space", {"wait_free", "append", "post_free"}, "post_data")
  \/ Holding(p, "wait_data", {"wait_free", "sed_print", "sed_copy", "sed_rename",
                              "echo_eat", "post_free"}, "post_space")

\* p's item is in the file and not yet announced in data.sem.
Unannounced(p) ==
  /\ p \in Producers
  /\ stage[p] = "post_free" \/ (stage[p] = "post_data" /\ line[p] # "unlock")

\* c has claimed an item through data.sem and not yet removed it.
Claiming(c) ==
  /\ c \in Consumers
  /\ \/ stage[c] = "wait_data" /\ line[c] = "unlock"
     \/ stage[c] \in {"wait_free", "sed_print", "sed_copy", "sed_rename"}

FreeHolders == {p \in Procs : HoldsFree(p)}
UnitHolders == {p \in Procs : HoldsUnit(p)}
OffTheBooks == {p \in Procs : Unannounced(p) \/ Claiming(p)}

\* The three semaphores of run.sh account for the buffer at every moment,
\* whatever the scripts are doing: free is the lock's only unit, space and data
\* share bufsize units, and the file has exactly the lines data.sem counts plus
\* those being put or eaten.
Accounting ==
  /\ sem["free"] + Cardinality(FreeHolders) = 1
  /\ sem["space"] + sem["data"] + Cardinality(UnitHolders) = bufsize
  /\ Len(buffer) = sem["data"] + Cardinality(OffTheBooks)

\* Only the helper that has the flock is past its first command.
LockOwner ==
  \A p \in Procs : line[p] # "flock" => stage[p] \in SemStages /\ flock4 = p

\* Between its two sed commands and the rename, a consumer has the file's first
\* line in result and, once copied, the other lines in the temporary file.
DeletesHead ==
  \A c \in Consumers :
    /\ stage[c] \in {"sed_copy", "sed_rename"} => buffer # <<>> /\ result[c] = Head(buffer)
    /\ stage[c] = "sed_rename" => temp[c] = Tail(buffer)

\* A line that is deleted from the file and not yet echoed is in the hands of the
\* one consumer that is about to echo it.
Transit(at, res) ==
  IF \E c \in Consumers : at[c] = "echo_eat"
  THEN <<res[CHOOSE c \in Consumers : at[c] = "echo_eat"]>>
  ELSE <<>>

InTransit == Transit(stage, result)

Abstract == INSTANCE BoundedBuffer WITH queue <- InTransit \o buffer

\* The scripts implement the bounded FIFO buffer: the items are eaten in the
\* order in which they were put, each once, none is lost or made up, and there
\* are never more than bufsize of them.
ImplementsBoundedBuffer == Abstract!Spec

\* The polling loops of _sem_wait_.sh never leave every script waiting: items
\* keep being eaten.
KeepsEating == []<>(\E c \in Consumers : stage[c] = "echo_eat")
=============================================================================
