--------------------------- MODULE ProComRestart ---------------------------
(***************************************************************************)
(* pro_com/clear.sh while the scripts are running, and a second run.sh.    *)
(*                                                                         *)
(* clear.sh kills the processes whose command line matches comsumer.sh or  *)
(* producer.sh and empties the buffer.  A script waits for its helper or   *)
(* its sed as a separate process, with a command line of its own           *)
(* ("/bin/bash bin/_sem_wait_.sh resrc/free.sem", "sed -i 1d ..."), so a   *)
(* killed script leaves the child it was waiting for behind: an orphan,    *)
(* which runs to its end.  run.sh then writes the semaphore files without  *)
(* taking the lock and starts the scripts again.                           *)
(***************************************************************************)
EXTENDS ProCom

CONSTANT SecondRun  \* the scripts that the second run.sh starts

ASSUME SecondRunAssumption == SecondRun \subseteq Procs

VARIABLES
  alive,    \* the scripts (not their children) that are running
  orphans,  \* the killed scripts whose last child is still running
  phase,    \* where clear.sh and the second run.sh are
  quiet     \* no orphan was left when clear.sh emptied the buffer

restartVars == <<alive, orphans, phase, quiet>>
allVars == <<vars, restartVars>>

RestartInit ==
  /\ sem = InitSems
  /\ flock4 = NoProc
  /\ buffer = <<>>
  /\ stage = [p \in Procs |-> IF p \in SecondRun THEN "off" ELSE FirstStage(p)]
  /\ line = [p \in Procs |-> "flock"]
  /\ sem_val = [p \in Procs |-> 0]
  /\ result = [c \in Consumers |-> NoItem]
  /\ temp = [c \in Consumers |-> <<>>]
  /\ eaten = [c \in Consumers |-> NoItem]
  /\ alive = Procs \ SecondRun
  /\ orphans = {}
  /\ phase = "run"
  /\ quiet = TRUE

-----------------------------------------------------------------------------
ScriptStep(p) ==
  /\ p \in alive
  /\ \/ p \in Producers /\ Produce(p)
     \/ p \in Consumers /\ Comsume(p)
  /\ UNCHANGED restartVars

(***************************************************************************)
(* The children that outlive their script.                                 *)
(***************************************************************************)
OrphanGone(p) ==
  /\ stage' = [stage EXCEPT ![p] = "off"]
  /\ orphans' = orphans \ {p}
  /\ UNCHANGED <<alive, phase, quiet>>

OrphanRuns(p) ==
  /\ p \in orphans
  /\ HelperStep(p) \/ SedCopy(p)
  /\ UNCHANGED restartVars

OrphanEnds(p) ==
  /\ p \in orphans
  /\ Release(p) \/ Rename(p)
  /\ OrphanGone(p)

-----------------------------------------------------------------------------
(***************************************************************************)
(* clear.sh.                                                               *)
(***************************************************************************)
StartClear ==
  /\ phase = "run"
  /\ phase' = "pkill_comsumer"
  /\ UNCHANGED <<vars, alive, orphans, quiet>>

\* Commands run by a child process that has already done something.
ChildRunning(p) ==
  \/ stage[p] \in SemStages /\ line[p] # "flock"
  \/ stage[p] = "sed_rename"

\* The script dies between two commands, or during one of its own.
KillAlone(p) ==
  /\ ~ChildRunning(p)
  /\ stage' = [stage EXCEPT ![p] = "off"]
  /\ UNCHANGED orphans

\* The script dies and leaves the helper or the sed -i it was waiting for.
KillOrphaning(p) ==
  /\ ChildRunning(p) \/ stage[p] \in SemStages \cup {"sed_copy"}
  /\ orphans' = orphans \cup {p}
  /\ UNCHANGED stage

Pkill(p) ==
  /\ p \in alive
  /\ \/ phase = "pkill_comsumer" /\ p \in Consumers
     \/ phase = "pkill_producer" /\ p \in Producers
  /\ KillAlone(p) \/ KillOrphaning(p)
  /\ alive' = alive \ {p}
  /\ UNCHANGED <<helperVars, bufVars, phase, quiet>>

PkillDone ==
  /\ \/ phase = "pkill_comsumer" /\ alive \cap Consumers = {} /\ phase' = "pkill_producer"
     \/ phase = "pkill_producer" /\ alive \cap Producers = {} /\ phase' = "truncate"
  /\ UNCHANGED <<vars, alive, orphans, quiet>>

\* > ./resrc/buffer.txt
ClearBuffer ==
  /\ phase = "truncate"
  /\ buffer' = <<>>
  /\ quiet' = (orphans = {})
  /\ phase' = "cleared"
  /\ UNCHANGED <<result, temp, eaten, helperVars, stage, alive, orphans>>

-----------------------------------------------------------------------------
(***************************************************************************)
(* The second run.sh: three unlocked writes, then the scripts.             *)
(***************************************************************************)
\* Mutant: run.sh that leaves a semaphore file as it found it.
RunWritesNothing(from, s, to) ==
  /\ phase = from
  /\ phase' = to
  /\ UNCHANGED <<vars, alive, orphans, quiet>>

RunWrites(from, s, to) ==
  /\ phase = from
  /\ sem' = [sem EXCEPT ![s] = InitSems[s]]
  /\ phase' = to
  /\ UNCHANGED <<flock4, line, sem_val, stage, bufVars, alive, orphans, quiet>>

RunInit ==
  \/ RunWrites("cleared", "free", "free_set")
  \/ RunWrites("free_set", "space", "space_set")
  \/ RunWrites("space_set", "data", "data_set")

RunStart ==
  /\ phase = "data_set"
  /\ stage' = [p \in Procs |-> IF p \in SecondRun THEN FirstStage(p) ELSE stage[p]]
  /\ alive' = SecondRun
  /\ phase' = "rerun"
  /\ UNCHANGED <<helperVars, bufVars, orphans, quiet>>

-----------------------------------------------------------------------------
RestartNext ==
  \/ \E p \in Procs : ScriptStep(p) \/ OrphanRuns(p) \/ OrphanEnds(p) \/ Pkill(p)
  \/ StartClear \/ PkillDone \/ ClearBuffer \/ RunInit \/ RunStart

RestartSpec == RestartInit /\ [][RestartNext]_allVars

-----------------------------------------------------------------------------
\* pro_com/README.md on clear.sh: it cleans up the processes and resets the buffer.
\* So it does when every helper and sed of the first run has ended before clear.sh
\* empties the buffer: the file is empty when the second run starts, and that run
\* has the same exclusion and the same accounting as the first.
QuietRestartSound ==
  quiet => /\ phase \in {"cleared", "free_set", "space_set", "data_set"} => buffer = <<>>
           /\ phase = "rerun" => BufferExclusive /\ Accounting
=============================================================================
