---------------------------- MODULE CntxtSwitch ----------------------------
(***************************************************************************)
(* CPUvirtualization/CntxtSwitchTestForLinux.c: parent and child send each *)
(* other one message at a time through two pipes, and the child measures   *)
(* how old the parent's is.  Either may be killed at any time.             *)
(*                                                                         *)
(* A time is the number of clock_gettime calls the parent has made.  r1    *)
(* and w1 are the ends of pipefd, r2 and w2 those of pipefd2.              *)
(***************************************************************************)
EXTENDS Integers, Sequences

CONSTANTS
  MaxTotal,  \* bound: the number of tries on the command line
  PipeSize   \* messages that fit into a pipe

ASSUME SwitchAssumption == MaxTotal \in Nat /\ PipeSize \in Nat \ {0}

VARIABLES
  total,
  at,      \* where each process is
  fds,     \* the pipe ends each process has open
  pipe1,   \* what is in pipefd: times
  pipe2,   \* what is in pipefd2: values of tryc
  tryc,
  start,   \* the parent's last time, and the one the child has read
  killed,  \* auxiliary: a process was killed from outside
  stale    \* auxiliary: the child has measured with a time that is not the last

pipes == <<pipe1, pipe2>>
local == <<tryc, start>>
switchVars == <<total, at, fds, pipes, local, killed, stale>>

Sides == {"parent", "child"}
Gone == {"exited", "killed"}

SwitchInit ==
  /\ total \in 0..MaxTotal
  /\ at = [p \in Sides |-> IF p = "parent" THEN "pipe" ELSE "unborn"]
  /\ fds = [p \in Sides |-> {}]
  /\ pipe1 = <<>> /\ pipe2 = <<>>
  /\ tryc = [p \in Sides |-> 1]
  /\ start = [p \in Sides |-> 0]
  /\ killed = FALSE /\ stale = FALSE

-----------------------------------------------------------------------------
Goes(p, from, to) == at[p] = from /\ at' = [at EXCEPT ![p] = to]

\* The process ends, and with it its descriptors are closed.
Ends(p, from, how) == Goes(p, from, how) /\ fds' = [fds EXCEPT ![p] = {}]

Pipe(from, ends, to) ==
  /\ \/ Goes("parent", from, to) /\ fds' = [fds EXCEPT !["parent"] = @ \cup ends]
     \/ Ends("parent", from, "exited")
  /\ UNCHANGED <<total, pipes, local, killed, stale>>

Fork ==
  /\ \/ /\ at["parent"] = "fork"
        /\ at' = [p \in Sides |-> "close1"]
        /\ fds' = [p \in Sides |-> fds["parent"]]
     \/ Ends("parent", "fork", "exited")
  /\ UNCHANGED <<total, pipes, local, killed, stale>>

\* Mutants: the child keeps pipefd2[0]; the parent keeps pipefd2[1].
UnusedKeepsR2(p, from) ==
  IF p = "parent" THEN IF from = "close1" THEN "r1" ELSE "w2"
  ELSE IF from = "close1" THEN "w1" ELSE "none"
UnusedKeepsW2(p, from) ==
  IF p = "child" THEN IF from = "close1" THEN "w1" ELSE "r2"
  ELSE IF from = "close1" THEN "r1" ELSE "none"

\* The ends that each process closes before its loop.
Unused(p, from) ==
  IF p = "parent" THEN IF from = "close1" THEN "r1" ELSE "w2"
  ELSE IF from = "close1" THEN "w1" ELSE "r2"

Close(p) ==
  /\ Goes(p, "close1", "close2") \/ Goes(p, "close2", "test")
  /\ fds' = [fds EXCEPT ![p] = @ \ {Unused(p, at[p])}]
  /\ UNCHANGED <<total, pipes, local, killed, stale>>

\* while(tryc <= total); the child prints the average after it.  Closing the other
\* two ends and exit follow without a wait between them.
Test(p) ==
  /\ \/ /\ tryc[p] <= total
        /\ Goes(p, "test", IF p = "parent" THEN "write" ELSE "read")
        /\ UNCHANGED fds
     \/ tryc[p] > total /\ Ends(p, "test", "exited")
  /\ UNCHANGED <<total, pipes, local, killed, stale>>

Open(end) == \E p \in Sides : end \in fds[p]

\* A write to a pipe whose reading end nobody has open: SIGPIPE.
Sigpipe(p, end) ==
  /\ ~Open(end) /\ Ends(p, "write", "killed")
  /\ UNCHANGED <<total, pipes, local, killed, stale>>

\* clock_gettime(&start), write(pipefd[1])
ParentWrites ==
  /\ Open("r1") /\ Len(pipe1) < PipeSize
  /\ Goes("parent", "write", "read")
  /\ start' = [start EXCEPT !["parent"] = @ + 1]
  /\ pipe1' = Append(pipe1, start'["parent"])
  /\ UNCHANGED <<total, fds, pipe2, tryc, killed, stale>>

\* Mutant: a parent that does not wait for the answer.
ParentReadsNoWait ==
  /\ Goes("parent", "read", "test")
  /\ IF pipe2 = <<>> THEN UNCHANGED <<tryc, pipe2>>
     ELSE tryc' = [tryc EXCEPT !["parent"] = Head(pipe2)] /\ pipe2' = Tail(pipe2)
  /\ UNCHANGED <<total, fds, pipe1, start, killed, stale>>

\* read(pipefd2[0]); at the end of the file tryc stays as it was.
ParentReads ==
  /\ Goes("parent", "read", "test")
  /\ \/ /\ pipe2 # <<>>
        /\ tryc' = [tryc EXCEPT !["parent"] = Head(pipe2)]
        /\ pipe2' = Tail(pipe2)
     \/ /\ pipe2 = <<>> /\ ~Open("w2")
        /\ UNCHANGED <<tryc, pipe2>>
  /\ UNCHANGED <<total, fds, pipe1, start, killed, stale>>

\* read(pipefd[0]), the measurement, ++tryc; at the end of the file start stays.
ChildReads ==
  /\ Goes("child", "read", "write")
  /\ \/ /\ pipe1 # <<>>
        /\ start' = [start EXCEPT !["child"] = Head(pipe1)]
        /\ pipe1' = Tail(pipe1)
        /\ stale' = (stale \/ Head(pipe1) # start["parent"])
     \/ /\ pipe1 = <<>> /\ ~Open("w1")
        /\ stale' = TRUE
        /\ UNCHANGED <<start, pipe1>>
  /\ tryc' = [tryc EXCEPT !["child"] = @ + 1]
  /\ UNCHANGED <<total, fds, pipe2, killed>>

\* write(pipefd2[1])
ChildWrites ==
  /\ Open("r2") /\ Len(pipe2) < PipeSize
  /\ Goes("child", "write", "test")
  /\ pipe2' = Append(pipe2, tryc["child"])
  /\ UNCHANGED <<total, fds, pipe1, local, killed, stale>>

ParentStep ==
  \/ Pipe("pipe", {"r1", "w1"}, "pipe2") \/ Pipe("pipe2", {"r2", "w2"}, "fork") \/ Fork
  \/ Close("parent") \/ Test("parent")
  \/ ParentWrites \/ Sigpipe("parent", "r1") \/ ParentReads

ChildStep ==
  \/ Close("child") \/ Test("child")
  \/ ChildReads \/ ChildWrites \/ Sigpipe("child", "r2")

\* kill, from outside.
Kill(p) ==
  /\ ~killed /\ killed' = TRUE
  /\ at[p] \notin Gone \cup {"unborn"}
  /\ Ends(p, at[p], "killed")
  /\ UNCHANGED <<total, pipes, local, stale>>

SwitchNext == ParentStep \/ ChildStep \/ \E p \in Sides : Kill(p)

SwitchSpec == SwitchInit /\ [][SwitchNext]_switchVars

-----------------------------------------------------------------------------
\* The ranges of the variables; the processes take turns, so that there is never
\* more than one message on the way.
SwitchTypeOK ==
  /\ Len(pipe1) + Len(pipe2) <= 1
  /\ \A p \in Sides :
       /\ fds[p] \subseteq {"r1", "w1", "r2", "w2"}
       /\ tryc[p] \in 1..(total + 1) /\ start[p] \in 0..(total + 1)
       /\ at[p] \in Gone \cup {"unborn", "pipe", "pipe2", "fork", "close1", "close2",
                               "test", "write", "read"}

\* The child prints an average only if each of its measurements used the time that
\* the parent took last.  A parent that is killed lets the child measure with an
\* old or unset time; it must then not get as far as the printf.
AverageIsHonest == at["child"] = "exited" => ~stale

\* Once there are two processes both end, also when one of them is killed: neither
\* waits for ever for a message from the other.
BothEnd == at["child"] # "unborn" ~> \A p \in Sides : at[p] \in Gone
=============================================================================
