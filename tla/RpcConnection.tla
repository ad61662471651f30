--------------------------- MODULE RpcConnection ---------------------------
(***************************************************************************)
(* goRPC, server side: the registry, and one connection with its reader    *)
(* (Connect.Work), task channel, workers, result channel and sender.       *)
(*                                                                         *)
(* A package is what RecvData returns: the two lengths, and the number of  *)
(* bytes of data.  The lengths are arbitrary: each RecvData starts where   *)
(* the previous one's discarded bufio.Reader had stopped, and reads        *)
(* little-endian what Encode writes big-endian.                            *)
(***************************************************************************)
EXTENDS Integers, Sequences, FiniteSets

CONSTANTS
  Capacity,      \* of the pool and of both channels
  Workers,
  Width,         \* 2^32: uint32 arithmetic wraps around there
  Lengths,       \* the lengths a package may announce
  MaxReceived    \* bound: packages received before the stream ends

ASSUME RpcAssumption ==
  /\ Capacity \in Nat \ {0}
  /\ IsFiniteSet(Workers) /\ Cardinality(Workers) = Capacity
  /\ Width \in Nat \ {0}
  /\ Lengths \subseteq 0..(Width - 1)
  /\ MaxReceived \in Nat

VARIABLES
  phase,      \* of the process and its connection
  ended,      \* the peer has closed, or the read deadline is over
  rest,       \* the stream ends after the first length of a package
  received,   \* packages received in full
  reader,     \* the task that Work waits to put; NoTask while it is in RecvData
  task,       \* channel of tasks
  worker,     \* what each worker does
  result,     \* channel of results
  sender,     \* "wait" or "done"
  created,    \* tasks created so far: the number of the last one
  gone,       \* the tasks whose result the sender has taken
  wrapped     \* the lengths of some package wrapped around

stream == <<ended, rest, received>>
pool == <<task, worker, result>>
vars == <<phase, stream, reader, pool, sender, created, gone, wrapped>>

Package == [headerlen : Nat, bodylen : Nat, data : Nat]
Task == [id : Nat, pkg : Package]
Nothing == [headerlen |-> 0, bodylen |-> 0, data |-> 0]
NoTask == [id |-> 0, pkg |-> Nothing]
Idle == [at |-> "idle", task |-> NoTask]

Init ==
  /\ phase = "setup"
  /\ ended = FALSE /\ rest = FALSE /\ received = 0
  /\ reader = NoTask
  /\ task = <<>>
  /\ worker = [w \in Workers |-> Idle]
  /\ result = <<>>
  /\ sender = "wait"
  /\ created = 0
  /\ gone = {}
  /\ wrapped = FALSE

-----------------------------------------------------------------------------
(***************************************************************************)
(* Setting up.                                                             *)
(***************************************************************************)
\* The ends of the process.
Dead == {"register_panic", "decode_panic"}

\* RegisterFunc with a function, before the server runs or at any time later:
\* NewServerRegistry has not made the maps, and assigning to a nil map panics.  (With
\* anything else it returns an error and changes nothing.)  So the registry of a
\* server that runs is empty.
RegisterFunc ==
  /\ phase \notin Dead
  /\ phase' = "register_panic"
  /\ UNCHANGED <<stream, reader, pool, sender, created, gone, wrapped>>

\* accept hands a connection to a new goroutine; capacity is the pool's.
Accept ==
  /\ phase = "setup"
  /\ phase' = "accepted"
  /\ UNCHANGED <<stream, reader, pool, sender, created, gone, wrapped>>

\* Work: SetReadDeadline succeeds, and Start runs the workers and the sender; or
\* it fails and Work returns, which closes the connection.
Start ==
  /\ phase = "accepted"
  /\ phase' \in {"serving", "closed"}
  /\ UNCHANGED <<stream, reader, pool, sender, created, gone, wrapped>>

-----------------------------------------------------------------------------
(***************************************************************************)
(* The reader.                                                             *)
(***************************************************************************)
\* The peer closes its side or the 60 seconds are over.
StreamEnds ==
  /\ phase = "serving" /\ ~ended
  /\ ended' = TRUE
  /\ rest' \in BOOLEAN
  /\ UNCHANGED <<phase, received, reader, pool, sender, created, gone, wrapped>>

Receiving == phase = "serving" /\ reader = NoTask

\* RecvData returns; HandleData makes the task.
Received(p) ==
  /\ reader' = [id |-> created + 1, pkg |-> p]
  /\ created' = created + 1
  /\ wrapped' = (wrapped \/ p.headerlen + p.bodylen >= Width)
  /\ UNCHANGED <<phase, ended, pool, sender, gone>>

RecvData(h, b) ==
  /\ Receiving /\ ~ended
  /\ received < MaxReceived /\ received' = received + 1
  /\ Received([headerlen |-> h, bodylen |-> b, data |-> (h + b) % Width])
  /\ UNCHANGED rest

\* Mutant: RecvData returns the lengths together with the nil data.
RecvFailsKeepsLengths ==
  /\ Receiving /\ ended
  /\ \E h \in Lengths :
       Received([headerlen |-> h, bodylen |-> 0, data |-> 0])
  /\ rest' = FALSE
  /\ UNCHANGED received

\* A read fails: no bytes make two zero lengths, anything in between an error.
RecvFails ==
  /\ Receiving /\ ended
  /\ Received(Nothing)
  /\ rest' = FALSE
  /\ UNCHANGED received

\* The stream ends after the first length.  getProtoLen goes on and takes the same
\* four bytes for the second; io.ReadFull of no bytes does not notice the end.
RecvCut(h) ==
  /\ Receiving /\ ended /\ rest
  /\ (h + h) % Width = 0
  /\ Received([headerlen |-> h, bodylen |-> h, data |-> 0])
  /\ rest' = FALSE
  /\ UNCHANGED received

\* Mutant: a task channel without a limit.
PutTaskUnbounded ==
  /\ phase = "serving" /\ reader # NoTask
  /\ task' = Append(task, reader)
  /\ reader' = NoTask
  /\ UNCHANGED <<phase, stream, worker, result, sender, created, gone, wrapped>>

\* PutTask: blocks while the channel is full.
PutTask ==
  /\ phase = "serving" /\ reader # NoTask
  /\ Len(task) < Capacity
  /\ task' = Append(task, reader)
  /\ reader' = NoTask
  /\ UNCHANGED <<phase, stream, worker, result, sender, created, gone, wrapped>>

-----------------------------------------------------------------------------
(***************************************************************************)
(* A worker: t := <-p.task; t().                                           *)
(***************************************************************************)
\* Mutant: the newest task first.
TakeNewest(w) ==
  /\ phase = "serving" /\ worker[w] = Idle
  /\ task # <<>>
  /\ worker' = [worker EXCEPT ![w] = [at |-> "handle", task |-> task[Len(task)]]]
  /\ task' = SubSeq(task, 1, Len(task) - 1)
  /\ UNCHANGED <<phase, stream, reader, result, sender, created, gone, wrapped>>

TakeTask(w) ==
  /\ phase = "serving" /\ worker[w] = Idle
  /\ task # <<>>
  /\ worker' = [worker EXCEPT ![w] = [at |-> "handle", task |-> Head(task)]]
  /\ task' = Tail(task)
  /\ UNCHANGED <<phase, stream, reader, result, sender, created, gone, wrapped>>

\* Decode slices data[0:headerlen] and data[headerlen:headerlen+bodylen].
OutOfRange(p) ==
  p.headerlen > p.data \/ (p.headerlen + p.bodylen) % Width > p.data

\* Handle: nobody recovers from a panic in Decode, so it ends the process.  Without
\* one Decode fails, as the JSON is bad or the registry empty, and the result is nil.
Handle(w) ==
  /\ phase = "serving" /\ worker[w].at = "handle"
  /\ IF OutOfRange(worker[w].task.pkg)
       THEN phase' = "decode_panic" /\ UNCHANGED worker
       ELSE /\ worker' = [worker EXCEPT ![w].at = "save", ![w].task.pkg = Nothing]
            /\ UNCHANGED phase
  /\ UNCHANGED <<stream, reader, task, result, sender, created, gone, wrapped>>

\* Mutant: the result channel is one shorter.
ResultCapacityShort == Capacity - 1

\* NewRequestPool makes the result channel as long as the task channel.
ResultCapacity == Capacity

\* Mutant: a result that finds the channel full is dropped.
SaveResultOrDrop(w) ==
  /\ phase = "serving" /\ worker[w].at = "save"
  /\ result' = IF Len(result) < ResultCapacity THEN Append(result, worker[w].task.id)
               ELSE result
  /\ worker' = [worker EXCEPT ![w] = Idle]
  /\ UNCHANGED <<phase, stream, reader, task, sender, created, gone, wrapped>>

\* p.result <- result: blocks while the channel is full.
SaveResult(w) ==
  /\ phase = "serving" /\ worker[w].at = "save"
  /\ Len(result) < ResultCapacity
  /\ result' = Append(result, worker[w].task.id)
  /\ worker' = [worker EXCEPT ![w] = Idle]
  /\ UNCHANGED <<phase, stream, reader, task, sender, created, gone, wrapped>>

-----------------------------------------------------------------------------
\* The sender takes one result, and ends once it has sent it.  The result is nil:
\* SendBack writes no byte, which neither blocks nor fails.
SendBack ==
  /\ phase = "serving" /\ sender = "wait"
  /\ result # <<>>
  /\ gone' = gone \cup {Head(result)}
  /\ result' = Tail(result)
  /\ sender' = "done"
  /\ UNCHANGED <<phase, stream, reader, task, worker, created, wrapped>>

-----------------------------------------------------------------------------
WorkerStep(w) == TakeTask(w) \/ Handle(w) \/ SaveResult(w)

Next ==
  \/ RegisterFunc \/ Accept \/ Start
  \/ StreamEnds
  \/ \E h, b \in Lengths : RecvData(h, b)
  \/ RecvFails \/ \E h \in Lengths : RecvCut(h)
  \/ PutTask
  \/ \E w \in Workers : WorkerStep(w)
  \/ SendBack

\* Goroutines that can run do.
Fairness ==
  /\ WF_vars(RecvFails) /\ WF_vars(PutTask) /\ WF_vars(SendBack)
  /\ \A w \in Workers : WF_vars(WorkerStep(w))

Spec == Init /\ [][Next]_vars /\ Fairness

-----------------------------------------------------------------------------
(***************************************************************************)
(* Properties.                                                             *)
(***************************************************************************)
\* The channels stay within the capacity they were made with.
TypeOK ==
  /\ phase \in {"setup", "accepted", "serving", "closed"} \cup Dead
  /\ ended \in BOOLEAN /\ rest \in BOOLEAN /\ received \in Nat
  /\ reader \in Task
  /\ task \in Seq(Task) /\ Len(task) <= Capacity
  /\ worker \in [Workers -> [at : {"idle", "handle", "save"}, task : Task]]
  /\ result \in Seq(Nat) /\ Len(result) <= Capacity
  /\ sender \in {"wait", "done"}
  /\ created \in Nat /\ gone \subseteq Nat /\ wrapped \in BOOLEAN

\* Every task is in exactly one place from HandleData to SendBack, and so is its
\* result: the two channels and the workers neither lose nor double one.
EachTaskInOnePlace ==
  LET busy == {w \in Workers : worker[w] # Idle}
      At(i) ==
        (IF reader.id = i THEN 1 ELSE 0)
          + Cardinality({k \in DOMAIN task : task[k].id = i})
          + Cardinality({w \in busy : worker[w].task.id = i})
          + Cardinality({k \in DOMAIN result : result[k] = i})
          + (IF i \in gone THEN 1 ELSE 0)
  IN  \A i \in 1..created : At(i) = 1

\* Of all that a peer may send, only a package whose lengths wrap around in uint32
\* arithmetic ends the server: what RecvData returns when a read fails decodes without
\* a panic.  (A registration ends it too, and has nothing to do with the peer.)
OnlyWrappingPanics == [][phase' # phase /\ phase' = "decode_panic" => wrapped]_vars

\* tcpserver.go says that results are saved in order.  What the pool guarantees is
\* less: a result may be saved before that of an earlier package, but only while a
\* worker is busy with that one.  Packages still queued are never overtaken.
OnlyWorkersAreOvertaken ==
  LET saved == gone \cup {result[k] : k \in DOMAIN result}
  IN  \A j \in saved : \A i \in 1..(j - 1) :
        i \in saved \/ \E w \in Workers : worker[w].task.id = i

\* Although the sender ends after one result, and however the workers interleave,
\* the results of Capacity + 1 packages are saved: the one it takes, and as many as
\* the result channel holds.
FirstResultsAreSaved ==
  \A n \in 1..(Capacity + 1) :
    created >= n ~> (phase \in Dead \/ Len(result) + Cardinality(gone) >= n)
=============================================================================
