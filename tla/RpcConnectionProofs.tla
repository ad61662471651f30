------------------------ MODULE RpcConnectionProofs ------------------------
(***************************************************************************)
(* Proofs about RpcConnection, for any capacity of the pool, any number of *)
(* packages and any lengths.                                               *)
(***************************************************************************)
EXTENDS RpcConnection, FiniteSetTheorems, SequenceTheorems, TLAPS

(***************************************************************************)
(* The inductive invariant.                                                *)
(***************************************************************************)
\* A task is numbered when it is created; only Work's NoTask has number 0.
Numbers ==
  /\ reader = NoTask \/ reader.id = created
  /\ \A w \in Workers : IF worker[w].at = "idle" THEN worker[w] = Idle ELSE worker[w].task.id # 0

\* How many tasks the workers have taken from the channel.
Taken == created - Len(task) - (IF reader = NoTask THEN 0 ELSE 1)

\* The channel holds the tasks after those, in order.
Queue ==
  /\ Taken \in Nat
  /\ \A k \in 1..Len(task) : task[k].id = Taken + k

Saved == gone \cup {result[k] : k \in 1..Len(result)}

\* Every task taken is with a worker or its result is saved ...
TakenAreKept ==
  /\ Saved \subseteq 1..Taken
  /\ \A w \in Workers : worker[w].task.id \in 0..Taken
  /\ \A i \in 1..Taken : i \in Saved \/ \E w \in Workers : worker[w].task.id = i

\* ... and not twice.
TakenOnce ==
  /\ \A w \in Workers : worker[w].task.id \notin Saved
  /\ \A v, w \in Workers : worker[v].task.id = worker[w].task.id => v = w \/ worker[v] = Idle
  /\ \A k, l \in 1..Len(result) : result[k] = result[l] => k = l
  /\ \A k \in 1..Len(result) : result[k] \notin gone

\* Decode panics only on a package that wrapped around.
Decodable(p) == OutOfRange(p) => wrapped

AllDecodable ==
  /\ Decodable(reader.pkg)
  /\ \A k \in 1..Len(task) : Decodable(task[k].pkg)
  /\ \A w \in Workers : Decodable(worker[w].task.pkg)

IInv == TypeOK /\ Numbers /\ Queue /\ TakenAreKept /\ TakenOnce /\ AllDecodable

-----------------------------------------------------------------------------
\* The empty package, which RecvData returns for a failed read, decodes.
LEMMA NothingDecodes == Nothing \in Package /\ ~OutOfRange(Nothing)
<1>1. 0 % Width = 0 BY RpcAssumption
<1>2. Nothing.headerlen = 0 /\ Nothing.bodylen = 0 /\ Nothing.data = 0 BY DEF Nothing
<1>3. ~OutOfRange(Nothing) BY <1>1, <1>2 DEF OutOfRange
<1> QED BY <1>3 DEF Nothing, Package

\* NoTask is a task, number 0 with the empty package.
LEMMA NoTaskType == NoTask \in Task /\ NoTask.id = 0 /\ NoTask.pkg = Nothing
  BY NothingDecodes DEF NoTask, Task

\* Nothing has been received at first.
LEMMA InitIInv == Init => IInv
<1> SUFFICES ASSUME Init PROVE IInv
  OBVIOUS
<1>0. task = <<>> /\ result = <<>> /\ Len(task) = 0 /\ Len(result) = 0 BY DEF Init
<1>1. TypeOK
  <2>1. worker \in [Workers -> [at : {"idle", "handle", "save"}, task : Task]]
    BY NoTaskType DEF Init, Idle
  <2>2. <<>> \in Seq(Task) /\ <<>> \in Seq(Nat) OBVIOUS
  <2>3. 0 <= Capacity BY RpcAssumption
  <2>4. task \in Seq(Task) /\ Len(task) <= Capacity BY <1>0, <2>2, <2>3
  <2>5. result \in Seq(Nat) /\ Len(result) <= Capacity BY <1>0, <2>2, <2>3
  <2> QED BY <2>1, <2>4, <2>5, NoTaskType DEF Init, TypeOK
<1>2. Numbers BY DEF Init, Numbers, Idle
<1>3. Taken = 0
  <2>1. reader = NoTask /\ created = 0 BY DEF Init
  <2>2. (IF reader = NoTask THEN 0 ELSE 1) = 0 BY <2>1
  <2>3. Taken = 0 - 0 - 0 BY <1>0, <2>1, <2>2 DEF Taken
  <2> QED BY <2>3
<1>4. Queue BY <1>0, <1>3 DEF Queue
<1>5. Saved = {} BY <1>0 DEF Saved, Init
<1>6. \A w \in Workers : worker[w] = Idle /\ worker[w].task = NoTask /\ worker[w].task.id = 0
  BY NoTaskType DEF Init, Idle
<1>7. TakenAreKept BY <1>3, <1>5, <1>6 DEF TakenAreKept
<1>8. TakenOnce BY <1>0, <1>5, <1>6 DEF TakenOnce
<1>9. AllDecodable
  BY <1>0, <1>6, NothingDecodes, NoTaskType DEF AllDecodable, Decodable, Init
<1> QED BY <1>1, <1>2, <1>4, <1>7, <1>8, <1>9 DEF IInv

\* Steps that touch neither tasks nor results.
LEMMA Elsewhere ==
  ASSUME IInv, UNCHANGED <<reader, pool, created, gone, wrapped>>,
         phase' \in {"setup", "accepted", "serving", "closed"} \cup Dead,
         ended' \in BOOLEAN, rest' \in BOOLEAN, received' \in Nat, sender' \in {"wait", "done"}
  PROVE  IInv'
<1>1. UNCHANGED <<reader, task, worker, result, created, gone, wrapped>> BY DEF pool
<1>2. TypeOK' BY <1>1 DEF IInv, TypeOK
<1>3. Taken' = Taken /\ Saved' = Saved BY <1>1 DEF Taken, Saved
<1>4. Numbers' /\ Queue' /\ TakenAreKept' BY <1>1, <1>3 DEF IInv, Numbers, Queue, TakenAreKept
<1>5. TakenOnce' BY <1>1, <1>3 DEF IInv, TakenOnce
<1>6. AllDecodable' BY <1>1 DEF IInv, AllDecodable, Decodable
<1> QED BY <1>2, <1>4, <1>5, <1>6 DEF IInv

-----------------------------------------------------------------------------
(***************************************************************************)
(* The reader.                                                             *)
(***************************************************************************)
\* HandleData makes a task of a package that decodes or has wrapped around.
LEMMA ReceivedIInv ==
  ASSUME IInv, Receiving, NEW p \in Package, Received(p),
         p.headerlen + p.bodylen >= Width \/ ~OutOfRange(p),
         rest' \in BOOLEAN, received' \in Nat
  PROVE  IInv'
<1> USE DEF IInv
<1>1. /\ reader = NoTask /\ reader' = [id |-> created + 1, pkg |-> p] /\ created' = created + 1
      /\ wrapped' = (wrapped \/ p.headerlen + p.bodylen >= Width)
      /\ UNCHANGED <<phase, ended, task, worker, result, sender, gone>>
  BY DEF Receiving, Received, pool
<1>2. reader' # NoTask
  <2>1. reader'.id = created + 1 /\ created \in Nat BY <1>1 DEF TypeOK
  <2> QED BY <2>1, NoTaskType
<1>3. TypeOK' 
  <2>1. reader' \in Task /\ created' \in Nat BY <1>1 DEF Task, TypeOK
  <2> QED BY <1>1, <2>1 DEF TypeOK
<1>4. Taken' = Taken
  <2>1. created \in Nat /\ Len(task) \in Nat BY DEF TypeOK
  <2> QED BY <1>1, <1>2, <2>1 DEF Taken
<1>5. Saved' = Saved BY <1>1 DEF Saved
<1>6. Numbers' BY <1>1 DEF Numbers
<1>7. Queue' /\ TakenAreKept' BY <1>1, <1>4, <1>5 DEF Queue, TakenAreKept
<1>8. TakenOnce' BY <1>1, <1>5 DEF TakenOnce
<1>9. wrapped => wrapped' BY <1>1
<1>10. AllDecodable' BY <1>1, <1>9 DEF AllDecodable, Decodable, OutOfRange
<1> QED BY <1>3, <1>6, <1>7, <1>8, <1>10

\* RecvData returns as many bytes as the lengths add up to, unless they wrap around.
LEMMA RecvDataIInv ==
  ASSUME IInv, NEW h \in Lengths, NEW b \in Lengths, RecvData(h, b)
  PROVE  IInv'
<1> DEFINE p == [headerlen |-> h, bodylen |-> b, data |-> (h + b) % Width]
<1>1. h \in Nat /\ b \in Nat /\ Width \in Nat \ {0} BY RpcAssumption
<1>2. (h + b) % Width \in Nat BY <1>1
<1>3. p \in Package BY <1>1, <1>2 DEF Package
<1>4. p.headerlen + p.bodylen >= Width \/ ~OutOfRange(p)
  <2> SUFFICES ASSUME h + b < Width PROVE ~OutOfRange(p) BY <1>1
  <2>1. (h + b) % Width = h + b BY <1>1
  <2> QED BY <1>1, <2>1 DEF OutOfRange
<1>5. Receiving /\ Received(p) /\ received' \in Nat /\ rest' \in BOOLEAN
  BY DEF RecvData, IInv, TypeOK
<1> HIDE DEF p
<1> QED BY <1>3, <1>4, <1>5, ReceivedIInv

\* A failed read makes a task of the empty package.
LEMMA RecvFailsIInv ==
  ASSUME IInv, RecvFails
  PROVE  IInv'
  BY ReceivedIInv, NothingDecodes DEF RecvFails, IInv, TypeOK

\* A stream cut after the first length: either the doubled length wraps around, or it
\* is 0 and decodes.
LEMMA RecvCutIInv ==
  ASSUME IInv, NEW h \in Lengths, RecvCut(h)
  PROVE  IInv'
<1> DEFINE p == [headerlen |-> h, bodylen |-> h, data |-> 0]
<1>1. h \in Nat /\ Width \in Nat \ {0} BY RpcAssumption
<1>2. p \in Package BY <1>1 DEF Package
<1>3. p.headerlen + p.bodylen >= Width \/ ~OutOfRange(p)
  <2> SUFFICES ASSUME h + h < Width PROVE ~OutOfRange(p) BY <1>1
  <2>1. (h + h) % Width = h + h /\ (h + h) % Width = 0 BY <1>1 DEF RecvCut
  <2>2. h = 0 BY <1>1, <2>1
  <2> QED BY <1>1, <2>1, <2>2 DEF OutOfRange
<1>4. Receiving /\ Received(p) /\ received' \in Nat /\ rest' \in BOOLEAN
  BY DEF RecvCut, IInv, TypeOK
<1> HIDE DEF p
<1> QED BY <1>2, <1>3, <1>4, ReceivedIInv

\* PutTask: the newest task goes to the end of the channel.
LEMMA PutTaskIInv ==
  ASSUME IInv, PutTask
  PROVE  IInv'
<1> USE DEF IInv
<1>1. /\ reader # NoTask /\ Len(task) < Capacity
      /\ task' = Append(task, reader) /\ reader' = NoTask
      /\ UNCHANGED <<phase, ended, rest, received, worker, result, sender, created, gone, wrapped>>
  BY DEF PutTask, stream
<1>2. /\ task \in Seq(Task) /\ Len(task) \in Nat /\ reader \in Task /\ created \in Nat
      /\ reader.id = created
  BY <1>1 DEF TypeOK, Numbers
<1>3. /\ task' \in Seq(Task) /\ Len(task') = Len(task) + 1
      /\ \A k \in 1..Len(task) : task'[k] = task[k]
      /\ task'[Len(task) + 1] = reader
  BY <1>1, <1>2, AppendProperties
<1>4. TypeOK' BY <1>1, <1>2, <1>3, NoTaskType, RpcAssumption DEF TypeOK
<1>5. Taken' = Taken /\ Taken = created - Len(task) - 1 BY <1>1, <1>2, <1>3 DEF Taken
<1>6. Saved' = Saved BY <1>1 DEF Saved
<1>7. Numbers' BY <1>1 DEF Numbers
<1>8. Queue'
  <2>1. ASSUME NEW k \in 1..Len(task') PROVE task'[k].id = Taken + k
    <3>1. CASE k \in 1..Len(task) BY <1>3, <3>1 DEF Queue
    <3>2. CASE k = Len(task) + 1 BY <1>2, <1>3, <1>5, <3>2
    <3> QED BY <1>2, <1>3, <3>1, <3>2
  <2> QED BY <1>5, <2>1 DEF Queue
<1>9. TakenAreKept' BY <1>1, <1>5, <1>6 DEF TakenAreKept
<1>10. TakenOnce' BY <1>1, <1>6 DEF TakenOnce
<1>11. AllDecodable'
  <2>1. ASSUME NEW k \in 1..Len(task') PROVE Decodable(task'[k].pkg)
    <3>1. CASE k \in 1..Len(task) BY <1>3, <3>1 DEF AllDecodable
    <3>2. CASE k = Len(task) + 1 BY <1>3, <3>2 DEF AllDecodable
    <3> QED BY <1>2, <1>3, <3>1, <3>2
  <2> QED BY <1>1, <2>1, NothingDecodes, NoTaskType DEF AllDecodable, Decodable
<1> QED BY <1>4, <1>7, <1>8, <1>9, <1>10, <1>11

-----------------------------------------------------------------------------
(***************************************************************************)
(* The workers and the sender.                                             *)
(***************************************************************************)
\* A worker takes the oldest task of the channel, which is number Taken + 1.
LEMMA TakeTaskIInv ==
  ASSUME IInv, NEW w \in Workers, TakeTask(w)
  PROVE  IInv'
<1> USE DEF IInv
<1> DEFINE h == Head(task)
<1>1. /\ worker[w] = Idle /\ task # <<>>
      /\ worker' = [worker EXCEPT ![w] = [at |-> "handle", task |-> h]]
      /\ task' = Tail(task)
      /\ UNCHANGED <<phase, ended, rest, received, reader, result, sender, created, gone, wrapped>>
  BY DEF TakeTask, stream
<1>2. /\ task \in Seq(Task) /\ Len(task) \in Nat /\ Len(task) >= 1 /\ Len(task) <= Capacity
      /\ created \in Nat /\ Taken \in Nat
  BY <1>1, EmptySeq DEF TypeOK, Queue
<1>3. /\ task' \in Seq(Task) /\ Len(task') = Len(task) - 1
      /\ \A k \in 1..Len(task') : task'[k] = task[k + 1]
      /\ h = task[1] /\ h \in Task
  BY <1>1, <1>2, HeadTailProperties
<1>4. h.id = Taken + 1 /\ h.id \in Nat /\ h.pkg \in Package
  <2>1. 1 \in 1..Len(task) BY <1>2
  <2>2. task[1].id = Taken + 1 BY <2>1 DEF Queue
  <2> QED BY <1>2, <1>3, <2>2 DEF Task
<1> HIDE DEF h
<1>5. /\ worker' \in [Workers -> [at : {"idle", "handle", "save"}, task : Task]]
      /\ worker'[w] = [at |-> "handle", task |-> h]
      /\ \A v \in Workers : v # w => worker'[v] = worker[v]
  BY <1>1, <1>3 DEF TypeOK
<1>6. worker[w].task.id = 0 /\ worker'[w].task.id = Taken + 1 /\ worker'[w].at = "handle"
  BY <1>1, <1>4, <1>5, NoTaskType DEF Idle
<1>7. TypeOK'
  <2>1. Len(task') <= Capacity BY <1>2, <1>3, RpcAssumption
  <2> QED BY <1>1, <1>3, <1>5, <2>1 DEF TypeOK
<1>8. Taken' = Taken + 1 BY <1>1, <1>2, <1>3 DEF Taken
<1>9. Saved' = Saved BY <1>1 DEF Saved
<1>10. Numbers' BY <1>1, <1>2, <1>5, <1>6 DEF Numbers
<1>11. Queue'
  <2>1. ASSUME NEW k \in 1..Len(task') PROVE task'[k].id = Taken + 1 + k
    <3>1. k + 1 \in 1..Len(task) BY <1>2, <1>3
    <3>2. task[k + 1].id = Taken + (k + 1) BY <3>1 DEF Queue
    <3> QED BY <1>2, <1>3, <3>2
  <2> QED BY <1>2, <1>8, <2>1 DEF Queue
<1>12. TakenAreKept'
  <2>1. 1..Taken \subseteq 1..Taken' /\ 0..Taken \subseteq 0..Taken' BY <1>2, <1>8
  <2>2. Saved' \subseteq 1..Taken' BY <1>9, <2>1 DEF TakenAreKept
  <2>3. ASSUME NEW v \in Workers PROVE worker'[v].task.id \in 0..Taken'
    <3>1. CASE v = w BY <1>2, <1>6, <1>8, <3>1
    <3>2. CASE v # w BY <1>5, <2>1, <3>2 DEF TakenAreKept
    <3> QED BY <3>1, <3>2
  <2>4. ASSUME NEW i \in 1..Taken' PROVE i \in Saved' \/ \E v \in Workers : worker'[v].task.id = i
    <3>1. CASE i = Taken + 1 BY <1>6, <3>1
    <3>2. CASE i \in 1..Taken
      <4>1. CASE i \in Saved BY <1>9, <4>1
      <4>2. CASE i \notin Saved
        <5>1. PICK v \in Workers : worker[v].task.id = i BY <3>2, <4>2 DEF TakenAreKept
        <5>2. v # w BY <1>6, <3>2, <5>1
        <5> QED BY <1>5, <5>1, <5>2
      <4> QED BY <4>1, <4>2
    <3> QED BY <1>2, <1>8, <3>1, <3>2
  <2> QED BY <2>2, <2>3, <2>4 DEF TakenAreKept
<1>13. TakenOnce'
  <2>0. \A v \in Workers : worker[v].task.id # Taken + 1 BY <1>2 DEF TakenAreKept
  <2>1. ASSUME NEW v \in Workers PROVE worker'[v].task.id \notin Saved'
    <3>1. CASE v = w BY <1>2, <1>6, <1>9, <3>1 DEF TakenAreKept
    <3>2. CASE v # w BY <1>5, <1>9, <3>2 DEF TakenOnce
    <3> QED BY <3>1, <3>2
  <2>2. ASSUME NEW u \in Workers, NEW v \in Workers, worker'[u].task.id = worker'[v].task.id
        PROVE  u = v \/ worker'[u] = Idle
    <3>1. CASE u # w /\ v # w BY <1>5, <2>2, <3>1 DEF TakenOnce
    <3>2. CASE u = w /\ v # w BY <1>5, <1>6, <2>0, <2>2, <3>2
    <3>3. CASE u # w /\ v = w BY <1>5, <1>6, <2>0, <2>2, <3>3
    <3> QED BY <3>1, <3>2, <3>3
  <2> QED BY <1>1, <2>1, <2>2 DEF TakenOnce
<1>14. AllDecodable'
  <2>1. ASSUME NEW k \in 1..Len(task') PROVE Decodable(task'[k].pkg)
    <3>1. k + 1 \in 1..Len(task) BY <1>2, <1>3
    <3> QED BY <1>3, <3>1 DEF AllDecodable
  <2>2. ASSUME NEW v \in Workers PROVE Decodable(worker'[v].task.pkg)
    <3>1. CASE v = w
      <4>1. 1 \in 1..Len(task) BY <1>2
      <4> QED BY <1>3, <1>5, <3>1, <4>1 DEF AllDecodable
    <3>2. CASE v # w BY <1>5, <3>2 DEF AllDecodable
    <3> QED BY <3>1, <3>2
  <2> QED BY <1>1, <2>1, <2>2 DEF AllDecodable, Decodable
<1> QED BY <1>7, <1>10, <1>11, <1>12, <1>13, <1>14

\* Handle: a panic ends the process; otherwise the package is used up.
LEMMA HandleIInv ==
  ASSUME IInv, NEW w \in Workers, Handle(w)
  PROVE  IInv'
<1>0. UNCHANGED <<ended, rest, received, reader, task, result, sender, created, gone, wrapped>>
  BY DEF Handle, stream
<1>1. CASE OutOfRange(worker[w].task.pkg)
  <2>1. phase' = "decode_panic" /\ UNCHANGED worker BY <1>1 DEF Handle
  <2> QED BY <1>0, <2>1, Elsewhere DEF Dead, IInv, TypeOK, pool
<1>2. CASE ~OutOfRange(worker[w].task.pkg)
  <2> USE DEF IInv
  <2>1. /\ worker' = [worker EXCEPT ![w].at = "save", ![w].task.pkg = Nothing]
        /\ UNCHANGED phase /\ worker[w].at = "handle"
    BY <1>2 DEF Handle
  <2>2. /\ worker[w] \in [at : {"idle", "handle", "save"}, task : Task]
        /\ worker[w].task \in Task /\ worker[w].task.id \in Nat
    BY DEF TypeOK, Task
  <2>3. /\ worker' \in [Workers -> [at : {"idle", "handle", "save"}, task : Task]]
        /\ worker'[w].at = "save" /\ worker'[w].task.id = worker[w].task.id
        /\ worker'[w].task.pkg = Nothing
        /\ \A v \in Workers : v # w => worker'[v] = worker[v]
    BY <2>1, <2>2, NothingDecodes DEF TypeOK, Task
  <2>4. \A v \in Workers : worker'[v].task.id = worker[v].task.id BY <2>3
  <2>5. \A v \in Workers : worker[v] = Idle => worker'[v] = Idle BY <2>1, <2>3 DEF Idle
  <2>6. TypeOK' BY <1>0, <2>1, <2>3 DEF TypeOK
  <2>7. Taken' = Taken /\ Saved' = Saved BY <1>0 DEF Taken, Saved
  <2>8. Numbers'
    <3>1. worker[w].task.id # 0 BY <2>1 DEF Numbers
    <3> QED BY <1>0, <2>3, <3>1 DEF Numbers
  <2>9. Queue' /\ TakenAreKept' BY <1>0, <2>4, <2>7 DEF Queue, TakenAreKept
  <2>10. TakenOnce' BY <1>0, <2>4, <2>5, <2>7 DEF TakenOnce
  <2>11. \A v \in Workers : Decodable(worker'[v].task.pkg)
    BY <2>3, NothingDecodes DEF AllDecodable, Decodable
  <2>12. AllDecodable' BY <1>0, <2>11 DEF AllDecodable, Decodable
  <2> QED BY <2>6, <2>8, <2>9, <2>10, <2>12
<1> QED BY <1>1, <1>2

\* SaveResult: the task's number moves from the worker to the end of the results.
LEMMA SaveResultIInv ==
  ASSUME IInv, NEW w \in Workers, SaveResult(w)
  PROVE  IInv'
<1> USE DEF IInv
<1> DEFINE n == worker[w].task.id
<1>1. /\ worker[w].at = "save" /\ Len(result) < Capacity
      /\ result' = Append(result, n)
      /\ worker' = [worker EXCEPT ![w] = Idle]
      /\ UNCHANGED <<phase, ended, rest, received, reader, task, sender, created, gone, wrapped>>
  BY DEF SaveResult, ResultCapacity, stream
<1>2. /\ result \in Seq(Nat) /\ Len(result) \in Nat /\ n \in Nat /\ n # 0 /\ Taken \in Nat
      /\ n \in 1..Taken /\ n \notin Saved
  <2>1. worker[w].task \in Task BY DEF TypeOK
  <2>2. n \in Nat /\ n # 0 BY <1>1, <2>1 DEF Task, Numbers
  <2>3. n \in 0..Taken /\ Taken \in Nat BY DEF TakenAreKept, Queue
  <2>4. n \notin Saved BY DEF TakenOnce
  <2>5. n \in 1..Taken BY <2>2, <2>3
  <2>6. result \in Seq(Nat) /\ Len(result) \in Nat BY DEF TypeOK
  <2> QED BY <2>2, <2>3, <2>4, <2>5, <2>6
<1>3. /\ result' \in Seq(Nat) /\ Len(result') = Len(result) + 1
      /\ \A k \in 1..Len(result) : result'[k] = result[k]
      /\ result'[Len(result) + 1] = n
  BY <1>1, <1>2, AppendProperties
<1>4. /\ worker' \in [Workers -> [at : {"idle", "handle", "save"}, task : Task]]
      /\ worker'[w] = Idle /\ worker'[w].at = "idle" /\ worker'[w].task = NoTask
      /\ \A v \in Workers : v # w => worker'[v] = worker[v]
  BY <1>1, NoTaskType DEF TypeOK, Idle
<1>5. \A v \in Workers : v # w => worker[v].task.id # n
  <2> SUFFICES ASSUME NEW v \in Workers, v # w, worker[v].task.id = n PROVE FALSE
    OBVIOUS
  <2>1. worker[v] = Idle BY DEF TakenOnce
  <2>2. worker[v].task.id = 0 BY <2>1, NoTaskType DEF Idle
  <2> QED BY <1>2, <2>2
<1> HIDE DEF n
<1>6. TypeOK' BY <1>1, <1>2, <1>3, <1>4, RpcAssumption DEF TypeOK
<1>7. Taken' = Taken BY <1>1 DEF Taken
<1>8. Saved' = Saved \cup {n}
  <2>1. ASSUME NEW x PROVE x \in Saved' <=> x \in Saved \cup {n}
    <3>1. 1..Len(result') = 1..Len(result) \cup {Len(result) + 1} BY <1>2, <1>3
    <3>2. (\E k \in 1..Len(result') : x = result'[k])
            <=> (\E k \in 1..Len(result) : x = result[k]) \/ x = n
      BY <1>3, <3>1
    <3> QED BY <1>1, <3>2 DEF Saved
  <2> QED BY <2>1
<1>9. Numbers' BY <1>1, <1>4 DEF Numbers
<1>10. Queue' BY <1>1, <1>7 DEF Queue
<1>11. TakenAreKept'
  <2>1. Saved' \subseteq 1..Taken BY <1>2, <1>8 DEF TakenAreKept
  <2>2. ASSUME NEW v \in Workers PROVE worker'[v].task.id \in 0..Taken
    <3>1. CASE v = w BY <1>2, <1>4, <3>1, NoTaskType
    <3>2. CASE v # w BY <1>4, <3>2 DEF TakenAreKept
    <3> QED BY <3>1, <3>2
  <2>3. ASSUME NEW i \in 1..Taken PROVE i \in Saved' \/ \E v \in Workers : worker'[v].task.id = i
    <3>1. CASE i \in Saved \/ i = n BY <1>8, <3>1
    <3>2. CASE i \notin Saved /\ i # n
      <4>1. PICK v \in Workers : worker[v].task.id = i BY <3>2 DEF TakenAreKept
      <4>2. v # w BY <3>2, <4>1 DEF n
      <4> QED BY <1>4, <4>1, <4>2
    <3> QED BY <3>1, <3>2
  <2> QED BY <1>7, <2>1, <2>2, <2>3 DEF TakenAreKept
<1>12. TakenOnce'
  <2>1. ASSUME NEW v \in Workers PROVE worker'[v].task.id \notin Saved'
    <3>1. CASE v = w
      <4>1. worker'[v].task.id = 0 BY <1>4, <3>1, NoTaskType
      <4>2. 0 \notin Saved' BY <1>7, <1>11 DEF TakenAreKept
      <4> QED BY <4>1, <4>2
    <3>2. CASE v # w BY <1>4, <1>5, <1>8, <3>2 DEF TakenOnce
    <3> QED BY <3>1, <3>2
  <2>2. ASSUME NEW u \in Workers, NEW v \in Workers, worker'[u].task.id = worker'[v].task.id
        PROVE  u = v \/ worker'[u] = Idle
    <3>1. CASE u = w BY <1>4, <3>1
    <3>2. CASE u # w /\ v # w BY <1>4, <2>2, <3>2 DEF TakenOnce
    <3>3. CASE u # w /\ v = w
      <4>1. worker[u].task.id = 0 BY <1>4, <2>2, <3>3, NoTaskType
      <4>2. worker[u].at = "idle" BY <4>1 DEF Numbers
      <4> QED BY <1>4, <3>3, <4>2 DEF Numbers
    <3> QED BY <3>1, <3>2, <3>3
  <2>3. \A k \in 1..Len(result) : result[k] \in Saved /\ result[k] # n
    BY <1>2 DEF Saved
  <2>4. ASSUME NEW k \in 1..Len(result'), NEW l \in 1..Len(result'), result'[k] = result'[l]
        PROVE  k = l
    <3>0. /\ k \in 1..Len(result) \/ k = Len(result) + 1
          /\ l \in 1..Len(result) \/ l = Len(result) + 1
      BY <1>2, <1>3
    <3>1. CASE k \in 1..Len(result) /\ l \in 1..Len(result)
      BY <1>3, <2>4, <3>1 DEF TakenOnce
    <3>2. CASE k = Len(result) + 1 /\ l \in 1..Len(result) BY <1>3, <2>3, <2>4, <3>2
    <3>3. CASE k \in 1..Len(result) /\ l = Len(result) + 1 BY <1>3, <2>3, <2>4, <3>3
    <3> QED BY <3>0, <3>1, <3>2, <3>3
  <2>5. ASSUME NEW k \in 1..Len(result') PROVE result'[k] \notin gone'
    <3>1. CASE k \in 1..Len(result) BY <1>1, <1>3, <3>1 DEF TakenOnce
    <3>2. CASE k = Len(result) + 1
      <4>1. n \notin gone BY <1>2 DEF Saved
      <4> QED BY <1>1, <1>3, <3>2, <4>1
    <3> QED BY <1>2, <1>3, <3>1, <3>2
  <2> QED BY <2>1, <2>2, <2>4, <2>5 DEF TakenOnce
<1>13. AllDecodable'
  <2>1. \A v \in Workers : Decodable(worker'[v].task.pkg)
    BY <1>4, NothingDecodes, NoTaskType DEF AllDecodable, Decodable
  <2> QED BY <1>1, <2>1 DEF AllDecodable, Decodable
<1> QED BY <1>6, <1>9, <1>10, <1>11, <1>12, <1>13

\* SendBack: the oldest result leaves the channel and counts as gone.
LEMMA SendBackIInv ==
  ASSUME IInv, SendBack
  PROVE  IInv'
<1> USE DEF IInv
<1>1. /\ result # <<>> /\ gone' = gone \cup {Head(result)} /\ result' = Tail(result)
      /\ sender' = "done"
      /\ UNCHANGED <<phase, ended, rest, received, reader, task, worker, created, wrapped>>
  BY DEF SendBack, stream
<1>2. /\ result \in Seq(Nat) /\ Len(result) \in Nat /\ Len(result) >= 1
      /\ Len(result) <= Capacity
  BY <1>1, EmptySeq DEF TypeOK
<1>3. /\ result' \in Seq(Nat) /\ Len(result') = Len(result) - 1
      /\ \A k \in 1..Len(result') : result'[k] = result[k + 1]
      /\ Head(result) = result[1] /\ result[1] \in Nat
  BY <1>1, <1>2, HeadTailProperties
<1>4. TypeOK'
  <2>1. Len(result') <= Capacity BY <1>2, <1>3, RpcAssumption
  <2>2. gone' \subseteq Nat BY <1>1, <1>3 DEF TypeOK
  <2> QED BY <1>1, <1>3, <2>1, <2>2 DEF TypeOK
<1>5. Taken' = Taken BY <1>1 DEF Taken
<1>6. \A k \in 1..Len(result') : k + 1 \in 1..Len(result) BY <1>2, <1>3
<1>7. Saved' = Saved
  <2>1. ASSUME NEW x PROVE x \in Saved' <=> x \in Saved
    <3>1. ASSUME NEW k \in 1..Len(result), x = result[k] PROVE x \in Saved'
      <4>1. CASE k = 1 BY <1>1, <1>3, <3>1, <4>1 DEF Saved
      <4>2. CASE k # 1
        <5>1. k - 1 \in 1..Len(result') /\ (k - 1) + 1 = k BY <1>2, <1>3, <4>2
        <5>2. x = result'[k - 1] BY <1>3, <3>1, <5>1
        <5> QED BY <5>1, <5>2 DEF Saved
      <4> QED BY <4>1, <4>2
    <3>2. ASSUME x \in Saved' PROVE x \in Saved
      <4>1. 1 \in 1..Len(result) BY <1>2
      <4>2. CASE x \in gone \/ x = result[1] BY <4>1, <4>2 DEF Saved
      <4>3. CASE x \in {result'[k] : k \in 1..Len(result')} BY <1>3, <1>6, <4>3 DEF Saved
      <4> QED BY <1>1, <1>3, <3>2, <4>2, <4>3 DEF Saved
    <3>3. ASSUME x \in Saved PROVE x \in Saved'
      BY <1>1, <3>1, <3>3 DEF Saved
    <3> QED BY <3>2, <3>3
  <2> QED BY <2>1
<1>8. Numbers' /\ Queue' /\ TakenAreKept' BY <1>1, <1>5, <1>7 DEF Numbers, Queue, TakenAreKept
<1>9. TakenOnce'
  <2>1. ASSUME NEW k \in 1..Len(result'), NEW l \in 1..Len(result'), result'[k] = result'[l]
        PROVE  k = l
    <3>1. result[k + 1] = result[l + 1] BY <1>3, <2>1
    <3>2. k + 1 = l + 1 BY <1>6, <3>1 DEF TakenOnce
    <3> QED BY <3>2
  <2>2. ASSUME NEW k \in 1..Len(result') PROVE result'[k] \notin gone'
    <3>1. result'[k] \notin gone BY <1>3, <1>6 DEF TakenOnce
    <3>2. result[k + 1] # result[1]
      <4>1. 1 \in 1..Len(result) /\ k + 1 # 1 BY <1>2
      <4> QED BY <1>6, <4>1 DEF TakenOnce
    <3> QED BY <1>1, <1>3, <3>1, <3>2
  <2>3. \A w \in Workers : worker'[w].task.id \notin Saved' BY <1>1, <1>7 DEF TakenOnce
  <2>4. \A v, w \in Workers : worker'[v].task.id = worker'[w].task.id => v = w \/ worker'[v] = Idle
    BY <1>1 DEF TakenOnce
  <2> QED BY <2>1, <2>2, <2>3, <2>4 DEF TakenOnce
<1>10. AllDecodable' BY <1>1 DEF AllDecodable, Decodable
<1> QED BY <1>4, <1>8, <1>9, <1>10

-----------------------------------------------------------------------------
\* Every step preserves the invariant.
LEMMA NextIInv == IInv /\ [Next]_vars => IInv'
<1> SUFFICES ASSUME IInv, [Next]_vars PROVE IInv'
  OBVIOUS
<1>1. CASE RegisterFunc \/ Accept \/ Start
  BY <1>1, Elsewhere DEF RegisterFunc, Dead, Accept, Start, IInv, TypeOK, stream
<1>2. CASE StreamEnds BY <1>2, Elsewhere DEF StreamEnds, IInv, TypeOK
<1>3. CASE \E h, b \in Lengths : RecvData(h, b) BY <1>3, RecvDataIInv
<1>4. CASE RecvFails BY <1>4, RecvFailsIInv
<1>5. CASE \E h \in Lengths : RecvCut(h) BY <1>5, RecvCutIInv
<1>6. CASE PutTask BY <1>6, PutTaskIInv
<1>7. CASE \E w \in Workers : WorkerStep(w)
  BY <1>7, TakeTaskIInv, HandleIInv, SaveResultIInv DEF WorkerStep
<1>8. CASE SendBack BY <1>8, SendBackIInv
<1>9. CASE UNCHANGED vars BY <1>9, Elsewhere DEF vars, stream, IInv, TypeOK
<1> QED BY <1>1, <1>2, <1>3, <1>4, <1>5, <1>6, <1>7, <1>8, <1>9 DEF Next

\* The invariant holds in every state.
LEMMA Invariance == Spec => []IInv
  BY InitIInv, NextIInv, PTL DEF Spec

\* The channels of the pool never hold more than the capacity they were made with, and
\* every task in the connection is a package with its number.
THEOREM TypeCorrect == Spec => []TypeOK
<1>1. IInv => TypeOK BY DEF IInv
<1> QED BY <1>1, Invariance, PTL

\* A package still queued is never overtaken: when a result is saved before that of an
\* earlier package, a worker is busy with the earlier one.
THEOREM OvertakenOnlyInWorkers == Spec => []OnlyWorkersAreOvertaken
<1>1. ASSUME IInv PROVE OnlyWorkersAreOvertaken
  <2>1. DOMAIN result = 1..Len(result) BY <1>1 DEF IInv, TypeOK
  <2>2. Saved = gone \cup {result[k] : k \in DOMAIN result} BY <2>1 DEF Saved
  <2>3. Saved \subseteq 1..Taken /\ Taken \in Nat BY <1>1 DEF IInv, TakenAreKept, Queue
  <2>4. ASSUME NEW j \in Saved, NEW i \in 1..(j - 1)
        PROVE  i \in Saved \/ \E w \in Workers : worker[w].task.id = i
    <3>1. i \in 1..Taken BY <2>3
    <3> QED BY <1>1, <3>1 DEF IInv, TakenAreKept
  <2> QED BY <2>2, <2>4 DEF OnlyWorkersAreOvertaken
<1> QED BY <1>1, Invariance, PTL

\* Once the server serves, a panic in Decode needs a package whose lengths have wrapped
\* around in uint32 arithmetic.
THEOREM PanicsAreWrapped == Spec => OnlyWrappingPanics
<1>1. ASSUME IInv, [Next]_vars PROVE [phase' # phase /\ phase' = "decode_panic" => wrapped]_vars
  <2> SUFFICES ASSUME phase' # phase, phase' = "decode_panic" PROVE wrapped
    OBVIOUS
  <2>1. PICK w \in Workers : Handle(w)
    BY <1>1 DEF Next, vars, WorkerStep, RegisterFunc, Accept, Start, StreamEnds, RecvData,
         RecvFails, RecvCut, Received, PutTask, TakeTask, SaveResult, SendBack
  <2>2. OutOfRange(worker[w].task.pkg) BY <2>1 DEF Handle
  <2> QED BY <1>1, <2>2 DEF IInv, AllDecodable, Decodable
<1> QED BY <1>1, Invariance, PTL DEF Spec, OnlyWrappingPanics

\* Every task is in one place only, from HandleData until its result is sent back: with
\* the reader, in the task channel, with one worker, in the result channel or gone.
THEOREM TasksInOnePlace == Spec => []EachTaskInOnePlace
<1>1. ASSUME IInv, NEW i \in 1..created
      PROVE  (IF reader.id = i THEN 1 ELSE 0)
               + Cardinality({k \in DOMAIN task : task[k].id = i})
               + Cardinality({w \in {v \in Workers : worker[v] # Idle} : worker[w].task.id = i})
               + Cardinality({k \in DOMAIN result : result[k] = i})
               + (IF i \in gone THEN 1 ELSE 0) = 1
  <2> USE <1>1 DEF IInv
  <2> DEFINE r == IF reader.id = i THEN 1 ELSE 0
             T == {k \in DOMAIN task : task[k].id = i}
             W == {w \in {v \in Workers : worker[v] # Idle} : worker[w].task.id = i}
             R == {k \in DOMAIN result : result[k] = i}
             g == IF i \in gone THEN 1 ELSE 0
  <2>1. /\ DOMAIN task = 1..Len(task) /\ Len(task) \in Nat /\ DOMAIN result = 1..Len(result)
        /\ created \in Nat /\ Taken \in Nat /\ i \in Nat /\ i # 0
    BY DEF TypeOK, Queue
  <2>2. Cardinality({}) = 0 /\ \A x : Cardinality({x}) = 1 BY FS_EmptySet, FS_Singleton
  <2>3. created = Taken + Len(task) + (IF reader = NoTask THEN 0 ELSE 1) BY <2>1 DEF Taken
  <2>4. reader.id = (IF reader = NoTask THEN 0 ELSE created) BY NoTaskType DEF Numbers
  <2>5. \A k \in 1..Len(task) : task[k].id = Taken + k BY DEF Queue
  <2>6. CASE i > Taken
    <3>1. i \notin Saved /\ \A w \in Workers : worker[w].task.id # i
      BY <2>1, <2>6 DEF TakenAreKept
    <3>2. W = {} BY <3>1
    <3>3. R = {} BY <2>1, <3>1 DEF Saved
    <3>4. g = 0 BY <3>1 DEF Saved
    <3>5. CASE i <= Taken + Len(task)
      <4>1. i - Taken \in 1..Len(task) BY <2>1, <2>6, <3>5
      <4>2. T = {i - Taken}
        <5>1. ASSUME NEW k \in 1..Len(task) PROVE task[k].id = i <=> k = i - Taken
          <6>1. task[k].id = Taken + k BY <2>5
          <6>2. k \in Nat BY <2>1
          <6>3. Taken + k = i <=> k = i - Taken BY <2>1, <6>2
          <6> QED BY <6>1, <6>3
        <5> QED BY <2>1, <4>1, <5>1
      <4>3. r = 0 BY <2>1, <2>3, <2>4, <3>5
      <4> HIDE DEF r, T, W, R, g
      <4>4. Cardinality(T) = 1 /\ Cardinality(W) = 0 /\ Cardinality(R) = 0
        BY <2>2, <3>2, <3>3, <4>2
      <4>5. r + Cardinality(T) + Cardinality(W) + Cardinality(R) + g = 1 BY <3>4, <4>3, <4>4
      <4> QED BY <4>5 DEF r, T, W, R, g
    <3>6. CASE i > Taken + Len(task)
      <4>1. T = {} BY <2>1, <2>5, <3>6
      <4>2. reader # NoTask /\ i = created BY <2>1, <2>3, <3>6
      <4>3. r = 1 BY <2>4, <4>2
      <4> HIDE DEF r, T, W, R, g
      <4>4. r + Cardinality(T) + Cardinality(W) + Cardinality(R) + g = 1
        BY <2>2, <3>2, <3>3, <3>4, <4>1, <4>3
      <4> QED BY <4>4 DEF r, T, W, R, g
    <3> QED BY <2>1, <3>5, <3>6
  <2>7. CASE i <= Taken
    <3>1. T = {} BY <2>1, <2>5, <2>7
    <3>2. r = 0 BY <2>1, <2>3, <2>4, <2>7
    <3>3. i \in 1..Taken BY <2>1, <2>7
    <3>4. CASE i \in Saved
      <4>1. W = {} BY <3>4 DEF TakenOnce
      <4>2. Cardinality(R) + g = 1
        <5>1. CASE i \in gone
          <6>1. R = {} BY <2>1, <5>1 DEF TakenOnce
          <6> QED BY <2>2, <5>1, <6>1
        <5>2. CASE i \notin gone
          <6>1. PICK k \in 1..Len(result) : result[k] = i BY <3>4, <5>2 DEF Saved
          <6>2. R = {k} BY <2>1, <6>1 DEF TakenOnce
          <6>3. Cardinality(R) = 1 BY <2>2, <6>2
          <6> QED BY <5>2, <6>3
        <5> QED BY <5>1, <5>2
      <4> HIDE DEF r, T, W, R, g
      <4>3. r + Cardinality(T) + Cardinality(W) = 0 BY <2>2, <3>1, <3>2, <4>1
      <4>4. Cardinality(R) \in Int /\ g \in Int
        <5>1. IsFiniteSet(DOMAIN result) BY <2>1, FS_Interval DEF TypeOK
        <5>2. IsFiniteSet(R) BY <5>1, FS_Subset DEF R
        <5> QED BY <5>2, FS_CardinalityType DEF g
      <4>5. r + Cardinality(T) + Cardinality(W) + Cardinality(R) + g = 1 BY <4>2, <4>3, <4>4
      <4> QED BY <4>5 DEF r, T, W, R, g
    <3>5. CASE i \notin Saved
      <4>1. PICK w \in Workers : worker[w].task.id = i BY <3>3, <3>5 DEF TakenAreKept
      <4>2. \A v \in Workers : worker[v] = Idle => worker[v].task.id = 0
        BY NoTaskType DEF Idle
      <4>3. W = {w} BY <2>1, <4>1, <4>2 DEF TakenOnce
      <4>4. R = {} BY <2>1, <3>5 DEF Saved
      <4>5. g = 0 BY <3>5 DEF Saved
      <4> HIDE DEF r, T, W, R, g
      <4>6. Cardinality(T) = 0 /\ Cardinality(W) = 1 /\ Cardinality(R) = 0
        BY <2>2, <3>1, <4>3, <4>4
      <4>7. r + Cardinality(T) + Cardinality(W) + Cardinality(R) + g = 1 BY <3>2, <4>5, <4>6
      <4> QED BY <4>7 DEF r, T, W, R, g
    <3> QED BY <3>4, <3>5
  <2> QED BY <2>1, <2>6, <2>7
<1>2. IInv => EachTaskInOnePlace BY <1>1 DEF EachTaskInOnePlace
<1> QED BY <1>2, Invariance, PTL
=============================================================================
