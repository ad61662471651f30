----------------------------- MODULE SharedMem -----------------------------
(***************************************************************************)
(* IPC/: chat.cpp's reader and writer processes and the readers-writers    *)
(* protocol of SharedMeM.c in the head of the shared memory segment.       *)
(*                                                                         *)
(* The state is the ShmHead and the int behind it; pc[p] names the next    *)
(* statement of the process.  ++readers and --readers are a load and a     *)
(* store: the first runs under the semaphore rmtx, the second under the    *)
(* mutex rlock, so nothing orders one against the other.                   *)
(***************************************************************************)
EXTENDS Integers, FiniteSets

CONSTANTS
  Readers,  \* the processes started as "./IPC.exe r"
  Writers,  \* the processes started as "./IPC.exe w"
  Values,   \* the numbers typed at a writer
  NoProc    \* nobody owns the mutex

Procs == Readers \cup Writers

ASSUME SharedMemAssumption ==
  /\ IsFiniteSet(Readers) /\ IsFiniteSet(Writers)
  /\ Readers \cap Writers = {}
  /\ NoProc \notin Procs
  /\ Values # {}

VARIABLES
  rlock, wlock,      \* owners of the two mutexes
  rmtx, wmtx,        \* values of the two semaphores
  readers, writers,  \* the two counters
  pint,              \* the shared int
  data,              \* each writer's local variable
  shown,             \* what each reader printed last
  tmp,               \* a reader's register during ++readers and --readers
  pc

vars == <<rlock, wlock, rmtx, wmtx, readers, writers, pint, data, shown, tmp, pc>>

Goto(p, l) == pc' = [pc EXCEPT ![p] = l]
At(p, l) == pc[p] = l

-----------------------------------------------------------------------------
\* create_shmhead has run in every writer before any process uses the segment.
Init ==
  /\ rlock = NoProc /\ wlock = NoProc
  /\ rmtx = 1 /\ wmtx = 1
  /\ readers = 0 /\ writers = 0
  /\ pint \in Values
  /\ data = [w \in Writers |-> pint]
  /\ shown = [r \in Readers |-> pint]
  /\ tmp = [r \in Readers |-> 0]
  /\ pc = [p \in Procs |-> IF p \in Readers THEN "wait_rmtx" ELSE "cin"]

-----------------------------------------------------------------------------
(***************************************************************************)
(* sem_wait, sem_post and the mutexes, as they are used here.  The mutexes *)
(* are initialised with NULL attributes, hence private to a process: a     *)
(* process that finds one taken may go to sleep on a futex which the       *)
(* owner, another process, never wakes.                                    *)
(***************************************************************************)
WaitRmtx(p, next) ==
  /\ rmtx > 0
  /\ rmtx' = rmtx - 1
  /\ Goto(p, next)
  /\ UNCHANGED <<rlock, wlock, wmtx, readers, writers, pint, data, shown, tmp>>

PostRmtx(p, next) ==
  /\ rmtx' = rmtx + 1
  /\ Goto(p, next)
  /\ UNCHANGED <<rlock, wlock, wmtx, readers, writers, pint, data, shown, tmp>>

WaitWmtx(p, next) ==
  /\ wmtx > 0
  /\ wmtx' = wmtx - 1
  /\ Goto(p, next)
  /\ UNCHANGED <<rlock, wlock, rmtx, readers, writers, pint, data, shown, tmp>>

PostWmtx(p, next) ==
  /\ wmtx' = wmtx + 1
  /\ Goto(p, next)
  /\ UNCHANGED <<rlock, wlock, rmtx, readers, writers, pint, data, shown, tmp>>

LockR(p, next, asleep) ==
  /\ \/ rlock = NoProc /\ rlock' = p /\ Goto(p, next)
     \/ rlock # NoProc /\ Goto(p, asleep) /\ UNCHANGED rlock
  /\ UNCHANGED <<wlock, rmtx, wmtx, readers, writers, pint, data, shown, tmp>>

UnlockR(p, next) ==
  /\ rlock' = NoProc
  /\ Goto(p, next)
  /\ UNCHANGED <<wlock, rmtx, wmtx, readers, writers, pint, data, shown, tmp>>

LockW(p, next, asleep) ==
  /\ \/ wlock = NoProc /\ wlock' = p /\ Goto(p, next)
     \/ wlock # NoProc /\ Goto(p, asleep) /\ UNCHANGED wlock
  /\ UNCHANGED <<rlock, rmtx, wmtx, readers, writers, pint, data, shown, tmp>>

UnlockW(p, next) ==
  /\ wlock' = NoProc
  /\ Goto(p, next)
  /\ UNCHANGED <<rlock, rmtx, wmtx, readers, writers, pint, data, shown, tmp>>

-----------------------------------------------------------------------------
(***************************************************************************)
(* A reader.                                                               *)
(***************************************************************************)
LoadReaders(r, next) ==
  /\ tmp' = [tmp EXCEPT ![r] = readers]
  /\ Goto(r, next)
  /\ UNCHANGED <<rlock, wlock, rmtx, wmtx, readers, writers, pint, data, shown>>

StoreReaders(r, val, next) ==
  /\ readers' = val
  /\ tmp' = [tmp EXCEPT ![r] = 0]
  /\ Goto(r, next)
  /\ UNCHANGED <<rlock, wlock, rmtx, wmtx, writers, pint, data, shown>>

\* Mutant: will_read without its wait on wmtx.
WillReadNoWmtx(r) ==
  \/ At(r, "wait_rmtx") /\ WaitRmtx(r, "inc_load")
  \/ At(r, "inc_load")  /\ LoadReaders(r, "inc_store")
  \/ At(r, "inc_store") /\ StoreReaders(r, tmp[r] + 1, "post_rmtx")
  \/ At(r, "post_rmtx") /\ PostRmtx(r, "read")

\* will_read: sem_wait(rmtx); ++readers; sem_wait(wmtx); sem_post(rmtx).
\* The "if(readers == 1);" ends at its semicolon: every reader waits on wmtx.
WillRead(r) ==
  \/ At(r, "wait_rmtx") /\ WaitRmtx(r, "inc_load")
  \/ At(r, "inc_load")  /\ LoadReaders(r, "inc_store")
  \/ At(r, "inc_store") /\ StoreReaders(r, tmp[r] + 1, "wait_wmtx")
  \/ At(r, "wait_wmtx") /\ WaitWmtx(r, "post_rmtx")
  \/ At(r, "post_rmtx") /\ PostRmtx(r, "read")

\* std::cout << *pint
Read(r) ==
  /\ At(r, "read")
  /\ shown' = [shown EXCEPT ![r] = pint]
  /\ Goto(r, "lock_rlock")
  /\ UNCHANGED <<rlock, wlock, rmtx, wmtx, readers, writers, pint, data, tmp>>

\* Mutant: finish_read that tests readers == 1.
TestReadersOne(r) ==
  /\ At(r, "test")
  /\ Goto(r, IF readers = 1 THEN "post_wmtx" ELSE "unlock_rlock")
  /\ UNCHANGED <<rlock, wlock, rmtx, wmtx, readers, writers, pint, data, shown, tmp>>

\* if(readers == 0) in finish_read, which reads the counter again.
TestReaders(r) ==
  /\ At(r, "test")
  /\ Goto(r, IF readers = 0 THEN "post_wmtx" ELSE "unlock_rlock")
  /\ UNCHANGED <<rlock, wlock, rmtx, wmtx, readers, writers, pint, data, shown, tmp>>

\* finish_read, and the sleep(1) before the next will_read.
FinishRead(r) ==
  \/ At(r, "lock_rlock")   /\ LockR(r, "dec_load", "asleep_rlock")
  \/ At(r, "dec_load")     /\ LoadReaders(r, "dec_store")
  \/ At(r, "dec_store")    /\ StoreReaders(r, tmp[r] - 1, "test")
  \/ TestReaders(r)
  \/ At(r, "post_wmtx")    /\ PostWmtx(r, "unlock_rlock")
  \/ At(r, "unlock_rlock") /\ UnlockR(r, "wait_rmtx")

ReaderStep(r) == WillRead(r) \/ Read(r) \/ FinishRead(r)

-----------------------------------------------------------------------------
(***************************************************************************)
(* A writer.                                                               *)
(***************************************************************************)
\* std::cin >> data
Cin(w) ==
  /\ At(w, "cin")
  /\ \E v \in Values : data' = [data EXCEPT ![w] = v]
  /\ Goto(w, "lock_enter")
  /\ UNCHANGED <<rlock, wlock, rmtx, wmtx, readers, writers, pint, shown, tmp>>

\* Mutant: the counter tested before its increment.
IncWritersTestFirst(w) ==
  /\ At(w, "inc")
  /\ writers' = writers + 1
  /\ Goto(w, IF writers = 1 THEN "wait_rmtx" ELSE "unlock_enter")
  /\ UNCHANGED <<rlock, wlock, rmtx, wmtx, readers, pint, data, shown, tmp>>

\* ++writers; if(writers == 1)
IncWriters(w) ==
  /\ At(w, "inc")
  /\ writers' = writers + 1
  /\ Goto(w, IF writers' = 1 THEN "wait_rmtx" ELSE "unlock_enter")
  /\ UNCHANGED <<rlock, wlock, rmtx, wmtx, readers, pint, data, shown, tmp>>

\* --writers; if(writers == 0)
DecWriters(w) ==
  /\ At(w, "dec")
  /\ writers' = writers - 1
  /\ Goto(w, IF writers' = 0 THEN "post_rmtx" ELSE "unlock_leave")
  /\ UNCHANGED <<rlock, wlock, rmtx, wmtx, readers, pint, data, shown, tmp>>

\* Mutant: will_write that takes the readers' mutex.
WillWriteRlock(w) ==
  \/ At(w, "lock_enter")   /\ LockR(w, "inc", "asleep_enter")
  \/ IncWriters(w)
  \/ At(w, "wait_rmtx")    /\ WaitRmtx(w, "unlock_enter")
  \/ At(w, "unlock_enter") /\ UnlockR(w, "wait_wmtx")
  \/ At(w, "wait_wmtx")    /\ WaitWmtx(w, "write")

WillWrite(w) ==
  \/ At(w, "lock_enter")   /\ LockW(w, "inc", "asleep_enter")
  \/ IncWriters(w)
  \/ At(w, "wait_rmtx")    /\ WaitRmtx(w, "unlock_enter")
  \/ At(w, "unlock_enter") /\ UnlockW(w, "wait_wmtx")
  \/ At(w, "wait_wmtx")    /\ WaitWmtx(w, "write")

\* *pint = data
Write(w) ==
  /\ At(w, "write")
  /\ pint' = data[w]
  /\ Goto(w, "post_wmtx")
  /\ UNCHANGED <<rlock, wlock, rmtx, wmtx, readers, writers, data, shown, tmp>>

FinishWrite(w) ==
  \/ At(w, "post_wmtx")    /\ PostWmtx(w, "lock_leave")
  \/ At(w, "lock_leave")   /\ LockW(w, "dec", "asleep_leave")
  \/ DecWriters(w)
  \/ At(w, "post_rmtx")    /\ PostRmtx(w, "unlock_leave")
  \/ At(w, "unlock_leave") /\ UnlockW(w, "cin")

WriterStep(w) == WillWrite(w) \/ Write(w) \/ FinishWrite(w)

-----------------------------------------------------------------------------
Next ==
  \/ \E r \in Readers : ReaderStep(r)
  \/ \E w \in Writers : Cin(w) \/ WriterStep(w)

Spec == Init /\ [][Next]_vars

(***************************************************************************)
(* Processes keep running, and a process blocked in sem_wait is woken      *)
(* sooner or later when the semaphore is posted again and again: a reader  *)
(* sleeps a second and a writer waits for its user between two rounds.     *)
(* Nothing obliges the user to type.                                       *)
(***************************************************************************)
ProcessFairness ==
  /\ \A r \in Readers :
       /\ WF_vars(ReaderStep(r))
       /\ SF_vars(At(r, "wait_rmtx") /\ ReaderStep(r))
       /\ SF_vars(At(r, "wait_wmtx") /\ ReaderStep(r))
  /\ \A w \in Writers :
       /\ WF_vars(WriterStep(w))
       /\ SF_vars(At(w, "wait_rmtx") /\ WriterStep(w))
       /\ SF_vars(At(w, "wait_wmtx") /\ WriterStep(w))

FairSpec == Spec /\ ProcessFairness

-----------------------------------------------------------------------------
(***************************************************************************)
(* Properties.                                                             *)
(***************************************************************************)
ReaderLines == {"wait_rmtx", "inc_load", "inc_store", "wait_wmtx", "post_rmtx",
                "read", "lock_rlock", "asleep_rlock", "dec_load", "dec_store",
                "test", "post_wmtx", "unlock_rlock"}
WriterLines == {"cin", "lock_enter", "asleep_enter", "inc", "wait_rmtx",
                "unlock_enter", "wait_wmtx", "write", "post_wmtx", "lock_leave",
                "asleep_leave", "dec", "post_rmtx", "unlock_leave"}

\* The values of the ShmHead's fields and the processes' variables.
TypeOK ==
  /\ rlock \in Readers \cup {NoProc} /\ wlock \in Writers \cup {NoProc}
  /\ rmtx \in Nat /\ wmtx \in Nat
  /\ readers \in Int /\ writers \in Int
  /\ pint \in Values
  /\ data \in [Writers -> Values]
  /\ shown \in [Readers -> Values]
  /\ tmp \in [Readers -> Int]
  /\ pc \in [Procs -> ReaderLines \cup WriterLines]
  /\ \A r \in Readers : pc[r] \in ReaderLines
  /\ \A w \in Writers : pc[w] \in WriterLines

Accessing(p) == pc[p] \in {"read", "write"}

\* will_read and will_write: no process is at its access to the shared int while
\* another one is, two readers included (every reader takes wmtx for itself).
Exclusive ==
  \A p, q \in Procs : Accessing(p) /\ Accessing(q) => p = q

\* A writer that has passed the gate rmtx in will_write (or found it taken by the
\* writers before it) and not yet handed it back in finish_write.
OnStage(w) ==
  pc[w] \in {"unlock_enter", "wait_wmtx", "write", "post_wmtx", "lock_leave",
             "asleep_leave", "dec", "post_rmtx"}

\* A reader inside will_read, after its sem_wait(rmtx).
Entering(r) == pc[r] \in {"inc_load", "inc_store", "wait_wmtx", "post_rmtx"}

\* The comment above will_read: once a writer has come on stage, later readers
\* cannot appear, until the last writer has left.
WritersShutReadersOut ==
  \A w \in Writers, r \in Readers : OnStage(w) => ~Entering(r)

(***************************************************************************)
(* The parts of the inductive invariant of SharedMemProofs.                *)
(***************************************************************************)
\* The processes that have taken wmtx; a reader that leaves finish_read without
\* posting it takes it along.
WmtxHolders ==
  {r \in Readers : pc[r] \in {"post_rmtx", "read", "lock_rlock", "asleep_rlock",
                             "dec_load", "dec_store", "test", "post_wmtx"}}
  \cup {w \in Writers : pc[w] \in {"write", "post_wmtx"}}

WmtxIsOne == wmtx + Cardinality(WmtxHolders) <= 1

\* The writers that the counter counts.
Counted ==
  {w \in Writers : pc[w] \in {"wait_rmtx", "unlock_enter", "wait_wmtx", "write",
                             "post_wmtx", "lock_leave", "asleep_leave", "dec"}}

\* wlock makes the counter and the gate of the writers one.
WlockOwner ==
  \A w \in Writers :
    pc[w] \in {"inc", "wait_rmtx", "unlock_enter", "dec", "post_rmtx", "unlock_leave"}
      => wlock = w

CounterOK ==
  /\ writers = Cardinality(Counted)
  /\ \A w \in Writers : /\ pc[w] = "wait_rmtx" => writers = 1
                        /\ pc[w] = "post_rmtx" => writers = 0

\* The writers together hold rmtx: from the first one's wait to the last one's post.
GateHeld ==
  \/ Counted # {} /\ \A w \in Writers : pc[w] # "wait_rmtx"
  \/ \E w \in Writers : pc[w] = "post_rmtx"

EnteringReaders == {r \in Readers : Entering(r)}

RmtxIsOne ==
  rmtx + Cardinality(EnteringReaders) + (IF GateHeld THEN 1 ELSE 0) <= 1

\* README: a reader process reads the buffer in a loop and prints it.
ReadersKeepReading == \A r \in Readers : []<>At(r, "read")
=============================================================================
