--------------------------- MODULE SharedMemStart ---------------------------
(***************************************************************************)
(* The start of the IPC processes, in any order, on a segment that does    *)
(* not exist yet.  A reader (open_shm) creates it empty if it has to; a    *)
(* writer (shm_init) gives it its size and initialises the head statement  *)
(* by statement, whether or not others already use it, and without a lock  *)
(* (SharedMeM.c: "FIXME: how to lock during initialisation?").             *)
(***************************************************************************)
EXTENDS SharedMem

VARIABLES
  seg,       \* "empty", "zero" (it has its size) or "gated" (and its semaphores)
  clobbered  \* shm_init has changed the head while another process was in its round

startVars == <<vars, seg, clobbered>>

StartInit ==
  /\ rlock = NoProc /\ wlock = NoProc
  /\ rmtx = 0 /\ wmtx = 0
  /\ readers = 0 /\ writers = 0
  /\ pint \in Values
  /\ data = [w \in Writers |-> pint]
  /\ shown = [r \in Readers |-> pint]
  /\ tmp = [r \in Readers |-> 0]
  /\ pc = [p \in Procs |-> IF p \in Readers THEN "open" ELSE "ftruncate"]
  /\ seg = "empty"
  /\ clobbered = FALSE

-----------------------------------------------------------------------------
\* open_shm: shm_open with O_CREAT and mmap, without ftruncate.
Open(r) ==
  /\ At(r, "open") /\ Goto(r, "wait_rmtx")
  /\ UNCHANGED <<rlock, wlock, rmtx, wmtx, readers, writers, pint, data, shown, tmp,
                 seg, clobbered>>

\* The first access behind the end of the empty segment: SIGBUS.
Bus(r) ==
  /\ At(r, "wait_rmtx") /\ seg = "empty" /\ Goto(r, "killed")
  /\ UNCHANGED <<rlock, wlock, rmtx, wmtx, readers, writers, pint, data, shown, tmp,
                 seg, clobbered>>

InitLines == {"ftruncate", "init_rlock", "init_wlock", "init_rmtx", "init_wmtx",
              "init_writers", "init_readers"}

\* A process that has changed the head and not yet finished its round.
Engaged(p) ==
  \/ p \in Writers /\ At(p, "wait_rmtx")
  \/ pc[p] \notin InitLines \cup {"open", "killed", "wait_rmtx", "cin", "lock_enter",
                                  "asleep_enter"}

Clobber == clobbered' = (clobbered \/ \E p \in Procs : Engaged(p))

\* create_shm
Ftruncate(w) ==
  /\ At(w, "ftruncate") /\ Goto(w, "init_rlock")
  /\ seg' = IF seg = "empty" THEN "zero" ELSE seg
  /\ UNCHANGED <<rlock, wlock, rmtx, wmtx, readers, writers, pint, data, shown, tmp,
                 clobbered>>

InitLocks(w) ==
  /\ \/ At(w, "init_rlock") /\ Goto(w, "init_wlock") /\ rlock' = NoProc /\ UNCHANGED wlock
     \/ At(w, "init_wlock") /\ Goto(w, "init_rmtx") /\ wlock' = NoProc /\ UNCHANGED rlock
  /\ Clobber
  /\ UNCHANGED <<rmtx, wmtx, readers, writers, pint, data, shown, tmp, seg>>

\* sem_init forgets the processes that sleep in a sem_wait: no post wakes them.
Forgets(w, line, sem, next) ==
  \E S \in SUBSET {p \in Procs : sem = 0 /\ At(p, line)} :
    pc' = [p \in Procs |-> CASE p = w -> next [] p \in S -> "asleep_sem" [] OTHER -> pc[p]]

InitSems(w) ==
  /\ \/ /\ At(w, "init_rmtx") /\ Forgets(w, "wait_rmtx", rmtx, "init_wmtx")
        /\ rmtx' = 1 /\ UNCHANGED <<wmtx, seg>>
     \/ /\ At(w, "init_wmtx") /\ Forgets(w, "wait_wmtx", wmtx, "init_writers")
        /\ wmtx' = 1 /\ UNCHANGED rmtx
        /\ seg' = "gated"
  /\ Clobber
  /\ UNCHANGED <<rlock, wlock, readers, writers, pint, data, shown, tmp>>

\* Mutant: the other answer to create_shmhead's "writers = 0; //FIXME: or 1?".
InitialWritersOne == 1

InitialWriters == 0

InitCounters(w) ==
  /\ \/ /\ At(w, "init_writers") /\ Goto(w, "init_readers")
        /\ writers' = InitialWriters /\ UNCHANGED readers
     \/ /\ At(w, "init_readers") /\ Goto(w, "cin")
        /\ readers' = 0 /\ UNCHANGED writers
  /\ Clobber
  /\ UNCHANGED <<rlock, wlock, rmtx, wmtx, pint, data, shown, tmp, seg>>

\* create_shmhead; the offsets, which nothing reads, are left out.
CreateShmhead(w) == InitLocks(w) \/ InitSems(w) \/ InitCounters(w)

StartNext ==
  \/ Next /\ UNCHANGED <<seg, clobbered>>
  \/ \E r \in Readers : Open(r) \/ Bus(r)
  \/ \E w \in Writers : Ftruncate(w) \/ CreateShmhead(w)

\* The fairness of SharedMem; nothing obliges the user to start a process.
StartSpec ==
  /\ StartInit /\ [][StartNext]_startVars
  /\ ProcessFairness /\ \A w \in Writers : WF_startVars(CreateShmhead(w))

-----------------------------------------------------------------------------
\* Before a writer has initialised both semaphores nobody reads the shared int:
\* their zeros keep readers out that were started first.
NoReadBeforeInit == \A p \in Procs : Accessing(p) => seg = "gated"

\* shm_init is harmless as long as none of its statements meets a process inside
\* will_read, will_write, an access or finish_*: the guarantees are kept.
IdleInitHarmless == ~clobbered => Exclusive /\ WritersShutReadersOut

\* A process killed by its access to an empty segment, or asleep for ever: on a
\* semaphore that was initialised again, or on the private mutex of another process.
Lost(p) == pc[p] \in {"killed", "asleep_sem", "asleep_rlock", "asleep_enter", "asleep_leave"}

\* README: a reader process reads the buffer in a loop and prints it.  Once it and
\* a writer have been started, a single reader does so next to any number of writers
\* if no process is lost, the stage is free of writers again and again, and no writer
\* is started in the middle of another process's round.
ReadsUnlessDisturbed ==
  /\ <>(seg = "gated") /\ \A r \in Readers : <>(~At(r, "open"))
  /\ [](~clobbered /\ \A p \in Procs : ~Lost(p))
  /\ []<>(\A w \in Writers : ~OnStage(w))
  => ReadersKeepReading
=============================================================================
