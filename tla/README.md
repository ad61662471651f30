# TLA+ models of the OS-Network programs

The repository is a collection of small, independent programs about operating
systems and networking. This directory holds TLA+ models of the ones with logic
of their own, the TLC runs that check them, and TLAPS proofs of all safety properties
of the passing runs. `PROJECT.json` lists components, runs, findings, hazards and
theorems, and maps every definition to the lines it stands for.

## 1. Inventory

| Program | State | Operations | What is hard |
|---|---|---|---|
| `pro_com/` | `resrc/{free,space,data}.sem`, `resrc/lock`, `resrc/buffer.txt` | `_sem_wait_`, `_sem_post_`, `produce`, `comsume`, `run.sh`, `clear.sh` | read-modify-write on files, polling, `sed -i` in two halves, scripts killed while their children go on |
| `并发/IPC/` | `ShmHead` (two mutexes, two semaphores, two counters) and an int in shared memory | `shm_init`, `will_read`, `finish_read`, `will_write`, `finish_write`, the loops of `Chat` | one counter under two locks, private mutexes between processes, initialisation by every writer |
| `并发/银行家算法/` | `available_src`, `PID_func_details`, `threadlist` | `request`, `update_src`, `add_thread`, `remove`, `issafe`, `set_details` | allocate first and undo later, the order of the heap, ids registered twice |
| `LRU/` | a ring of nodes, `size`, `is_inmem` | `use_page`, `swap_page`, `push`, `settop`, `delnode` | pointer surgery; errors surface visits later |
| `goRPC/` | per connection a task channel, five workers, a result channel, one sender | `accept`, `Work`, `RecvData`, `HandleData`, `Handle`, `SendBack`, registry, codec | full channels, order of answers, errors that do not end the loop |
| `easyServer_v1/` | descriptors, the request buffer | `run`, `read_request`, `make_safe_path`, `handler`, `send_all` | limits, descriptors never closed, length announced before the file is read |
| `eBPF/use_map/` | per-CPU hash map, ring buffer, `isexit` | enter and exit handlers, `handle_rb_event`, `sig_handler`, the polling loop of `main` | programs on several CPUs, full map, full ring buffer, a map that grows while it is walked |
| `CPUvirtualization/CntxtSwitchTestForLinux.c` | two pipes and their ends, `tryc` and `start` in each process | ping-pong between parent and child | ends left open, results of `read` ignored, a process that dies |
| `MEMvirtualization/TLBtest.c` | `arr`, `index` | `shuffle`, visits | bounds, uniform shuffling |

The programs do not interact with each other. Inside a program the processes
interact through files (`pro_com`), shared memory (`IPC`), a mutex (`Banker`),
channels (`goRPC`), the kernel's maps (`eBPF/use_map`) or pipes (the context switch
test). `LRU`, `easyServer_v1` and `TLBtest` are sequential.

What makes each one correct:

* `pro_com`: the scripts are a bounded FIFO buffer; no semaphore update is lost;
  scripts never all wait; `clear.sh` and a new `run.sh` start afresh.
* `IPC`: accesses exclude each other; a writer on stage keeps readers out;
  readers keep reading.
* `Banker`: granted means safe, refused means unsafe; nothing is lost or made up.
* `LRU`: memory holds exactly the pages used last.
* `goRPC`: every request gets its answer, in order; a connection that ends is
  cleaned up.
* `easyServer_v1`: every connection gets one well-framed response and is closed;
  a path stays below the document root; only a client can hold the server up.
* `eBPF/use_map`: every call is counted; events arrive once and in turn; a pass over the
  map shows what is in it; a signal ends the program.
* Context switch test: what is averaged are ages of messages just sent; both processes
  end.
* TLB test: the time is divided by the number of pages visited, in a random order.

## 2. Modules

| Module | Models | Extends |
|---|---|---|
| `BoundedBuffer` | abstract specification of `pro_com` | |
| `ProCom` | scripts and helpers, command by command | |
| `ProComRestart` | `clear.sh` at any moment, then `run.sh` again | `ProCom` |
| `SharedMem` | `SharedMeM.c` and the loops of `chat.cpp` | |
| `SharedMemStart` | `open_shm` and `shm_init` in any order, from no segment on | `SharedMem` |
| `Sums` | the sum of a function's values | |
| `Banker` | class `Banker` | `Sums` |
| `LRU` | `stack.c`, `LRU.c`, `main.c` | |
| `SafePath` | `make_safe_path` and `url_decode`, with a reference definition | |
| `WebServer` | `TcpServer::run` and `WebHandler::handler` | `SafePath` |
| `RpcConnection` | registration and one server connection of `goRPC` | |
| `OpenatMaps` | `use_maps.bpf.c` and `use_maps.c` | `Sums` |
| `CntxtSwitch` | `CntxtSwitchTestForLinux.c` | |
| `TLBtest` | `TLBtest.c` | |
| `Counting` | lemmas about cardinalities, sums and least elements | `Sums` |
| `ProComProofs` | theorems about `pro_com`, its refinement and its restart | `ProComRestart`, `Counting` |
| `SharedMemProofs` | theorems about `IPC`, from the first process on | `SharedMemStart`, `Counting` |
| `BankerProofs` | theorems about `Banker` | `Banker`, `Counting` |
| `LRUProofs` | theorems about `LRU` | `LRU` |
| `WebServerProofs` | theorems about `easyServer_v1` | `WebServer`, `Counting` |
| `RpcConnectionProofs` | theorems about `goRPC` | `RpcConnection` |
| `MeasureProofs` | theorems about `use_maps` and the two measuring programs | `OpenatMaps`, `CntxtSwitch`, `TLBtest`, `Counting` |
| `MC*` | small instances | |

### ProCom

`stage[p]` is the command of `produce()` or `comsume()` a script is at. While that
command is a helper, `line[p]` is the helper's next command: `flock`, `cat`,
`echo`, `unlock`. `sem` are the three files, `flock4` the holder of the lock. The
read (`Cat`) and the write (`WaitTake`, `PostAdd`) of a semaphore are separate
steps. `sed -i '1d'` is a copy into a temporary file and a rename, so that an
append in between would be lost. An item is its producer, as `run.sh` gives each
producer one letter.

Abstractions: `echo n > file` (truncate, write) is one step, since every reader of
the file holds the lock, except against a second `run.sh`; `sleep` and the
`[producer] put` message are left out; the helper's process start and end are part
of its first and last step.

### ProComRestart

`pkill -f ./bin/comsumer.sh` matches the scripts' command lines and not their
children's. A killed script thus leaves the helper or `sed -i` it waits for as an
orphan, which runs to its end (`OrphanRuns`, `OrphanEnds`). `clear.sh` proceeds by
command, and `run.sh` writes the semaphores one by one without the lock. The
scripts of the second run are processes of their own (`SecondRun`).

### SharedMem

`pc[p]` names the next statement. `++readers` and `--readers` are a load and a
store, as they run under different locks. The stray semicolon of
`if(readers == 1);` is kept: every reader waits on `wmtx`. The mutexes are private
to a process, so that a process that finds one taken may go to sleep and is not
woken (`asleep_*`); it may also be luckier and get the mutex later, which is the
interleaving in which it tries later. `++writers` under `wlock` is one step.

`SharedMem` begins with an initialised head. `SharedMemStart` begins with no segment and
starts the processes in any order. `open_shm` creates an empty segment if there is none;
a reader whose first access still finds it empty is killed (`Bus`). `shm_init` runs in
every writer: `ftruncate`, which keeps what is there, and then `create_shmhead`
statement by statement, without a lock, while the others go on. In a new segment the
semaphores are zero and readers wait; `sem_init` may leave a process that sleeps on the
semaphore asleep for ever (`Forgets`). `clobbered` records that a statement of
`create_shmhead` met a process inside the protocol.

### Banker

`threadlist` is a bag: only the heap operations order it. `is_safe` pops one thread
per step, any one with the largest remaining claim, so that every order of equal
elements is covered. The mutex is held during the whole scan: no other action is
enabled while `scanning`. `written_off` is auxiliary: the units a thread held when
it was removed or registered again, which the code never returns. Initial states
are those of the constructor followed by `set_details` within the claims.

### LRU

`heap` holds the links of all nodes. `Push`, `DelNode` and `SetTop` are the functions
of `stack.c`, early returns included. `used` is auxiliary: the pages in the order of
their last use. `newstack` never assigns `size`; the model starts from zero, what
fresh memory holds. Page numbers from 0 on are inputs; negative ones are not.

### SafePath and WebServer

A URL is a sequence of pieces: the slash, dots, the query's `?`, the escapes of slash,
dot and NUL, and ordinary characters. An escape is a `%` and the two characters after it,
as `url_decode` takes them; what `strtol` cannot read becomes NUL, and an incomplete
escape at the end nothing at all. `Scan` is the loop of `make_safe_path`, a recursive
function of the position: it collects the pieces of a segment and, at a slash or the end
of the path (`Piece`), does what the loop's body does with the segment (`EndSegment`).
`Reference` defines the same path without a loop or a stack: segments are what lies
between two slashes, a name is kept if after it the `..` never outnumber the names
(`Balance`, `Kept`), and the URL is illegal if they outnumber those of the whole path so
far (`Legal`). In the string a NUL is a character of its segment. The `ifstream` opens a C
string, which ends at the first NUL (`Opened`): that is the path tested for a page in `Get`,
and the one `OnlyACutLeadsUp` and `StaysBelowRoot` are about. They use neither `Reference`
nor the loop.

`stage` is the place in `handler`. The request, the file and the body are numbers of
bytes: `stream` is what the client sends and where its empty line ends, `Recv` takes
any part of it, and `Send` any part of a block. The request line is chosen when it is
parsed. Variables of `read_request`, and the path, are reset once nobody reads them any
more. `InitServer` is `socket`, `bind` and `listen`; when one fails the server goes on
to an `accept` that fails. The environment may do what the code has to cope with: the
client stalls (`"idle"`: `recv` and the `send` of a full socket wait), or leaves, after
which `recv` and `send` may fail, `send` may still succeed, or SIGPIPE ends the process
(`Killed`); the file changes while it is sent; `accept` fails and ends the server. The
headers and body of an error page are one step (`SendStatus`), as the code ignores
whether they arrive. `open` counts descriptors, which nobody closes.

### RpcConnection

`goRPC` is unfinished and does not compile: packages are missing and some types do not
fit. The model is what the statements of the server side say. `reader` is the task
`Work` waits to put, `task` and `result` are the two channels, `worker[w]` is the task a
worker handles or the result it waits to save, and `sender` ends after one result. A
task has a number, so that it can be followed. A package is its two lengths and the
number of its bytes. The lengths are arbitrary: each `RecvData` throws away the
read-ahead of the one before, and reads little-endian what `Encode` writes big-endian.
`Width` stands for 2^32. `ended` means that the peer has closed or the 60 seconds are
over; every read fails from then on, and `Work` goes on all the same. `RecvCut` is a
stream that ends after the first length, which `getProtoLen` then takes for the second
too. `RegisterFunc` assigns to a map that was never made and ends the process
(`register_panic`), before the server runs or at any time later; a slice out of range in
`Decode` ends it too (`decode_panic`). The registry of a server that runs is therefore empty, every result is nil, and `callFunc`
and `genResponse` are not reached.

### OpenatMaps

`prog[c]` is the program that runs on CPU `c`, for which thread, and its next helper
call. A program is not interrupted on its CPU; programs on different CPUs interleave
between `bpf_map_lookup_elem`, `bpf_map_update_elem`, `bpf_ringbuf_reserve` and
`bpf_ringbuf_submit`, and a thread may enter `openat` on one CPU and leave it on another.
The helpers, the per-CPU map and libbpf's polling are modelled from their use here
(external): an update of a new key fails in a full map, a reservation fails in a full
ring buffer, and the consumer stops at a record not yet submitted. The size of the map
and the CPUs of the machine are chosen at the start. `main` is modelled from loading to
cleanup with every error path; the two programs are attached one after the other, so
that calls are seen by one of them only. Whether three seconds have passed is a choice.
Process ids are numbered in the order in which `bpf_map_get_next_key` visits them.
Threads may be inside `openat` from the start, so that the first event of one can be an
exit. An event holds `ret`, which is 0 at the entry and the call's result, 0 included, at
the exit; `kind`, the program that wrote it, is auxiliary: the record does not hold it.

`bpf_map_lookup_elem` on a per-CPU map stores one value per CPU and `val` has room for
one. On one CPU `Show` is what is written; on several it overwrites locals of `main`,
and the pass goes on anywhere, ends or crashes. Properties of `main` are stated for one
CPU, those of the programs for any number.

### CntxtSwitch and TLBtest

`at[p]` is where parent and child are and `fds[p]` the pipe ends each has open: a `read`
from an empty pipe waits while somebody has its writing end open and returns nothing
otherwise, and a `write` to a pipe nobody can read ends the process (SIGPIPE). A time is
the number of the parent's `clock_gettime` calls. `Kill` ends either process at any
moment, once. `stale` is auxiliary: the child has used another time than the parent's
last.

`TLBtest` is one call of `tlb`. Memory is counted in pages, as both callers pass whole
megabytes; both branches of the allocation are `Allocate` with their `size`. Each round
of `shuffle` draws any number `rand() % (i + 1)` may give, and `draws` keeps them.
`EveryOrderOnce` says that the final order determines the draws. There are as many
sequences of draws as orders, so each order comes from exactly one of them.

These two and `LRU` are small and share one instance: `MCPrograms` runs one of the three.

## 3. Runs

| Run | Instance | Shows |
|---|---|---|
| `procom` | 3 producers, 2 consumers, `bufsize` 2 | `TypeOK`, `BufferExclusive`, `NoLostUpdate`, `Accounting`, `ImplementsBoundedBuffer`, `KeepsEating` |
| `restart_quiet` | first run 1+1 scripts, second run 1+1, `bufsize` 2 | `QuietRestartSound`: the buffer is empty and the second run is sound, if no child outlives `clear.sh` |
| `ipc_safety` | 2 readers, 2 writers, 2 values | `TypeOK`, `Exclusive`, `WritersShutReadersOut` |
| `ipc_start` | 1 reader, 2 writers, no segment yet | `NoReadBeforeInit`, `IdleInitHarmless`, `ReadsUnlessDisturbed` |
| `ipc_two_readers` | 2 readers, 1 writer | violates `ReadersKeepReading`: the hang the program's README mentions, with its cause |
| `banker` | 3 threads, 3 units, claims 1, 2, 4 | `TypeOK`, `ListMatchesMap`, `BooksBalance`, `GrantsAreSafe` |
| `banker_refusal` | 2 threads, 3 units | violates `RefusalsAreUnsafe`: a safe request is refused |
| `web` | 2 connections, limit 4, `recv` up to 3, streams up to 7, blocks of 2, files up to 5, about 5600 URLs | `TypeOK`, `SizeDecides`, `PathsAreNormal`, `OnlyACutLeadsUp`, `OneAnswer`, `Framed`, `OnlyClientsHoldUp` |
| `web_opened` | the same | violates `StaysBelowRoot`: a NUL ends the path that is opened and not the one that is compared |
| `rpc` | 2 workers, channels of 2, lengths 0 to 2 modulo 4, 3 full packages | `TypeOK`, `EachTaskInOnePlace`, `OnlyWorkersAreOvertaken`, `OnlyWrappingPanics`, `FirstResultsAreSaved` |
| `ebpf` | 3 threads of 2 processes, 2 calls, 1 or 2 CPUs, map of 1 or 2 keys, ring buffer of 2, 2 keys per pass, results 0 and 3 | `CountsAreExact`, `EventsInTurn`, `PassIsComplete`, `SignalEnds` |
| `programs` | `LRU`: 6 pages, room for 3; context switch: up to 3 tries; TLB: up to 5 pages of memory, 4 visited, 2 tries | `OnlyIllegalVisitsDie`, `RingIsLRU`; `SwitchTypeOK`, `AverageIsHonest`, `BothEnd`; `EachPageOnce`, `EveryOrderOnce` |

Why the bounds are enough:

* `procom`: two of each kind make every pair of scripts meet; the third producer makes
  more producers than places, so that the buffer is full with somebody waiting.
* `restart_quiet`: the first run's scripts can be killed at every command, and both a
  consumer's and a producer's helper can survive.
* `ipc_safety`: two of each kind are the least that contend for each lock. `ipc_start`:
  the second writer's initialisation meets the reader and the first writer at every
  statement; a second reader would block the first (`ipc_two_readers`).
* `banker`: a claim of 4 exceeds the 3 units, equal claims exercise ties in the heap,
  and `DupBound` 1 lets an id be registered twice.
* `web`: a stream of 7 can pass the limit of 4 by one, by a whole `recv`, or end exactly
  at it; files up to 5 are no block, a part of one, whole blocks, and blocks and a part.
  URLs of up to 6 pieces hold two names and two `..` in every order; those of up to 4
  hold every piece. The second connection shows what the first leaves behind.
* `rpc`: after the stream's end the reader goes on until both channels are full and both
  workers wait, so every limit is reached. The lengths 2 and 2 wrap around to no data.
* `ebpf`: two threads of one process meet on two CPUs, or one calls twice; two processes
  fill a map of one entry or make a pass of two keys, of which one may be added while the
  pass is on its way; four events overflow the ring buffer of two. The result 0 is the one
  that an event does not tell from an entry, 3 stands for all others.
* `programs`: pages outside memory, a full ring and hits at the front, middle and back;
  three tries have a first, a middle and a last message, and the kill hits every statement;
  memory smaller than, equal to and larger than the pages visited.

Symmetry is used only in runs without a temporal property. `CHECK_DEADLOCK FALSE` is
set for `IPC` and `goRPC`, where everybody can really come to wait for ever, and for
the programs that end: `LRU` and `easyServer_v1` by `die`, SIGPIPE or a failing `accept`,
`use_maps` by a signal, the measuring programs when they are done.

### Fairness

`ProCom`: each script keeps running (weak fairness). A helper blocked in `flock`
gets the lock eventually (strong fairness): whoever polls in vain sleeps 0.1 s after
each `flock -u`, so the lock is free again and again while the others sleep.
`SharedMem`: processes keep running; a process blocked in `sem_wait` is woken when
the semaphore is posted again and again, since a reader sleeps a second and a writer
waits for its user between two rounds. The user need not type, nor start a process; a
writer that has begun `create_shmhead` finishes it.
`RpcConnection`: a goroutine that can run does. Nothing is assumed of the peer.
`WebServer`: the one thread runs whenever its call returns; an idle client need not do
anything, ever. `OpenatMaps`: `main` keeps running and a program runs to its end; no
thread has to call `openat`, and no signal has to come. `CntxtSwitch`: both processes
are scheduled. The other modules assume no fairness.

## 4. Proofs

TLAPS checks that the properties below hold for every value of the constants: any
number of processes, threads, CPUs and workers, any sizes of buffers, maps and files.
The assumptions are the named `ASSUME`s of the modules: sets of processes are finite,
null values are no processes, sizes that the code declares are positive, URLs are
sequences of pieces (strings in the model). They exclude no value the code can have,
with one exception: claims and amounts of `Banker` are natural numbers, while
`Banker::request` also takes negative ones (section 6). The inputs of `LRU` are page
numbers from 0 on. Each theorem rests on an inductive invariant (`IInv` unless another name
is given); few of the properties are inductive by themselves.

**`ProComProofs`** (`TypeCorrect`, `UpdatesAreKept`, `BooksAreExact`, `Exclusion`,
`Refinement`, `RestartIsSound`). `IInv` is `Types /\ LockOwner /\ NoLostUpdate /\
Accounting /\ DeletesHead`. Exclusion follows from the count of `free.sem`
(`Accounting`), which needs that the value a helper writes is current (`NoLostUpdate`),
which needs that only the lock's holder is past `flock` (`LockOwner`). `Types` too depends
on `Accounting`: `Tail(buffer)` is a sequence only if the file is not empty when it is
copied. `Refinement` is `Spec => ImplementsBoundedBuffer`: the abstract queue is the file's
lines, preceded by the line deleted and not yet echoed; `AppendItem` is the abstract
`Put` (there is room by `Accounting`), `EchoEat` is `Eat` (the consumer holds the head by
`DeletesHead`), all else stutters. The restart needs `RInv`: which scripts and orphans
`clear.sh` has left at each of its commands (`Remains`), what the new `run.sh` has set so
far if no orphan is left (`Reset`), and `IInv` again in the second run (`Again`). While
scripts are killed in the middle nothing better than types and the lock's owner can be
kept, so the second half of the proof begins with the truncated file.

**`SharedMemProofs`** (`TypeCorrect`, `Exclusion`, `WritersFirst`, `InitComesFirst`,
`InitIsHarmless`). `IInv` says that each semaphore plus the processes that have taken it
is at most one. It says nothing of `readers`, whose updates may be lost; exclusion holds
all the same because every reader waits on `wmtx`. For the start, `BeforeGate` says how
far anybody can get before `wmtx` is initialised for the first time. `IdleInitHarmless`
needs that `IInv` is restored whenever a statement of `create_shmhead` finds everybody
else outside the protocol (`Still`).

**`BankerProofs`** (`TypeCorrect`, `ListAndMapAgree`, `ResourcesConserved`,
`GrantsCorrect`). During a scan either nothing has been popped, or all
remaining claims can be met at once (`FirstPopDecides`), because the heap yields the
largest claim first. So a scan that reaches its end grants only if every claim is open,
which is safe by the textbook's definition, with any order. `TrialOK` lets the rollback
of a refused request take back exactly what was given. Sums over threads are
cardinalities of sets of units (`Sums`), so that a step that changes one account needs
no induction (`SumChange`).

**`LRUProofs`** (`RingCorrect`, `NeverDies`). `Ring(heap, s, n)` describes the links of
all nodes: the first `n` pages of `s` forwards and backwards, nothing but `NULL`
elsewhere. `Push`, `DelNode` and `SetTop` are shown to do to the ring what append,
removal and moving to the front do to the sequence; `used` is that sequence, of which
memory holds the first part (`Resident`).

**`WebServerProofs`** (`TypeCorrect`, `AnswersOnce`, `BodyIsFramed`, `RequestSizes`,
`PathsCorrect`, `OpenedPaths`). `BodyFollowsFile`: while the file is unchanged, what was
sent plus what is left of the block is the file's position.

The last two theorems are about URLs of any length, over any set of names.

* `ScanFact` unfolds the recursive function; `Stacked` is the loop's invariant, and
  `ScanStacked` its induction over the positions. `Stacked` says that the loop has not
  returned exactly if the URL is legal so far; that the stack lists the segments of the
  kept names in their order (`IsList`); and that the open segment is what follows the last
  slash.
* It is inductive only with `Balanced`: for every kept name, and for the root, the names
  after it exceed the `..` after it by the height of the stack above it. A `..` lowers all
  balances by one, so the one name whose balance becomes negative is the last one kept,
  and the root's becomes negative exactly if none is kept (`KeptUp`); a name raises them,
  and is kept itself (`KeptName`).
* `SafePathFact` (`make_safe_path` equals `Reference`) and `SafePathNames` (its segments are
  names) follow from `Stacked` at the end of the path. `OpenedNames` carries the latter over
  to the opened path: up to the segment with the first NUL the two are the same. The proofs use `Pieces`, `STRING`
  with `"/"` and `"."`, because the provers do not know that a literal is a `STRING`.

**`RpcConnectionProofs`** (`TypeCorrect`, `OvertakenOnlyInWorkers`, `PanicsAreWrapped`,
`TasksInOnePlace`). `Queue`: the tasks in the channel carry the numbers that follow those
taken so far, without a gap. A number that has been taken is with one worker, in the
result channel or done; hence no task is in two places, and only one with a worker can be
overtaken.

**`MeasureProofs`**

* `SwitchTypeCorrect`, `AveragesAreHonest`: `SInv` relates the message on the way, the
  two `tryc`, `start` and the open ends of the pipes, in the parent's turn and in the
  child's. A parent that dies leaves the child a closed pipe, whose next `write` kills
  it: one that has measured with an old time gets no further (`ChildGoesOn`).
* `PagesVisitedOnce`: `TInv`, that `index` has every offset once (`OneToOne`) and what the
  visits have added to the array so far (`Visited`).
* `ShuffleIsUniform`: `DInv`, that the rounds so far are the beginning of the replay of
  every order with the same pages in the places already settled. `RoundsFact` unfolds
  the recursive function of the replay.
* `CountsCorrect`: `CInv`, that the number a program has looked up is still its CPU's
  value when it writes it (`LookupsAreCurrent`), which is what a per-CPU map is for.
* `EventsTakeTurns`: `EInv`, that a thread is on one CPU at a time, its program fits where
  it is, an event with a result was written at an exit, and a thread's events in the ring buffer alternate, beginning after the one seen last and
  ending before the one due next (`InTurn`).
* `PassesAreComplete`: `PInv`, that every first key is printed or still ahead of the pass,
  also when keys are added on both sides of it, and that no key is printed twice.

**`Counting`** has what several of these need: sets and sums of which one element changes,
and `LeastElement`, from which the inductions are done (`RoundsFact`, `ScanFact`,
`ScanStacked`, and the smallest key after another) that the library's induction theorems
cannot be used for: a counterexample would have a least one.

Only model-checked: liveness (`KeepsEating`, `ReadsUnlessDisturbed`, `OnlyClientsHoldUp`,
`SignalEnds`, `BothEnd`, `FirstResultsAreSaved`), which is beyond the prover.

## 5. Findings

* `ipc_two_readers`: the stray semicolon at `SharedMeM.c:61` and the counter test at
  `:73` block two readers.
* `banker_refusal`: the max-heap of `Banker.hpp:86` tests the largest claim first, so that
  a request is granted only if every remaining claim could be met at once.
* `web_opened`: `webhandler.h:21` says that a path leading out of `doc_root_` gives the empty
  string. A segment is compared with `..` as a whole, NUL included (`webhandler.cc:119`), and
  the open ends it at the NUL (`:254`), so that the last segment opened may be `..`.
  `OnlyACutLeadsUp` says what is left of the claim: nothing follows that segment.

Seen while modelling, without a run of their own:

* `pro_com/README.md:3` says that `clear.sh` resets the buffer. A `sed -i` that outlives
  its consumer renames its copy over the file after `clear.sh` has emptied it; hence the
  hypothesis of `QuietRestartSound`.
* `webhandler.cc:281` leaves `close(connfd)` to the caller, and `TcpServer::run`
  (`TcpServer.cc:44`) does not close it: `open` only grows, until `accept` fails.
* `SharedMeM.c:16`: a reader that passes both new semaphores before `readers = 0` has its
  increment undone, finds -1 when it leaves, and never posts `wmtx` again. This is what
  the FIXME at `SharedMeM.c:3` fears.
* `use_maps.c:106` has room for one value where a per-CPU map returns one per CPU; what is
  printed as the count is that of the first CPU at best. `ring_buffer__new` failing ends
  the program with the result 0 (`use_maps.c:83`). `openat` may return 0, which the
  consumer's (disabled) output (`:44`) would take for an entry; `EventsInTurn` therefore
  says of `ret` only what other values tell.
* `TLBtest.c:85` never sets `emvisit_time`, which is subtracted from the result; a failing
  allocation (`:45`) is returned as a time of -1, and from 8 GB on `i` overflows (`:50`).
  `MEMvirtualization/README.md` speaks of up to 4096 pages, the scripts go up to 8192.
* With no try at all the context switch test prints 0 divided by 0.
* `goRPC` says that results are saved in order (`tcpserver.go:68`), but
  `OnlyWorkersAreOvertaken` is all the pool guarantees; its registry's maps are never made
  (`functionregistry.go:26`), so that a registration ends the process, each `RecvData` drops the read-ahead of the one before
  (`serverhandler.go:39`), and its lengths are written and read in different byte orders
  (`myrpc.go:106`, `serverhandler.go:56`).
* `Banker::request` takes a negative amount (`Banker.cpp:22`), `issafe()` takes no lock
  (`Banker.hpp:102`), `use_page` takes a negative page number (`LRU.c:26`) and `newstack`
  leaves `size` unset (`stack.c:9`).

## 6. Not modelled

Not modelled for good: timing programs and plotting scripts (no state), `eBPF/hello`
(one print), recordings under `replay/`, destructors and clean-up functions nobody
calls, negative numbers for `LRU` and `Banker`, races with `Banker`'s unlocked test
methods, `get_mime_type` (a table of texts) and directories opened as files in
`easyServer_v1`, the durations the measuring programs are about, the client of `goRPC`
(a skeleton without a working call).
