----------------------------- MODULE OpenatMaps -----------------------------
(***************************************************************************)
(* eBPF/use_map: the two tracepoint programs of use_maps.bpf.c on several  *)
(* CPUs, their maps, and the main program of use_maps.c.                   *)
(*                                                                         *)
(* A program runs on its CPU without being interrupted; programs on        *)
(* different CPUs interleave.  Process ids are numbered in the order in    *)
(* which bpf_map_get_next_key visits them.                                 *)
(***************************************************************************)
EXTENDS Integers, Sequences, FiniteSets, FiniteSetsExt, Sums

CONSTANTS
  CPUs,
  Threads,      \* the threads that call openat
  PidOf,        \* [Threads -> Nat]: the process of each
  MaxEntries,   \* bound: sizes of openat_counts considered
  RingSize,     \* events that fit into ringbuf
  ShowMax,      \* keys printed per pass
  Results,      \* what openat returns: a descriptor, 0 too, or an error
  MaxCalls,     \* bound: openat calls
  NoThread

Pids == {PidOf[t] : t \in Threads}

ASSUME MapsAssumption ==
  /\ IsFiniteSet(CPUs) /\ CPUs # {}
  /\ IsFiniteSet(Threads) /\ NoThread \notin Threads
  /\ PidOf \in [Threads -> Nat \ {0}]
  /\ MaxEntries \in Nat \ {0} /\ RingSize \in Nat \ {0} /\ ShowMax \in Nat \ {0}
  /\ Results \subseteq Int
  /\ MaxCalls \in Nat

VARIABLES
  online,         \* the CPUs of this machine
  max_entries,    \* the size of openat_counts
  inside,         \* the threads between entry and exit of openat
  prog,           \* per CPU [thread, kind, at, new_count]: the program it runs
  openat_counts,  \* key |-> (CPU |-> count)
  ringbuf,        \* [thread, ret, busy, kind]: events reserved and not yet consumed; kind is
                  \* auxiliary, the program that wrote it, which the event does not hold
  attached,       \* the programs that are attached
  main,           \* where main is
  isexit,
  pass,           \* main's locals during a pass over the map
  calls,          \* openat calls so far, those under way at the start included
  updates,        \* auxiliary: per id, the calls that were to be counted
  seen,           \* auxiliary: the kind of each thread's last event consumed
  missed          \* auxiliary: the threads with an event that never got into ringbuf

threadVars == <<inside, calls>>
kernelVars == <<prog, openat_counts, ringbuf, updates, missed>>
mainVars == <<attached, main, isexit, pass, seen>>
fixed == <<online, max_entries>>
vars == <<fixed, threadVars, kernelVars, mainVars>>

NoProg == [thread |-> NoThread, kind |-> "none", at |-> "idle", new_count |-> 0]
NoPass == [first |-> {}, shown |-> {}, cnt |-> 0, prev_key |-> 0, key |-> 0]

\* Threads may be inside openat when the programs are attached.
Init ==
  /\ online \in SUBSET CPUs \ {{}}
  /\ max_entries \in 1..MaxEntries
  /\ inside \in SUBSET Threads /\ Cardinality(inside) <= MaxCalls
  /\ prog = [c \in CPUs |-> NoProg]
  /\ openat_counts = <<>>
  /\ ringbuf = <<>>
  /\ attached = {}
  /\ main = "load"
  /\ isexit = FALSE
  /\ pass = NoPass
  /\ calls = Cardinality(inside)
  /\ updates = [p \in Pids |-> 0]
  /\ seen = [t \in Threads |-> "none"]
  /\ missed = {}

Keys == DOMAIN openat_counts

-----------------------------------------------------------------------------
(***************************************************************************)
(* The programs.                                                           *)
(***************************************************************************)
\* Mutant: a map with one value for all CPUs.
SlotShared(c) == CHOOSE d \in online : TRUE

\* BPF_MAP_TYPE_PERCPU_HASH: a program sees and sets its own CPU's value.
Slot(c) == c

\* bpf_map_lookup_elem, and the increment of the local variable.
NewCount(p, c) == IF p \in Keys THEN openat_counts[p][Slot(c)] + 1 ELSE 1

\* Thread t passes a tracepoint.  If its program is attached it runs on some CPU:
\* the one at the entry looks its process up first, the other has nothing to count.
\* While no program is attached nothing here sees the thread.
Fire(t, kind) ==
  /\ attached # {}
  /\ \A c \in CPUs : prog[c].thread # t
  /\ \/ /\ kind \in attached
        /\ \E c \in online :
             /\ prog[c] = NoProg
             /\ prog' = [prog EXCEPT ![c] =
                  [thread |-> t, kind |-> kind,
                   at |-> IF kind = "enter" THEN "update" ELSE "reserve",
                   new_count |-> IF kind = "enter" THEN NewCount(PidOf[t], c) ELSE 0]]
        /\ UNCHANGED missed
     \/ /\ kind \notin attached
        /\ missed' = missed \cup {t}
        /\ UNCHANGED prog
  /\ UNCHANGED <<fixed, openat_counts, ringbuf, updates, mainVars>>

\* sys_enter_openat
EnterOpenat(t) ==
  /\ t \notin inside /\ calls < MaxCalls
  /\ inside' = inside \cup {t} /\ calls' = calls + 1
  /\ Fire(t, "enter")

\* sys_exit_openat
ExitOpenat(t) ==
  /\ t \in inside
  /\ inside' = inside \ {t} /\ UNCHANGED calls
  /\ Fire(t, "exit")

\* The map with a value set for key p on CPU c.  A new key gets zeros on the other
\* CPUs; in a full map it gets nothing, and the program ignores the error.
SetCount(p, c, n) ==
  IF p \in Keys THEN [openat_counts EXCEPT ![p][Slot(c)] = n]
  ELSE IF Cardinality(Keys) < max_entries
  THEN [q \in Keys \cup {p} |-> IF q = p
                                THEN [d \in CPUs |-> IF d = Slot(c) THEN n ELSE 0]
                                ELSE openat_counts[q]]
  ELSE openat_counts

\* bpf_map_update_elem
Update(c) ==
  /\ prog[c].at = "update"
  /\ LET p == PidOf[prog[c].thread]
     IN /\ openat_counts' = SetCount(p, c, prog[c].new_count)
        /\ updates' = [updates EXCEPT ![p] = @ + 1]
  /\ prog' = [prog EXCEPT ![c].at = "reserve", ![c].new_count = 0]
  /\ UNCHANGED <<fixed, threadVars, ringbuf, missed, mainVars>>

\* Mutant: the program at the entry leaves ret as it finds it.
RetsUnset(c) == Results

\* What may be stored in ret: 0 at the entry, the result of the call at the exit.
Rets(c) == IF prog[c].kind = "enter" THEN {0} ELSE Results

\* bpf_ringbuf_reserve; without room the event is dropped.
Reserve(c) ==
  /\ prog[c].at = "reserve"
  /\ IF Len(ringbuf) < RingSize
     THEN /\ \E r \in Rets(c) :
               ringbuf' = Append(ringbuf, [thread |-> prog[c].thread, ret |-> r, busy |-> TRUE,
                                           kind |-> prog[c].kind])
          /\ prog' = [prog EXCEPT ![c].at = "submit"]
          /\ UNCHANGED missed
     ELSE /\ missed' = missed \cup {prog[c].thread}
          /\ prog' = [prog EXCEPT ![c] = NoProg]
          /\ UNCHANGED ringbuf
  /\ UNCHANGED <<fixed, threadVars, openat_counts, updates, mainVars>>

\* bpf_ringbuf_submit, and the end of the program.
Submit(c) ==
  /\ prog[c].at = "submit"
  /\ ringbuf' = [i \in DOMAIN ringbuf |->
                   IF ringbuf[i].thread = prog[c].thread
                   THEN [ringbuf[i] EXCEPT !.busy = FALSE] ELSE ringbuf[i]]
  /\ prog' = [prog EXCEPT ![c] = NoProg]
  /\ UNCHANGED <<fixed, threadVars, openat_counts, updates, missed, mainVars>>

ProgStep(c) == Update(c) \/ Reserve(c) \/ Submit(c)

-----------------------------------------------------------------------------
(***************************************************************************)
(* main.                                                                   *)
(***************************************************************************)
MainGoes(from, to) == main = from /\ main' = to

\* openat_counts__open_and_load
Load ==
  /\ MainGoes("load", "attach_enter") \/ MainGoes("load", "ended")
  /\ UNCHANGED <<fixed, threadVars, kernelVars, attached, isexit, pass, seen>>

\* openat_counts__attach: one program after the other.
Attach(kind, from, to) ==
  /\ \/ MainGoes(from, to) /\ attached' = attached \cup {kind}
     \/ MainGoes(from, "cleanup") /\ UNCHANGED attached
  /\ UNCHANGED <<fixed, threadVars, kernelVars, isexit, pass, seen>>

\* ring_buffer__new
NewRing ==
  /\ MainGoes("ring", "loop") \/ MainGoes("ring", "cleanup")
  /\ UNCHANGED <<fixed, threadVars, kernelVars, attached, isexit, pass, seen>>

\* while(!isexit)
Loop ==
  /\ MainGoes("loop", IF isexit THEN "cleanup" ELSE "poll")
  /\ pass' = NoPass
  /\ UNCHANGED <<fixed, threadVars, kernelVars, attached, isexit, seen>>

\* ring_buffer__poll hands over events in order, up to one still being written.
MayConsume == ringbuf # <<>> /\ ~ringbuf[1].busy

\* handle_rb_event
Consume ==
  /\ main = "poll" /\ MayConsume
  /\ seen' = [seen EXCEPT ![ringbuf[1].thread] = ringbuf[1].kind]
  /\ ringbuf' = Tail(ringbuf)
  /\ UNCHANGED <<fixed, threadVars, prog, openat_counts, updates, missed,
                 attached, main, isexit, pass>>

\* ring_buffer__poll returns; if three seconds have passed a pass begins.
PollReturns ==
  /\ \/ MainGoes("poll", "loop") /\ UNCHANGED pass
     \/ MainGoes("poll", "next_key") /\ pass' = [NoPass EXCEPT !.first = Keys]
  /\ UNCHANGED <<fixed, threadVars, kernelVars, attached, isexit, seen>>

\* bpf_map_get_next_key: the keys after prev_key, or all of them for NULL and for
\* a key that is not in the map.
After(prev) == IF pass.cnt = 0 \/ prev \notin Keys THEN Keys
               ELSE {k \in Keys : k > prev}

NextKey ==
  /\ IF After(pass.prev_key) = {}
     THEN MainGoes("next_key", "loop") /\ UNCHANGED pass
     ELSE /\ MainGoes("next_key", "show")
          /\ pass' = [pass EXCEPT !.key = Min(After(pass.prev_key))]
  /\ UNCHANGED <<fixed, threadVars, kernelVars, attached, isexit, seen>>

\* Mutants: prev_key = key is missing; ++cnt is missing.
AdvanceNot == [pass EXCEPT !.shown = @ \cup {pass.key}, !.key = 0, !.cnt = @ + 1]
AdvanceUncounted == [pass EXCEPT !.shown = @ \cup {pass.key}, !.prev_key = pass.key, !.key = 0]

\* printf, prev_key = key, ++cnt
Advance == [pass EXCEPT !.shown = @ \cup {pass.key}, !.prev_key = pass.key, !.key = 0,
                        !.cnt = @ + 1]

\* bpf_map_lookup_elem stores one value per CPU and val has room for one.  On one
\* CPU a round of the pass ends as written; on several it overwrites what lies
\* behind val, key and cnt among it: the pass may go on anywhere, end, or crash.
Show ==
  /\ main = "show"
  /\ \/ /\ Cardinality(online) = 1
        /\ pass' = Advance
        /\ main' = IF pass'.cnt >= ShowMax THEN "loop" ELSE "next_key"
     \/ /\ Cardinality(online) > 1
        /\ pass' = NoPass
        /\ main' \in {"loop", "next_key", "crashed"}
  /\ attached' = IF main' = "crashed" THEN {} ELSE attached
  /\ UNCHANGED <<fixed, threadVars, kernelVars, isexit, seen>>

\* ring_buffer__free, openat_counts__destroy
Cleanup ==
  /\ MainGoes("cleanup", "ended")
  /\ attached' = {}
  /\ UNCHANGED <<fixed, threadVars, kernelVars, isexit, pass, seen>>

\* SIGINT or SIGTERM
Signal ==
  /\ ~isexit /\ main \notin {"ended", "crashed"}
  /\ isexit' = TRUE
  /\ UNCHANGED <<fixed, threadVars, kernelVars, attached, main, pass, seen>>

MainStep ==
  \/ Load \/ Attach("enter", "attach_enter", "attach_exit")
  \/ Attach("exit", "attach_exit", "ring")
  \/ NewRing \/ Loop \/ Consume \/ PollReturns \/ NextKey \/ Show \/ Cleanup

Next ==
  \/ \E t \in Threads : EnterOpenat(t) \/ ExitOpenat(t)
  \/ \E c \in CPUs : ProgStep(c)
  \/ MainStep \/ Signal

\* main keeps running; an attached program runs to its end.
Spec ==
  /\ Init /\ [][Next]_vars
  /\ WF_vars(MainStep) /\ \A c \in CPUs : WF_vars(ProgStep(c))

-----------------------------------------------------------------------------
(***************************************************************************)
(* Properties.                                                             *)
(***************************************************************************)
\* use_maps.bpf.c: a per-CPU map avoids writing code for synchronisation.  However
\* programs interleave, lookup and update lose no call: the values of all CPUs add
\* up to the calls of the process, unless the map was full when it first called.
CountsAreExact ==
  \A p \in Pids :
    IF p \in Keys
    THEN SumOf(openat_counts[p], CPUs) = updates[p]
    ELSE updates[p] = 0 \/ Cardinality(Keys) = max_entries

\* The event follows the one of its thread before it: the programs that wrote them take
\* turns, and a ret that is not 0 comes from an exit.  A ret of 0 need not come from an
\* entry.
TakesTurn(e) ==
  /\ seen[e.thread] # e.kind
  /\ e.ret # 0 => seen[e.thread] # "exit"

\* handle_rb_event gets the events of a thread in the order in which its calls caused
\* them, enter, exit, enter, on whichever CPUs they were written, unless one of that
\* thread's own was dropped; and what it can tell by ret is right: between two events
\* of a thread with a result there is one of an entry.
EventsInTurn ==
  [][main = "poll" /\ ringbuf # <<>> /\ ringbuf' = Tail(ringbuf) =>
       ringbuf[1].thread \in missed \/ TakesTurn(ringbuf[1])]_vars

\* On one CPU a pass over the map prints every key that was in it when the pass
\* began, or as many as it may, although keys are added meanwhile.
PassIsComplete ==
  main = "loop" /\ Cardinality(online) = 1 =>
    pass.first \subseteq pass.shown \/ Cardinality(pass.shown) >= ShowMax

\* On one CPU main ends after a signal, wherever it is in a pass over a map that
\* the programs go on changing.
SignalEnds == isexit /\ Cardinality(online) = 1 ~> main = "ended"
=============================================================================
