------------------------------- MODULE Banker -------------------------------
(***************************************************************************)
(* The Banker class (Banker.hpp, Banker.cpp): deadlock avoidance for one   *)
(* kind of resource.                                                       *)
(*                                                                         *)
(* PID_func_details is the set of registered ids and the three fields of   *)
(* their Details.  Of threadlist, whose order is only that of the heap     *)
(* operations, the model keeps how often each id is in it.                 *)
(*                                                                         *)
(* is_safe is a loop under the mutex and is modelled step by step: todo is *)
(* the part [begin, end - i) of the heap and available the local variable. *)
(* The heap's first element is an element with the largest remaining claim *)
(* (cmp_func is <), any of them when several are equal.                    *)
(***************************************************************************)
EXTENDS Integers, FiniteSets, Sums

CONSTANTS
  PIDs,         \* the thread ids
  total_src,    \* the constructor's src_nums
  MaxRequests,  \* the claims threads are registered with
  Amounts,      \* the amounts requested or released
  DupBound,     \* bound: how often an id may be registered again
  NoPid         \* the caller of is_safe is issafe(), not request()

ASSUME BankerAssumption ==
  /\ IsFiniteSet(PIDs)
  /\ NoPid \notin PIDs
  /\ total_src \in Nat
  /\ MaxRequests \subseteq Nat
  /\ Amounts \subseteq Nat
  /\ DupBound \in Nat

VARIABLES
  available_src,
  pids,         \* the keys of PID_func_details
  max_request, now_have, now_need,
  threadlist,   \* number of entries per id
  scanning,     \* is_safe is running (and the mutex held)
  call,         \* the call it runs for, or the last one answered
  todo,         \* the entries is_safe has not popped yet
  available,    \* is_safe's local variable
  reply,        \* how the last call was answered
  written_off   \* auxiliary: units of threads dropped while holding them

vars == <<available_src, pids, max_request, now_have, now_need, threadlist,
          scanning, call, todo, available, reply, written_off>>
scanVars == <<scanning, todo, available>>
books == <<available_src, now_have, written_off>>

Zero == [p \in PIDs |-> 0]
NoCall == [pid |-> NoPid, need |-> 0]

-----------------------------------------------------------------------------
\* set_details: what the threads hold to begin with.
SetDetails(have) ==
  /\ now_have = have
  /\ available_src = total_src - SumOf(have, PIDs)

\* The constructor with some threads, then set_details within their claims.
Init ==
  /\ pids \in SUBSET PIDs
  /\ max_request \in [PIDs -> MaxRequests \cup {0}]
  /\ \A p \in PIDs \ pids : max_request[p] = 0
  /\ \A p \in pids : max_request[p] \in MaxRequests
  /\ \E have \in [PIDs -> 0..total_src] :
       /\ \A p \in PIDs : have[p] <= max_request[p]
       /\ SumOf(have, PIDs) <= total_src
       /\ SetDetails(have)
  /\ now_need = Zero
  /\ threadlist = [p \in PIDs |-> IF p \in pids THEN 1 ELSE 0]
  /\ scanning = FALSE
  /\ call = NoCall
  /\ todo = Zero
  /\ available = 0
  /\ reply = "none"
  /\ written_off = 0

-----------------------------------------------------------------------------
(***************************************************************************)
(* request(PID, need), up to the call of is_safe.                          *)
(***************************************************************************)
\* PID_func_details.at(PID) throws.
RequestUnknown(p) ==
  /\ p \notin pids
  /\ reply' = "out_of_range"
  /\ UNCHANGED <<books, pids, max_request, now_need, threadlist, scanVars>>

RequestOverMax(p, need) ==
  /\ p \in pids
  /\ need + now_have[p] > max_request[p]
  /\ reply' = "over_max"
  /\ UNCHANGED <<books, pids, max_request, now_need, threadlist, scanVars>>

RequestShort(p, need) ==
  /\ p \in pids
  /\ need + now_have[p] <= max_request[p]
  /\ need > available_src
  /\ now_need' = [now_need EXCEPT ![p] = need]
  /\ reply' = "short"
  /\ UNCHANGED <<books, pids, max_request, threadlist, scanVars>>

\* Mutant: the claim compared with the request alone.
RequestTryOverMax(p, need) ==
  /\ p \in pids
  /\ need <= max_request[p]
  /\ need <= available_src
  /\ available_src' = available_src - need
  /\ now_have' = [now_have EXCEPT ![p] = @ + need]
  /\ scanning' = TRUE
  /\ todo' = threadlist
  /\ available' = available_src'
  /\ reply' = "none"
  /\ UNCHANGED <<pids, max_request, now_need, threadlist, written_off>>

\* The resources are given out first, then is_safe looks at the result.
RequestTry(p, need) ==
  /\ p \in pids
  /\ need + now_have[p] <= max_request[p]
  /\ need <= available_src
  /\ available_src' = available_src - need
  /\ now_have' = [now_have EXCEPT ![p] = @ + need]
  /\ scanning' = TRUE
  /\ todo' = threadlist
  /\ available' = available_src'
  /\ reply' = "none"
  /\ UNCHANGED <<pids, max_request, now_need, threadlist, written_off>>

Request(p, need) ==
  /\ ~scanning
  /\ call' = [pid |-> p, need |-> need]
  /\ \/ RequestUnknown(p)
     \/ RequestOverMax(p, need)
     \/ RequestShort(p, need)
     \/ RequestTry(p, need)

\* issafe(), the test method.
IsSafeCalled ==
  /\ ~scanning
  /\ call' = NoCall
  /\ scanning' = TRUE
  /\ todo' = threadlist
  /\ available' = available_src
  /\ reply' = "none"
  /\ UNCHANGED <<books, pids, max_request, now_need, threadlist>>

-----------------------------------------------------------------------------
(***************************************************************************)
(* is_safe, and what request does with its answer.                         *)
(***************************************************************************)
Remaining(p) == max_request[p] - now_have[p]

\* pqueue[0]: a thread with the largest remaining claim of those left.
HeapTop(t) ==
  /\ todo[t] > 0
  /\ \A u \in PIDs : todo[u] > 0 => Remaining(u) <= Remaining(t)

\* Mutant: is_safe that never compares a claim with what is available.
ScanPopUntested(t) ==
  /\ scanning
  /\ HeapTop(t)
  /\ available' = available + now_have[t]
  /\ todo' = [todo EXCEPT ![t] = @ - 1]
  /\ UNCHANGED <<books, pids, max_request, now_need, threadlist, scanning, call, reply>>

ScanPop(t) ==
  /\ scanning
  /\ HeapTop(t)
  /\ available >= Remaining(t)
  /\ available' = available + now_have[t]
  /\ todo' = [todo EXCEPT ![t] = @ - 1]
  /\ UNCHANGED <<books, pids, max_request, now_need, threadlist, scanning, call, reply>>

ScanEnd == scanning' = FALSE /\ todo' = Zero /\ available' = 0

\* Mutant: a refused request that keeps available_src reduced.
ScanUnsafeNoRollback(t) ==
  /\ scanning
  /\ HeapTop(t)
  /\ available < Remaining(t)
  /\ ScanEnd
  /\ IF call.pid = NoPid
     THEN UNCHANGED <<now_have, now_need>>
     ELSE /\ now_need' = [now_need EXCEPT ![call.pid] = 0]
          /\ now_have' = [now_have EXCEPT ![call.pid] = @ - call.need]
  /\ reply' = "unsafe"
  /\ UNCHANGED <<available_src, pids, max_request, threadlist, call, written_off>>

\* return false; request takes the resources back.
ScanUnsafe(t) ==
  /\ scanning
  /\ HeapTop(t)
  /\ available < Remaining(t)
  /\ ScanEnd
  /\ IF call.pid = NoPid
     THEN UNCHANGED <<available_src, now_have, now_need>>
     ELSE /\ now_need' = [now_need EXCEPT ![call.pid] = 0]
          /\ available_src' = available_src + call.need
          /\ now_have' = [now_have EXCEPT ![call.pid] = @ - call.need]
  /\ reply' = "unsafe"
  /\ UNCHANGED <<pids, max_request, threadlist, call, written_off>>

\* return true.
ScanSafe ==
  /\ scanning
  /\ \A t \in PIDs : todo[t] = 0
  /\ ScanEnd
  /\ now_need' = IF call.pid = NoPid THEN now_need
                 ELSE [now_need EXCEPT ![call.pid] = 0]
  /\ reply' = "safe"
  /\ UNCHANGED <<books, pids, max_request, threadlist, call>>

-----------------------------------------------------------------------------
(***************************************************************************)
(* The other public methods.                                               *)
(***************************************************************************)
\* update_src(PID, nums): 0 releases everything; an amount the thread does not
\* hold is ignored, and an unknown id throws.
UpdateSrc(p, nums) ==
  /\ ~scanning
  /\ p \in pids
  /\ nums <= now_have[p]
  /\ LET back == IF nums = 0 THEN now_have[p] ELSE nums
     IN  /\ available_src' = available_src + back
         /\ now_have' = [now_have EXCEPT ![p] = @ - back]
  /\ reply' = "none" /\ call' = NoCall
  /\ UNCHANGED <<pids, max_request, now_need, threadlist, scanVars, written_off>>

\* add_thread(PID, max): a known id gets fresh details and one more entry.
AddThread(p, max) ==
  /\ ~scanning
  /\ threadlist[p] <= DupBound
  /\ pids' = pids \cup {p}
  /\ max_request' = [max_request EXCEPT ![p] = max]
  /\ now_have' = [now_have EXCEPT ![p] = 0]
  /\ now_need' = [now_need EXCEPT ![p] = 0]
  /\ threadlist' = [threadlist EXCEPT ![p] = @ + 1]
  /\ written_off' = written_off + now_have[p]
  /\ reply' = "none" /\ call' = NoCall
  /\ UNCHANGED <<available_src, scanVars>>

\* Mutant: remove that erases only one entry of a thread registered twice.
RemoveOne(p) ==
  /\ ~scanning
  /\ p \in pids
  /\ pids' = pids \ {p}
  /\ max_request' = [max_request EXCEPT ![p] = 0]
  /\ now_have' = [now_have EXCEPT ![p] = 0]
  /\ now_need' = [now_need EXCEPT ![p] = 0]
  /\ threadlist' = [threadlist EXCEPT ![p] = @ - 1]
  /\ written_off' = written_off + now_have[p]
  /\ reply' = "none" /\ call' = NoCall
  /\ UNCHANGED <<available_src, scanVars>>

\* remove(PID): every entry of a known id, and its details.
Remove(p) ==
  /\ ~scanning
  /\ p \in pids
  /\ pids' = pids \ {p}
  /\ max_request' = [max_request EXCEPT ![p] = 0]
  /\ now_have' = [now_have EXCEPT ![p] = 0]
  /\ now_need' = [now_need EXCEPT ![p] = 0]
  /\ threadlist' = [threadlist EXCEPT ![p] = 0]
  /\ written_off' = written_off + now_have[p]
  /\ reply' = "none" /\ call' = NoCall
  /\ UNCHANGED <<available_src, scanVars>>

-----------------------------------------------------------------------------
Next ==
  \/ \E p \in PIDs, n \in Amounts : Request(p, n) \/ UpdateSrc(p, n)
  \/ IsSafeCalled
  \/ \E t \in PIDs : ScanPop(t) \/ ScanUnsafe(t)
  \/ ScanSafe
  \/ \E p \in PIDs, m \in MaxRequests : AddThread(p, m)
  \/ \E p \in PIDs : Remove(p)

Spec == Init /\ [][Next]_vars


-----------------------------------------------------------------------------
(***************************************************************************)
(* Properties.                                                             *)
(***************************************************************************)
Replies == {"none", "out_of_range", "over_max", "short", "unsafe", "safe"}

\* The values of the object's fields; no thread holds more than its claim.
TypeOK ==
  /\ available_src \in Nat
  /\ pids \subseteq PIDs
  /\ max_request \in [PIDs -> Nat]
  /\ now_have \in [PIDs -> Nat]
  /\ \A p \in PIDs : now_have[p] <= max_request[p]
  /\ now_need \in [PIDs -> Nat]
  /\ threadlist \in [PIDs -> Nat]
  /\ todo \in [PIDs -> Nat]
  /\ scanning \in BOOLEAN
  /\ call \in [pid : PIDs \cup {NoPid}, need : Nat]
  /\ available \in Nat
  /\ reply \in Replies
  /\ written_off \in Nat

\* threadlist and PID_func_details name the same threads, through any mix of
\* add_thread and remove: cmp_func's at() never throws inside the heap.
ListMatchesMap ==
  \A p \in PIDs : /\ threadlist[p] > 0 <=> p \in pids
                  /\ todo[p] <= threadlist[p]

\* No call creates or destroys resources: what is available, held, or was held by
\* a thread when it was dropped, adds up to total_src, during a request too.
BooksBalance ==
  available_src + SumOf(now_have, PIDs) + written_off = total_src

\* The reference for is_safe: the threads can finish one after the other, each
\* taking its whole remaining claim from what is free by then.
SafeWith(free, have) ==
  \E order \in [1..Cardinality(pids) -> pids] :
    /\ \A i, j \in DOMAIN order : order[i] = order[j] => i = j
    /\ \A i \in DOMAIN order :
         max_request[order[i]] - have[order[i]]
           <= free + SumOf(have, {order[j] : j \in 1..(i - 1)})

\* Banker.hpp: request answers true only if the state it leads to is safe.
GrantsAreSafe == reply = "safe" => SafeWith(available_src, now_have)

\* Banker.hpp: a request is refused because the state it leads to is not safe.
RefusalsAreUnsafe ==
  reply = "unsafe" /\ call.pid # NoPid =>
    ~SafeWith(available_src - call.need,
              [now_have EXCEPT ![call.pid] = @ + call.need])
=============================================================================
