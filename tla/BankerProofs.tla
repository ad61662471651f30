---------------------------- MODULE BankerProofs ----------------------------
(***************************************************************************)
(* Proofs about Banker, for any number of threads, any amount of resources *)
(* and any claims.                                                         *)
(***************************************************************************)
EXTENDS Banker, Counting, FiniteSetTheorems, TLAPS

(***************************************************************************)
(* The inductive invariant.                                                *)
(***************************************************************************)
\* While is_safe runs for a request, that request's thread is registered and holds
\* what it was given on trial: it can be taken back.
TrialOK ==
  scanning => /\ reply = "none"
              /\ call.pid # NoPid => call.pid \in pids /\ call.need <= now_have[call.pid]

AllClaimsOpen == \A p \in pids : Remaining(p) <= available_src

\* is_safe pops the largest claim first.  Before that it has all entries still to
\* do; afterwards the one comparison has settled every other claim.
FirstPopDecides ==
  scanning => \/ todo = threadlist /\ available = available_src
              \/ AllClaimsOpen

\* Outside is_safe there are no entries to do.
ScanOver == ~scanning => todo = Zero

\* The heap's order makes is_safe stricter than it should be (RefusalsAreUnsafe fails);
\* that a granted request leaves all claims open is why it is nevertheless safe.
GrantsOpen == reply = "safe" => \A p \in pids : Remaining(p) <= available_src

IInv ==
  /\ TypeOK /\ ListMatchesMap /\ BooksBalance
  /\ ScanOver /\ TrialOK /\ FirstPopDecides /\ GrantsOpen

-----------------------------------------------------------------------------
(***************************************************************************)
(* Initial states.                                                         *)
(***************************************************************************)
\* The constructor and set_details establish the invariant.
LEMMA InitIInv == Init => IInv
<1> SUFFICES ASSUME Init PROVE IInv
  OBVIOUS
<1>1. now_have \in [PIDs -> Nat] /\ \A p \in PIDs : now_have[p] <= max_request[p]
  BY BankerAssumption DEF Init, SetDetails
<1>2. SumOf(now_have, PIDs) \in Nat
  BY <1>1, UnitsFinite, BankerAssumption
<1>3. available_src = total_src - SumOf(now_have, PIDs) /\ SumOf(now_have, PIDs) <= total_src
  BY DEF Init, SetDetails
<1>4. available_src \in Nat BY <1>2, <1>3, BankerAssumption
<1>5. max_request \in [PIDs -> Nat]
  <2>1. max_request \in [PIDs -> MaxRequests \cup {0}] BY DEF Init
  <2>2. MaxRequests \cup {0} \subseteq Nat BY BankerAssumption
  <2> QED BY <2>1, <2>2
<1>6. TypeOK
  BY <1>1, <1>4, <1>5, BankerAssumption DEF TypeOK, Init, Zero, NoCall, Replies
<1>7. ListMatchesMap BY DEF ListMatchesMap, Init, Zero
<1>8. BooksBalance BY <1>2, <1>3, BankerAssumption DEF BooksBalance, Init
<1> QED BY <1>6, <1>7, <1>8
  DEF ScanOver, IInv, TrialOK, FirstPopDecides, GrantsOpen, Init

-----------------------------------------------------------------------------
(***************************************************************************)
(* The books.  What one thread gets or gives changes the sum by as much.   *)
(***************************************************************************)
\* One thread's holdings change from now_have[p] to n; the sum follows.
LEMMA HoldingsChange ==
  ASSUME TypeOK, TypeOK', NEW p \in PIDs, \A q \in PIDs \ {p} : now_have'[q] = now_have[q]
  PROVE  /\ SumOf(now_have, PIDs) \in Nat /\ SumOf(now_have', PIDs) \in Nat
         /\ SumOf(now_have', PIDs) + now_have[p] = SumOf(now_have, PIDs) + now_have'[p]
<1>1. IsFiniteSet(PIDs) BY BankerAssumption
<1>2. \A q \in PIDs : now_have[q] \in Nat /\ now_have'[q] \in Nat BY DEF TypeOK
<1> QED BY <1>1, <1>2, SumChange, UnitsFinite

\* A transfer between a thread, the pool and what is written off keeps the balance.
LEMMA Balance ==
  ASSUME TypeOK, TypeOK', BooksBalance,
         NEW p \in PIDs, \A q \in PIDs \ {p} : now_have'[q] = now_have[q],
         available_src' + written_off' + now_have'[p] = available_src + written_off + now_have[p]
  PROVE  BooksBalance'
<1>1. /\ SumOf(now_have, PIDs) \in Nat /\ SumOf(now_have', PIDs) \in Nat
      /\ SumOf(now_have', PIDs) + now_have[p] = SumOf(now_have, PIDs) + now_have'[p]
  BY HoldingsChange
<1>2. /\ available_src \in Nat /\ available_src' \in Nat /\ written_off \in Nat
      /\ written_off' \in Nat /\ now_have[p] \in Nat /\ now_have'[p] \in Nat
  BY DEF TypeOK
<1>3. available_src + SumOf(now_have, PIDs) + written_off = total_src BY DEF BooksBalance
<1>4. total_src \in Nat BY BankerAssumption
<1>5. PICK s \in Nat, t \in Nat : s = SumOf(now_have, PIDs) /\ t = SumOf(now_have', PIDs)
  BY <1>1
<1>6. t + now_have[p] = s + now_have'[p] /\ available_src + s + written_off = total_src
  BY <1>1, <1>3, <1>5
<1>7. available_src' + t + written_off' = total_src
  <2>1. t = s + now_have'[p] - now_have[p] BY <1>2, <1>5, <1>6
  <2>2. available_src' = available_src + written_off + now_have[p] - written_off' - now_have'[p]
    BY <1>2
  <2> QED BY <1>2, <1>4, <1>5, <1>6, <2>1, <2>2
<1> QED BY <1>5, <1>7 DEF BooksBalance

-----------------------------------------------------------------------------
(***************************************************************************)
(* request.                                                                *)
(***************************************************************************)
\* A request that is refused before is_safe runs.
LEMMA RequestRefused ==
  ASSUME IInv, NEW p \in PIDs, NEW n \in Amounts, ~scanning,
         call' = [pid |-> p, need |-> n],
         RequestUnknown(p) \/ RequestOverMax(p, n) \/ RequestShort(p, n)
  PROVE  IInv'
<1> USE DEF IInv, RequestUnknown, RequestOverMax, RequestShort, books, scanVars
<1>1. UNCHANGED <<available_src, now_have, written_off, pids, max_request, threadlist,
                  scanning, todo, available>>
  OBVIOUS
<1>2. now_need' \in [PIDs -> Nat] BY BankerAssumption DEF TypeOK
<1>3. reply' \in Replies \ {"safe"} BY DEF Replies
<1>4. TypeOK'
  <2>1. call' \in [pid : PIDs \cup {NoPid}, need : Nat] BY BankerAssumption
  <2> QED BY <1>1, <1>2, <1>3, <2>1 DEF TypeOK
<1>5. ListMatchesMap' BY <1>1 DEF ListMatchesMap
<1>6. BooksBalance' BY <1>1 DEF BooksBalance
<1> QED BY <1>1, <1>3, <1>4, <1>5, <1>6
  DEF ScanOver, TrialOK, FirstPopDecides, GrantsOpen

\* A request whose resources are given out on trial.
LEMMA RequestTried ==
  ASSUME IInv, NEW p \in PIDs, NEW n \in Amounts, ~scanning,
         call' = [pid |-> p, need |-> n], RequestTry(p, n)
  PROVE  IInv'
<1> USE DEF IInv
<1>0. n \in Nat /\ now_have[p] \in Nat /\ available_src \in Nat /\ max_request[p] \in Nat
  BY BankerAssumption DEF TypeOK
<1>1. /\ now_have' = [now_have EXCEPT ![p] = @ + n]
      /\ available_src' = available_src - n /\ n <= available_src
      /\ n + now_have[p] <= max_request[p]
      /\ p \in pids /\ scanning' = TRUE /\ todo' = threadlist
      /\ available' = available_src' /\ reply' = "none"
      /\ UNCHANGED <<pids, max_request, now_need, threadlist, written_off>>
  BY DEF RequestTry
<1>2. now_have'[p] = now_have[p] + n /\ \A q \in PIDs \ {p} : now_have'[q] = now_have[q]
  BY <1>1 DEF TypeOK
<1>3. TypeOK'
  <2>1. available_src' \in Nat BY <1>0, <1>1
  <2>2. now_have' \in [PIDs -> Nat] BY <1>0, <1>1 DEF TypeOK
  <2>3. \A q \in PIDs : now_have'[q] <= max_request'[q] BY <1>0, <1>1, <1>2 DEF TypeOK
  <2>4. call' \in [pid : PIDs \cup {NoPid}, need : Nat] BY <1>0
  <2> QED BY <1>1, <2>1, <2>2, <2>3, <2>4 DEF TypeOK, Replies
<1>4. ListMatchesMap' BY <1>1 DEF ListMatchesMap, TypeOK
<1>5. BooksBalance'
  <2>1. written_off \in Nat BY DEF TypeOK
  <2>2. available_src' + written_off' + now_have'[p] = available_src + written_off + now_have[p]
    BY <1>0, <1>1, <1>2, <2>1
  <2> QED BY <1>2, <1>3, <2>2, Balance
<1>6. TrialOK' BY <1>0, <1>1, <1>2 DEF TrialOK
<1>7. FirstPopDecides' BY <1>1 DEF FirstPopDecides
<1> QED BY <1>1, <1>3, <1>4, <1>5, <1>6, <1>7 DEF ScanOver, GrantsOpen

\* issafe() starts the same loop without a request.
LEMMA IsSafeStarted ==
  ASSUME IInv, IsSafeCalled
  PROVE  IInv'
<1> USE DEF IInv
<1>1. /\ UNCHANGED <<available_src, now_have, written_off, pids, max_request, now_need, threadlist>>
      /\ call' = NoCall /\ scanning' = TRUE /\ todo' = threadlist
      /\ available' = available_src /\ reply' = "none"
  BY DEF IsSafeCalled, books
<1>2. TypeOK' BY <1>1 DEF TypeOK, NoCall, Replies
<1>3. ListMatchesMap' BY <1>1 DEF ListMatchesMap, TypeOK
<1>4. BooksBalance' BY <1>1 DEF BooksBalance
<1>5. TrialOK' BY <1>1 DEF TrialOK, NoCall
<1> QED BY <1>1, <1>2, <1>3, <1>4, <1>5 DEF ScanOver, FirstPopDecides, GrantsOpen

-----------------------------------------------------------------------------
(***************************************************************************)
(* is_safe.                                                                *)
(***************************************************************************)
\* The comparison that does not end the loop: the claim at the top of the heap is
\* the largest, so the first one to pass vouches for all.
LEMMA TopDecides ==
  ASSUME IInv, scanning, NEW t \in PIDs, HeapTop(t), available >= Remaining(t)
  PROVE  AllClaimsOpen
<1> USE DEF IInv
<1>1. CASE todo = threadlist /\ available = available_src
  <2> SUFFICES ASSUME NEW p \in pids PROVE Remaining(p) <= available_src
    BY DEF AllClaimsOpen
  <2>1. p \in PIDs /\ t \in PIDs BY DEF TypeOK
  <2>2. todo[p] > 0 BY <1>1, <2>1 DEF ListMatchesMap
  <2>3. Remaining(p) <= Remaining(t) BY <2>1, <2>2 DEF HeapTop
  <2>4. Remaining(p) \in Int /\ Remaining(t) \in Int /\ available \in Int
    BY <2>1 DEF Remaining, TypeOK
  <2> QED BY <1>1, <2>3, <2>4
<1>2. CASE AllClaimsOpen BY <1>2
<1> QED BY <1>1, <1>2 DEF FirstPopDecides

\* The loop goes on with the next claim.
LEMMA Popped ==
  ASSUME IInv, NEW t \in PIDs, ScanPop(t)
  PROVE  IInv'
<1> USE DEF IInv
<1>1. /\ UNCHANGED <<available_src, now_have, written_off, pids, max_request, now_need,
                     threadlist, scanning, call, reply>>
      /\ available' = available + now_have[t] /\ todo' = [todo EXCEPT ![t] = @ - 1]
      /\ scanning /\ HeapTop(t) /\ available >= Remaining(t)
  BY DEF ScanPop, books
<1>2. todo[t] \in Nat /\ todo[t] > 0 BY <1>1 DEF HeapTop, TypeOK
<1>3. available' \in Nat BY <1>1 DEF TypeOK
<1>4. todo' \in [PIDs -> Nat] BY <1>1, <1>2 DEF TypeOK
<1>5. TypeOK' BY <1>1, <1>3, <1>4 DEF TypeOK
<1>6. \A p \in PIDs : todo'[p] <= todo[p] BY <1>1, <1>2 DEF TypeOK
<1>7. ListMatchesMap'
  <2> SUFFICES ASSUME NEW p \in PIDs
               PROVE  (threadlist'[p] > 0 <=> p \in pids') /\ todo'[p] <= threadlist'[p]
    BY DEF ListMatchesMap
  <2>1. todo'[p] \in Nat /\ todo[p] \in Nat /\ threadlist[p] \in Nat BY <1>4 DEF TypeOK
  <2> QED BY <1>1, <1>6, <2>1 DEF ListMatchesMap
<1>8. BooksBalance' BY <1>1 DEF BooksBalance
<1>9. AllClaimsOpen BY <1>1, TopDecides
<1>10. AllClaimsOpen' BY <1>1, <1>9 DEF AllClaimsOpen, Remaining
<1>11. TrialOK' BY <1>1 DEF TrialOK
<1>12. FirstPopDecides' BY <1>10 DEF FirstPopDecides
<1> QED BY <1>1, <1>5, <1>7, <1>8, <1>11, <1>12 DEF ScanOver, GrantsOpen, TrialOK

\* A refusal takes back what was given out on trial.
LEMMA Refused ==
  ASSUME IInv, NEW t \in PIDs, ScanUnsafe(t)
  PROVE  IInv'
<1> USE DEF IInv
<1>1. /\ UNCHANGED <<pids, max_request, threadlist, call, written_off>>
      /\ scanning /\ scanning' = FALSE /\ todo' = Zero /\ available' = 0 /\ reply' = "unsafe"
  BY DEF ScanUnsafe, ScanEnd
<1>2. ListMatchesMap' BY <1>1 DEF ListMatchesMap, Zero, TypeOK
<1>3. ScanOver' /\ TrialOK' /\ FirstPopDecides' /\ GrantsOpen'
  BY <1>1 DEF ScanOver, TrialOK, FirstPopDecides, GrantsOpen
<1>4. todo' \in [PIDs -> Nat] BY <1>1 DEF Zero
<1>5. CASE call.pid = NoPid
  <2>1. UNCHANGED <<available_src, now_have, now_need>> BY <1>5 DEF ScanUnsafe
  <2>2. TypeOK' BY <1>1, <1>4, <2>1 DEF TypeOK, Replies
  <2>3. BooksBalance' BY <1>1, <2>1 DEF BooksBalance
  <2> QED BY <1>2, <1>3, <2>2, <2>3
<1>6. CASE call.pid # NoPid
  <2> DEFINE p == call.pid
             n == call.need
  <2>1. p \in PIDs /\ p \in pids /\ n \in Nat /\ n <= now_have[p]
    BY <1>1, <1>6 DEF TrialOK, TypeOK
  <2>2. /\ now_need' = [now_need EXCEPT ![p] = 0]
        /\ available_src' = available_src + n
        /\ now_have' = [now_have EXCEPT ![p] = @ - n]
    BY <1>6 DEF ScanUnsafe
  <2> HIDE DEF p, n
  <2>3. now_have[p] \in Nat /\ available_src \in Nat /\ max_request[p] \in Nat
    BY <2>1 DEF TypeOK
  <2>4. now_have'[p] = now_have[p] - n /\ \A q \in PIDs \ {p} : now_have'[q] = now_have[q]
    BY <2>1, <2>2 DEF TypeOK
  <2>5. now_have' \in [PIDs -> Nat] BY <2>1, <2>2, <2>3 DEF TypeOK
  <2>6. \A q \in PIDs : now_have'[q] <= max_request'[q]
    BY <1>1, <2>1, <2>3, <2>4 DEF TypeOK
  <2>7. TypeOK'
    <3>1. available_src' \in Nat /\ now_need' \in [PIDs -> Nat] BY <2>1, <2>2, <2>3 DEF TypeOK
    <3> QED BY <1>1, <1>4, <2>5, <2>6, <3>1 DEF TypeOK, Replies
  <2>8. BooksBalance'
    <3>1. written_off \in Nat BY DEF TypeOK
    <3>2. available_src' + written_off' + now_have'[p] = available_src + written_off + now_have[p]
      BY <1>1, <2>1, <2>2, <2>3, <2>4, <3>1
    <3> QED BY <2>1, <2>4, <2>7, <3>2, Balance
  <2> QED BY <1>2, <1>3, <2>7, <2>8
<1> QED BY <1>5, <1>6

\* is_safe returns true.
LEMMA Granted ==
  ASSUME IInv, ScanSafe
  PROVE  IInv'
<1> USE DEF IInv
<1>1. /\ UNCHANGED <<available_src, now_have, written_off, pids, max_request, threadlist, call>>
      /\ scanning /\ scanning' = FALSE /\ todo' = Zero /\ available' = 0 /\ reply' = "safe"
      /\ \A t \in PIDs : todo[t] = 0
  BY DEF ScanSafe, ScanEnd, books
<1>2. now_need' \in [PIDs -> Nat] BY DEF ScanSafe, TypeOK
<1>3. TypeOK'
  <2>1. todo' \in [PIDs -> Nat] BY <1>1 DEF Zero
  <2> QED BY <1>1, <1>2, <2>1 DEF TypeOK, Replies
<1>4. ListMatchesMap' BY <1>1 DEF ListMatchesMap, Zero, TypeOK
<1>5. BooksBalance' BY <1>1 DEF BooksBalance
<1>6. AllClaimsOpen
  <2>1. CASE todo = threadlist
    <3>1. pids = {} BY <1>1, <2>1 DEF ListMatchesMap, TypeOK
    <3> QED BY <3>1 DEF AllClaimsOpen
  <2> QED BY <1>1, <2>1 DEF FirstPopDecides
<1>7. GrantsOpen'
  BY <1>1, <1>6 DEF GrantsOpen, AllClaimsOpen, Remaining
<1> QED BY <1>1, <1>3, <1>4, <1>5, <1>7 DEF ScanOver, TrialOK, FirstPopDecides

-----------------------------------------------------------------------------
(***************************************************************************)
(* The other methods.                                                      *)
(***************************************************************************)
\* What update_src, add_thread and remove have in common.
Between ==
  /\ ~scanning /\ scanning' = scanning /\ todo' = todo /\ available' = available
  /\ reply' = "none" /\ call' = NoCall

\* Between two calls of is_safe only the types, the list and the books matter.
LEMMA BetweenScans ==
  ASSUME IInv, Between, TypeOK', ListMatchesMap', BooksBalance'
  PROVE  IInv'
  BY DEF ScanOver, IInv, Between, TrialOK, FirstPopDecides, GrantsOpen

\* update_src: what a thread gives back goes from its account to the free units.
LEMMA Released ==
  ASSUME IInv, NEW p \in PIDs, NEW nums \in Amounts, UpdateSrc(p, nums)
  PROVE  IInv'
<1> USE DEF IInv
<1>0. Between BY DEF Between, UpdateSrc, scanVars
<1> DEFINE back == IF nums = 0 THEN now_have[p] ELSE nums
<1>1. /\ UNCHANGED <<pids, max_request, now_need, threadlist, written_off>>
      /\ available_src' = available_src + back
      /\ now_have' = [now_have EXCEPT ![p] = @ - back]
  BY DEF UpdateSrc
<1>2. now_have[p] \in Nat /\ available_src \in Nat /\ max_request[p] \in Nat /\ nums \in Nat
      /\ written_off \in Nat
  BY BankerAssumption DEF TypeOK
<1>3. back \in Nat /\ back <= now_have[p] BY <1>2 DEF UpdateSrc
<1> HIDE DEF back
<1>4. now_have'[p] = now_have[p] - back /\ \A q \in PIDs \ {p} : now_have'[q] = now_have[q]
  BY <1>1 DEF TypeOK
<1>5. TypeOK'
  <2>1. available_src' \in Nat BY <1>1, <1>2, <1>3
  <2>2. now_have' \in [PIDs -> Nat] BY <1>1, <1>2, <1>3 DEF TypeOK
  <2>3. \A q \in PIDs : now_have'[q] <= max_request'[q] BY <1>1, <1>2, <1>3, <1>4 DEF TypeOK
  <2>4. call' \in [pid : PIDs \cup {NoPid}, need : Nat] /\ reply' \in Replies
    BY <1>0 DEF Between, NoCall, Replies
  <2> QED BY <1>0, <1>1, <2>1, <2>2, <2>3, <2>4 DEF TypeOK, Between
<1>6. ListMatchesMap' BY <1>0, <1>1 DEF ListMatchesMap, Between
<1>7. available_src' + written_off' + now_have'[p] = available_src + written_off + now_have[p]
  BY <1>1, <1>2, <1>3, <1>4
<1>8. BooksBalance' BY <1>4, <1>5, <1>7, Balance
<1> QED BY <1>0, <1>5, <1>6, <1>8, BetweenScans

\* add_thread and remove give a thread new details: what it held is written off.
LEMMA Replaced ==
  ASSUME IInv, NEW p \in PIDs, Between,
         max_request' \in [PIDs -> Nat],
         \A q \in PIDs \ {p} : max_request'[q] = max_request[q],
         now_have' = [now_have EXCEPT ![p] = 0],
         now_need' = [now_need EXCEPT ![p] = 0],
         written_off' = written_off + now_have[p],
         available_src' = available_src,
         pids' \subseteq PIDs, threadlist' \in [PIDs -> Nat]
  PROVE  TypeOK' /\ BooksBalance'
<1> USE DEF IInv
<1>1. now_have'[p] = 0 /\ \A q \in PIDs \ {p} : now_have'[q] = now_have[q]
  BY DEF TypeOK
<1>2. now_have[p] \in Nat /\ available_src \in Nat /\ written_off \in Nat BY DEF TypeOK
<1>3. TypeOK'
  <2>1. written_off' \in Nat BY <1>2
  <2>2. now_have' \in [PIDs -> Nat] /\ now_need' \in [PIDs -> Nat] BY DEF TypeOK
  <2>3. \A q \in PIDs : now_have'[q] <= max_request'[q] BY <1>1 DEF TypeOK
  <2>4. call' \in [pid : PIDs \cup {NoPid}, need : Nat] /\ reply' \in Replies
    BY DEF Between, NoCall, Replies
  <2> QED BY <2>1, <2>2, <2>3, <2>4 DEF TypeOK, Between
<1>4. available_src' + written_off' + now_have'[p] = available_src + written_off + now_have[p]
  BY <1>1, <1>2
<1> QED BY <1>1, <1>3, <1>4, Balance

\* add_thread: the id is in the list once more; what it held before is written off.
LEMMA Added ==
  ASSUME IInv, NEW p \in PIDs, NEW m \in MaxRequests, AddThread(p, m)
  PROVE  IInv'
<1> USE DEF IInv
<1>0. Between BY DEF Between, AddThread, scanVars
<1>1. m \in Nat BY BankerAssumption
<1>2. threadlist' = [threadlist EXCEPT ![p] = @ + 1] /\ pids' = pids \cup {p}
  BY DEF AddThread
<1>3. threadlist' \in [PIDs -> Nat] /\ pids' \subseteq PIDs BY <1>2 DEF TypeOK
<1>4. TypeOK' /\ BooksBalance'
  <2>1. /\ max_request' \in [PIDs -> Nat]
        /\ \A q \in PIDs \ {p} : max_request'[q] = max_request[q]
    BY <1>1 DEF AddThread, TypeOK
  <2> QED BY <1>0, <1>3, <2>1, Replaced DEF AddThread
<1>5. ListMatchesMap'
  BY <1>0, <1>2, <1>3 DEF ListMatchesMap, TypeOK, Between, ScanOver, Zero
<1> QED BY <1>0, <1>4, <1>5, BetweenScans

\* remove: the id leaves the list and the map; what it still held is written off.
LEMMA Removed ==
  ASSUME IInv, NEW p \in PIDs, Remove(p)
  PROVE  IInv'
<1> USE DEF IInv
<1>0. Between BY DEF Between, Remove, scanVars
<1>2. threadlist' = [threadlist EXCEPT ![p] = 0] /\ pids' = pids \ {p}
  BY DEF Remove
<1>3. threadlist' \in [PIDs -> Nat] /\ pids' \subseteq PIDs BY <1>2 DEF TypeOK
<1>4. TypeOK' /\ BooksBalance'
  <2>1. /\ max_request' \in [PIDs -> Nat]
        /\ \A q \in PIDs \ {p} : max_request'[q] = max_request[q]
    BY DEF Remove, TypeOK
  <2> QED BY <1>0, <1>3, <2>1, Replaced DEF Remove
<1>5. ListMatchesMap'
  BY <1>0, <1>2, <1>3 DEF ListMatchesMap, TypeOK, Between, ScanOver, Zero
<1> QED BY <1>0, <1>4, <1>5, BetweenScans

-----------------------------------------------------------------------------
(***************************************************************************)
(* The theorems.                                                           *)
(***************************************************************************)
\* Every method, and every step of the scan, keeps the invariant.
LEMMA NextIInv == IInv /\ [Next]_vars => IInv'
<1> SUFFICES ASSUME IInv, [Next]_vars PROVE IInv'
  OBVIOUS
<1>1. ASSUME NEW p \in PIDs, NEW n \in Amounts, Request(p, n) PROVE IInv'
  BY <1>1, RequestRefused, RequestTried DEF Request
<1>2. ASSUME NEW p \in PIDs, NEW n \in Amounts, UpdateSrc(p, n) PROVE IInv'
  BY <1>2, Released
<1>3. CASE IsSafeCalled BY <1>3, IsSafeStarted
<1>4. ASSUME NEW t \in PIDs, ScanPop(t) PROVE IInv' BY <1>4, Popped
<1>5. ASSUME NEW t \in PIDs, ScanUnsafe(t) PROVE IInv' BY <1>5, Refused
<1>6. CASE ScanSafe BY <1>6, Granted
<1>7. ASSUME NEW p \in PIDs, NEW m \in MaxRequests, AddThread(p, m) PROVE IInv' BY <1>7, Added
<1>8. ASSUME NEW p \in PIDs, Remove(p) PROVE IInv' BY <1>8, Removed
<1>9. CASE UNCHANGED vars
  BY <1>9 DEF vars, IInv, TypeOK, ListMatchesMap, BooksBalance, ScanOver, TrialOK,
              FirstPopDecides, AllClaimsOpen, GrantsOpen, Remaining
<1> QED BY <1>1, <1>2, <1>3, <1>4, <1>5, <1>6, <1>7, <1>8, <1>9 DEF Next

\* The invariant holds in every state that calls of the methods reach.
LEMMA Invariance == Spec => []IInv
  BY InitIInv, NextIInv, PTL DEF Spec

\* Banker's fields keep their types through any sequence of calls: no thread holds
\* more than its claim, and the rollback of a refused request never takes more than
\* the thread holds.
THEOREM TypeCorrect == Spec => []TypeOK
<1>1. IInv => TypeOK BY DEF IInv
<1> QED BY <1>1, Invariance, PTL

\* threadlist and PID_func_details name the same threads after any mix of add_thread
\* and remove, duplicates included.
THEOREM ListAndMapAgree == Spec => []ListMatchesMap
<1>1. IInv => ListMatchesMap BY DEF IInv
<1> QED BY <1>1, Invariance, PTL

\* request, update_src, add_thread and remove conserve the resources, also while a
\* request is on trial and after it was rolled back.
THEOREM ResourcesConserved == Spec => []BooksBalance
<1>1. IInv => BooksBalance BY DEF IInv
<1> QED BY <1>1, Invariance, PTL

\* Where every claim is open the threads can finish in any order.
LEMMA OpenClaimsAreSafe ==
  ASSUME TypeOK, AllClaimsOpen
  PROVE  SafeWith(available_src, now_have)
<1>1. IsFiniteSet(PIDs) /\ pids \in SUBSET PIDs BY BankerAssumption DEF TypeOK
<1>2. IsFiniteSet(pids) BY <1>1, FS_Subset
<1>3. ExistsBijection(1..Cardinality(pids), pids) /\ Cardinality(pids) \in Nat
  BY <1>2, FS_CardinalityType
<1>4. PICK order \in [1..Cardinality(pids) -> pids] :
        \A i, j \in 1..Cardinality(pids) : order[i] = order[j] => i = j
  BY <1>3 DEF ExistsBijection, Bijection, Injection, IsInjective
<1>5. DOMAIN order = 1..Cardinality(pids) BY <1>4
<1>6. ASSUME NEW i \in DOMAIN order
      PROVE  max_request[order[i]] - now_have[order[i]]
               <= available_src + SumOf(now_have, {order[j] : j \in 1..(i - 1)})
  <2> DEFINE done == {order[j] : j \in 1..(i - 1)}
  <2>1. order[i] \in pids BY <1>4, <1>5
  <2>2. Remaining(order[i]) <= available_src BY <2>1 DEF AllClaimsOpen
  <2>3. i \in 1..Cardinality(pids) BY <1>5
  <2>4. \A j \in 1..(i - 1) : j \in 1..Cardinality(pids) BY <1>3, <2>3
  <2>5. done \in SUBSET pids BY <1>4, <2>4
  <2>6. IsFiniteSet(done) BY <1>2, <2>5, FS_Subset
  <2>7. \A q \in done : now_have[q] \in Nat BY <1>1, <2>5 DEF TypeOK
  <2>8. SumOf(now_have, done) \in Nat BY <2>6, <2>7, UnitsFinite
  <2>9. /\ available_src \in Nat
        /\ max_request[order[i]] \in Nat /\ now_have[order[i]] \in Nat
    BY <1>1, <2>1 DEF TypeOK
  <2> HIDE DEF done
  <2>10. Remaining(order[i]) <= available_src + SumOf(now_have, done)
    BY <2>2, <2>8, <2>9 DEF Remaining
  <2> QED BY <2>10 DEF done, Remaining
<1> QED BY <1>4, <1>5, <1>6 DEF SafeWith

\* request answers true only in states that are safe by the textbook's definition:
\* there is an order in which all threads can finish.
THEOREM GrantsCorrect == Spec => []GrantsAreSafe
<1>1. IInv => GrantsAreSafe
  BY OpenClaimsAreSafe DEF IInv, GrantsAreSafe, GrantsOpen, AllClaimsOpen
<1> QED BY <1>1, Invariance, PTL
=============================================================================
