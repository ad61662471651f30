------------------------------ MODULE TLBtest ------------------------------
(***************************************************************************)
(* MEMvirtualization/TLBtest.c: one call of tlb.  It visits PAGENUMS pages *)
(* of an array in random order, TRYTIMES times, and divides the time by    *)
(* PAGENUMS.  The time itself is not modelled.                             *)
(*                                                                         *)
(* The callers pass a whole number of pages as USE_MEM, so that memory is  *)
(* counted in pages here.                                                  *)
(***************************************************************************)
EXTENDS Integers, Functions, SequencesExt

CONSTANTS
  jump,      \* ints per page
  MaxMem,    \* bound: USE_MEM in pages
  MaxPages,  \* bound: PAGENUMS
  TRYTIMES

ASSUME TlbAssumption ==
  jump \in Nat \ {0} /\ MaxMem \in Nat /\ MaxPages \in Nat \ {0} /\ TRYTIMES \in Nat \ {0}

VARIABLES
  USE_MEM, PAGENUMS,
  loc,     \* where tlb is
  index,   \* the order of the visits
  arr,     \* the ints at the beginnings of the pages
  i, j,    \* the loops' counters
  draws    \* auxiliary: what rand has chosen

tlbVars == <<USE_MEM, PAGENUMS, loc, index, arr, i, j, draws>>

TlbInit ==
  /\ USE_MEM \in 0..MaxMem /\ PAGENUMS \in 1..MaxPages
  /\ loc = "malloc"
  /\ index = <<>> /\ arr = <<>> /\ draws = <<>>
  /\ i = 0 /\ j = 0

\* The number of pages of arr, and the size of index.
size == IF USE_MEM > PAGENUMS THEN USE_MEM ELSE PAGENUMS

\* The beginning of each page, in ascending order.
PageStarts == [k \in 0..(size - 1) |-> k * jump]

\* Both branches: malloc, arr[i] = i, index[i] = index[i-1] + jump.
Allocate ==
  /\ loc = "malloc"
  /\ \/ /\ loc' = "shuffle"
        /\ index' = PageStarts
        /\ arr' = [o \in Range(PageStarts) |-> o]
        /\ i' = size - 1
     \/ /\ loc' = "failed"
        /\ UNCHANGED <<index, arr, i>>
  /\ UNCHANGED <<USE_MEM, PAGENUMS, j, draws>>

Swap(a, m, n) == [a EXCEPT ![m] = a[n], ![n] = a[m]]

\* Mutant: rand() % size
RandModSize == 0..(size - 1)

\* rand() % (i + 1)
RandMod == 0..i

\* One round of shuffle's loop.
Shuffle ==
  /\ loc = "shuffle" /\ i > 0
  /\ \E c \in RandMod :
       /\ index' = Swap(index, i, c)
       /\ draws' = Append(draws, c)
  /\ i' = i - 1
  /\ UNCHANGED <<USE_MEM, PAGENUMS, loc, arr, j>>

\* Mutant: the loop over the pages begins with 1.
FirstVisitOne == 1

FirstVisit == 0

ShuffleDone ==
  /\ loc = "shuffle" /\ i = 0
  /\ loc' = "visit"
  /\ i' = FirstVisit
  /\ UNCHANGED <<USE_MEM, PAGENUMS, index, arr, j, draws>>

\* varr[ index[i] ]++
Visit ==
  /\ loc = "visit" /\ i < PAGENUMS
  /\ arr' = [arr EXCEPT ![index[i]] = @ + 1]
  /\ i' = i + 1
  /\ UNCHANGED <<USE_MEM, PAGENUMS, loc, index, j, draws>>

\* The end of a try.
TryDone ==
  /\ loc = "visit" /\ i >= PAGENUMS
  /\ j' = j + 1
  /\ IF j' < TRYTIMES THEN i' = FirstVisit /\ UNCHANGED loc
     ELSE loc' = "return" /\ UNCHANGED i
  /\ UNCHANGED <<USE_MEM, PAGENUMS, index, arr, draws>>

TlbNext == Allocate \/ Shuffle \/ ShuffleDone \/ Visit \/ TryDone

TlbSpec == TlbInit /\ [][TlbNext]_tlbVars

-----------------------------------------------------------------------------
\* The time is divided by PAGENUMS: that many different pages have been visited,
\* each of them once in every try, and no other.
EachPageOnce ==
  loc = "return" =>
    LET visited == {o \in DOMAIN arr : arr[o] # o}
    IN  /\ Cardinality(visited) = PAGENUMS
        /\ \A o \in visited : arr[o] = o + TRYTIMES

\* A round of shuffle that brings final[k] to place k, and the number that it draws.
ReplayRound(final, acc, k) ==
  LET c == CHOOSE m \in 0..(size - 1) : acc.a[m] = final[k]
  IN  [a |-> Swap(acc.a, k, c), d |-> Append(acc.d, c)]

\* The rounds that lead from the ascending order to a given one.
Rounds(final) ==
  LET after[n \in Nat] == IF n = 0 THEN [a |-> PageStarts, d |-> <<>>]
                          ELSE ReplayRound(final, after[n - 1], size - n)
  IN  after

Replay(final) == Rounds(final)[size - 1].d

\* The order tells which numbers were drawn.  So no two sequences of draws give the
\* same order, and every order is as likely as every other.
EveryOrderOnce == loc \in {"visit", "return"} => draws = Replay(index)
=============================================================================
