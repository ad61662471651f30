-------------------------------- MODULE LRU --------------------------------
(***************************************************************************)
(* LRU/: page replacement with a doubly linked ring of page nodes.         *)
(*                                                                         *)
(* heap is the Stack of src/stack.c with the links of all its nodes: the   *)
(* head node Top, whose next is the page used last and whose prev is the   *)
(* page to be swapped out, and one node per page, with NULL links while    *)
(* the page is in no ring.  push, delnode and settop are functions from    *)
(* heap to heap, one pointer assignment after the other.                   *)
(***************************************************************************)
EXTENDS Integers, Sequences, FiniteSets

CONSTANTS
  Pages,      \* the legal page numbers: ipages->pages
  Illegal,    \* page numbers from ipages->size on
  contain,    \* MAX_MEM: how many pages fit in memory
  Top, NULL   \* the ring's head node and the null pointer

Nodes == Pages \cup {Top}

ASSUME LRUAssumption ==
  /\ IsFiniteSet(Pages)
  /\ Pages \cap Illegal = {}
  /\ Top \notin Pages /\ NULL \notin Nodes
  /\ contain \in Nat \ {0}

VARIABLES
  heap,      \* [next, prev, size]: the links of every node, and the Stack's size
  is_inmem,
  status,    \* "running", or why the program has ended
  used       \* auxiliary: the pages used so far, the last one first, each once

vars == <<heap, is_inmem, status, used>>

-----------------------------------------------------------------------------
(***************************************************************************)
(* src/stack.c.                                                            *)
(***************************************************************************)
\* newstack does not assign size.  Its malloc is among the program's first, in
\* memory fresh from the system, which is zero.
NewStack ==
  [next |-> [n \in Nodes |-> IF n = Top THEN Top ELSE NULL],
   prev |-> [n \in Nodes |-> IF n = Top THEN Top ELSE NULL],
   size |-> 0]

Linked(h, n) == h.next[n] # NULL \/ h.prev[n] # NULL

Push(h, n) ==
  IF h.size = contain \/ Linked(h, n) THEN h
  ELSE LET first == h.next[Top]
       IN  [next |-> [h.next EXCEPT ![n] = first, ![Top] = n],
            prev |-> [h.prev EXCEPT ![n] = Top, ![first] = n],
            size |-> h.size + 1]

DelNode(h, n) ==
  [next |-> [h.next EXCEPT ![h.prev[n]] = h.next[n], ![n] = NULL],
   prev |-> [h.prev EXCEPT ![h.next[n]] = h.prev[n], ![n] = NULL],
   size |-> h.size - 1]

\* settop, after its check that the node is linked.
SetTop(h, n) == Push(DelNode(h, n), n)

\* bottom: Top, here, stands for the NULL it returns for an empty ring.
Bottom(h) == h.prev[Top]

-----------------------------------------------------------------------------
(***************************************************************************)
(* src/LRU.c and main.c: use_page on whatever page number the user types.  *)
(***************************************************************************)
Init ==
  /\ heap = NewStack
  /\ is_inmem = [p \in Pages |-> FALSE]
  /\ status = "running"
  /\ used = <<>>

\* p moved to the front of s.
Position(s, p) ==
  IF \E i \in DOMAIN s : s[i] = p
  THEN CHOOSE i \in DOMAIN s : s[i] = p
  ELSE Len(s) + 1

MoveToFront(s, p) ==
  LET k == Position(s, p)
  IN  [i \in 1..(IF k > Len(s) THEN Len(s) + 1 ELSE Len(s)) |->
         IF i = 1 THEN p ELSE IF i <= k THEN s[i - 1] ELSE s[i]]

Die(why) == status' = why /\ UNCHANGED <<heap, is_inmem>>

\* need >= ipages->size
IllegalVisit(need) ==
  /\ Die("illegal visit")
  /\ UNCHANGED used

\* Mutant: a hit that leaves the ring alone (first in, first out).
HitFIFO(need) ==
  /\ is_inmem[need]
  /\ UNCHANGED <<heap, is_inmem, status>>

\* Mutant: the test in settop negated.
HitNegated(need) ==
  /\ is_inmem[need]
  /\ IF heap.next[need] # NULL \/ heap.prev[need] # NULL
     THEN Die("settop failed")
     ELSE heap' = SetTop(heap, need) /\ UNCHANGED <<is_inmem, status>>

Hit(need) ==
  /\ is_inmem[need]
  /\ IF heap.next[need] = NULL \/ heap.prev[need] = NULL
     THEN Die("settop failed")
     ELSE heap' = SetTop(heap, need) /\ UNCHANGED <<is_inmem, status>>

Fault(need) ==
  /\ ~is_inmem[need]
  /\ heap.size < contain
  /\ heap' = Push(heap, need)
  /\ is_inmem' = [is_inmem EXCEPT ![need] = TRUE]
  /\ UNCHANGED status

\* swap_page
SwapPage(need) ==
  /\ ~is_inmem[need]
  /\ heap.size >= contain
  /\ LET page == Bottom(heap)
     IN  IF page = Top
         THEN Die("swap fault")
         ELSE /\ heap' = Push(DelNode(heap, page), need)
              /\ is_inmem' = [is_inmem EXCEPT ![page] = FALSE, ![need] = TRUE]
              /\ UNCHANGED status

UsePage(need) ==
  /\ Hit(need) \/ Fault(need) \/ SwapPage(need)
  /\ used' = MoveToFront(used, need)

Next ==
  /\ status = "running"
  /\ \/ \E need \in Pages : UsePage(need)
     \/ \E need \in Illegal : IllegalVisit(need)

Spec == Init /\ [][Next]_vars

-----------------------------------------------------------------------------
(***************************************************************************)
(* Properties.                                                             *)
(***************************************************************************)
\* What LRU means: the pages to be in memory are the contain ones used last.
Fit == IF Len(used) < contain THEN Len(used) ELSE contain

\* The ring at position i counted from Top, which is at 0 and at Fit + 1.
RingAt(i) == IF i \in 1..Fit THEN used[i] ELSE Top

\* src/LRU.c and src/stack.c: the ring holds exactly the contain pages used last,
\* in the order of their last use, and reads the same in both directions; no
\* other page is linked; is_inmem and size agree with it.
RingIsLRU ==
  /\ \A i \in 0..Fit : /\ heap.next[RingAt(i)] = RingAt(i + 1)
                       /\ heap.prev[RingAt(i + 1)] = RingAt(i)
  /\ \A p \in Pages : /\ is_inmem[p] <=> \E i \in 1..Fit : used[i] = p
                      /\ is_inmem[p] <=> Linked(heap, p)
  /\ heap.size = Fit

\* die("settop failed...") and die("swap fault, no page in mem") are never
\* reached: only an illegal page number ends the program.
OnlyIllegalVisitsDie == status \in {"running", "illegal visit"}
=============================================================================
