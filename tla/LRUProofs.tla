----------------------------- MODULE LRUProofs -----------------------------
(***************************************************************************)
(* Proofs about LRU, for any set of pages and any size of the memory: the  *)
(* pointer operations of src/stack.c keep the ring, and the ring is the    *)
(* list of the pages used last.                                            *)
(***************************************************************************)
EXTENDS LRU, SequenceTheorems, TLAPS

(***************************************************************************)
(* Rings.                                                                  *)
(***************************************************************************)
\* The nodes of a ring that holds s[1], ..., s[n], counted from Top.
NodeAt(s, n, i) == IF i \in 1..n THEN s[i] ELSE Top

Distinct(s, n) == \A i, j \in 1..n : s[i] = s[j] => i = j

HeapType(h) ==
  /\ h = [next |-> h.next, prev |-> h.prev, size |-> h.size]
  /\ h.next \in [Nodes -> Nodes \cup {NULL}] /\ h.prev \in [Nodes -> Nodes \cup {NULL}]

\* The ring of h reads s[1], ..., s[n] in both directions, and nothing else is linked.
Ring(h, s, n) ==
  /\ HeapType(h) /\ h.size = n
  /\ \A i \in 0..n : /\ h.next[NodeAt(s, n, i)] = NodeAt(s, n, i + 1)
                     /\ h.prev[NodeAt(s, n, i + 1)] = NodeAt(s, n, i)
  /\ \A p \in Pages : (\A i \in 1..n : s[i] # p) => h.next[p] = NULL /\ h.prev[p] = NULL

\* s without its k-th element, and with p before its first.
Without(s, n, k) == [i \in 1..(n - 1) |-> IF i < k THEN s[i] ELSE s[i + 1]]
Before(p, s, n) == [i \in 1..(n + 1) |-> IF i = 1 THEN p ELSE s[i - 1]]

\* A page in the ring has its two neighbours.
LEMMA Neighbours ==
  ASSUME NEW n \in Nat, NEW s \in [1..n -> Pages], NEW h, Ring(h, s, n), NEW k \in 1..n
  PROVE  /\ h.next[s[k]] = NodeAt(s, n, k + 1) /\ h.prev[s[k]] = NodeAt(s, n, k - 1)
         /\ h.next[Top] = NodeAt(s, n, 1) /\ h.prev[Top] = NodeAt(s, n, n)
<1>1. NodeAt(s, n, k) = s[k] BY DEF NodeAt
<1>2. k \in 0..n /\ k - 1 \in 0..n /\ (k - 1) + 1 = k /\ 0 \in 0..n /\ n \in 0..n
  OBVIOUS
<1>3. h.next[NodeAt(s, n, k)] = NodeAt(s, n, k + 1) BY <1>2 DEF Ring
<1>4. h.prev[NodeAt(s, n, (k - 1) + 1)] = NodeAt(s, n, k - 1) BY <1>2 DEF Ring
<1>5. NodeAt(s, n, 0) = Top /\ NodeAt(s, n, n + 1) = Top BY DEF NodeAt
<1>6. h.next[NodeAt(s, n, 0)] = NodeAt(s, n, 0 + 1) BY <1>2 DEF Ring
<1>7. h.prev[NodeAt(s, n, n + 1)] = NodeAt(s, n, n) BY <1>2 DEF Ring
<1> QED BY <1>1, <1>2, <1>3, <1>4, <1>5, <1>6, <1>7

\* The nodes are nodes.
LEMMA NodeType ==
  ASSUME NEW n \in Nat, NEW s \in [1..n -> Pages], NEW i
  PROVE  NodeAt(s, n, i) \in Nodes
  BY DEF NodeAt, Nodes

\* No two positions of the ring from 0 to n hold the same node.
LEMMA NodesDiffer ==
  ASSUME NEW n \in Nat, NEW s \in [1..n -> Pages], Distinct(s, n),
         NEW i \in 0..n, NEW j \in 0..n, NodeAt(s, n, i) = NodeAt(s, n, j)
  PROVE  i = j
  BY LRUAssumption DEF NodeAt, Distinct

\* delnode takes one page out of the ring.
LEMMA DelNodeRing ==
  ASSUME NEW n \in Nat, NEW s \in [1..n -> Pages], Distinct(s, n), NEW h, Ring(h, s, n),
         NEW k \in 1..n
  PROVE  /\ Without(s, n, k) \in [1..(n - 1) -> Pages]
         /\ Distinct(Without(s, n, k), n - 1)
         /\ Ring(DelNode(h, s[k]), Without(s, n, k), n - 1)
         /\ \A i \in 1..(n - 1) : Without(s, n, k)[i] # s[k]
<1> DEFINE w == Without(s, n, k)
           d == DelNode(h, s[k])
           before == NodeAt(s, n, k - 1)
           after == NodeAt(s, n, k + 1)
<1>1. w \in [1..(n - 1) -> Pages] BY DEF Without
<1>2. Distinct(w, n - 1) BY DEF Distinct, Without
<1>3. \A i \in 1..(n - 1) : w[i] # s[k] BY DEF Distinct, Without
<1>4. h.next[s[k]] = after /\ h.prev[s[k]] = before
  <2>1. /\ h.next[s[k]] = NodeAt(s, n, k + 1) /\ h.prev[s[k]] = NodeAt(s, n, k - 1)
        /\ h.next[Top] = NodeAt(s, n, 1) /\ h.prev[Top] = NodeAt(s, n, n)
    BY Neighbours, Zenon
  <2> QED BY <2>1
<1>5. d = [next |-> [h.next EXCEPT ![before] = after, ![s[k]] = NULL],
           prev |-> [h.prev EXCEPT ![after] = before, ![s[k]] = NULL],
           size |-> h.size - 1]
  BY <1>4 DEF DelNode
<1>6. before \in Nodes /\ after \in Nodes /\ s[k] \in Nodes BY NodeType DEF Nodes
<1>7. before # s[k] /\ after # s[k]
  BY LRUAssumption DEF NodeAt, Distinct
<1>8. HeapType(h) /\ h.size = n BY DEF Ring
<1>9. HeapType(d) BY <1>5, <1>6, <1>8 DEF HeapType
<1>10. d.size = n - 1 BY <1>5, <1>8
<1>11. \A x \in Nodes : /\ d.next[x] = IF x = s[k] THEN NULL ELSE IF x = before THEN after ELSE h.next[x]
                        /\ d.prev[x] = IF x = s[k] THEN NULL ELSE IF x = after THEN before ELSE h.prev[x]
  BY <1>5, <1>8 DEF HeapType
<1>12. \A i \in 0..n : NodeAt(w, n - 1, i) = IF i < k THEN NodeAt(s, n, i) ELSE NodeAt(s, n, i + 1)
  BY DEF NodeAt, Without
<1> HIDE DEF w, d
<1>13. ASSUME NEW i \in 0..(n - 1)
       PROVE  /\ d.next[NodeAt(w, n - 1, i)] = NodeAt(w, n - 1, i + 1)
              /\ d.prev[NodeAt(w, n - 1, i + 1)] = NodeAt(w, n - 1, i)
  <2>1. /\ h.next[NodeAt(s, n, i)] = NodeAt(s, n, i + 1)
        /\ h.prev[NodeAt(s, n, i + 1)] = NodeAt(s, n, i)
        /\ h.next[NodeAt(s, n, i + 1)] = NodeAt(s, n, i + 2)
        /\ h.prev[NodeAt(s, n, i + 2)] = NodeAt(s, n, i + 1)
    <3>1. i \in 0..n /\ i + 1 \in 0..n /\ (i + 1) + 1 = i + 2 OBVIOUS
    <3> QED BY <3>1 DEF Ring
  <2>2. NodeAt(s, n, k) = s[k] BY DEF NodeAt
  <2>3. \A a \in 0..(n + 1) : NodeAt(s, n, a) \in Nodes BY NodeType
  <2>4. CASE i + 1 < k
    <3>1. NodeAt(w, n - 1, i) = NodeAt(s, n, i) /\ NodeAt(w, n - 1, i + 1) = NodeAt(s, n, i + 1)
      BY <1>12, <2>4
    <3>2. NodeAt(s, n, i) # s[k] /\ NodeAt(s, n, i) # before
      <4>1. i \in 0..n /\ k \in 0..n /\ k - 1 \in 0..n /\ i # k /\ i # k - 1 BY <2>4
      <4> QED BY <4>1, <2>2, NodesDiffer
    <3>3. NodeAt(s, n, i + 1) # s[k] /\ NodeAt(s, n, i + 1) # after
      <4>1. i + 1 \in 1..n /\ k \in 0..n /\ i + 1 # k /\ i + 1 # k + 1 BY <2>4
      <4>2. CASE k < n
        <5>1. i + 1 \in 0..n /\ k + 1 \in 0..n BY <4>2
        <5> QED BY <4>1, <5>1, <2>2, NodesDiffer
      <4>3. CASE k = n
        <5>1. after = Top BY <4>3 DEF NodeAt
        <5>2. NodeAt(s, n, i + 1) \in Pages BY <4>1 DEF NodeAt
        <5>3. i + 1 \in 0..n BY <4>1
        <5> QED BY <4>1, <5>1, <5>2, <5>3, <2>2, NodesDiffer, LRUAssumption
      <4> QED BY <4>2, <4>3
    <3>4. NodeAt(s, n, i) \in Nodes /\ NodeAt(s, n, i + 1) \in Nodes BY NodeType
    <3> QED BY <1>11, <2>1, <3>1, <3>2, <3>3, <3>4
  <2>5. CASE i + 1 = k
    <3>1. NodeAt(w, n - 1, i) = before /\ NodeAt(w, n - 1, i + 1) = after
      <4>1. i < k /\ ~(i + 1 < k) /\ i = k - 1 /\ (i + 1) + 1 = k + 1 /\ i + 1 \in 0..n BY <2>5
      <4> QED BY <1>12, <4>1
    <3> QED BY <1>6, <1>7, <1>11, <3>1
  <2>6. CASE i + 1 > k
    <3>1. NodeAt(w, n - 1, i) = NodeAt(s, n, i + 1) /\ NodeAt(w, n - 1, i + 1) = NodeAt(s, n, i + 2)
      <4>1. ~(i < k) /\ ~(i + 1 < k) /\ i \in 0..n /\ i + 1 \in 0..n /\ (i + 1) + 1 = i + 2 BY <2>6
      <4> QED BY <1>12, <4>1
    <3>2. NodeAt(s, n, i + 1) # s[k] /\ NodeAt(s, n, i + 1) # before
      <4>1. i + 1 \in 0..n /\ k \in 0..n /\ k - 1 \in 0..n /\ i + 1 # k /\ i + 1 # k - 1 BY <2>6
      <4> QED BY <4>1, <2>2, NodesDiffer
    <3>3. NodeAt(s, n, i + 2) # s[k] /\ NodeAt(s, n, i + 2) # after
      <4>1. k < n /\ k + 1 \in 1..n BY <2>6
      <4>2. CASE i + 2 <= n
        <5>1. i + 2 \in 0..n /\ k \in 0..n /\ k + 1 \in 0..n /\ i + 2 # k /\ i + 2 # k + 1
          BY <4>1, <4>2, <2>6
        <5> QED BY <5>1, <2>2, NodesDiffer
      <4>3. CASE i + 2 > n
        <5>1. NodeAt(s, n, i + 2) = Top BY <4>3 DEF NodeAt
        <5>2. after \in Pages BY <4>1 DEF NodeAt
        <5> QED BY <5>1, <5>2, LRUAssumption
      <4> QED BY <4>2, <4>3
    <3>4. NodeAt(s, n, i + 1) \in Nodes /\ NodeAt(s, n, i + 2) \in Nodes BY NodeType
    <3> QED BY <1>11, <2>1, <3>1, <3>2, <3>3, <3>4
  <2> QED BY <2>4, <2>5, <2>6
<1>14. ASSUME NEW p \in Pages, \A i \in 1..(n - 1) : w[i] # p
       PROVE  d.next[p] = NULL /\ d.prev[p] = NULL
  <2>1. p \in Nodes BY DEF Nodes
  <2>2. CASE p = s[k] BY <1>11, <2>1, <2>2
  <2>3. CASE p # s[k]
    <3>1. ASSUME NEW i \in 1..n PROVE s[i] # p
      <4>1. CASE i < k
        <5>1. i \in 1..(n - 1) /\ w[i] = s[i] BY <4>1 DEF w, Without
        <5> QED BY <5>1, <1>14
      <4>2. CASE i > k
        <5>1. i - 1 \in 1..(n - 1) /\ w[i - 1] = s[i] BY <4>2 DEF w, Without
        <5> QED BY <5>1, <1>14
      <4> QED BY <2>3, <4>1, <4>2
    <3>2. h.next[p] = NULL /\ h.prev[p] = NULL BY <3>1 DEF Ring
    <3>3. p # before /\ p # after
      BY <3>1, LRUAssumption DEF NodeAt
    <3> QED BY <1>11, <2>1, <2>3, <3>2, <3>3
  <2> QED BY <2>2, <2>3
<1>15. Ring(d, w, n - 1) BY <1>9, <1>10, <1>13, <1>14 DEF Ring
<1> QED BY <1>1, <1>2, <1>3, <1>15 DEF w, d

\* push puts a page that is in no ring before the first.
LEMMA PushRing ==
  ASSUME NEW n \in Nat, NEW s \in [1..n -> Pages], Distinct(s, n), NEW h, Ring(h, s, n),
         n # contain, NEW p \in Pages, \A i \in 1..n : s[i] # p
  PROVE  /\ Before(p, s, n) \in [1..(n + 1) -> Pages]
         /\ Distinct(Before(p, s, n), n + 1)
         /\ Ring(Push(h, p), Before(p, s, n), n + 1)
<1> DEFINE b == Before(p, s, n)
           u == Push(h, p)
           first == NodeAt(s, n, 1)
<1>1. b \in [1..(n + 1) -> Pages] BY DEF Before
<1>2. Distinct(b, n + 1) BY DEF Distinct, Before
<1>3. HeapType(h) /\ h.size = n /\ h.next[p] = NULL /\ h.prev[p] = NULL BY DEF Ring
<1>4. h.next[Top] = first
  <2>1. NodeAt(s, n, 0) = Top /\ 0 \in 0..n BY DEF NodeAt
  <2>2. h.next[NodeAt(s, n, 0)] = NodeAt(s, n, 0 + 1) BY <2>1 DEF Ring
  <2> QED BY <2>1, <2>2
<1>5. u = [next |-> [h.next EXCEPT ![p] = first, ![Top] = p],
           prev |-> [h.prev EXCEPT ![p] = Top, ![first] = p],
           size |-> h.size + 1]
  BY <1>3, <1>4 DEF Push, Linked
<1>6. first \in Nodes /\ p \in Nodes /\ Top \in Nodes /\ p # Top
  BY NodeType, LRUAssumption DEF Nodes
<1>7. HeapType(u)
  <2>1. /\ u.next = [h.next EXCEPT ![p] = first, ![Top] = p]
        /\ u.prev = [h.prev EXCEPT ![p] = Top, ![first] = p]
    BY <1>5
  <2>2. u.next \in [Nodes -> Nodes \cup {NULL}] BY <1>3, <1>6, <2>1 DEF HeapType
  <2>3. u.prev \in [Nodes -> Nodes \cup {NULL}] BY <1>3, <1>6, <2>1 DEF HeapType
  <2> QED BY <1>5, <2>2, <2>3 DEF HeapType
<1>8. u.size = n + 1 BY <1>3, <1>5
<1>9. \A x \in Nodes : /\ u.next[x] = IF x = Top THEN p ELSE IF x = p THEN first ELSE h.next[x]
                       /\ u.prev[x] = IF x = first THEN p ELSE IF x = p THEN Top ELSE h.prev[x]
  BY <1>3, <1>5, <1>6 DEF HeapType
<1>10. NodeAt(b, n + 1, 0) = Top /\ NodeAt(b, n + 1, 1) = p BY DEF NodeAt, Before
<1>11. \A i \in 1..(n + 1) : NodeAt(b, n + 1, i + 1) = NodeAt(s, n, i)
  BY DEF NodeAt, Before
<1> HIDE DEF b, u
<1>12. ASSUME NEW i \in 0..(n + 1)
       PROVE  /\ u.next[NodeAt(b, n + 1, i)] = NodeAt(b, n + 1, i + 1)
              /\ u.prev[NodeAt(b, n + 1, i + 1)] = NodeAt(b, n + 1, i)
  <2>1. CASE i = 0
    <3>1. NodeAt(b, n + 1, i) = Top /\ NodeAt(b, n + 1, i + 1) = p BY <2>1, <1>10
    <3>2. p # first BY LRUAssumption DEF NodeAt
    <3> QED BY <1>6, <1>9, <3>1, <3>2
  <2>2. CASE i = 1
    <3>1. NodeAt(b, n + 1, i) = p /\ NodeAt(b, n + 1, i + 1) = first BY <2>2, <1>10, <1>11
    <3> QED BY <1>6, <1>9, <3>1
  <2>3. CASE i > 1
    <3>1. i - 1 \in 1..n /\ i \in 1..(n + 1) /\ (i - 1) + 1 = i /\ i - 1 \in 0..n /\ i - 1 \in 1..(n + 1)
      BY <2>3
    <3>2. NodeAt(b, n + 1, i) = NodeAt(s, n, i - 1) /\ NodeAt(b, n + 1, i + 1) = NodeAt(s, n, i)
      BY <1>11, <3>1
    <3>3. h.next[NodeAt(s, n, i - 1)] = NodeAt(s, n, i) /\ h.prev[NodeAt(s, n, i)] = NodeAt(s, n, i - 1)
      BY <3>1 DEF Ring
    <3>4. NodeAt(s, n, i - 1) \in Pages /\ NodeAt(s, n, i - 1) # p BY <3>1 DEF NodeAt
    <3>5. NodeAt(s, n, i) # p BY LRUAssumption DEF NodeAt
    <3>6. NodeAt(s, n, i) # first
      <4>1. CASE i <= n
        <5>1. i \in 0..n /\ 1 \in 0..n /\ i # 1 BY <2>3, <4>1
        <5> QED BY <5>1, NodesDiffer
      <4>2. CASE i > n
        <5>1. NodeAt(s, n, i) = Top BY <4>2 DEF NodeAt
        <5>2. 1 \in 1..n BY <3>1
        <5>3. first \in Pages BY <5>2 DEF NodeAt
        <5> QED BY <5>1, <5>3, LRUAssumption
      <4> QED BY <4>1, <4>2
    <3>7. NodeAt(s, n, i - 1) \in Nodes /\ NodeAt(s, n, i) \in Nodes /\ NodeAt(s, n, i - 1) # Top
      BY <3>4, NodeType, LRUAssumption
    <3> QED BY <1>9, <3>2, <3>3, <3>4, <3>5, <3>6, <3>7
  <2> QED BY <2>1, <2>2, <2>3
<1>13. ASSUME NEW q \in Pages, \A i \in 1..(n + 1) : b[i] # q
       PROVE  u.next[q] = NULL /\ u.prev[q] = NULL
  <2>1. q # p
    <3>1. b[1] = p /\ 1 \in 1..(n + 1) BY DEF b, Before
    <3> QED BY <1>13, <3>1
  <2>2. ASSUME NEW i \in 1..n PROVE s[i] # q
    <3>1. i + 1 \in 1..(n + 1) /\ b[i + 1] = s[i] BY DEF b, Before
    <3> QED BY <1>13, <3>1
  <2>3. h.next[q] = NULL /\ h.prev[q] = NULL BY <2>2 DEF Ring
  <2>4. q \in Nodes /\ q # Top /\ q # first BY <2>2, LRUAssumption DEF Nodes, NodeAt
  <2> QED BY <1>9, <2>1, <2>3, <2>4
<1>14. Ring(u, b, n + 1) BY <1>7, <1>8, <1>12, <1>13 DEF Ring
<1> QED BY <1>1, <1>2, <1>14 DEF b, u

-----------------------------------------------------------------------------
(***************************************************************************)
(* The order of last use.                                                  *)
(***************************************************************************)
\* Where a page is in used, or would be.
LEMMA PositionFact ==
  ASSUME NEW s \in Seq(Pages), NEW p \in Pages
  PROVE  /\ Position(s, p) \in 1..(Len(s) + 1)
         /\ Position(s, p) <= Len(s) => s[Position(s, p)] = p
         /\ Position(s, p) > Len(s) => \A i \in 1..Len(s) : s[i] # p
<1>1. DOMAIN s = 1..Len(s) /\ Len(s) \in Nat BY LenProperties
<1>2. CASE \E i \in DOMAIN s : s[i] = p
  <2>1. Position(s, p) \in DOMAIN s /\ s[Position(s, p)] = p BY <1>2 DEF Position
  <2> QED BY <1>1, <2>1
<1>3. CASE ~\E i \in DOMAIN s : s[i] = p
  <2>1. Position(s, p) = Len(s) + 1 BY <1>3 DEF Position
  <2> QED BY <1>1, <1>3, <2>1
<1> QED BY <1>2, <1>3

\* MoveToFront on the used pages, which are all different.
LEMMA MoveToFrontFact ==
  ASSUME NEW s \in Seq(Pages), Distinct(s, Len(s)), NEW p \in Pages
  PROVE  LET k == Position(s, p)
             t == MoveToFront(s, p)
             m == IF k > Len(s) THEN Len(s) + 1 ELSE Len(s)
         IN  /\ t \in Seq(Pages) /\ Len(t) = m /\ Distinct(t, m)
             /\ \A i \in 1..m : t[i] = IF i = 1 THEN p ELSE IF i <= k THEN s[i - 1] ELSE s[i]
<1> DEFINE k == Position(s, p)
           m == IF k > Len(s) THEN Len(s) + 1 ELSE Len(s)
           t == MoveToFront(s, p)
<1>1. Len(s) \in Nat /\ s \in [1..Len(s) -> Pages] BY LenProperties
<1>2. /\ k \in 1..(Len(s) + 1)
      /\ k <= Len(s) => s[k] = p
      /\ k > Len(s) => \A i \in 1..Len(s) : s[i] # p
  BY PositionFact
<1>3. t = [i \in 1..m |-> IF i = 1 THEN p ELSE IF i <= k THEN s[i - 1] ELSE s[i]]
  BY DEF MoveToFront
<1>4. m \in Nat /\ m >= 1 BY <1>1, <1>2
<1>5. \A i \in 1..m : t[i] = IF i = 1 THEN p ELSE IF i <= k THEN s[i - 1] ELSE s[i]
  BY <1>3
<1>6. ASSUME NEW i \in 1..m PROVE t[i] \in Pages
  <2>1. i # 1 /\ i <= k => i - 1 \in 1..Len(s) BY <1>1, <1>2
  <2>2. i > k => i \in 1..Len(s) BY <1>1, <1>2
  <2> QED BY <1>1, <1>2, <1>5, <2>1, <2>2
<1> HIDE DEF m
<1>7. t \in [1..m -> Pages] BY <1>3, <1>6
<1>8. t \in Seq(Pages) /\ Len(t) = m BY <1>4, <1>7, SeqDef
<1>9. Distinct(t, m)
  BY <1>1, <1>2, <1>5 DEF Distinct, m
<1> QED BY <1>5, <1>8, <1>9 DEF m

-----------------------------------------------------------------------------
(***************************************************************************)
(* The inductive invariant.                                                *)
(***************************************************************************)
\* The pages to be in memory, as a function.
Resident == [i \in 1..Fit |-> used[i]]

IInv ==
  /\ used \in Seq(Pages) /\ Distinct(used, Len(used))
  /\ Ring(heap, Resident, Fit)
  /\ is_inmem \in [Pages -> BOOLEAN]
  /\ \A p \in Pages : is_inmem[p] <=> \E i \in 1..Fit : used[i] = p
  /\ OnlyIllegalVisitsDie

\* The resident pages are the first ones of used.
LEMMA ResidentFact ==
  ASSUME used \in Seq(Pages), Distinct(used, Len(used))
  PROVE  /\ Len(used) \in Nat /\ Fit \in Nat /\ Fit <= Len(used) /\ Fit <= contain
         /\ Fit = Len(used) \/ Fit = contain
         /\ Resident \in [1..Fit -> Pages] /\ Distinct(Resident, Fit)
<1>1. Len(used) \in Nat /\ used \in [1..Len(used) -> Pages] BY LenProperties
<1>2. Fit \in Nat /\ Fit <= Len(used) /\ Fit <= contain /\ (Fit = Len(used) \/ Fit = contain)
  BY <1>1, LRUAssumption DEF Fit
<1>3. ASSUME NEW i \in 1..Fit PROVE i \in 1..Len(used)
  <2>1. i \in Int /\ 1 <= i /\ i <= Fit BY <1>2
  <2>2. Len(used) \in Nat BY <1>1
  <2>3. Fit \in Nat /\ Fit <= Len(used) BY <1>2
  <2> QED BY <2>1, <2>2, <2>3
<1> QED BY <1>1, <1>2, <1>3 DEF Resident, Distinct

\* The program starts with an empty ring.
LEMMA InitIInv == Init => IInv
<1> SUFFICES ASSUME Init PROVE IInv
  OBVIOUS
<1>1. used = <<>> /\ Len(used) = 0 BY DEF Init
<1>2. Fit = 0 BY <1>1, LRUAssumption DEF Fit
<1>3. Ring(heap, Resident, 0)
  <2>1. heap = NewStack BY DEF Init
  <2>2. HeapType(heap) BY <2>1 DEF HeapType, NewStack, Nodes
  <2>3. heap.size = 0 /\ heap.next[Top] = Top /\ heap.prev[Top] = Top
    BY <2>1 DEF NewStack, Nodes
  <2>4. \A p \in Pages : heap.next[p] = NULL /\ heap.prev[p] = NULL
    BY <2>1, LRUAssumption DEF NewStack, Nodes
  <2>5. \A i \in 0..1 : NodeAt(Resident, 0, i) = Top BY DEF NodeAt
  <2> QED BY <2>2, <2>3, <2>4, <2>5 DEF Ring
<1> QED BY <1>1, <1>2, <1>3 DEF IInv, Init, Distinct, OnlyIllegalVisitsDie

\* A page in memory is used again: settop moves it to the front of the ring.
LEMMA HitIInv ==
  ASSUME IInv, NEW need \in Pages, Hit(need), used' = MoveToFront(used, need)
  PROVE  IInv'
<1> DEFINE k == Position(used, need)
           n == Fit
<1>1. used \in Seq(Pages) /\ Distinct(used, Len(used)) /\ Ring(heap, Resident, n) BY DEF IInv
<1>2. /\ Len(used) \in Nat /\ n \in Nat /\ n <= Len(used) /\ n <= contain
      /\ Resident \in [1..n -> Pages] /\ Distinct(Resident, n)
  BY <1>1, ResidentFact
<1>3. k \in 1..n /\ used[k] = need
  <2>1. PICK i \in 1..n : used[i] = need BY DEF IInv, Hit
  <2>2. i \in 1..Len(used) BY <1>2
  <2>3. k \in 1..(Len(used) + 1) /\ (k <= Len(used) => used[k] = need)
        /\ (k > Len(used) => \A j \in 1..Len(used) : used[j] # need)
    BY <1>1, PositionFact
  <2>4. k \in 1..Len(used) /\ used[k] = need BY <1>2, <2>1, <2>2, <2>3
  <2>5. k = i BY <1>1, <2>1, <2>2, <2>4 DEF Distinct
  <2> QED BY <2>4, <2>5
<1>4. Resident[k] = need BY <1>3 DEF Resident
<1>5. /\ used' \in Seq(Pages) /\ Len(used') = Len(used) /\ Distinct(used', Len(used'))
      /\ \A i \in 1..Len(used) : used'[i] = IF i = 1 THEN need ELSE IF i <= k THEN used[i - 1] ELSE used[i]
  <2>1. ~(k > Len(used)) BY <1>2, <1>3
  <2> QED BY <1>1, <2>1, MoveToFrontFact
<1>6. Fit' = n BY <1>5 DEF Fit
<1>7. heap.next[need] # NULL /\ heap.prev[need] # NULL
  <2>1. heap.next[Resident[k]] = NodeAt(Resident, n, k + 1)
        /\ heap.prev[Resident[k]] = NodeAt(Resident, n, k - 1)
    BY <1>1, <1>2, <1>3, Neighbours
  <2>2. NodeAt(Resident, n, k + 1) \in Nodes /\ NodeAt(Resident, n, k - 1) \in Nodes
    BY <1>2, NodeType
  <2> QED BY <1>4, <2>1, <2>2, LRUAssumption
<1>8. heap' = Push(DelNode(heap, need), need) /\ UNCHANGED <<is_inmem, status>>
  BY <1>7 DEF Hit, SetTop
<1> DEFINE w == Without(Resident, n, k)
           b == Before(need, w, n - 1)
<1> HIDE DEF k, n
<1>9. /\ w \in [1..(n - 1) -> Pages] /\ Distinct(w, n - 1)
      /\ Ring(DelNode(heap, need), w, n - 1) /\ \A i \in 1..(n - 1) : w[i] # need
  BY <1>1, <1>2, <1>3, <1>4, DelNodeRing
<1>10. n - 1 \in Nat /\ n - 1 # contain /\ (n - 1) + 1 = n BY <1>2, <1>3, LRUAssumption
<1> HIDE DEF w
<1>11. Ring(heap', b, n) BY <1>8, <1>9, <1>10, PushRing
<1>12. b = Resident'
  <2>1. Resident' = [i \in 1..n |-> used'[i]] BY <1>6 DEF Resident
  <2>2. b = [i \in 1..n |-> IF i = 1 THEN need ELSE w[i - 1]] BY <1>10 DEF Before
  <2>3. ASSUME NEW i \in 1..n PROVE used'[i] = IF i = 1 THEN need ELSE w[i - 1]
    <3>1. i \in 1..Len(used) BY <1>2
    <3>2. i # 1 => w[i - 1] = IF i <= k THEN used[i - 1] ELSE used[i]
      <4>1. i # 1 => w[i - 1] = IF i - 1 < k THEN Resident[i - 1] ELSE Resident[(i - 1) + 1]
        BY <1>2 DEF w, Without
      <4>2. i # 1 => Resident[i - 1] = used[i - 1] BY <1>2 DEF Resident, n
      <4>3. (i - 1) + 1 = i /\ Resident[i] = used[i] BY <1>2 DEF Resident, n
      <4>4. i - 1 < k <=> i <= k BY <1>2, <1>3
      <4> QED BY <4>1, <4>2, <4>3, <4>4
    <3> QED BY <1>5, <3>1, <3>2
  <2> QED BY <2>1, <2>2, <2>3
<1>13. ASSUME NEW p \in Pages PROVE is_inmem'[p] <=> \E i \in 1..n : used'[i] = p
  <2>1. is_inmem'[p] <=> \E i \in 1..n : used[i] = p BY <1>8 DEF IInv, n
  <2>2. ASSUME NEW i \in 1..n, used[i] = p PROVE \E j \in 1..n : used'[j] = p
    <3>1. CASE i = k
      <4>1. 1 \in 1..n /\ 1 \in 1..Len(used) BY <1>2, <1>3
      <4> QED BY <1>3, <1>5, <2>2, <3>1, <4>1
    <3>2. CASE i < k
      <4>1. i + 1 \in 1..n /\ i + 1 \in 1..Len(used) /\ i + 1 # 1 /\ i + 1 <= k /\ (i + 1) - 1 = i
        BY <1>2, <1>3, <3>2
      <4> QED BY <1>5, <2>2, <4>1
    <3>3. CASE i > k
      <4>1. i \in 1..Len(used) /\ i # 1 /\ ~(i <= k) BY <1>2, <1>3, <3>3
      <4> QED BY <1>5, <2>2, <4>1
    <3> QED BY <1>3, <3>1, <3>2, <3>3
  <2>3. ASSUME NEW i \in 1..n, used'[i] = p PROVE \E j \in 1..n : used[j] = p
    <3>1. i \in 1..Len(used) BY <1>2
    <3>2. i # 1 => i - 1 \in 1..n BY <1>2
    <3> QED BY <1>3, <1>5, <2>3, <3>1, <3>2
  <2> QED BY <2>1, <2>2, <2>3
<1> QED BY <1>5, <1>6, <1>8, <1>11, <1>12, <1>13 DEF IInv, OnlyIllegalVisitsDie

\* What a page fault does to the order: need comes first, the others follow.
LEMMA FaultOrder ==
  ASSUME IInv, NEW need \in Pages, ~is_inmem[need], used' = MoveToFront(used, need)
  PROVE  /\ used' \in Seq(Pages) /\ Distinct(used', Len(used'))
         /\ Len(used') \in Nat /\ Len(used') >= Len(used)
         /\ Fit = Len(used) => Len(used') = Len(used) + 1
         /\ \A i \in 1..Fit : used[i] # need
         /\ Fit' <= Fit + 1 /\ Fit' <= Len(used')
         /\ \A i \in 1..Fit' : used'[i] = IF i = 1 THEN need ELSE used[i - 1]
<1> DEFINE k == Position(used, need)
           m == IF k > Len(used) THEN Len(used) + 1 ELSE Len(used)
<1>1. used \in Seq(Pages) /\ Distinct(used, Len(used)) BY DEF IInv
<1>2. /\ Len(used) \in Nat /\ Fit \in Nat /\ Fit <= Len(used) /\ Fit <= contain
      /\ Fit = Len(used) \/ Fit = contain
  BY <1>1, ResidentFact
<1>3. \A i \in 1..Fit : used[i] # need BY DEF IInv
<1>4. /\ k \in 1..(Len(used) + 1)
      /\ k <= Len(used) => used[k] = need
  BY <1>1, PositionFact
<1>5. k > Fit
  <2>1. k \notin 1..Fit
    <3> SUFFICES ASSUME k \in 1..Fit PROVE FALSE OBVIOUS
    <3>1. k <= Len(used) BY <1>2, <1>4
    <3> QED BY <1>3, <1>4, <3>1
  <2> QED BY <1>2, <1>4, <2>1
<1>6. /\ used' \in Seq(Pages) /\ Len(used') = m /\ Distinct(used', m)
      /\ \A i \in 1..m : used'[i] = IF i = 1 THEN need ELSE IF i <= k THEN used[i - 1] ELSE used[i]
  <2> DEFINE t == MoveToFront(used, need)
  <2>1. /\ t \in Seq(Pages) /\ Len(t) = m /\ Distinct(t, m)
        /\ \A i \in 1..m : t[i] = IF i = 1 THEN need ELSE IF i <= k THEN used[i - 1] ELSE used[i]
    BY <1>1, MoveToFrontFact
  <2>2. used' = t OBVIOUS
  <2> HIDE DEF t, m, k
  <2> QED BY <2>1, <2>2
<1>7. m \in Nat /\ m >= Len(used) /\ (Fit = Len(used) => m = Len(used) + 1)
  BY <1>2, <1>5
<1>8. used' \in Seq(Pages) /\ Distinct(used', Len(used')) BY <1>6
<1>9. Fit' \in Nat /\ Fit' <= m /\ Fit' <= contain BY <1>6, <1>7, LRUAssumption DEF Fit
<1>10. Fit' <= Fit + 1
  <2>1. CASE Fit = contain BY <1>2, <1>9, <2>1, LRUAssumption
  <2>2. CASE Fit = Len(used) BY <1>2, <1>7, <1>9, <2>2
  <2> QED BY <1>2, <2>1, <2>2
<1> HIDE DEF m, k
<1>11. ASSUME NEW i \in 1..Fit' PROVE used'[i] = IF i = 1 THEN need ELSE used[i - 1]
  <2>1. i \in 1..m /\ i <= k
    <3>1. k \in Int /\ m \in Nat /\ Fit' \in Nat /\ Fit \in Nat BY <1>2, <1>4, <1>7, <1>9
    <3>2. Fit' <= m /\ Fit' <= Fit + 1 /\ k > Fit BY <1>5, <1>9, <1>10
    <3> QED BY <3>1, <3>2
  <2> QED BY <1>6, <2>1
<1> QED BY <1>3, <1>6, <1>7, <1>8, <1>9, <1>10, <1>11

\* A page fault while there is room: push.
LEMMA FaultIInv ==
  ASSUME IInv, NEW need \in Pages, Fault(need), used' = MoveToFront(used, need)
  PROVE  IInv'
<1> DEFINE n == Fit
           b == Before(need, Resident, n)
<1>1. used \in Seq(Pages) /\ Distinct(used, Len(used)) /\ Ring(heap, Resident, n) BY DEF IInv
<1>2. /\ Len(used) \in Nat /\ n \in Nat /\ n <= Len(used) /\ n <= contain
      /\ n = Len(used) \/ n = contain
      /\ Resident \in [1..n -> Pages] /\ Distinct(Resident, n)
  BY <1>1, ResidentFact
<1>3. heap.size = n BY <1>1 DEF Ring
<1>4. n < contain /\ n = Len(used) BY <1>2, <1>3, LRUAssumption DEF Fault
<1>5. /\ ~is_inmem[need] /\ heap' = Push(heap, need)
      /\ is_inmem' = [is_inmem EXCEPT ![need] = TRUE] /\ UNCHANGED status
  BY DEF Fault
<1>6. /\ used' \in Seq(Pages) /\ Distinct(used', Len(used')) /\ Len(used') = Len(used) + 1
      /\ \A i \in 1..n : used[i] # need
      /\ \A i \in 1..Fit' : used'[i] = IF i = 1 THEN need ELSE used[i - 1]
  BY <1>4, <1>5, FaultOrder
<1>7. Fit' = n + 1 BY <1>2, <1>4, <1>6, LRUAssumption DEF Fit
<1>8. \A i \in 1..n : Resident[i] # need BY <1>6 DEF Resident
<1>9. Ring(heap', b, n + 1)
  <2>1. n # contain BY <1>2, <1>4, LRUAssumption
  <2> HIDE DEF n
  <2> QED BY <1>1, <1>2, <1>5, <1>8, <2>1, PushRing
<1>10. b = Resident'
  <2>1. Resident' = [i \in 1..(n + 1) |-> used'[i]] BY <1>7 DEF Resident
  <2>2. b = [i \in 1..(n + 1) |-> IF i = 1 THEN need ELSE Resident[i - 1]] BY DEF Before
  <2>3. ASSUME NEW i \in 1..(n + 1) PROVE used'[i] = IF i = 1 THEN need ELSE Resident[i - 1]
    <3>1. i # 1 => i - 1 \in 1..n BY <1>2
    <3>2. i # 1 => Resident[i - 1] = used[i - 1] BY <3>1 DEF Resident
    <3> QED BY <1>6, <1>7, <3>2
  <2> HIDE DEF b
  <2> QED BY <2>1, <2>2, <2>3
<1>11. ASSUME NEW p \in Pages PROVE is_inmem'[p] <=> \E i \in 1..Fit' : used'[i] = p
  <2>1. is_inmem'[p] <=> p = need \/ \E i \in 1..n : used[i] = p BY <1>5 DEF IInv
  <2>2. used'[1] = need /\ 1 \in 1..Fit' BY <1>2, <1>6, <1>7
  <2>3. ASSUME NEW i \in 1..n, used[i] = p PROVE \E j \in 1..Fit' : used'[j] = p
    <3>1. i + 1 \in 1..Fit' /\ i + 1 # 1 /\ (i + 1) - 1 = i BY <1>2, <1>7
    <3> QED BY <1>6, <2>3, <3>1
  <2>4. ASSUME NEW i \in 1..Fit', used'[i] = p PROVE p = need \/ \E j \in 1..n : used[j] = p
    <3>1. i # 1 => i - 1 \in 1..n BY <1>2, <1>7
    <3> QED BY <1>6, <2>4, <3>1
  <2> QED BY <2>1, <2>2, <2>3, <2>4
<1>12. is_inmem' \in [Pages -> BOOLEAN] BY <1>5 DEF IInv
<1> HIDE DEF n, b
<1> QED BY <1>5, <1>6, <1>7, <1>9, <1>10, <1>11, <1>12 DEF IInv, OnlyIllegalVisitsDie

\* A page fault in a full memory: the page at the bottom makes room.
LEMMA SwapIInv ==
  ASSUME IInv, NEW need \in Pages, SwapPage(need), used' = MoveToFront(used, need)
  PROVE  IInv'
<1> DEFINE n == Fit
           w == Without(Resident, n, n)
           b == Before(need, w, n - 1)
           page == Bottom(heap)
<1>1. used \in Seq(Pages) /\ Distinct(used, Len(used)) /\ Ring(heap, Resident, n) BY DEF IInv
<1>2. /\ Len(used) \in Nat /\ n \in Nat /\ n <= Len(used) /\ n <= contain
      /\ Resident \in [1..n -> Pages] /\ Distinct(Resident, n)
  BY <1>1, ResidentFact
<1>3. heap.size = n BY <1>1 DEF Ring
<1>4. n = contain /\ n \in 1..n
  <2>1. heap.size >= contain BY DEF SwapPage
  <2> HIDE DEF n
  <2> QED BY <1>2, <1>3, <2>1, LRUAssumption
<1>5. page = Resident[n] /\ Resident[n] = used[n] /\ used[n] \in Pages /\ page # Top
  <2>1. heap.prev[Top] = NodeAt(Resident, n, n) BY <1>1, <1>2, <1>4, Neighbours
  <2>2. NodeAt(Resident, n, n) = Resident[n] BY <1>4 DEF NodeAt
  <2>3. Resident[n] = used[n] BY <1>4 DEF Resident
  <2>4. Resident[n] \in Pages BY <1>2, <1>4
  <2> QED BY <2>1, <2>2, <2>3, <2>4, LRUAssumption DEF Bottom
<1>6. /\ ~is_inmem[need] /\ heap' = Push(DelNode(heap, page), need)
      /\ is_inmem' = [is_inmem EXCEPT ![page] = FALSE, ![need] = TRUE] /\ UNCHANGED status
  BY <1>5 DEF SwapPage
<1>7. /\ used' \in Seq(Pages) /\ Distinct(used', Len(used'))
      /\ Len(used') \in Nat /\ Len(used') >= Len(used)
      /\ \A i \in 1..n : used[i] # need
      /\ \A i \in 1..Fit' : used'[i] = IF i = 1 THEN need ELSE used[i - 1]
  BY <1>6, FaultOrder
<1>8. Fit' = n BY <1>2, <1>4, <1>7, LRUAssumption DEF Fit
<1> HIDE DEF n, page
<1>9. /\ w \in [1..(n - 1) -> Pages] /\ Distinct(w, n - 1) /\ Ring(DelNode(heap, page), w, n - 1)
  BY <1>1, <1>2, <1>4, <1>5, DelNodeRing
<1>10. \A i \in 1..(n - 1) : w[i] = used[i]
  <2>1. \A i \in 1..n : Resident[i] = used[i] BY DEF Resident, n
  <2> QED BY <1>2, <2>1 DEF Without
<1>11. n - 1 \in Nat /\ n - 1 # contain /\ (n - 1) + 1 = n BY <1>2, <1>4, LRUAssumption
<1>12. \A i \in 1..(n - 1) : w[i] # need BY <1>2, <1>7, <1>10
<1> HIDE DEF w
<1>13. Ring(heap', b, n) BY <1>6, <1>9, <1>11, <1>12, PushRing
<1>14. b = Resident'
  <2>1. Resident' = [i \in 1..n |-> used'[i]] BY <1>8 DEF Resident
  <2>2. b = [i \in 1..n |-> IF i = 1 THEN need ELSE w[i - 1]] BY <1>11 DEF Before
  <2>3. ASSUME NEW i \in 1..n PROVE used'[i] = IF i = 1 THEN need ELSE w[i - 1]
    <3>1. i # 1 => i - 1 \in 1..(n - 1) BY <1>2
    <3> QED BY <1>7, <1>8, <1>10, <3>1
  <2> QED BY <2>1, <2>2, <2>3
<1>15. ASSUME NEW p \in Pages PROVE is_inmem'[p] <=> \E i \in 1..n : used'[i] = p
  <2>1. page \in Pages /\ need # page BY <1>4, <1>5, <1>7
  <2>2. is_inmem'[p] <=> p = need \/ (p # page /\ \E i \in 1..n : used[i] = p)
    BY <1>6, <2>1 DEF IInv, n
  <2>3. used'[1] = need /\ 1 \in 1..n BY <1>4, <1>7, <1>8, LRUAssumption
  <2>4. ASSUME NEW i \in 1..n, used[i] = p, p # page PROVE \E j \in 1..n : used'[j] = p
    <3>1. i # n BY <1>5, <2>4
    <3>2. i + 1 \in 1..n /\ i + 1 # 1 /\ (i + 1) - 1 = i BY <1>2, <3>1
    <3> QED BY <1>7, <1>8, <2>4, <3>2
  <2>5. ASSUME NEW i \in 1..n, used'[i] = p, p # need
        PROVE  p # page /\ \E j \in 1..n : used[j] = p
    <3>1. i # 1 /\ used[i - 1] = p BY <1>7, <1>8, <2>5
    <3>2. i - 1 \in 1..n /\ i - 1 # n /\ i - 1 \in 1..Len(used) /\ n \in 1..Len(used) BY <1>2, <3>1
    <3> QED BY <1>1, <1>5, <3>1, <3>2 DEF Distinct
  <2> QED BY <2>2, <2>3, <2>4, <2>5
<1>16. is_inmem' \in [Pages -> BOOLEAN] BY <1>6 DEF IInv
<1> HIDE DEF b
<1> QED BY <1>6, <1>7, <1>8, <1>13, <1>14, <1>15, <1>16 DEF IInv, OnlyIllegalVisitsDie

-----------------------------------------------------------------------------
(***************************************************************************)
(* The theorems.                                                           *)
(***************************************************************************)
\* Every visit keeps the invariant.
LEMMA NextIInv == IInv /\ [Next]_vars => IInv'
<1> SUFFICES ASSUME IInv, [Next]_vars PROVE IInv'
  OBVIOUS
<1>1. ASSUME NEW need \in Pages, UsePage(need) PROVE IInv'
  BY <1>1, HitIInv, FaultIInv, SwapIInv DEF UsePage
<1>2. ASSUME NEW need \in Illegal, IllegalVisit(need) PROVE IInv'
  BY <1>2 DEF IllegalVisit, Die, IInv, OnlyIllegalVisitsDie, Resident, Fit
<1>3. CASE UNCHANGED vars
  BY <1>3 DEF vars, IInv, OnlyIllegalVisitsDie, Resident, Fit
<1> QED BY <1>1, <1>2, <1>3 DEF Next

\* The invariant holds after any sequence of visits.
LEMMA Invariance == Spec => []IInv
  BY InitIInv, NextIInv, PTL DEF Spec

\* The ring of src/stack.c holds exactly the pages used last, in the order of their
\* last use, whatever pages are visited: push, delnode and settop assign the links
\* in an order that never loses a node.
THEOREM RingCorrect == Spec => []RingIsLRU
<1>1. ASSUME IInv PROVE RingIsLRU
  <2>1. used \in Seq(Pages) /\ Distinct(used, Len(used)) /\ Ring(heap, Resident, Fit)
    BY <1>1 DEF IInv
  <2>2. Fit \in Nat /\ Resident \in [1..Fit -> Pages] BY <2>1, ResidentFact
  <2>3. \A i : RingAt(i) = NodeAt(Resident, Fit, i) BY DEF RingAt, NodeAt, Resident
  <2>4. \A i \in 0..Fit : /\ heap.next[RingAt(i)] = RingAt(i + 1)
                          /\ heap.prev[RingAt(i + 1)] = RingAt(i)
    BY <2>1, <2>3 DEF Ring
  <2>5. ASSUME NEW p \in Pages PROVE is_inmem[p] <=> Linked(heap, p)
    <3>1. CASE is_inmem[p]
      <4>1. PICK i \in 1..Fit : used[i] = p BY <1>1, <3>1 DEF IInv
      <4>2. Resident[i] = p BY <4>1 DEF Resident
      <4>3. heap.next[p] = NodeAt(Resident, Fit, i + 1) BY <2>1, <2>2, <4>2, Neighbours
      <4>4. heap.next[p] \in Nodes BY <2>2, <4>3, NodeType
      <4> QED BY <3>1, <4>4, LRUAssumption DEF Linked
    <3>2. CASE ~is_inmem[p]
      <4>1. \A i \in 1..Fit : Resident[i] # p BY <1>1, <3>2 DEF IInv, Resident
      <4> QED BY <2>1, <3>2, <4>1 DEF Ring, Linked
    <3> QED BY <3>1, <3>2
  <2>6. heap.size = Fit BY <2>1 DEF Ring
  <2> QED BY <1>1, <2>4, <2>5, <2>6 DEF IInv, RingIsLRU
<1> QED BY <1>1, Invariance, PTL

\* The two die calls of src/LRU.c that guard against a broken ring are never reached.
THEOREM NeverDies == Spec => []OnlyIllegalVisitsDie
<1>1. IInv => OnlyIllegalVisitsDie BY DEF IInv
<1> QED BY <1>1, Invariance, PTL
=============================================================================
