------------------------------ MODULE Counting ------------------------------
(***************************************************************************)
(* Facts about cardinalities, sums and sets of numbers that several proofs *)
(* use: counting who holds something, where one process moves at a time.   *)
(***************************************************************************)
EXTENDS Integers, FiniteSets, FiniteSetTheorems, WellFoundedInduction, Sums, TLAPS

\* 1 for true, 0 for false.
In(b) == IF b THEN 1 ELSE 0

\* A set that changes in one element only.
LEMMA OneElement ==
  ASSUME NEW S, NEW T, NEW p, IsFiniteSet(S), T \ {p} = S \ {p}
  PROVE  /\ IsFiniteSet(T)
         /\ Cardinality(S) \in Nat /\ Cardinality(T) \in Nat
         /\ Cardinality(T) + In(p \in S) = Cardinality(S) + In(p \in T)
<1> DEFINE U == S \ {p}
<1>1. /\ IsFiniteSet(U)
      /\ Cardinality(U) = IF p \in S THEN Cardinality(S) - 1 ELSE Cardinality(S)
  BY FS_RemoveElement
<1>2. p \notin U OBVIOUS
<1>3. IsFiniteSet(U \cup {p}) /\ Cardinality(U \cup {p}) = Cardinality(U) + 1
  BY <1>1, <1>2, FS_AddElement
<1>4. T = IF p \in T THEN U \cup {p} ELSE U
  OBVIOUS
<1>5. IsFiniteSet(T) /\ Cardinality(T) = Cardinality(U) + In(p \in T)
  <2>1. CASE p \in T BY <2>1, <1>3, <1>4 DEF In
  <2>2. CASE p \notin T
    <3>1. T = U BY <2>2, <1>4
    <3>2. Cardinality(U) \in Nat BY <1>1, FS_CardinalityType
    <3> QED BY <2>2, <3>1, <3>2, <1>1 DEF In
  <2> QED BY <2>1, <2>2
<1>6. Cardinality(S) \in Nat /\ Cardinality(T) \in Nat
  BY <1>5, FS_CardinalityType
<1>7. Cardinality(U) + In(p \in S) = Cardinality(S)
  <2>1. CASE p \in S BY <2>1, <1>1, <1>6 DEF In
  <2>2. CASE p \notin S BY <2>2, <1>1, <1>6 DEF In
  <2> QED BY <2>1, <2>2
<1>8. Cardinality(U) \in Nat /\ In(p \in S) \in Nat /\ In(p \in T) \in Nat
  BY <1>1, FS_CardinalityType DEF In
<1> HIDE DEF U
<1> QED BY <1>5, <1>6, <1>7, <1>8

\* Two members of a set of at most one element are the same.
LEMMA AtMostOne ==
  ASSUME NEW S, IsFiniteSet(S), Cardinality(S) <= 1, NEW p \in S, NEW q \in S
  PROVE  p = q
<1>1. Cardinality(S) \in Nat /\ Cardinality(S) # 0
  BY FS_CardinalityType, FS_EmptySet
<1>2. Cardinality(S) = 1 BY <1>1
<1>3. \E x : S = {x} BY <1>2, FS_Singleton
<1> QED BY <1>3

\* If s and c make k, and b leaves c for s, they still make k.
LEMMA Transfer ==
  ASSUME NEW s \in Int, NEW c \in Int, NEW b \in Int, NEW k \in Int,
         NEW s1 \in Int, NEW c1 \in Int, NEW b1 \in Int,
         s + c = k, s1 + b1 = s + b, c1 + b = c + b1
  PROVE  s1 + c1 = k
  OBVIOUS

\* A semaphore s whose holders are S: a step of p that gives back no more than it
\* holds keeps units and holders within k.
LEMMA Semaphore ==
  ASSUME NEW S, NEW T, NEW p, IsFiniteSet(S), T \ {p} = S \ {p},
         NEW s \in Int, NEW s1 \in Int, NEW k \in Int,
         s + Cardinality(S) <= k, s1 + In(p \in T) <= s + In(p \in S)
  PROVE  s1 + Cardinality(T) <= k
<1> DEFINE cs == Cardinality(S)
           ct == Cardinality(T)
           a == In(p \in S)
           b == In(p \in T)
<1>1. cs \in Nat /\ ct \in Nat /\ ct + a = cs + b BY OneElement
<1>2. a \in Nat /\ b \in Nat BY DEF In
<1>3. s + cs <= k /\ s1 + b <= s + a OBVIOUS
<1> HIDE DEF cs, ct, a, b
<1>4. s1 + ct <= k BY <1>1, <1>2, <1>3
<1> QED BY <1>4 DEF ct
-----------------------------------------------------------------------------
(***************************************************************************)
(* Sums.                                                                   *)
(***************************************************************************)
\* A function has finitely many units on a finite set.
LEMMA UnitsFinite ==
  ASSUME NEW S, IsFiniteSet(S), NEW f, \A q \in S : f[q] \in Nat
  PROVE  IsFiniteSet(UnitsOf(f, S)) /\ SumOf(f, S) \in Nat
<1> DEFINE g == [p \in S |-> {p} \X (1..f[p])]
           T == {{p} \X (1..f[p]) : p \in S}
<1>1. g \in Surjection(S, T) BY DEF Surjection
<1>2. IsFiniteSet(T) BY <1>1, FS_Surjection
<1>3. ASSUME NEW p \in S PROVE IsFiniteSet({p} \X (1..f[p]))
  <2>1. f[p] \in Int OBVIOUS
  <2>2. IsFiniteSet(1..f[p]) BY <2>1, FS_Interval
  <2>3. IsFiniteSet({p}) BY FS_Singleton
  <2> QED BY <2>2, <2>3, FS_Product
<1>4. \A U \in T : IsFiniteSet(U) BY <1>3
<1>5. IsFiniteSet(UNION T) BY <1>2, <1>4, FS_UNION
<1> QED BY <1>5, FS_CardinalityType DEF UnitsOf, SumOf

\* The sum over a set without one of its elements.
LEMMA SumWithout ==
  ASSUME NEW S, IsFiniteSet(S), NEW f, \A q \in S : f[q] \in Nat, NEW p \in S
  PROVE  SumOf(f, S) = SumOf(f, S \ {p}) + f[p]
<1> DEFINE A == UnitsOf(f, S \ {p})
           B == {p} \X (1..f[p])
<1>1. UnitsOf(f, S) = A \cup B /\ A \cap B = {} BY DEF UnitsOf
<1>2. IsFiniteSet(A)
  <2>1. IsFiniteSet(UnitsOf(f, S)) BY UnitsFinite
  <2> QED BY <2>1, <1>1, FS_Subset
<1>3. IsFiniteSet(B) /\ Cardinality(B) = f[p]
  <2>1. f[p] \in Nat OBVIOUS
  <2>2. IsFiniteSet(1..f[p]) /\ Cardinality(1..f[p]) = f[p] BY <2>1, FS_Interval
  <2>3. IsFiniteSet({p}) /\ Cardinality({p}) = 1 BY FS_Singleton
  <2>4. Cardinality(B) = 1 * f[p] BY <2>2, <2>3, FS_Product
  <2> QED BY <2>1, <2>2, <2>3, <2>4, FS_Product
<1>4. SumOf(f, S) = Cardinality(A \cup B) /\ SumOf(f, S \ {p}) = Cardinality(A)
  BY <1>1 DEF SumOf
<1>5. Cardinality(A) \in Nat /\ Cardinality(B) \in Nat BY <1>2, <1>3, FS_CardinalityType
<1> HIDE DEF A, B
<1>6. Cardinality(A \cup B) = Cardinality(A) + Cardinality(B) - Cardinality(A \cap B)
  BY <1>2, <1>3, FS_Union
<1>7. Cardinality(A \cap B) = 0 BY <1>1, FS_EmptySet
<1> QED BY <1>3, <1>4, <1>5, <1>6, <1>7

\* A function that changes at one place.
LEMMA SumChange ==
  ASSUME NEW S, IsFiniteSet(S), NEW f, NEW g, NEW p \in S,
         \A q \in S : f[q] \in Nat /\ g[q] \in Nat,
         \A q \in S \ {p} : g[q] = f[q]
  PROVE  SumOf(g, S) + f[p] = SumOf(f, S) + g[p]
<1>1. UnitsOf(f, S \ {p}) = UnitsOf(g, S \ {p}) BY DEF UnitsOf
<1>2. SumOf(f, S \ {p}) = SumOf(g, S \ {p}) BY <1>1 DEF SumOf
<1>3. SumOf(f, S) = SumOf(f, S \ {p}) + f[p] BY SumWithout
<1>4. SumOf(g, S) = SumOf(g, S \ {p}) + g[p] BY SumWithout
<1>5. SumOf(f, S \ {p}) \in Nat
  <2>1. IsFiniteSet(S \ {p}) BY FS_RemoveElement
  <2> QED BY <2>1, UnitsFinite
<1>6. f[p] \in Nat /\ g[p] \in Nat OBVIOUS
<1> QED BY <1>2, <1>3, <1>4, <1>5, <1>6

\* A function without units.
LEMMA SumZero ==
  ASSUME NEW S, NEW f, \A p \in S : f[p] = 0
  PROVE  SumOf(f, S) = 0
<1>1. UnitsOf(f, S) = {} BY DEF UnitsOf
<1> QED BY <1>1, FS_EmptySet DEF SumOf

\* A set of natural numbers that is not empty has a least element.
LEMMA LeastElement ==
  ASSUME NEW S \in SUBSET Nat, S # {}
  PROVE  \E x \in S : \A y \in S : x <= y
<1> DEFINE R == {ss \in Nat \X Nat : ss[1] < ss[2]}
<1>1. IsWellFoundedOn(R, Nat) BY NatLessThanWellFounded DEF OpToRel
<1>2. \A y, z \in Nat : y < z => <<y, z>> \in R OBVIOUS
<1> HIDE DEF R
<1>3. PICK x \in S : \A y \in S : ~(<<y, x>> \in R) BY <1>1, WFMin
<1>4. ASSUME NEW y \in S, y < x PROVE FALSE BY <1>2, <1>3, <1>4
<1> QED BY <1>4
=============================================================================
