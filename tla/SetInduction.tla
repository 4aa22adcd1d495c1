---------------------------- MODULE SetInduction ----------------------------
(***************************************************************************)
(* Induction over the natural numbers, stated with a set where the library *)
(* has an operator parameter: a set that holds 0, and n + 1 whenever it    *)
(* holds n, holds every natural number.                                    *)
(***************************************************************************)
EXTENDS Naturals, FiniteSets, WellFoundedInduction, FiniteSetTheorems, TLAPS

\* From the order of the natural numbers being well founded: the least number
\* outside T would have a predecessor inside it.
THEOREM Induction ==
  ASSUME NEW T, 0 \in T, \A n \in Nat : n \in T => n + 1 \in T
  PROVE  Nat \subseteq T
<1> DEFINE R == {ss \in Nat \X Nat : ss[1] < ss[2]}
           U == {n \in Nat : n \notin T}
<1>1. IsWellFoundedOn(R, Nat)
  BY NatLessThanWellFounded DEF OpToRel
<1>2. SUFFICES ASSUME U # {} PROVE FALSE
  OBVIOUS
<1>3. PICK x \in U : \A y \in U : <<y, x>> \notin R
  BY <1>1, <1>2, WFMin
<1>4. x # 0 /\ x - 1 \in Nat /\ x - 1 < x /\ (x - 1) + 1 = x
  OBVIOUS
<1>5. x - 1 \in U
  BY <1>4
<1>6. QED
  BY <1>3, <1>4, <1>5

\* A set of positions that is not empty has a greatest one.
THEOREM Greatest ==
  ASSUME NEW n \in Nat, NEW I \in SUBSET (1..n), I # {}
  PROVE  \E i \in I : \A j \in I : j <= i
<1> DEFINE T == {m \in Nat : \A J \in SUBSET (1..m) :
                   J # {} => \E i \in J : \A j \in J : j <= i}
<1>1. 0 \in T
  <2>1. 1..0 = {}
    OBVIOUS
  <2>2. QED
    BY <2>1
<1>2. ASSUME NEW m \in Nat, m \in T PROVE m + 1 \in T
  <2>1. SUFFICES ASSUME NEW J \in SUBSET (1..(m + 1)), J # {}
                 PROVE  \E i \in J : \A j \in J : j <= i
    OBVIOUS
  <2>2. CASE m + 1 \in J
    BY <2>2
  <2>3. CASE m + 1 \notin J
    <3>1. J \in SUBSET (1..m)
      BY <2>3
    <3>2. QED
      BY <1>2, <2>1, <3>1
  <2>4. QED
    BY <2>2, <2>3
<1>3. Nat \subseteq T
  <2> HIDE DEF T
  <2> QED
    BY <1>1, <1>2, Induction
<1>4. QED
  BY <1>3

\* Numbers there are any of have a least one.
THEOREM Least ==
  ASSUME NEW S \in SUBSET Nat, S # {}
  PROVE  \E i \in S : \A j \in S : i <= j
<1> DEFINE R == {ss \in Nat \X Nat : ss[1] < ss[2]}
<1>1. IsWellFoundedOn(R, Nat)
  BY NatLessThanWellFounded DEF OpToRel
<1>2. PICK x \in S : \A y \in S : <<y, x>> \notin R
  BY <1>1, WFMin
<1>3. ASSUME NEW j \in S PROVE x <= j
  <2>1. j \in Nat /\ x \in Nat
    OBVIOUS
  <2>2. ~(j < x)
    BY <1>2, <2>1
  <2>3. QED
    BY <2>1, <2>2
<1>4. QED
  BY <1>3

\* And a greatest one, if they are finitely many.
THEOREM GreatestOfFinite ==
  ASSUME NEW S \in SUBSET Nat, IsFiniteSet(S), S # {}
  PROVE  \E i \in S : \A j \in S : j <= i
<1> DEFINE T == {n \in Nat : \A J \in SUBSET Nat :
                   IsFiniteSet(J) /\ Cardinality(J) = n /\ J # {} =>
                     \E i \in J : \A j \in J : j <= i}
<1>1. 0 \in T
  BY FS_EmptySet
<1>2. ASSUME NEW n \in Nat, n \in T PROVE n + 1 \in T
  <2>1. SUFFICES ASSUME NEW J \in SUBSET Nat, IsFiniteSet(J), Cardinality(J) = n + 1
                 PROVE  J # {} => \E i \in J : \A j \in J : j <= i
    OBVIOUS
  <2>2. SUFFICES ASSUME NEW x \in J PROVE \E i \in J : \A j \in J : j <= i
    OBVIOUS
  <2>3. IsFiniteSet(J \ {x}) /\ Cardinality(J \ {x}) = n
    <3>1. IsFiniteSet(J \ {x}) /\ Cardinality(J \ {x}) = Cardinality(J) - 1
      BY <2>1, FS_RemoveElement
    <3>2. (n + 1) - 1 = n
      OBVIOUS
    <3>3. QED
      BY <2>1, <3>1, <3>2
  <2>4. CASE J \ {x} = {}
    BY <2>4
  <2>5. CASE J \ {x} # {}
    <3>1. PICK m \in J \ {x} : \A j \in J \ {x} : j <= m
      BY <1>2, <2>3, <2>5
    <3>2. CASE x <= m
      BY <3>1, <3>2
    <3>3. CASE ~(x <= m)
      BY <3>1, <3>3
    <3>4. QED
      BY <3>2, <3>3
  <2>6. QED
    BY <2>4, <2>5
<1>3. Nat \subseteq T
  <2> HIDE DEF T
  <2> QED
    BY <1>1, <1>2, Induction
<1>4. Cardinality(S) \in Nat
  BY FS_CardinalityType
<1>5. QED
  BY <1>3, <1>4
=============================================================================
