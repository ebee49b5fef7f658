--------------------------- MODULE FiniteInduction ---------------------------
(***************************************************************************)
(* Induction over the naturals and over finite sets, as facts about sets.  *)
(* The library states induction with an operator for what is shown; here   *)
(* it is a set: the numbers, or the parts of a set, of which it is true.   *)
(***************************************************************************)
EXTENDS Integers, FiniteSets, FiniteSetsExt, FiniteSetTheorems, WellFoundedInduction, TLAPS

(* A set of naturals that is not empty has a least element.                *)
LEMMA MinOfNaturals ==
  ASSUME NEW S \in SUBSET Nat, S # {}
  PROVE  Min(S) \in S /\ \A x \in S : Min(S) <= x
<1> DEFINE R == OpToRel(<, Nat)
<1>1. IsWellFoundedOn(R, Nat)
  BY NatLessThanWellFounded
<1>2. \A x, y \in Nat : <<y, x>> \in R <=> y < x
  BY DEF OpToRel
<1>3. PICK x \in S : \A y \in S : ~ (<<y, x>> \in R)
  <2> HIDE DEF R
  <2> QED BY <1>1, WFMin
<1>4. ASSUME NEW y \in S PROVE x <= y
  <2> HIDE DEF R
  <2>1. x \in Nat /\ y \in Nat /\ ~ (<<y, x>> \in R)
    BY <1>3
  <2>2. ~ (y < x)
    BY <1>2, <2>1
  <2> QED BY <2>1, <2>2
<1> QED BY <1>3, <1>4 DEF Min

(* One that is bounded has a greatest element.                             *)
LEMMA MaxOfNaturals ==
  ASSUME NEW S \in SUBSET Nat, S # {}, NEW bound \in Nat, \A x \in S : x <= bound
  PROVE  Max(S) \in S /\ \A x \in S : x <= Max(S)
<1> DEFINE below == {bound - x : x \in S}
<1>1. below \in SUBSET Nat /\ below # {}
  <2>1. \A x \in S : bound - x \in Nat
    OBVIOUS
  <2> QED BY <2>1
<1>2. Min(below) \in below /\ \A d \in below : Min(below) <= d
  <2> HIDE DEF below
  <2> QED BY <1>1, MinOfNaturals
<1>3. PICK x \in S : Min(below) = bound - x
  BY <1>2
<1>4. \A y \in S : x >= y
  <2>1. \A y \in S : bound - y \in below
    OBVIOUS
  <2>2. \A y \in S : bound - x <= bound - y
    BY <1>2, <1>3, <2>1
  <2> QED BY <2>2
<1> QED BY <1>4 DEF Max

(* Induction over the naturals, as a fact about sets of naturals.          *)
LEMMA SetInduction ==
  ASSUME NEW S \in SUBSET Nat, 0 \in S, \A n \in S : n + 1 \in S
  PROVE  S = Nat
<1> DEFINE left == Nat \ S
<1>1. ASSUME left # {} PROVE FALSE
  <2>1. left \in SUBSET Nat
    OBVIOUS
  <2>2. Min(left) \in left /\ \A x \in left : Min(left) <= x
    <3> HIDE DEF left
    <3> QED BY <1>1, <2>1, MinOfNaturals
  <2>3. PICK x \in left : \A y \in left : x <= y
    BY <2>2
  <2>4. x \in Nat /\ x # 0 /\ x \notin S
    BY <2>3
  <2>5. x - 1 \in Nat /\ ~(x <= x - 1) /\ (x - 1) + 1 = x
    BY <2>4
  <2>6. x - 1 \in S
    BY <2>3, <2>5
  <2> QED BY <2>4, <2>5, <2>6
<1> QED BY <1>1

\* The element a fold takes first.
Taken(set) == CHOOSE x \in set : TRUE

(* Induction over a finite set, as the folds take it apart.                *)
LEMMA SubsetInduction ==
  ASSUME NEW C, IsFiniteSet(C), NEW P \in SUBSET SUBSET C, {} \in P,
         \A s \in SUBSET C : s # {} /\ s \ {Taken(s)} \in P => s \in P
  PROVE  P = SUBSET C
<1> DEFINE sizes == {n \in Nat : \A s \in SUBSET C : Cardinality(s) <= n => s \in P}
<1>1. \A s \in SUBSET C : IsFiniteSet(s) /\ Cardinality(s) \in Nat
  BY FS_Subset, FS_CardinalityType
<1>2. 0 \in sizes
  <2>1. ASSUME NEW s \in SUBSET C, Cardinality(s) <= 0 PROVE s \in P
    <3>1. Cardinality(s) = 0 /\ IsFiniteSet(s)
      BY <1>1, <2>1
    <3>2. s = {}
      BY <3>1, FS_EmptySet
    <3> QED BY <3>2
  <2> QED BY <2>1
<1>3. ASSUME NEW n \in sizes PROVE n + 1 \in sizes
  <2>1. ASSUME NEW s \in SUBSET C, Cardinality(s) <= n + 1 PROVE s \in P
    <3>1. CASE s # {}
      <4> DEFINE rest == s \ {Taken(s)}
      <4>1. Taken(s) \in s
        BY <3>1 DEF Taken
      <4>2. Cardinality(rest) = Cardinality(s) - 1 /\ rest \in SUBSET C
        BY <1>1, <4>1, FS_RemoveElement
      <4>3. Cardinality(rest) <= n
        <5> HIDE DEF rest
        <5> QED BY <1>1, <2>1, <4>2
      <4>4. rest \in P
        <5> HIDE DEF rest
        <5> QED BY <4>2, <4>3
      <4> QED BY <3>1, <4>4
    <3> QED BY <3>1
  <2> QED BY <2>1
<1>4. sizes = Nat
  <2>1. sizes \in SUBSET Nat
    OBVIOUS
  <2> HIDE DEF sizes
  <2> QED BY <1>2, <1>3, <2>1, SetInduction
<1>5. ASSUME NEW s \in SUBSET C PROVE s \in P
  <2>1. Cardinality(s) \in sizes /\ Cardinality(s) <= Cardinality(s)
    <3> HIDE DEF sizes
    <3> QED BY <1>1, <1>4
  <2> QED BY <2>1
<1> QED BY <1>5

(* A function on a finite set takes a largest value.                       *)
LEMMA LargestExists ==
  ASSUME NEW C, IsFiniteSet(C), C # {}, NEW f \in [C -> Int]
  PROVE  \E x \in C : \A y \in C : f[y] <= f[x]
<1> DEFINE P == {s \in SUBSET C : s # {} => \E x \in s : \A y \in s : f[y] <= f[x]}
<1>1. {} \in P
  OBVIOUS
<1>2. ASSUME NEW s \in SUBSET C, s # {}, s \ {Taken(s)} \in P PROVE s \in P
  <2> DEFINE z == Taken(s)
             rest == s \ {z}
  <2>1. z \in s
    BY <1>2 DEF Taken
  <2>2. CASE rest = {}
    <3>1. \A y \in s : y = z
      BY <2>2
    <3>2. \A y \in s : f[y] <= f[z]
      <4> HIDE DEF z
      <4> QED BY <2>1, <3>1
    <3> QED BY <2>1, <3>2
  <2>3. CASE rest # {}
    <3>1. PICK x \in rest : \A y \in rest : f[y] <= f[x]
      BY <1>2, <2>3
    <3>2. f[x] \in Int /\ f[z] \in Int /\ x \in s
      <4> HIDE DEF z
      <4> QED BY <2>1
    <3>3. CASE f[z] <= f[x]
      <4>1. \A y \in s : f[y] <= f[x]
        BY <3>1, <3>3
      <4> QED BY <3>2, <4>1
    <3>4. CASE f[x] <= f[z]
      <4>1. ASSUME NEW y \in s PROVE f[y] <= f[z]
        <5>0. f[y] \in Int
          OBVIOUS
        <5>1. CASE y = z
          BY <3>2, <5>1
        <5>2. CASE y # z
          <6>1. f[y] <= f[x]
            BY <3>1, <5>2
          <6> HIDE DEF z
          <6> QED BY <3>2, <3>4, <5>0, <6>1
        <5> QED BY <5>1, <5>2
      <4> QED BY <2>1, <4>1
    <3>5. f[z] <= f[x] \/ f[x] <= f[z]
      <4> HIDE DEF z
      <4> QED BY <3>2
    <3> QED BY <3>3, <3>4, <3>5
  <2> QED BY <2>2, <2>3
<1>3. P = SUBSET C
  <2>1. P \in SUBSET SUBSET C
    OBVIOUS
  <2> HIDE DEF P
  <2> QED BY <1>1, <1>2, <2>1, SubsetInduction
<1>4. C \in P
  BY <1>3
<1> QED BY <1>4

\* fold gives for each part of C what f makes of base, one element after the
\* other.
FoldsBy(C, base, f, fold) ==
  \A s \in SUBSET C : fold[s] = IF s = {} THEN base ELSE f[<<Taken(s), fold[s \ {Taken(s)}]>>]

(* Such a fold exists.                                                     *)
LEMMA FoldsExist ==
  ASSUME NEW C, IsFiniteSet(C), NEW V, NEW base \in V, NEW f \in [C \X V -> V]
  PROVE  \E fold \in [SUBSET C -> V] : FoldsBy(C, base, f, fold)
<1> DEFINE Step(fold, s) == IF s = {} THEN base ELSE f[<<Taken(s), fold[s \ {Taken(s)}]>>]
           UpTo(n, fold) == \A s \in SUBSET C : Cardinality(s) <= n => fold[s] = Step(fold, s)
           sizes == {n \in Nat : \E fold \in [SUBSET C -> V] : UpTo(n, fold)}
<1>1. \A s \in SUBSET C : IsFiniteSet(s) /\ Cardinality(s) \in Nat
  BY FS_Subset, FS_CardinalityType
<1>2. \A s \in SUBSET C : s # {} => /\ Taken(s) \in C /\ s \ {Taken(s)} \in SUBSET C
                                    /\ Cardinality(s \ {Taken(s)}) = Cardinality(s) - 1
  <2>1. ASSUME NEW s \in SUBSET C, s # {} PROVE Taken(s) \in s
    BY <2>1 DEF Taken
  <2> QED BY <1>1, <2>1, FS_RemoveElement
<1>3. 0 \in sizes
  <2> DEFINE start == [s \in SUBSET C |-> base]
  <2>1. ASSUME NEW s \in SUBSET C, Cardinality(s) <= 0 PROVE start[s] = Step(start, s)
    <3>1. Cardinality(s) = 0
      BY <1>1, <2>1
    <3>2. s = {}
      BY <1>1, <3>1, FS_EmptySet
    <3> QED BY <3>2
  <2>2. start \in [SUBSET C -> V]
    OBVIOUS
  <2> HIDE DEF start, Step
  <2>3. UpTo(0, start)
    BY <2>1
  <2> HIDE DEF UpTo
  <2> QED BY <2>2, <2>3
<1>4. ASSUME NEW n \in sizes PROVE n + 1 \in sizes
  <2>1. PICK fold \in [SUBSET C -> V] : UpTo(n, fold)
    OBVIOUS
  <2> DEFINE more == [s \in SUBSET C |-> IF Cardinality(s) <= n THEN fold[s] ELSE Step(fold, s)]
  <2>2. ASSUME NEW s \in SUBSET C PROVE Step(fold, s) \in V
    <3>1. s # {} => <<Taken(s), fold[s \ {Taken(s)}]>> \in C \X V
      BY <1>2
    <3> QED BY <3>1
  <2>3. more \in [SUBSET C -> V]
    <3> HIDE DEF Step
    <3> QED BY <2>2
  <2>4. \A s \in SUBSET C : Cardinality(s) <= n + 1 => more[s] = Step(fold, s)
    BY <2>1
  <2>5. ASSUME NEW s \in SUBSET C, Cardinality(s) <= n + 1 PROVE more[s] = Step(more, s)
    <3>1. CASE s = {}
      BY <2>4, <2>5, <3>1
    <3>2. CASE s # {}
      <4> DEFINE rest == s \ {Taken(s)}
      <4>1. rest \in SUBSET C /\ Cardinality(rest) <= n
        BY <1>1, <1>2, <2>5, <3>2
      <4>2. more[rest] = fold[rest]
        <5> HIDE DEF rest, Step
        <5> QED BY <4>1
      <4> QED BY <2>4, <2>5, <3>2, <4>2
    <3> QED BY <3>1, <3>2
  <2>6. UpTo(n + 1, more)
    BY <2>5
  <2> HIDE DEF more, UpTo
  <2> QED BY <2>3, <2>6
<1>5. sizes = Nat
  <2>1. sizes \in SUBSET Nat
    OBVIOUS
  <2> HIDE DEF sizes
  <2> QED BY <1>3, <1>4, <2>1, SetInduction
<1>6. Cardinality(C) \in sizes
  <2> HIDE DEF sizes
  <2> QED BY <1>1, <1>5
<1>7. PICK fold \in [SUBSET C -> V] : UpTo(Cardinality(C), fold)
  BY <1>6
<1>8. \A s \in SUBSET C : Cardinality(s) <= Cardinality(C)
  BY FS_Subset
<1> QED BY <1>7, <1>8 DEF FoldsBy

(* What f makes of base in each of n rounds.                               *)
Iterates(n, base, f, h) == h[0] = base /\ \A i \in 1..n : h[i] = f[h[i - 1]]

(* A function can be applied again and again.                              *)
LEMMA IteratesExist ==
  ASSUME NEW V, NEW base \in V, NEW f \in [V -> V], NEW n \in Nat
  PROVE  \E h \in [0..n -> V] : Iterates(n, base, f, h)
<1> DEFINE lengths == {m \in Nat : \E h \in [0..m -> V] : Iterates(m, base, f, h)}
<1>1. 0 \in lengths
  <2> DEFINE start == [i \in 0..0 |-> base]
  <2>1. start \in [0..0 -> V] /\ Iterates(0, base, f, start)
    BY DEF Iterates
  <2> HIDE DEF start
  <2> QED BY <2>1
<1>2. ASSUME NEW m \in lengths PROVE m + 1 \in lengths
  <2>1. PICK h \in [0..m -> V] : Iterates(m, base, f, h)
    BY <1>2
  <2> DEFINE next == [i \in 0..(m + 1) |-> IF i = m + 1 THEN f[h[m]] ELSE h[i]]
  <2>2. m \in Nat /\ m \in 0..m
    BY <1>2
  <2>3. next \in [0..(m + 1) -> V]
    <3>1. \A i \in 0..(m + 1) : i # m + 1 => i \in 0..m
      BY <2>2
    <3> QED BY <2>2, <3>1
  <2>4. next[0] = base
    BY <2>1, <2>2 DEF Iterates
  <2>5. ASSUME NEW i \in 1..(m + 1) PROVE next[i] = f[next[i - 1]]
    <3>1. i - 1 \in 0..(m + 1) /\ i - 1 # m + 1 /\ i \in 0..(m + 1)
      BY <2>2
    <3>2. next[i - 1] = h[i - 1]
      BY <3>1
    <3>3. CASE i = m + 1
      <4>1. i - 1 = m
        BY <2>2, <3>3
      <4> QED BY <3>1, <3>2, <3>3, <4>1
    <3>4. CASE i # m + 1
      <4>1. i \in 1..m
        BY <2>2, <3>4
      <4>2. h[i] = f[h[i - 1]]
        BY <2>1, <4>1 DEF Iterates
      <4> QED BY <3>1, <3>2, <3>4, <4>2
    <3> QED BY <3>3, <3>4
  <2> HIDE DEF next
  <2>6. Iterates(m + 1, base, f, next)
    BY <2>4, <2>5 DEF Iterates
  <2> QED BY <2>2, <2>3, <2>6
<1>3. lengths = Nat
  <2> HIDE DEF lengths
  <2>1. lengths \in SUBSET Nat
    BY DEF lengths
  <2> QED BY <1>1, <1>2, <2>1, SetInduction
<1> QED BY <1>3

=============================================================================
