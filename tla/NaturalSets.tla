--------------------------- MODULE NaturalSets ---------------------------
(***************************************************************************)
(* The least and the greatest of a set of natural numbers, and with them   *)
(* induction: what holds of a number if it holds of all the smaller ones   *)
(* has no least number it fails for.                                       *)
(***************************************************************************)
EXTENDS Integers, FiniteSets, FiniteSetsExt, FiniteSetTheorems, WellFoundedInduction, TLAPS

LEMMA LeastNat ==
  ASSUME NEW T \in SUBSET Nat, T # {}
  PROVE  \E m \in T : \A n \in T : m <= n
<1> DEFINE F == {0 .. n : n \in T}
           O == StrictSubsetOrdering(Nat)
<1>1. F \subseteq FiniteSubsetsOf(Nat)
  <2> SUFFICES ASSUME NEW n \in T PROVE 0 .. n \in FiniteSubsetsOf(Nat)
    OBVIOUS
  <2>1. n \in Nat OBVIOUS
  <2>2. IsFiniteSet(0 .. n) BY <2>1, FS_Interval
  <2>3. 0 .. n \subseteq Nat OBVIOUS
  <2> QED BY <2>2, <2>3 DEF FiniteSubsetsOf
<1>2. F # {} OBVIOUS
<1>3. IsWellFoundedOn(O, FiniteSubsetsOf(Nat)) BY FS_StrictSubsetOrderingWellFounded
<1>4. PICK x \in F : \A y \in F : <<y, x>> \notin O
  <2> HIDE DEF F, O
  <2> QED BY <1>1, <1>2, <1>3, WFMin
<1>5. PICK m \in T : x = 0 .. m OBVIOUS
<1>6. ASSUME NEW n \in T, n < m PROVE FALSE
  <2>1. 0 .. n \in F OBVIOUS
  <2>2. n \in Nat /\ m \in Nat OBVIOUS
  <2>3. 0 .. n \subseteq 0 .. m /\ 0 .. n # 0 .. m
    <3>1. m \in 0 .. m /\ m \notin 0 .. n BY <1>6, <2>2
    <3>2. 0 .. n \subseteq 0 .. m BY <1>6, <2>2
    <3> QED BY <3>1, <3>2
  <2>4. 0 .. n \in SUBSET Nat /\ 0 .. m \in SUBSET Nat OBVIOUS
  <2>5. <<0 .. n, 0 .. m>> \in O BY <2>3, <2>4 DEF StrictSubsetOrdering
  <2> HIDE DEF F, O
  <2> QED BY <1>4, <1>5, <2>1, <2>5
<1>7. \A n \in T : m <= n BY <1>6
<1> QED BY <1>7

LEMMA MinOf ==
  ASSUME NEW T \in SUBSET Nat, T # {}
  PROVE  Min(T) \in T /\ \A n \in T : Min(T) <= n
<1>1. \E m \in T : \A n \in T : m <= n BY LeastNat
<1> QED BY <1>1 DEF Min

LEMMA MaxOf ==
  ASSUME NEW b \in Nat, NEW T \in SUBSET (0 .. b), T # {}
  PROVE  Max(T) \in T /\ \A n \in T : n <= Max(T)
<1> DEFINE U == {b - n : n \in T}
<1>1. U \subseteq Nat /\ U # {} OBVIOUS
<1>2. PICK m \in U : \A n \in U : m <= n BY <1>1, LeastNat
<1>3. PICK x \in T : m = b - x BY <1>2
<1>4. \A n \in T : n <= x
  <2> SUFFICES ASSUME NEW n \in T PROVE n <= x
    OBVIOUS
  <2>1. b - n \in U OBVIOUS
  <2>2. m <= b - n BY <1>2, <2>1
  <2>3. n \in Nat /\ x \in Nat OBVIOUS
  <2> QED BY <1>3, <2>2, <2>3
<1>5. \A n \in T : x >= n BY <1>4
<1> QED BY <1>5 DEF Max
=============================================================================
