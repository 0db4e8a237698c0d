---------------------------- MODULE Numbers_proofs ----------------------------
(***************************************************************************)
(* What the other proofs need of natural numbers: induction in the form of *)
(* a statement about a set, without an operator for the provers to guess,  *)
(* and the bounds of sample_size().                                        *)
(***************************************************************************)
EXTENDS SampleSizes, WellFoundedInduction, TLAPS

(* A set of natural numbers that is not empty has a smallest element.      *)
LEMMA Smallest ==
  ASSUME NEW T \in SUBSET Nat, T # {}
  PROVE  \E x \in T : \A y \in T : x <= y
<1> DEFINE R == OpToRel(<, Nat)
<1>1. IsWellFoundedOn(R, Nat)
  BY NatLessThanWellFounded, Zenon
<1>2. \A x, y \in Nat : y < x => <<y, x>> \in R
  BY DEF OpToRel
<1> HIDE DEF R
<1>3. PICK x \in T : \A y \in T : ~(<<y, x>> \in R)
  BY <1>1, WFMin
<1>4. ASSUME NEW y \in T PROVE x <= y
  <2>1. x \in Nat /\ y \in Nat
    OBVIOUS
  <2>2. ~(y < x)
    BY <1>2, <1>3, <2>1
  <2>3. QED
    BY <2>1, <2>2
<1>5. QED
  BY <1>3, <1>4

(* Numbers up to a bound have a largest element.                           *)
LEMMA Largest ==
  ASSUME NEW n \in Nat, NEW T \in SUBSET (0..n), T # {}
  PROVE  \E x \in T : \A y \in T : y <= x
<1> DEFINE D == {n - x : x \in T}
<1>1. D \in SUBSET Nat /\ D # {}
  <2>1. \A x \in T : n - x \in Nat
    OBVIOUS
  <2>2. QED
    BY <2>1
<1>2. PICK c \in D : \A d \in D : c <= d
  BY <1>1, Smallest
<1>3. PICK x \in T : c = n - x
  BY <1>2
<1>4. ASSUME NEW y \in T PROVE y <= x
  <2>1. n - y \in D
    OBVIOUS
  <2>2. n - x <= n - y
    BY <1>2, <1>3, <2>1
  <2>3. QED
    BY <2>2
<1>5. QED
  BY <1>4

(* Induction: a set that holds 0, and with a number the next, holds all.   *)
LEMMA SetInduction ==
  ASSUME NEW S, 0 \in S, \A n \in Nat : n \in S => n + 1 \in S
  PROVE  Nat \subseteq S
<1> DEFINE T == Nat \ S
<1>1. SUFFICES ASSUME T # {} PROVE FALSE
  OBVIOUS
<1>2. PICK x \in T : \A y \in T : x <= y
  BY <1>1, Smallest
<1>3. x - 1 \in Nat /\ x - 1 \in S
  BY <1>2
<1>4. QED
  BY <1>2, <1>3

(* The same from n down to m.                                              *)
LEMMA DownInduction ==
  ASSUME NEW n \in Nat, NEW m \in Nat, NEW S, n \in S,
         \A i \in m..n : i # n /\ i + 1 \in S => i \in S
  PROVE  m..n \subseteq S
<1> DEFINE D == {j \in Nat : n - j >= m => n - j \in S}
<1>1. 0 \in D
  OBVIOUS
<1>2. ASSUME NEW j \in Nat, j \in D PROVE j + 1 \in D
  <2>1. SUFFICES ASSUME n - (j + 1) >= m PROVE n - (j + 1) \in S
    OBVIOUS
  <2>2. (n - (j + 1)) + 1 = n - j /\ n - j >= m
    BY <2>1
  <2>3. n - j \in S
    BY <1>2, <2>2
  <2>4. QED
    BY <2>1, <2>2, <2>3
<1> HIDE DEF D
<1>3. ASSUME NEW i \in m..n PROVE i \in S
  <2>1. n - i \in D
    BY <1>1, <1>2, SetInduction
  <2>2. n - (n - i) = i /\ i >= m
    OBVIOUS
  <2>3. QED
    BY <2>1, <2>2 DEF D
<1>4. QED
  BY <1>3

(* sample_size() asks for at least one picture of an album that has any,   *)
(* for no more than it has, and for no more than max_pictures.             *)
THEOREM SampleSizeBounds ==
  ASSUME NEW n \in Nat, NEW max \in Nat, NEW pct \in 1..100
  PROVE  /\ sample_size(n, max, pct) \in 0..n
         /\ n > 0 => sample_size(n, max, pct) > 0
         /\ max > 0 => sample_size(n, max, pct) <= max
<1>1. n * pct \in Nat /\ (pct < 100 => n * pct <= n * 99)
  BY SMT
<1>2. pct < 100 => Rounded(n, pct) \in 0..n
  <2>1. SUFFICES ASSUME pct < 100 PROVE Rounded(n, pct) \in 0..n
    OBVIOUS
  <2>2. n * pct + 50 <= n * 99 + 50
    BY <1>1, <2>1
  <2>3. n * 99 + 50 < 100 * (n + 1)
    OBVIOUS
  <2>4. QED
    BY <1>1, <2>2, <2>3, SMT DEF Rounded
<1>3. QED
  BY <1>1, <1>2 DEF sample_size
===============================================================================
