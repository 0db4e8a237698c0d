---------------------------- MODULE RandomBelow ----------------------------
(***************************************************************************)
(* random_below() of random.c: a number below n out of the generator's     *)
(* 64-bit words, which are taken for uniformly distributed. A word has any *)
(* width here.                                                             *)
(***************************************************************************)
EXTENDS Integers

CONSTANT UINT64_MAX

ASSUME WordAssumption == UINT64_MAX \in Nat \ {0}

(* Mutant of Accepted: the plain modulo of any word                        *)
AcceptedAll(n) == 0..UINT64_MAX

(* The words that are not rejected                                         *)
Accepted(n) == 0..(UINT64_MAX - (UINT64_MAX % n) - 1)

(* The numbers it may return                                               *)
random_below(n) == {x % n : x \in Accepted(n)}
==============================================================================
