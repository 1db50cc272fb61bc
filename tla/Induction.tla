------------------------------- MODULE Induction -------------------------------
(***************************************************************************)
(* Induction over the natural numbers, for the proofs about what a         *)
(* function that is defined recursively computes.  The library's theorem   *)
(* takes a predicate as a parameter, which the provers cannot instantiate; *)
(* a set can say the same, and that every set of natural numbers has a     *)
(* least element needs no parameter at all.                                *)
(***************************************************************************)
EXTENDS Naturals, WellFoundedInduction, TLAPS

LEMMA Least ==
    ASSUME NEW S, S \subseteq Nat, S # {}
    PROVE  \E n \in S : \A m \in S : n <= m
<1> DEFINE R == OpToRel(<, Nat)
<1>1. IsWellFoundedOn(R, Nat) BY NatLessThanWellFounded
<1>2. \A m, n \in Nat : <<m, n>> \in R <=> m < n BY DEF OpToRel
<1> HIDE DEF R
<1>3. PICK n \in S : \A m \in S : ~ (<<m, n>> \in R) BY <1>1, WFMin
<1>4. \A m \in S : m \in Nat /\ n \in Nat /\ ~(m < n) BY <1>2, <1>3
<1>5. QED BY <1>3, <1>4

(* A set of natural numbers that holds 0, and with a number the next one.  *)
LEMMA Induct ==
    ASSUME NEW S, 0 \in S, \A n \in Nat : n \in S => n + 1 \in S
    PROVE  Nat \subseteq S
<1> SUFFICES ASSUME Nat \ S # {} PROVE FALSE OBVIOUS
<1>1. PICK n \in Nat \ S : \A m \in Nat \ S : n <= m BY Least
<1>2. n - 1 \in Nat /\ n = (n - 1) + 1 BY <1>1
<1>3. n - 1 \in S BY <1>1, <1>2
<1>4. QED BY <1>1, <1>2, <1>3
===============================================================================
