----------------------------- MODULE Arithmetic ----------------------------
(***************************************************************************)
(* Facts about numbers that the proofs about more than one component need:  *)
(* division, as of a bit's position into the byte it is in and its offset    *)
(* in that byte, and induction.                                            *)
(***************************************************************************)
EXTENDS Integers, WellFoundedInduction, TLAPS

(* Division by the width of a byte, or of a word.                           *)
LEMMA DivMod ==
  ASSUME NEW n \in Nat \ {0}, NEW p \in Int
  PROVE  /\ p \div n \in Int /\ p % n \in 0..(n - 1)
         /\ p = n * (p \div n) + (p % n)
         /\ p \in Nat => p \div n \in Nat
  OBVIOUS

LEMMA WholeAndRest ==
  ASSUME NEW n \in Nat \ {0}, NEW p \in Nat
  PROVE  p \div n \in Nat /\ p % n \in 0..(n - 1) /\ p = (p \div n) * n + (p % n)
  OBVIOUS

LEMMA LessByOne ==
  ASSUME NEW n \in Nat \ {0}, NEW q \in Int, NEW a \in Int, q > a
  PROVE  q * n >= a * n + n
<1>1. PICK d \in Nat : q = a + 1 + d
  <2>1. q - a - 1 \in Nat /\ q = a + 1 + (q - a - 1)
    OBVIOUS
  <2> QED BY <2>1
<1>2. q * n = a * n + n + d * n
  BY <1>1
<1>3. d * n \in Nat
  BY <1>1
<1> QED BY <1>2, <1>3

LEMMA SamePlace ==
  ASSUME NEW n \in Nat \ {0}, NEW q \in Int, NEW r \in 0..(n - 1),
         NEW a \in Int, NEW b \in 0..(n - 1), q * n + r = a * n + b
  PROVE  q = a /\ r = b
<1>1. ~(q > a)
  BY LessByOne
<1>2. ~(a > q)
  BY LessByOne
<1> QED BY <1>1, <1>2

LEMMA PlaceOf ==
  ASSUME NEW n \in Nat \ {0}, NEW q \in Int, NEW r \in 0..(n - 1)
  PROVE  (q * n + r) \div n = q /\ (q * n + r) % n = r
  BY DivMod, SamePlace

(* A multiple of n that is more than none is at least one.                  *)
LEMMA WholeBytes ==
  ASSUME NEW n \in Nat \ {0}, NEW p \in Nat, p % n = 0, p > 0
  PROVE  p >= n
<1>1. p = (p \div n) * n /\ p \div n \in Int
  BY DivMod
<1>2. p \div n > 0
  BY <1>1
<1> QED BY <1>1, <1>2, LessByOne

-----------------------------------------------------------------------------
(* Induction, over a set of numbers: the least one outside of it has a      *)
(* predecessor in it.                                                       *)
Less == {ss \in Nat \X Nat : ss[1] < ss[2]}

LEMMA Inductive ==
  ASSUME NEW S \in SUBSET Nat, 0 \in S, \A k \in S : k + 1 \in S
  PROVE  \A k \in Nat : k \in S
<1> SUFFICES ASSUME NEW k \in Nat, k \notin S PROVE FALSE
  OBVIOUS
<1>1. IsWellFoundedOn(Less, Nat)
  BY NatLessThanWellFounded DEF OpToRel, Less
<1>2. PICK n \in Nat \ S : \A m \in Nat \ S : ~(<<m, n>> \in Less)
  BY <1>1, WFMin
<1>3. n - 1 \in Nat /\ n - 1 < n
  BY <1>2
<1>4. n - 1 \in S
  BY <1>2, <1>3 DEF Less
<1>5. (n - 1) + 1 \in S /\ (n - 1) + 1 = n
  BY <1>4
<1> QED BY <1>2, <1>5
=============================================================================
