--------------------------- MODULE Naturals_proofs ----------------------------
(* Induction over the natural numbers and over an interval of them, and what   *)
(* quotients and remainders are.  The library states induction for an operator *)
(* P(_), which the provers cannot supply; here the statement is the set T of   *)
(* the numbers it holds of.  The proofs about loops over bytes and over words  *)
(* rest on these.                                                              *)
EXTENDS Integers, TLAPS, NaturalsInduction, WellFoundedInduction

(* Every set of natural numbers that is not empty has a least element.         *)
LEMMA LeastNatural ==
  ASSUME NEW T, T \subseteq Nat, T # {}
  PROVE  \E m \in T : \A k \in T : m <= k
<1>1. PICK m \in T : \A k \in T : <<k, m>> \notin OpToRel(<, Nat)
  BY NatLessThanWellFounded, WFMin
<1>2. \A k \in T : ~(k < m)
  BY <1>1 DEF OpToRel
<1>. QED  BY <1>2

(* A set that has 0, and with each number the next one, has all of them.       *)
LEMMA NatInductive ==
  ASSUME NEW T, 0 \in T, \A i \in Nat : i \in T => i + 1 \in T
  PROVE  Nat \subseteq T
<1>. DEFINE Missing == Nat \ T
<1>1. SUFFICES ASSUME Missing # {} PROVE FALSE
  OBVIOUS
<1>2. Missing \subseteq Nat
  OBVIOUS
<1>. HIDE DEF Missing
<1>3. PICK m \in Missing : \A k \in Missing : m <= k
  BY <1>1, <1>2, LeastNatural
<1>. USE DEF Missing
<1>4. m # 0
  OBVIOUS
<1>5. m - 1 \in Nat /\ m - 1 \in T
  BY <1>3, <1>4
<1>. QED  BY <1>5

(* The same for an interval: the hypothesis is needed inside it only.          *)
LEMMA IntervalInductive ==
  ASSUME NEW m \in Int, NEW n \in Int, NEW T,
         m \in T, \A i \in m .. (n - 1) : i \in T => i + 1 \in T
  PROVE  m .. n \subseteq T
<1>. DEFINE Reached == {i \in Nat : m + i <= n => m + i \in T}
<1>1. 0 \in Reached
  OBVIOUS
<1>2. \A i \in Nat : i \in Reached => i + 1 \in Reached
  <2>. SUFFICES ASSUME NEW i \in Nat, i \in Reached, m + (i + 1) <= n
                PROVE  m + (i + 1) \in T
    OBVIOUS
  <2>1. m + i \in m .. (n - 1) /\ m + i \in T
    OBVIOUS
  <2>2. (m + i) + 1 \in T
    BY <2>1
  <2>. QED  BY <2>2
<1>. HIDE DEF Reached
<1>3. Nat \subseteq Reached
  BY <1>1, <1>2, NatInductive
<1>4. \A j \in m .. n : j - m \in Nat /\ m + (j - m) = j
  OBVIOUS
<1>. QED  BY <1>3, <1>4 DEF Reached

-------------------------------------------------------------------------------
(* Quotients and remainders                                                    *)

(* Every integer is a multiple of d and a remainder below d.                   *)
LEMMA Division ==
  ASSUME NEW d \in Nat, d > 0, NEW x \in Int
  PROVE  /\ x \div d \in Int /\ x % d \in 0..(d - 1)
         /\ x = (x \div d) * d + (x % d)
OBVIOUS

(* Quotient and remainder are unique.                                          *)
LEMMA DivisionUnique ==
  ASSUME NEW d \in Nat, d > 0, NEW q \in Int, NEW k \in Int,
         NEW r \in 0..(d - 1), NEW s \in 0..(d - 1),
         q * d + r = k * d + s
  PROVE  q = k /\ r = s
<1>1. CASE q = k
  BY <1>1
<1>2. CASE q > k
  <2>1. q - k >= 1
    BY <1>2
  <2>2. (q - k) * d >= d
    BY <2>1
  <2>3. (q - k) * d = q * d - k * d
    OBVIOUS
  <2>. QED  BY <2>2, <2>3
<1>3. CASE q < k
  <2>1. k - q >= 1
    BY <1>3
  <2>2. (k - q) * d >= d
    BY <2>1
  <2>3. (k - q) * d = k * d - q * d
    OBVIOUS
  <2>. QED  BY <2>2, <2>3
<1>. QED  BY <1>1, <1>2, <1>3

(* What is a quotient and a remainder in range is the quotient and remainder.  *)
LEMMA DivisionIs ==
  ASSUME NEW d \in Nat, d > 0, NEW x \in Int, NEW q \in Int, NEW r \in 0..(d - 1),
         x = q * d + r
  PROVE  x \div d = q /\ x % d = r
<1>. DEFINE k == x \div d
            s == x % d
<1>1. k \in Int /\ s \in 0..(d - 1) /\ x = k * d + s
  BY Division
<1>. HIDE DEF k, s
<1>2. k = q /\ s = r
  BY <1>1, DivisionUnique
<1>. QED  BY <1>2 DEF k, s
===============================================================================
