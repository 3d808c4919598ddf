----------------------------- MODULE Ecdh_proofs ------------------------------
(* Proofs about module Ecdh. First about ModInv, for every odd modulus below   *)
(* every even Top: the inverse keeps its registers reduced, keeps Bezout's     *)
(* equations, and halves the product of its two numbers with every iteration.  *)
(* Then, for every word size and every order of the curve: mmod_fast is the    *)
(* remainder by the modulus, every coordinate stays reduced, and the loops     *)
(* over words compute what the model's integers do. At last, for every curve   *)
(* of an odd order: the formulas of the point operations add the multiples of  *)
(* a point, so the ladder holds multiples and a call gives the right one.      *)
EXTENDS Ecdh, VliWords_proofs

-------------------------------------------------------------------------------
(* Remainders by p                                                             *)

(* Numbers that differ by a multiple of p have the same remainder.             *)
LEMMA SameRemainder ==
  ASSUME NEW x \in Int, NEW y \in Int, NEW k \in Int, x = y + k * p
  PROVE  x % p = y % p
<1>. DEFINE q == y \div p
            r == y % p
<1>1. p \in Nat /\ p > 0
  BY ModInvAssumption
<1>2. q \in Int /\ r \in 0..(p - 1) /\ y = q * p + r
  BY <1>1, Division
<1>. HIDE DEF q, r
<1>3. (q + k) * p = q * p + k * p
  BY <1>1, <1>2
<1>4. x = (q + k) * p + r /\ q + k \in Int
  BY <1>1, <1>2, <1>3
<1>5. x % p = r
  BY <1>1, <1>2, <1>4, DivisionIs
<1>. QED  BY <1>5 DEF r

(* Numbers with the same remainder differ by a multiple of p.                  *)
LEMMA DifferByMultiple ==
  ASSUME NEW x \in Int, NEW y \in Int, x % p = y % p
  PROVE  \E k \in Int : x = y + k * p
<1>. DEFINE q == x \div p
            s == y \div p
            r == y % p
<1>1. p \in Nat /\ p > 0
  BY ModInvAssumption
<1>2. q \in Int /\ s \in Int /\ r \in 0..(p - 1) /\ x = q * p + r /\ y = s * p + r
  BY <1>1, Division
<1>. HIDE DEF q, s, r
<1>3. (q - s) * p = q * p - s * p
  BY <1>1, <1>2
<1>4. x = y + (q - s) * p /\ q - s \in Int
  BY <1>1, <1>2, <1>3
<1>. QED  BY <1>4

(* Two may be cancelled from a congruence, as p is odd.                        *)
LEMMA CancelTwo ==
  ASSUME NEW x \in Int, NEW y \in Int, NEW m \in Int, 2 * x = 2 * y + m * p
  PROVE  x % p = y % p
<1>. DEFINE q == p \div 2
            t == m * q
            j == x - y - t
<1>1. p \in Nat /\ q \in Int /\ p = 2 * q + 1
  BY ModInvAssumption
<1>. HIDE DEF q
<1>2. t \in Int /\ m * p = 2 * t + m
  BY <1>1
<1>3. j \in Int /\ m = 2 * j
  <2>. HIDE DEF t
  <2>. QED  BY <1>2
<1>4. x = y + j * p
  <2>1. t = 2 * (j * q)
    <3>. HIDE DEF j
    <3>. QED  BY <1>1, <1>3
  <2>2. j * p = 2 * (j * q) + j
    <3>. HIDE DEF j
    <3>. QED  BY <1>1, <1>3
  <2>. HIDE DEF t
  <2>3. x - y = j + t
    BY <1>2
  <2>. QED  BY <1>2, <1>3, <2>1, <2>2, <2>3
<1>. HIDE DEF j
<1>. QED  BY <1>3, <1>4, SameRemainder

-------------------------------------------------------------------------------
(* Numbers                                                                     *)

Numbers == 0..(Top - 1)
Residues == 0..(p - 1)

(* The value and the carry of uECC_vli_add make the whole sum.                 *)
LEMMA AddCorrect ==
  ASSUME NEW x \in Numbers, NEW y \in Numbers
  PROVE  /\ Add(x, y).value \in Numbers /\ Add(x, y).carry \in {0, 1}
         /\ Add(x, y).value + Add(x, y).carry * Top = x + y
<1>. USE ModInvAssumption DEF Numbers, Add
<1>1. CASE x + y < Top
  <2>1. x + y = 0 * Top + (x + y) /\ x + y \in 0..(Top - 1)
    BY <1>1
  <2>2. (x + y) \div Top = 0 /\ (x + y) % Top = x + y
    BY <2>1, DivisionIs
  <2>. QED  BY <2>1, <2>2
<1>2. CASE x + y >= Top
  <2>1. x + y = 1 * Top + (x + y - Top) /\ x + y - Top \in 0..(Top - 1)
    BY <1>2
  <2>2. (x + y) \div Top = 1 /\ (x + y) % Top = x + y - Top
    BY <2>1, DivisionIs
  <2>. QED  BY <2>1, <2>2
<1>. QED  BY <1>1, <1>2

(* The value of uECC_vli_sub is the difference, or misses it by Top.           *)
LEMMA SubCorrect ==
  ASSUME NEW x \in Numbers, NEW y \in Numbers
  PROVE  Sub(x, y).value = IF x < y THEN x - y + Top ELSE x - y
<1>. USE ModInvAssumption DEF Numbers, Sub
<1>1. CASE x < y
  <2>1. x - y = (-1) * Top + (x - y + Top) /\ x - y + Top \in 0..(Top - 1)
    BY <1>1
  <2>2. (x - y) % Top = x - y + Top
    BY <2>1, DivisionIs
  <2>. QED  BY <1>1, <2>2
<1>2. CASE x >= y
  <2>1. x - y = 0 * Top + (x - y) /\ x - y \in 0..(Top - 1)
    BY <1>2
  <2>2. (x - y) % Top = x - y
    BY <2>1, DivisionIs
  <2>. QED  BY <1>2, <2>2
<1>. QED  BY <1>1, <1>2

(* vli_modInv_update halves modulo p, although x + p may overflow the words.   *)
LEMMA HalveCorrect ==
  ASSUME NEW x \in Residues
  PROVE  Halve(x) \in Residues /\ \E e \in {0, 1} : 2 * Halve(x) = x + e * p
<1>. USE ModInvAssumption DEF Residues, Even, ShiftRight
<1>1. CASE Even(x)
  <2>1. Halve(x) = x \div 2
    BY <1>1 DEF Halve
  <2>2. 2 * (x \div 2) = x
    BY <1>1
  <2>. QED  BY <2>1, <2>2
<1>2. CASE ~Even(x)
  <2>. DEFINE sum == Add(x, p)
  <2>1. /\ sum.value \in 0..(Top - 1) /\ sum.carry \in {0, 1}
        /\ sum.value + sum.carry * Top = x + p
    <3>1. x \in Numbers /\ p \in Numbers
      BY DEF Numbers
    <3>. QED  BY <3>1, AddCorrect DEF Numbers
  <2>2. Halve(x) = sum.value \div 2 + sum.carry * (Top \div 2)
    BY <1>2 DEF Halve
  <2>. HIDE DEF sum
  <2>3. (x + p) % 2 = 0 /\ 2 * (Top \div 2) = Top
    BY <1>2
  <2>4. 2 * Halve(x) = x + p
    <3>1. CASE sum.carry = 0
      BY <2>1, <2>2, <2>3, <3>1
    <3>2. CASE sum.carry = 1
      BY <2>1, <2>2, <2>3, <3>2
    <3>. QED  BY <2>1, <3>1, <3>2
  <2>5. Halve(x) \in Int
    BY <2>1, <2>2
  <2>. QED  BY <2>4, <2>5
<1>. QED  BY <1>1, <1>2

(* The half of a difference: its carry is lost, and comes back as a borrow.    *)
LEMMA HalveDifferenceCorrect ==
  ASSUME NEW x \in Residues, NEW y \in Residues
  PROVE  /\ HalveDifference(x, y) \in Residues
         /\ \E e \in {0, 1, 2} : 2 * HalveDifference(x, y) = x - y + e * p
<1>. DEFINE minuend == IF x < y THEN Add(x, p).value ELSE x
            d == Sub(minuend, y).value
<1>. USE ModInvAssumption DEF Residues, Numbers
<1>1. d = IF x < y THEN x - y + p ELSE x - y
  <2>1. CASE x >= y
    BY <2>1, SubCorrect
  <2>2. CASE x < y
    <3>1. /\ Add(x, p).value \in Numbers /\ Add(x, p).carry \in {0, 1}
          /\ Add(x, p).value + Add(x, p).carry * Top = x + p
      <4>1. x \in Numbers /\ p \in Numbers
        OBVIOUS
      <4>. HIDE DEF Numbers
      <4>. QED  BY <4>1, AddCorrect
    <3>. DEFINE value == Add(x, p).value
                carry == Add(x, p).carry
    <3>. HIDE DEF value, carry
    <3>2. value \in Numbers /\ (value = x + p \/ value = x + p - Top)
      BY <3>1 DEF value, carry
    <3>3. Sub(value, y).value = IF value < y THEN value - y + Top ELSE value - y
      BY <3>2, SubCorrect
    <3>4. minuend = value
      BY <2>2 DEF value
    <3>. QED  BY <2>2, <3>2, <3>3, <3>4
  <2>. QED  BY <2>1, <2>2
<1>2. HalveDifference(x, y) = Halve(d)
  BY DEF HalveDifference
<1>. HIDE DEF d
<1>3. d \in Residues
  BY <1>1
<1>4. Halve(d) \in Residues /\ \E e \in {0, 1} : 2 * Halve(d) = d + e * p
  BY <1>3, HalveCorrect
<1>. QED  BY <1>1, <1>2, <1>3, <1>4

-------------------------------------------------------------------------------
(* The loop                                                                    *)

(* The registers of a loop that has been entered with a number to invert.      *)
Entered == input # 0 /\ RegistersReduced

(* A coefficient that is halved goes on belonging to the number that is.       *)
LEMMA HalvedCoefficient ==
  ASSUME NEW i \in Int, NEW x \in Int, NEW c \in Residues, (c * i) % p = x % p, Even(x)
  PROVE  (Halve(c) * i) % p = (x \div 2) % p
<1>. DEFINE w == Halve(c)
            y == x \div 2
<1>1. PICK e \in {0, 1} : 2 * w = c + e * p
  BY HalveCorrect
<1>2. w \in Int /\ c \in Int /\ p \in Int
  BY HalveCorrect, ModInvAssumption DEF Residues
<1>3. c * i \in Int
  BY <1>2
<1>4. PICK k \in Int : c * i = x + k * p
  BY <1>3, DifferByMultiple
<1>5. y \in Int /\ x = 2 * y
  BY DEF Even
<1>. HIDE DEF w, y
<1>6. 2 * (w * i) = c * i + (e * p) * i
  <2>1. 2 * (w * i) = (2 * w) * i
    BY <1>2
  <2>2. (c + e * p) * i = c * i + (e * p) * i
    BY <1>2
  <2>. QED  BY <1>1, <2>1, <2>2
<1>7. k * p + (e * p) * i = (k + e * i) * p
  BY <1>2
<1>8. 2 * (w * i) = 2 * y + (k + e * i) * p
  BY <1>2, <1>3, <1>4, <1>5, <1>6, <1>7
<1>9. w * i \in Int /\ k + e * i \in Int
  BY <1>2
<1>10. (w * i) % p = y % p
  BY <1>5, <1>8, <1>9, CancelTwo
<1>. QED  BY <1>10 DEF w, y

(* The same for the half of a difference of two numbers.                       *)
LEMMA HalvedDifference ==
  ASSUME NEW i \in Int, NEW x \in Int, NEW y \in Int, Even(x - y),
         NEW c \in Residues, (c * i) % p = x % p,
         NEW d \in Residues, (d * i) % p = y % p
  PROVE  (HalveDifference(c, d) * i) % p = ((x - y) \div 2) % p
<1>. DEFINE w == HalveDifference(c, d)
            z == (x - y) \div 2
<1>1. PICK e \in {0, 1, 2} : 2 * w = c - d + e * p
  BY HalveDifferenceCorrect
<1>2. w \in Int /\ c \in Int /\ d \in Int /\ p \in Int
  BY HalveDifferenceCorrect, ModInvAssumption DEF Residues
<1>3. c * i \in Int /\ d * i \in Int
  BY <1>2
<1>4. PICK k \in Int : c * i = x + k * p
  BY <1>3, DifferByMultiple
<1>5. PICK l \in Int : d * i = y + l * p
  BY <1>3, DifferByMultiple
<1>6. z \in Int /\ x - y = 2 * z
  BY DEF Even
<1>. HIDE DEF w, z
<1>7. 2 * (w * i) = c * i - d * i + (e * p) * i
  <2>1. 2 * (w * i) = (2 * w) * i
    BY <1>2
  <2>2. (c - d + e * p) * i = c * i - d * i + (e * p) * i
    BY <1>2
  <2>. QED  BY <1>1, <2>1, <2>2
<1>8. k * p - l * p + (e * p) * i = (k - l + e * i) * p
  BY <1>2
<1>9. 2 * (w * i) = 2 * z + (k - l + e * i) * p
  <2>1. k * p \in Int /\ l * p \in Int /\ (e * p) * i \in Int
    BY <1>2
  <2>. QED  BY <1>3, <1>4, <1>5, <1>6, <1>7, <1>8, <2>1
<1>10. w * i \in Int /\ k - l + e * i \in Int
  BY <1>2
<1>11. (w * i) % p = z % p
  BY <1>6, <1>9, <1>10, CancelTwo
<1>. QED  BY <1>11 DEF w, z

(* The difference of two odd numbers is even, and the words hold it.           *)
LEMMA OddDifference ==
  ASSUME NEW x \in 1..p, NEW y \in 1..p, x > y, ~Even(x), ~Even(y)
  PROVE  /\ Sub(x, y).value = x - y /\ Even(x - y)
         /\ (x - y) \div 2 \in 1..(p - 1) /\ 2 * ((x - y) \div 2) = x - y
<1>1. x \in Numbers /\ y \in Numbers
  BY ModInvAssumption DEF Numbers
<1>2. Sub(x, y).value = x - y
  BY <1>1, SubCorrect
<1>3. Even(x - y)
  BY DEF Even
<1>. QED  BY <1>2, <1>3, ModInvAssumption DEF Even

(* Every iteration keeps the registers reduced and brings nothing to zero.     *)
LEMMA StepReduced == ASSUME Entered, InversionStep PROVE Entered'
<1>. USE ModInvAssumption DEF Entered, RegistersReduced, ShiftRight
<1>1. CASE HalveA
  <2>1. Halve(u) \in Residues
    BY HalveCorrect DEF Residues
  <2>2. a \div 2 \in 1..(p - 1)
    BY <1>1 DEF HalveA, Even
  <2>. QED  BY <1>1, <2>1, <2>2 DEF HalveA, Residues
<1>2. CASE HalveB
  <2>1. Halve(v) \in Residues
    BY HalveCorrect DEF Residues
  <2>2. b \div 2 \in 1..p
    BY <1>2 DEF HalveB, Even
  <2>. QED  BY <1>2, <2>1, <2>2 DEF HalveB, Residues
<1>3. CASE SubtractB
  <2>1. HalveDifference(u, v) \in Residues
    BY HalveDifferenceCorrect DEF Residues
  <2>2. Sub(a, b).value \div 2 \in 1..(p - 1)
    BY <1>3, OddDifference DEF SubtractB
  <2>. QED  BY <1>3, <2>1, <2>2 DEF SubtractB, Residues
<1>4. CASE SubtractA
  <2>1. HalveDifference(v, u) \in Residues
    BY HalveDifferenceCorrect DEF Residues
  <2>2. Sub(b, a).value \div 2 \in 1..(p - 1)
    BY <1>4, OddDifference, SMTT(30) DEF SubtractA
  <2>. QED  BY <1>4, <2>1, <2>2 DEF SubtractA, Residues
<1>. QED  BY <1>1, <1>2, <1>3, <1>4 DEF InversionStep

(* Every iteration keeps both of Bezout's equations.                           *)
LEMMA StepBezout == ASSUME Entered, BezoutKept, InversionStep PROVE BezoutKept'
<1>1. /\ input \in Int /\ u \in Residues /\ v \in Residues
      /\ a \in 1..p /\ b \in 1..p /\ a \in Int /\ b \in Int
  BY ModInvAssumption DEF Entered, RegistersReduced, Residues
<1>. USE DEF BezoutKept, ShiftRight
<1>2. CASE HalveA
  BY <1>1, <1>2, HalvedCoefficient DEF HalveA
<1>3. CASE HalveB
  BY <1>1, <1>3, HalvedCoefficient DEF HalveB
<1>4. CASE SubtractB
  <2>1. Sub(a, b).value = a - b /\ Even(a - b)
    BY <1>1, <1>4, OddDifference DEF SubtractB
  <2>. QED  BY <1>1, <1>4, <2>1, HalvedDifference DEF SubtractB
<1>5. CASE SubtractA
  <2>1. Sub(b, a).value = b - a /\ Even(b - a)
    BY <1>1, <1>5, OddDifference DEF SubtractA
  <2>. QED  BY <1>1, <1>5, <2>1, HalvedDifference DEF SubtractA
<1>. QED  BY <1>2, <1>3, <1>4, <1>5 DEF InversionStep

(* Every iteration at least halves the product of the two numbers.             *)
LEMMA StepHalves == ASSUME Entered, InversionStep PROVE 2 * a' * b' <= a * b
<1>1. a \in Nat /\ b \in Nat /\ a \in 1..p /\ b \in 1..p
  BY ModInvAssumption DEF Entered, RegistersReduced
<1>. USE DEF ShiftRight
<1>2. CASE HalveA
  <2>1. 2 * a' = a /\ b' = b
    BY <1>1, <1>2 DEF HalveA, Even
  <2>. QED  BY <1>1, <2>1
<1>3. CASE HalveB
  <2>1. b' \in Nat /\ b = 2 * b' /\ a' = a
    BY <1>1, <1>3 DEF HalveB, Even
  <2>2. 2 * a' * b' = a * (2 * b')
    BY <1>1, <2>1
  <2>3. a * (2 * b') = a * b
    BY ONLY <2>1, Zenon
  <2>4. a * b \in Int
    BY <1>1
  <2>. QED  BY ONLY <2>2, <2>3, <2>4
<1>4. CASE SubtractB
  <2>1. 2 * a' = a - b /\ b' = b
    BY <1>1, <1>4, OddDifference DEF SubtractB
  <2>2. (a - b) * b = a * b - b * b /\ b * b >= 0
    BY <1>1
  <2>. QED  BY <1>1, <2>1, <2>2
<1>5. CASE SubtractA
  <2>1. b' \in Nat /\ 2 * b' = b - a /\ a' = a
    BY <1>1, <1>5, OddDifference DEF SubtractA
  <2>2. 2 * a' * b' = a * (2 * b')
    BY <1>1, <2>1
  <2>3. a * (2 * b') = a * (b - a)
    BY ONLY <2>1, Zenon
  <2>4. a * (b - a) = a * b - a * a /\ a * a >= 0
    BY <1>1
  <2>5. a * b \in Int /\ a * a \in Int
    BY <1>1
  <2>. QED  BY ONLY <2>2, <2>3, <2>4, <2>5
<1>. QED  BY <1>2, <1>3, <1>4, <1>5 DEF InversionStep

(* The loop starts with 1 * input = a and 0 * input = b modulo p.              *)
LEMMA StartsBezout == ASSUME InversionInit PROVE Entered /\ BezoutKept
<1>. USE ModInvAssumption DEF InversionInit
<1>1. Entered
  BY DEF Entered, RegistersReduced
<1>2. (1 * input) % p = input % p
  BY <1>1 DEF Entered, RegistersReduced
<1>3. (0 * input) % p = p % p
  <2>1. p % p = 0
    <3>1. p = 1 * p + 0
      OBVIOUS
    <3>. QED  BY <3>1, DivisionIs
  <2>2. 0 % p = 0
    <3>1. 0 = 0 * p + 0
      OBVIOUS
    <3>. QED  BY <3>1, DivisionIs
  <2>. QED  BY <2>1, <2>2
<1>. QED  BY <1>1, <1>2, <1>3 DEF BezoutKept

-------------------------------------------------------------------------------
(* Divisors                                                                    *)

Divides(d, x) == \E k \in Int : x = d * k
PrimeModulus == \A d \in 1..p : Divides(d, p) => d \in {1, p}

(* What divides both numbers of the loop divides what it started with.         *)
DivisorsKept ==
  \A d \in 1..p : Divides(d, a) /\ Divides(d, b) => Divides(d, p) /\ Divides(d, input)

LEMMA DividesDouble ==
  ASSUME NEW d \in Int, NEW x \in Int, Divides(d, x)
  PROVE  Divides(d, 2 * x)
<1>1. PICK k \in Int : x = d * k
  BY DEF Divides
<1>2. 2 * x = d * (2 * k) /\ 2 * k \in Int
  BY <1>1
<1>. QED  BY <1>2 DEF Divides

LEMMA DividesSum ==
  ASSUME NEW d \in Int, NEW x \in Int, NEW y \in Int, Divides(d, x), Divides(d, y)
  PROVE  Divides(d, x + y)
<1>1. PICK k \in Int : x = d * k
  BY DEF Divides
<1>2. PICK l \in Int : y = d * l
  BY DEF Divides
<1>3. x + y = d * (k + l) /\ k + l \in Int
  BY <1>1, <1>2
<1>. QED  BY <1>3 DEF Divides

(* An iteration brings in no new common divisor.                               *)
LEMMA StepDivisors ==
  ASSUME Entered, DivisorsKept, InversionStep
  PROVE  DivisorsKept'
<1>1. a \in 1..p /\ b \in 1..p /\ a \in Int /\ b \in Int /\ p \in Int
  BY ModInvAssumption DEF Entered, RegistersReduced
<1>2. a' \in Int /\ b' \in Int /\ input' = input
  BY StepReduced, ModInvAssumption
     DEF Entered, RegistersReduced, InversionStep, HalveA, HalveB, SubtractA, SubtractB
<1>. SUFFICES ASSUME NEW d \in 1..p, Divides(d, a'), Divides(d, b')
              PROVE  Divides(d, a) /\ Divides(d, b)
  BY <1>2, Zenon DEF DivisorsKept
<1>3. d \in Int
  BY <1>1
<1>4. Divides(d, 2 * a') /\ Divides(d, 2 * b')
  BY <1>2, <1>3, DividesDouble
<1>5. CASE HalveA
  <2>1. 2 * a' = a /\ b' = b
    BY <1>1, <1>5 DEF HalveA, Even, ShiftRight
  <2>. QED  BY <1>4, <2>1
<1>6. CASE HalveB
  <2>1. 2 * b' = b /\ a' = a
    BY <1>1, <1>6 DEF HalveB, Even, ShiftRight
  <2>. QED  BY <1>4, <2>1
<1>7. CASE SubtractB
  <2>1. 2 * a' + b' = a /\ b' = b
    BY <1>1, <1>7, OddDifference DEF SubtractB, ShiftRight
  <2>2. Divides(d, 2 * a' + b')
    BY <1>2, <1>3, <1>4, DividesSum
  <2>. QED  BY <2>1, <2>2
<1>8. CASE SubtractA
  <2>1. 2 * b' + a' = b /\ a' = a
    BY <1>1, <1>8, OddDifference DEF SubtractA, ShiftRight
  <2>2. Divides(d, 2 * b' + a')
    BY <1>2, <1>3, <1>4, DividesSum
  <2>. QED  BY <2>1, <2>2
<1>. QED  BY <1>5, <1>6, <1>7, <1>8 DEF InversionStep

(* Two numbers that have met divide themselves, so the modulus and the input.  *)
LEMMA MetAtOne ==
  ASSUME PrimeModulus, Entered, BezoutKept, DivisorsKept
  PROVE  InverseFound
<1>. SUFFICES ASSUME a = b, input # 0
              PROVE  (u * input) % p = 1
  BY DEF InverseFound, InversionEnded
<1>1. a \in 1..(p - 1) /\ a \in 1..p /\ input \in 1..(p - 1) /\ p \in Nat /\ 2 < p
  BY ModInvAssumption DEF Entered, RegistersReduced
<1>2. Divides(a, a) /\ Divides(a, b)
  <2>1. a = a * 1 /\ 1 \in Int
    BY <1>1
  <2>. QED  BY <2>1 DEF Divides
<1>3. Divides(a, p)
  BY <1>1, <1>2 DEF DivisorsKept
<1>4. a = 1
  <2>1. a \in {1, p}
    BY <1>1, <1>3 DEF PrimeModulus
  <2>. QED  BY <1>1, <2>1
<1>5. 1 % p = 1
  <2>1. 1 = 0 * p + 1
    BY <1>1
  <2>. QED  BY <1>1, <2>1, DivisionIs
<1>. QED  BY <1>4, <1>5 DEF BezoutKept

LEMMA StartsDivisors ==
  ASSUME a = input, b = p
  PROVE  DivisorsKept
BY DEF DivisorsKept

-------------------------------------------------------------------------------
(* Theorems                                                                    *)

(* No iteration of uECC_vli_modInv overflows the words, leaves a coefficient   *)
(* unreduced or brings one of the two numbers to zero.                         *)
THEOREM InversionReduced == InversionSpec => []RegistersReduced
<1>1. InversionInit => Entered
  BY StartsBezout
<1>2. Entered /\ [InversionStep]_registers => Entered'
  <2>. SUFFICES ASSUME Entered, [InversionStep]_registers PROVE Entered'
    OBVIOUS
  <2>1. CASE UNCHANGED registers
    BY <2>1 DEF registers, Entered, RegistersReduced
  <2>. QED  BY <2>1, StepReduced
<1>3. Entered => RegistersReduced
  BY DEF Entered
<1>. QED  BY <1>1, <1>2, <1>3, PTL DEF InversionSpec

(* The coefficients always fit: when the two numbers meet at 1, the result of  *)
(* uECC_vli_modInv is the inverse of its input.                                *)
THEOREM InversionBezout == InversionSpec => []BezoutKept
<1>. DEFINE Inductive == Entered /\ BezoutKept
<1>1. InversionInit => Inductive
  BY StartsBezout
<1>2. Inductive /\ [InversionStep]_registers => Inductive'
  <2>. SUFFICES ASSUME Inductive, [InversionStep]_registers PROVE Inductive'
    OBVIOUS
  <2>1. CASE UNCHANGED registers
    BY <2>1 DEF registers, Entered, RegistersReduced, BezoutKept
  <2>. QED  BY <2>1, StepReduced, StepBezout
<1>3. Inductive => BezoutKept
  OBVIOUS
<1>. QED  BY <1>1, <1>2, <1>3, PTL DEF InversionSpec

(* The loop of uECC_vli_modInv makes progress with every iteration.            *)
THEOREM InversionProgress == InversionSpec => ProductHalves
<1>1. InversionInit => Entered
  BY StartsBezout
<1>2. Entered /\ [InversionStep]_registers => Entered'
  <2>. SUFFICES ASSUME Entered, [InversionStep]_registers PROVE Entered'
    OBVIOUS
  <2>1. CASE UNCHANGED registers
    BY <2>1 DEF registers, Entered, RegistersReduced
  <2>. QED  BY <2>1, StepReduced
<1>3. Entered => [InversionStep => 2 * a' * b' <= a * b]_registers
  BY StepHalves
<1>. QED  BY <1>1, <1>2, <1>3, PTL DEF InversionSpec, ProductHalves

(* For every prime modulus uECC_vli_modInv computes the inverse: its two       *)
(* numbers meet at their greatest common divisor, which is 1.                  *)
THEOREM InversionIsInverse ==
  ASSUME PrimeModulus
  PROVE  InversionSpec => []InverseFound
<1>. DEFINE Inductive == Entered /\ BezoutKept /\ DivisorsKept
<1>1. InversionInit => Inductive
  BY StartsBezout, StartsDivisors DEF InversionInit
<1>2. Inductive /\ [InversionStep]_registers => Inductive'
  <2>. SUFFICES ASSUME Inductive, [InversionStep]_registers PROVE Inductive'
    OBVIOUS
  <2>1. CASE UNCHANGED registers
    BY <2>1 DEF registers, Entered, RegistersReduced, BezoutKept, DivisorsKept
  <2>. QED  BY <2>1, StepReduced, StepBezout, StepDivisors
<1>3. Inductive => InverseFound
  BY MetAtOne
<1>. QED  BY <1>1, <1>2, <1>3, PTL DEF InversionSpec

-------------------------------------------------------------------------------
(* Numbers of eight words                                                      *)

(* What the word at a position counts for, and the two ends of the range.      *)
Power(i) == BasePower[i + 1]

LEMMA BasePowers ==
  /\ Base \in Nat /\ Base >= 2 /\ Power(0) = 1
  /\ \A i \in 0..15 : Power(i) \in Nat /\ Power(i) >= 1
  /\ \A i \in 0..14 : Power(i + 1) = Base * Power(i)
  /\ Power(8) = Top
<1>1. Base \in Nat /\ Base >= 2 /\ BasePower[9] = Top
  BY EcdhAssumption
<1>2. 15 \in Nat /\ Base >= 1
  BY <1>1
<1>3. /\ BasePower[1] = 1 /\ \A i \in 1..15 : BasePower[i + 1] = Base * BasePower[i]
      /\ \A i \in 1..(15 + 1) : BasePower[i] \in Nat /\ BasePower[i] >= 1
  BY <1>1, <1>2, PowersProperties, PowersPositive DEF BasePower
<1>4. ASSUME NEW i \in 0..15 PROVE BasePower[i + 1] \in Nat /\ BasePower[i + 1] >= 1
  BY <1>3
<1>5. ASSUME NEW i \in 0..14 PROVE BasePower[(i + 1) + 1] = Base * BasePower[i + 1]
  BY <1>3
<1>6. 0 + 1 = 1 /\ 8 + 1 = 9
  OBVIOUS
<1>. QED  BY <1>1, <1>3, <1>4, <1>5, <1>6 DEF Power

(* The same, one by one.                                                       *)
LEMMA EachPower ==
  /\ Power(0) \in Int /\ Power(1) \in Int /\ Power(2) \in Int /\ Power(3) \in Int
  /\ Power(4) \in Int /\ Power(5) \in Int /\ Power(6) \in Int /\ Power(7) \in Int
  /\ Power(8) \in Int /\ Power(9) \in Int /\ Power(10) \in Int /\ Power(11) \in Int
  /\ Power(12) \in Int /\ Power(13) \in Int /\ Power(14) \in Int /\ Power(15) \in Int
  /\ Power(1) = Base * Power(0) /\ Power(2) = Base * Power(1) /\ Power(3) = Base * Power(2)
  /\ Power(4) = Base * Power(3) /\ Power(5) = Base * Power(4) /\ Power(6) = Base * Power(5)
  /\ Power(7) = Base * Power(6) /\ Power(8) = Base * Power(7) /\ Power(9) = Base * Power(8)
  /\ Power(10) = Base * Power(9) /\ Power(11) = Base * Power(10) /\ Power(12) = Base * Power(11)
  /\ Power(13) = Base * Power(12) /\ Power(14) = Base * Power(13) /\ Power(15) = Base * Power(14)
<1>1. ASSUME NEW i \in 0..15 PROVE Power(i) \in Int
  BY BasePowers
<1>2. ASSUME NEW i \in 0..14 PROVE Power(i + 1) = Base * Power(i)
  BY BasePowers
<1>3. /\ Power(0 + 1) = Base * Power(0) /\ Power(1 + 1) = Base * Power(1) /\ Power(2 + 1) = Base * Power(2)
      /\ Power(3 + 1) = Base * Power(3) /\ Power(4 + 1) = Base * Power(4) /\ Power(5 + 1) = Base * Power(5)
      /\ Power(6 + 1) = Base * Power(6) /\ Power(7 + 1) = Base * Power(7) /\ Power(8 + 1) = Base * Power(8)
      /\ Power(9 + 1) = Base * Power(9) /\ Power(10 + 1) = Base * Power(10) /\ Power(11 + 1) = Base * Power(11)
      /\ Power(12 + 1) = Base * Power(12) /\ Power(13 + 1) = Base * Power(13) /\ Power(14 + 1) = Base * Power(14)
  BY <1>2
<1>4. /\ 0 + 1 = 1 /\ 1 + 1 = 2 /\ 2 + 1 = 3 /\ 3 + 1 = 4 /\ 4 + 1 = 5
      /\ 5 + 1 = 6 /\ 6 + 1 = 7 /\ 7 + 1 = 8 /\ 8 + 1 = 9 /\ 9 + 1 = 10
      /\ 10 + 1 = 11 /\ 11 + 1 = 12 /\ 12 + 1 = 13 /\ 13 + 1 = 14 /\ 14 + 1 = 15
  OBVIOUS
<1>. QED  BY <1>1, <1>3, <1>4

(* The recursive function inside Number.                                       *)
NumberFrom(words) ==
  CHOOSE g : g = [i \in 1..9 |-> IF i = 9 THEN 0 ELSE words[i] + Base * g[i + 1]]

LEMMA NumberUnrolled ==
  ASSUME NEW words
  PROVE  Number(words) =
           words[1] + Base * (words[2] + Base * (words[3] + Base * (words[4] + Base * (
           words[5] + Base * (words[6] + Base * (words[7] + Base * (words[8] + Base * 0)))))))
<1>. DEFINE w8 == words[8] + Base * 0
            w7 == words[7] + Base * w8
            w6 == words[6] + Base * w7
            w5 == words[5] + Base * w6
            w4 == words[4] + Base * w5
            w3 == words[3] + Base * w4
            w2 == words[2] + Base * w3
            w1 == words[1] + Base * w2
            h == <<w1, w2, w3, w4, w5, w6, w7, w8, 0>>
            g == NumberFrom(words)
<1>1. /\ w8 = words[8] + Base * 0 /\ w7 = words[7] + Base * w8 /\ w6 = words[6] + Base * w7
      /\ w5 = words[5] + Base * w6 /\ w4 = words[4] + Base * w5 /\ w3 = words[3] + Base * w4
      /\ w2 = words[2] + Base * w3 /\ w1 = words[1] + Base * w2
  OBVIOUS
<1>. HIDE DEF w1, w2, w3, w4, w5, w6, w7, w8
<1>2. h = [i \in 1..9 |-> h[i]]
  OBVIOUS
<1>3. \A i \in 1..9 : h[i] = IF i = 9 THEN 0 ELSE words[i] + Base * h[i + 1]
  BY <1>1
<1>. HIDE DEF h
<1>4. h = [i \in 1..9 |-> IF i = 9 THEN 0 ELSE words[i] + Base * h[i + 1]]
  BY <1>2, <1>3
<1>5. g = [i \in 1..9 |-> IF i = 9 THEN 0 ELSE words[i] + Base * g[i + 1]]
  BY <1>4, Zenon DEF NumberFrom
<1>6. Number(words) = g[1]
  BY DEF Number, NumberFrom
<1>. HIDE DEF g
<1>7. /\ g[9] = 0 /\ g[8] = words[8] + Base * g[9] /\ g[7] = words[7] + Base * g[8]
      /\ g[6] = words[6] + Base * g[7] /\ g[5] = words[5] + Base * g[6] /\ g[4] = words[4] + Base * g[5]
      /\ g[3] = words[3] + Base * g[4] /\ g[2] = words[2] + Base * g[3] /\ g[1] = words[1] + Base * g[2]
  BY <1>5
<1>. QED  BY <1>6, <1>7, Zenon

(* A word and the words above it, times what the word's position counts for.   *)
Distributes(w, s, e) == (w + Base * s) * e = w * e + s * (Base * e)

(* A number is the sum of its words, each times what its position counts for.  *)
LEMMA NumberIsSum ==
  ASSUME NEW w1 \in Int, NEW w2 \in Int, NEW w3 \in Int, NEW w4 \in Int,
         NEW w5 \in Int, NEW w6 \in Int, NEW w7 \in Int, NEW w8 \in Int
  PROVE  Number(<<w1, w2, w3, w4, w5, w6, w7, w8>>) =
           w1 * Power(0) + w2 * Power(1) + w3 * Power(2) + w4 * Power(3)
             + w5 * Power(4) + w6 * Power(5) + w7 * Power(6) + w8 * Power(7)
<1>1. /\ Power(0) = 1 /\ Power(1) = Base * Power(0) /\ Power(2) = Base * Power(1)
      /\ Power(3) = Base * Power(2) /\ Power(4) = Base * Power(3) /\ Power(5) = Base * Power(4)
      /\ Power(6) = Base * Power(5) /\ Power(7) = Base * Power(6)
  BY BasePowers, EachPower
<1>2. Base \in Int
  BY BasePowers
<1>3. /\ Power(0) \in Int /\ Power(1) \in Int /\ Power(2) \in Int /\ Power(3) \in Int
      /\ Power(4) \in Int /\ Power(5) \in Int /\ Power(6) \in Int /\ Power(7) \in Int
  BY EachPower
<1>4. \A w \in Int, s \in Int, e \in Int : Distributes(w, s, e)
  <2>. SUFFICES ASSUME NEW w \in Int, NEW s \in Int, NEW e \in Int
                PROVE  (w + Base * s) * e = w * e + s * (Base * e)
    BY DEF Distributes
  <2>1. (w + Base * s) * e = w * e + (Base * s) * e
    BY <1>2
  <2>2. (Base * s) * e = s * (Base * e)
    BY <1>2
  <2>. QED  BY <2>1, <2>2
<1>. DEFINE s8 == w8 + Base * 0
            s7 == w7 + Base * s8
            s6 == w6 + Base * s7
            s5 == w5 + Base * s6
            s4 == w4 + Base * s5
            s3 == w3 + Base * s4
            s2 == w2 + Base * s3
            s1 == w1 + Base * s2
<1>5. s8 \in Int /\ s8 = w8
  BY <1>2
<1>6. s7 \in Int
  BY <1>2, <1>5
<1>7. s6 \in Int
  BY <1>2, <1>6
<1>8. s5 \in Int
  BY <1>2, <1>7
<1>9. s4 \in Int
  BY <1>2, <1>8
<1>10. s3 \in Int
  BY <1>2, <1>9
<1>11. s2 \in Int
  BY <1>2, <1>10
<1>12. s1 \in Int
  BY <1>2, <1>11
<1>13. Number(<<w1, w2, w3, w4, w5, w6, w7, w8>>) = s1
  <2>. DEFINE words == <<w1, w2, w3, w4, w5, w6, w7, w8>>
  <2>1. /\ words[1] = w1 /\ words[2] = w2 /\ words[3] = w3 /\ words[4] = w4
        /\ words[5] = w5 /\ words[6] = w6 /\ words[7] = w7 /\ words[8] = w8
    OBVIOUS
  <2>. HIDE DEF words
  <2>2. Number(words) =
           words[1] + Base * (words[2] + Base * (words[3] + Base * (words[4] + Base * (
           words[5] + Base * (words[6] + Base * (words[7] + Base * (words[8] + Base * 0)))))))
    BY NumberUnrolled
  <2>3. Number(words) = s1
    BY <2>1, <2>2, Zenon
  <2>. QED  BY <2>3 DEF words
<1>14. /\ s1 = w1 + Base * s2 /\ s2 = w2 + Base * s3 /\ s3 = w3 + Base * s4 /\ s4 = w4 + Base * s5
       /\ s5 = w5 + Base * s6 /\ s6 = w6 + Base * s7 /\ s7 = w7 + Base * s8
  OBVIOUS
<1>. HIDE DEF s1, s2, s3, s4, s5, s6, s7, s8
<1>15. s1 * Power(0) = s1
  BY <1>1, <1>12
<1>16. /\ s1 * Power(0) = w1 * Power(0) + s2 * Power(1)
       /\ s2 * Power(1) = w2 * Power(1) + s3 * Power(2)
       /\ s3 * Power(2) = w3 * Power(2) + s4 * Power(3)
       /\ s4 * Power(3) = w4 * Power(3) + s5 * Power(4)
       /\ s5 * Power(4) = w5 * Power(4) + s6 * Power(5)
       /\ s6 * Power(5) = w6 * Power(5) + s7 * Power(6)
       /\ s7 * Power(6) = w7 * Power(6) + s8 * Power(7)
  <2>1. s1 * Power(0) = w1 * Power(0) + s2 * Power(1)
    <3>1. Distributes(w1, s2, Power(0))
      BY <1>3, <1>4, <1>11, Zenon
    <3>. QED  BY <1>1, <1>14, <3>1, Zenon DEF Distributes
  <2>2. s2 * Power(1) = w2 * Power(1) + s3 * Power(2)
    <3>1. Distributes(w2, s3, Power(1))
      BY <1>3, <1>4, <1>10, Zenon
    <3>. QED  BY <1>1, <1>14, <3>1, Zenon DEF Distributes
  <2>3. s3 * Power(2) = w3 * Power(2) + s4 * Power(3)
    <3>1. Distributes(w3, s4, Power(2))
      BY <1>3, <1>4, <1>9, Zenon
    <3>. QED  BY <1>1, <1>14, <3>1, Zenon DEF Distributes
  <2>4. s4 * Power(3) = w4 * Power(3) + s5 * Power(4)
    <3>1. Distributes(w4, s5, Power(3))
      BY <1>3, <1>4, <1>8, Zenon
    <3>. QED  BY <1>1, <1>14, <3>1, Zenon DEF Distributes
  <2>5. s5 * Power(4) = w5 * Power(4) + s6 * Power(5)
    <3>1. Distributes(w5, s6, Power(4))
      BY <1>3, <1>4, <1>7, Zenon
    <3>. QED  BY <1>1, <1>14, <3>1, Zenon DEF Distributes
  <2>6. s6 * Power(5) = w6 * Power(5) + s7 * Power(6)
    <3>1. Distributes(w6, s7, Power(5))
      BY <1>3, <1>4, <1>6, Zenon
    <3>. QED  BY <1>1, <1>14, <3>1, Zenon DEF Distributes
  <2>7. s7 * Power(6) = w7 * Power(6) + s8 * Power(7)
    <3>1. Distributes(w7, s8, Power(6))
      BY <1>3, <1>4, <1>5, Zenon
    <3>. QED  BY <1>1, <1>14, <3>1, Zenon DEF Distributes
  <2>. QED  BY <2>1, <2>2, <2>3, <2>4, <2>5, <2>6, <2>7
<1>17. /\ w1 * Power(0) \in Int /\ w2 * Power(1) \in Int /\ w3 * Power(2) \in Int /\ w4 * Power(3) \in Int
       /\ w5 * Power(4) \in Int /\ w6 * Power(5) \in Int /\ w7 * Power(6) \in Int /\ w8 * Power(7) \in Int
  BY <1>3
<1>18. s8 * Power(7) = w8 * Power(7)
  BY <1>5, Zenon
<1>. DEFINE t1 == w1 * Power(0)
            t2 == w2 * Power(1)
            t3 == w3 * Power(2)
            t4 == w4 * Power(3)
            t5 == w5 * Power(4)
            t6 == w6 * Power(5)
            t7 == w7 * Power(6)
            t8 == w8 * Power(7)
<1>19. /\ s1 = t1 + s2 * Power(1) /\ s2 * Power(1) = t2 + s3 * Power(2)
       /\ s3 * Power(2) = t3 + s4 * Power(3) /\ s4 * Power(3) = t4 + s5 * Power(4)
       /\ s5 * Power(4) = t5 + s6 * Power(5) /\ s6 * Power(5) = t6 + s7 * Power(6)
       /\ s7 * Power(6) = t7 + t8
       /\ t1 \in Int /\ t2 \in Int /\ t3 \in Int /\ t4 \in Int /\ t5 \in Int /\ t6 \in Int /\ t7 \in Int /\ t8 \in Int
  BY <1>15, <1>16, <1>17, <1>18, Zenon
<1>. HIDE DEF t1, t2, t3, t4, t5, t6, t7, t8
<1>20. s1 = t1 + t2 + t3 + t4 + t5 + t6 + t7 + t8
  BY <1>19
<1>. QED  BY <1>13, <1>20 DEF t1, t2, t3, t4, t5, t6, t7, t8

-------------------------------------------------------------------------------
(* The shape of the modulus                                                    *)

(* A word at a position.                                                       *)
Part(w, i) == w * Power(i)

LEMMA PartProperties ==
  ASSUME NEW w \in Int
  PROVE  /\ Part(w, 0) \in Int /\ Part(w, 1) \in Int /\ Part(w, 2) \in Int /\ Part(w, 3) \in Int
         /\ Part(w, 4) \in Int /\ Part(w, 5) \in Int /\ Part(w, 6) \in Int /\ Part(w, 7) \in Int
         /\ Part(w, 8) \in Int
BY EachPower DEF Part

(* p = Base^8 - Base^7 + Base^6 + Base^3 - 1.                                   *)
LEMMA ModulusShape ==
  Power(8) = Power(7) - Power(6) - Power(3) + Power(0) + p
<1>. DEFINE d == Base - 1
<1>1. Base \in Int /\ d \in Int /\ 0 \in Int /\ 1 \in Int
  BY BasePowers
<1>2. p = Number(<<d, d, d, 0, 0, 0, 1, d>>)
  BY EcdhAssumption
<1>3. \A x \in Int : d * x = Base * x - x
  BY <1>1
<1>. HIDE DEF d
<1>4. p = d * Power(0) + d * Power(1) + d * Power(2) + 0 * Power(3)
            + 0 * Power(4) + 0 * Power(5) + 1 * Power(6) + d * Power(7)
  BY <1>1, <1>2, NumberIsSum
<1>5. /\ d * Power(0) = Base * Power(0) - Power(0) /\ d * Power(1) = Base * Power(1) - Power(1)
      /\ d * Power(2) = Base * Power(2) - Power(2) /\ d * Power(7) = Base * Power(7) - Power(7)
  BY <1>3, EachPower
<1>6. /\ d * Power(0) = Power(1) - Power(0) /\ d * Power(1) = Power(2) - Power(1)
      /\ d * Power(2) = Power(3) - Power(2) /\ d * Power(7) = Power(8) - Power(7)
  BY <1>5, EachPower, Zenon
<1>. QED  BY <1>4, <1>6, EachPower

(* A combination of the eight lowest powers.                                   *)
Combination(c0, c1, c2, c3, c4, c5, c6, c7) ==
  Part(c0, 0) + Part(c1, 1) + Part(c2, 2) + Part(c3, 3)
    + Part(c4, 4) + Part(c5, 5) + Part(c6, 6) + Part(c7, 7)

Congruent(x, c0, c1, c2, c3, c4, c5, c6, c7) ==
  \E q \in Int : x = Combination(c0, c1, c2, c3, c4, c5, c6, c7) + q * p

(* Times Base, a number that is congruent to a combination of the eight lowest *)
(* powers is congruent to the combination that is shifted by a word.           *)
LEMMA NextPower ==
  ASSUME NEW x \in Int,
         NEW c0 \in Int, NEW c1 \in Int, NEW c2 \in Int, NEW c3 \in Int,
         NEW c4 \in Int, NEW c5 \in Int, NEW c6 \in Int, NEW c7 \in Int,
         Congruent(x, c0, c1, c2, c3, c4, c5, c6, c7)
  PROVE  Congruent(Base * x, c7, c0, c1, c2 - c7, c3, c4, c5 - c7, c6 + c7)
<1>0. PICK q \in Int : x = Combination(c0, c1, c2, c3, c4, c5, c6, c7) + q * p
  BY DEF Congruent
<1>1. Base \in Int /\ p \in Int /\ Base * q + c7 \in Int
  BY BasePowers, ModInvAssumption
<1>2. \A c \in Int, y \in Int : Base * (c * y) = c * (Base * y)
  BY <1>1
<1>20. /\ Power(0) \in Int /\ Power(1) \in Int /\ Power(2) \in Int /\ Power(3) \in Int
       /\ Power(4) \in Int /\ Power(5) \in Int /\ Power(6) \in Int /\ Power(7) \in Int
  BY EachPower, Zenon
<1>3. /\ Base * Part(c0, 0) = Part(c0, 1) /\ Base * Part(c1, 1) = Part(c1, 2) /\ Base * Part(c2, 2) = Part(c2, 3)
      /\ Base * Part(c3, 3) = Part(c3, 4) /\ Base * Part(c4, 4) = Part(c4, 5) /\ Base * Part(c5, 5) = Part(c5, 6)
      /\ Base * Part(c6, 6) = Part(c6, 7) /\ Base * Part(c7, 7) = Part(c7, 8)
  <2>1. Base * Part(c0, 0) = Part(c0, 1)
    <3>1. Base * (c0 * Power(0)) = c0 * (Base * Power(0))
      BY <1>2, <1>20, Zenon
    <3>. QED  BY <3>1, EachPower, Zenon DEF Part
  <2>2. Base * Part(c1, 1) = Part(c1, 2)
    <3>1. Base * (c1 * Power(1)) = c1 * (Base * Power(1))
      BY <1>2, <1>20, Zenon
    <3>. QED  BY <3>1, EachPower, Zenon DEF Part
  <2>3. Base * Part(c2, 2) = Part(c2, 3)
    <3>1. Base * (c2 * Power(2)) = c2 * (Base * Power(2))
      BY <1>2, <1>20, Zenon
    <3>. QED  BY <3>1, EachPower, Zenon DEF Part
  <2>4. Base * Part(c3, 3) = Part(c3, 4)
    <3>1. Base * (c3 * Power(3)) = c3 * (Base * Power(3))
      BY <1>2, <1>20, Zenon
    <3>. QED  BY <3>1, EachPower, Zenon DEF Part
  <2>5. Base * Part(c4, 4) = Part(c4, 5)
    <3>1. Base * (c4 * Power(4)) = c4 * (Base * Power(4))
      BY <1>2, <1>20, Zenon
    <3>. QED  BY <3>1, EachPower, Zenon DEF Part
  <2>6. Base * Part(c5, 5) = Part(c5, 6)
    <3>1. Base * (c5 * Power(5)) = c5 * (Base * Power(5))
      BY <1>2, <1>20, Zenon
    <3>. QED  BY <3>1, EachPower, Zenon DEF Part
  <2>7. Base * Part(c6, 6) = Part(c6, 7)
    <3>1. Base * (c6 * Power(6)) = c6 * (Base * Power(6))
      BY <1>2, <1>20, Zenon
    <3>. QED  BY <3>1, EachPower, Zenon DEF Part
  <2>8. Base * Part(c7, 7) = Part(c7, 8)
    <3>1. Base * (c7 * Power(7)) = c7 * (Base * Power(7))
      BY <1>2, <1>20, Zenon
    <3>. QED  BY <3>1, EachPower, Zenon DEF Part
  <2>. QED  BY <2>1, <2>2, <2>3, <2>4, <2>5, <2>6, <2>7, <2>8
<1>4. Part(c7, 8) = Part(c7, 7) - Part(c7, 6) - Part(c7, 3) + Part(c7, 0) + c7 * p
  <2>. DEFINE w == Power(7)
              y == Power(6)
              z == Power(3)
              t == Power(0)
  <2>1. w \in Int /\ y \in Int /\ z \in Int /\ t \in Int
    BY EachPower
  <2>. HIDE DEF w, y, z, t
  <2>2. c7 * (w - y - z + t + p) = c7 * w - c7 * y - c7 * z + c7 * t + c7 * p
    BY <1>1, <2>1
  <2>3. c7 * (Power(7) - Power(6) - Power(3) + Power(0) + p)
          = c7 * Power(7) - c7 * Power(6) - c7 * Power(3) + c7 * Power(0) + c7 * p
    BY <2>2 DEF w, y, z, t
  <2>. QED  BY <2>3, ModulusShape, Zenon DEF Part
<1>5. Part(c2 - c7, 3) = Part(c2, 3) - Part(c7, 3) /\ Part(c5 - c7, 6) = Part(c5, 6) - Part(c7, 6)
      /\ Part(c6 + c7, 7) = Part(c6, 7) + Part(c7, 7)
  <2>1. Power(3) \in Int /\ Power(6) \in Int /\ Power(7) \in Int
    BY EachPower
  <2>. QED  BY <2>1 DEF Part
<1>6. Base * (q * p) = (Base * q) * p /\ (Base * q + c7) * p = (Base * q) * p + c7 * p
      /\ (Base * q) * p \in Int /\ c7 * p \in Int
  BY <1>1
<1>. DEFINE x0 == Part(c0, 0)
            x1 == Part(c1, 1)
            x2 == Part(c2, 2)
            x3 == Part(c3, 3)
            x4 == Part(c4, 4)
            x5 == Part(c5, 5)
            x6 == Part(c6, 6)
            x7 == Part(c7, 7)
            y == q * p
<1>7. /\ x0 \in Int /\ x1 \in Int /\ x2 \in Int /\ x3 \in Int /\ x4 \in Int
      /\ x5 \in Int /\ x6 \in Int /\ x7 \in Int /\ y \in Int
  BY <1>1, PartProperties
<1>8. Base * (x0 + x1 + x2 + x3 + x4 + x5 + x6 + x7 + y)
        = Base * x0 + Base * x1 + Base * x2 + Base * x3 + Base * x4 + Base * x5 + Base * x6 + Base * x7 + Base * y
  <2>. HIDE DEF x0, x1, x2, x3, x4, x5, x6, x7, y
  <2>. QED  BY <1>1, <1>7
<1>9. /\ Part(c0, 1) \in Int /\ Part(c1, 2) \in Int /\ Part(c2, 3) \in Int /\ Part(c3, 4) \in Int
      /\ Part(c4, 5) \in Int /\ Part(c5, 6) \in Int /\ Part(c6, 7) \in Int
      /\ Part(c7, 0) \in Int /\ Part(c7, 3) \in Int /\ Part(c7, 6) \in Int /\ Part(c7, 7) \in Int
  BY PartProperties
<1>. DEFINE e == (Base * q) * p
            f == c7 * p
<1>. HIDE DEF e, f
<1>10. Base * (x0 + x1 + x2 + x3 + x4 + x5 + x6 + x7 + y)
         = Part(c0, 1) + Part(c1, 2) + Part(c2, 3) + Part(c3, 4) + Part(c4, 5) + Part(c5, 6) + Part(c6, 7)
             + (Part(c7, 7) - Part(c7, 6) - Part(c7, 3) + Part(c7, 0) + f) + e
  <2>1. Base * y = e
    BY <1>6 DEF e
  <2>2. Part(c7, 8) = Part(c7, 7) - Part(c7, 6) - Part(c7, 3) + Part(c7, 0) + f
    BY <1>4 DEF f
  <2>. QED  BY <1>3, <1>8, <2>1, <2>2, Zenon
<1>11. e \in Int /\ f \in Int /\ (Base * q + c7) * p = e + f
  BY <1>6 DEF e, f
<1>. HIDE DEF x0, x1, x2, x3, x4, x5, x6, x7, y
<1>12. Base * (x0 + x1 + x2 + x3 + x4 + x5 + x6 + x7 + y)
         = Part(c7, 0) + Part(c0, 1) + Part(c1, 2) + (Part(c2, 3) - Part(c7, 3))
             + Part(c3, 4) + Part(c4, 5) + (Part(c5, 6) - Part(c7, 6)) + (Part(c6, 7) + Part(c7, 7)) + (e + f)
  BY <1>9, <1>10, <1>11
<1>13. Base * (x0 + x1 + x2 + x3 + x4 + x5 + x6 + x7 + y)
         = Combination(c7, c0, c1, c2 - c7, c3, c4, c5 - c7, c6 + c7) + (Base * q + c7) * p
  BY <1>5, <1>11, <1>12, Zenon DEF Combination
<1>14. x = x0 + x1 + x2 + x3 + x4 + x5 + x6 + x7 + y
  BY <1>0, Zenon DEF Combination, x0, x1, x2, x3, x4, x5, x6, x7, y
<1>15. Base * x = Combination(c7, c0, c1, c2 - c7, c3, c4, c5 - c7, c6 + c7) + (Base * q + c7) * p
  BY <1>13, <1>14, Zenon
<1>. QED  BY <1>1, <1>15, Zenon DEF Congruent

(* What the eight upper positions count for, modulo p.                         *)
LEMMA UpperPowers ==
  /\ Congruent(Power(8), 1, 0, 0, -1, 0, 0, -1, 1)
  /\ Congruent(Power(9), 1, 1, 0, -1, -1, 0, -1, 0)
  /\ Congruent(Power(10), 0, 1, 1, 0, -1, -1, 0, -1)
  /\ Congruent(Power(11), -1, 0, 1, 2, 0, -1, 0, -1)
  /\ Congruent(Power(12), -1, -1, 0, 2, 2, 0, 0, -1)
  /\ Congruent(Power(13), -1, -1, -1, 1, 2, 2, 1, -1)
  /\ Congruent(Power(14), -1, -1, -1, 0, 1, 2, 3, 0)
  /\ Congruent(Power(15), 0, -1, -1, -1, 0, 1, 2, 3)
<1>0. /\ -1 \in Int /\ 0 \in Int /\ 1 \in Int /\ 2 \in Int /\ 3 \in Int
      /\ Power(8) \in Int /\ Power(9) \in Int /\ Power(10) \in Int /\ Power(11) \in Int
      /\ Power(12) \in Int /\ Power(13) \in Int /\ Power(14) \in Int
  BY EachPower
<1>8. Congruent(Power(8), 1, 0, 0, -1, 0, 0, -1, 1)
  <2>1. Power(8) = Combination(1, 0, 0, -1, 0, 0, -1, 1) + 1 * p
    BY ModulusShape, EachPower, ModInvAssumption DEF Combination, Part
  <2>. QED  BY <1>0, <2>1, Zenon DEF Congruent
<1>9. Congruent(Power(9), 1, 1, 0, -1, -1, 0, -1, 0)
  <2>1. Congruent(Base * Power(8), 1, 1, 0, 0 - 1, -1, 0, 0 - 1, -1 + 1)
    BY <1>0, <1>8, NextPower
  <2>2. 0 - 1 = -1 /\ 0 - 1 = -1 /\ -1 + 1 = 0
    OBVIOUS
  <2>. QED  BY <2>1, <2>2, EachPower, Zenon
<1>10. Congruent(Power(10), 0, 1, 1, 0, -1, -1, 0, -1)
  <2>1. Congruent(Base * Power(9), 0, 1, 1, 0 - 0, -1, -1, 0 - 0, -1 + 0)
    BY <1>0, <1>9, NextPower
  <2>2. 0 - 0 = 0 /\ 0 - 0 = 0 /\ -1 + 0 = -1
    OBVIOUS
  <2>. QED  BY <2>1, <2>2, EachPower, Zenon
<1>11. Congruent(Power(11), -1, 0, 1, 2, 0, -1, 0, -1)
  <2>1. Congruent(Base * Power(10), -1, 0, 1, 1 - (-1), 0, -1, -1 - (-1), 0 + (-1))
    BY <1>0, <1>10, NextPower
  <2>2. 1 - (-1) = 2 /\ -1 - (-1) = 0 /\ 0 + (-1) = -1
    OBVIOUS
  <2>. QED  BY <2>1, <2>2, EachPower, Zenon
<1>12. Congruent(Power(12), -1, -1, 0, 2, 2, 0, 0, -1)
  <2>1. Congruent(Base * Power(11), -1, -1, 0, 1 - (-1), 2, 0, -1 - (-1), 0 + (-1))
    BY <1>0, <1>11, NextPower
  <2>2. 1 - (-1) = 2 /\ -1 - (-1) = 0 /\ 0 + (-1) = -1
    OBVIOUS
  <2>. QED  BY <2>1, <2>2, EachPower, Zenon
<1>13. Congruent(Power(13), -1, -1, -1, 1, 2, 2, 1, -1)
  <2>1. Congruent(Base * Power(12), -1, -1, -1, 0 - (-1), 2, 2, 0 - (-1), 0 + (-1))
    BY <1>0, <1>12, NextPower
  <2>2. 0 - (-1) = 1 /\ 0 - (-1) = 1 /\ 0 + (-1) = -1
    OBVIOUS
  <2>. QED  BY <2>1, <2>2, EachPower, Zenon
<1>14. Congruent(Power(14), -1, -1, -1, 0, 1, 2, 3, 0)
  <2>1. Congruent(Base * Power(13), -1, -1, -1, -1 - (-1), 1, 2, 2 - (-1), 1 + (-1))
    BY <1>0, <1>13, NextPower
  <2>2. -1 - (-1) = 0 /\ 2 - (-1) = 3 /\ 1 + (-1) = 0
    OBVIOUS
  <2>. QED  BY <2>1, <2>2, EachPower, Zenon
<1>15. Congruent(Power(15), 0, -1, -1, -1, 0, 1, 2, 3)
  <2>1. Congruent(Base * Power(14), 0, -1, -1, -1 - 0, 0, 1, 2 - 0, 3 + 0)
    BY <1>0, <1>14, NextPower
  <2>2. -1 - 0 = -1 /\ 2 - 0 = 2 /\ 3 + 0 = 3
    OBVIOUS
  <2>. QED  BY <2>1, <2>2, EachPower, Zenon
<1>. QED  BY <1>8, <1>9, <1>10, <1>11, <1>12, <1>13, <1>14, <1>15

(* The same for a word at an upper position.                                   *)
Folded(x, w, c0, c1, c2, c3, c4, c5, c6, c7) ==
  \E q \in Int :
    x = c0 * Part(w, 0) + c1 * Part(w, 1) + c2 * Part(w, 2) + c3 * Part(w, 3)
          + c4 * Part(w, 4) + c5 * Part(w, 5) + c6 * Part(w, 6) + c7 * Part(w, 7) + q * p

LEMMA WordTimesPower ==
  ASSUME NEW w \in Int, NEW x \in Int,
         NEW c0 \in Int, NEW c1 \in Int, NEW c2 \in Int, NEW c3 \in Int,
         NEW c4 \in Int, NEW c5 \in Int, NEW c6 \in Int, NEW c7 \in Int,
         Congruent(x, c0, c1, c2, c3, c4, c5, c6, c7)
  PROVE  Folded(w * x, w, c0, c1, c2, c3, c4, c5, c6, c7)
<1>1. PICK q \in Int : x = Combination(c0, c1, c2, c3, c4, c5, c6, c7) + q * p
  BY DEF Congruent
<1>2. p \in Int /\ w * q \in Int
  BY ModInvAssumption
<1>3. \A c \in Int, y \in Int : w * (c * y) = c * (w * y)
  OBVIOUS
<1>4. w * Part(c0, 0) = c0 * Part(w, 0)
  BY <1>3, EachPower DEF Part
<1>5. w * Part(c1, 1) = c1 * Part(w, 1)
  BY <1>3, EachPower DEF Part
<1>6. w * Part(c2, 2) = c2 * Part(w, 2)
  BY <1>3, EachPower DEF Part
<1>7. w * Part(c3, 3) = c3 * Part(w, 3)
  BY <1>3, EachPower DEF Part
<1>8. w * Part(c4, 4) = c4 * Part(w, 4)
  BY <1>3, EachPower DEF Part
<1>9. w * Part(c5, 5) = c5 * Part(w, 5)
  BY <1>3, EachPower DEF Part
<1>10. w * Part(c6, 6) = c6 * Part(w, 6)
  BY <1>3, EachPower DEF Part
<1>11. w * Part(c7, 7) = c7 * Part(w, 7)
  BY <1>3, EachPower DEF Part
<1>12. w * (q * p) = (w * q) * p
  BY <1>2
<1>. DEFINE x0 == Part(c0, 0)
            x1 == Part(c1, 1)
            x2 == Part(c2, 2)
            x3 == Part(c3, 3)
            x4 == Part(c4, 4)
            x5 == Part(c5, 5)
            x6 == Part(c6, 6)
            x7 == Part(c7, 7)
            y == q * p
<1>13. /\ x0 \in Int /\ x1 \in Int /\ x2 \in Int /\ x3 \in Int /\ x4 \in Int
       /\ x5 \in Int /\ x6 \in Int /\ x7 \in Int /\ y \in Int
  BY <1>2, PartProperties
<1>14. w * (x0 + x1 + x2 + x3 + x4 + x5 + x6 + x7 + y)
         = w * x0 + w * x1 + w * x2 + w * x3 + w * x4 + w * x5 + w * x6 + w * x7 + w * y
  <2>. HIDE DEF x0, x1, x2, x3, x4, x5, x6, x7, y
  <2>. QED  BY <1>13
<1>15. x = x0 + x1 + x2 + x3 + x4 + x5 + x6 + x7 + y
  BY <1>1, Zenon DEF Combination
<1>16. w * x = c0 * Part(w, 0) + c1 * Part(w, 1) + c2 * Part(w, 2) + c3 * Part(w, 3)
                 + c4 * Part(w, 4) + c5 * Part(w, 5) + c6 * Part(w, 6) + c7 * Part(w, 7) + (w * q) * p
  BY <1>4, <1>5, <1>6, <1>7, <1>8, <1>9, <1>10, <1>11, <1>12, <1>14, <1>15, Zenon
<1>. QED  BY <1>2, <1>16, Zenon DEF Folded

-------------------------------------------------------------------------------
(* mmod_fast                                                                   *)

(* The last loop of mmod_fast: adding or subtracting p until the number is in  *)
(* range gives the remainder.                                                  *)
LEMMA ReducedIsRemainder ==
  ASSUME NEW t \in Int
  PROVE  Reduced[t] = t % p
<1>. DEFINE h == [s \in Int |-> s % p]
            T == {k \in Nat : \A s \in (-k)..k : Reduced[s] = s % p}
<1>1. p \in Nat /\ p > 2
  BY ModInvAssumption
<1>2. ASSUME NEW s \in Int PROVE (s + p) % p = s % p /\ (s - p) % p = s % p /\ (s \in 0..(p - 1) => s % p = s)
  <2>1. s + p = s + 1 * p /\ s - p = s + (-1) * p /\ s + p \in Int /\ s - p \in Int /\ 1 \in Int /\ -1 \in Int
    BY <1>1
  <2>2. (s + p) % p = s % p /\ (s - p) % p = s % p
    BY <2>1, SameRemainder
  <2>3. s = 0 * p + s /\ 0 \in Int /\ p > 0
    BY <1>1
  <2>4. s \in 0..(p - 1) => s % p = s
    BY <1>1, <2>3, DivisionIs
  <2>. QED  BY <2>2, <2>4
<1>3. \A s \in Int : h[s] = IF s < 0 THEN h[s + p] ELSE IF s >= p THEN h[s - p] ELSE s
  <2>. SUFFICES ASSUME NEW s \in Int
                PROVE  h[s] = IF s < 0 THEN h[s + p] ELSE IF s >= p THEN h[s - p] ELSE s
    OBVIOUS
  <2>1. s + p \in Int /\ s - p \in Int
    BY <1>1
  <2>2. h[s] = s % p /\ h[s + p] = (s + p) % p /\ h[s - p] = (s - p) % p
    BY <2>1
  <2>3. (s + p) % p = s % p /\ (s - p) % p = s % p
    BY <1>2
  <2>4. ~(s < 0) /\ ~(s >= p) => s % p = s
    BY <1>1, <1>2
  <2>. HIDE DEF h
  <2>. QED  BY <2>2, <2>3, <2>4, Zenon
<1>4. h = [s \in Int |-> h[s]]
  OBVIOUS
<1>. HIDE DEF h
<1>5. h = [s \in Int |-> IF s < 0 THEN h[s + p] ELSE IF s >= p THEN h[s - p] ELSE s]
  BY <1>3, <1>4
<1>6. Reduced = [s \in Int |-> IF s < 0 THEN Reduced[s + p] ELSE IF s >= p THEN Reduced[s - p] ELSE s]
  BY <1>5, Zenon DEF Reduced
<1>7. \A s \in Int : Reduced[s] = IF s < 0 THEN Reduced[s + p] ELSE IF s >= p THEN Reduced[s - p] ELSE s
  BY <1>6
<1>8. \A s \in 0..(p - 1) : Reduced[s] = s % p
  <2>. SUFFICES ASSUME NEW s \in 0..(p - 1) PROVE Reduced[s] = s % p
    OBVIOUS
  <2>1. s \in Int /\ ~(s < 0) /\ ~(s >= p)
    BY <1>1
  <2>2. Reduced[s] = s
    BY <1>7, <2>1
  <2>3. s % p = s
    BY <1>2, <2>1
  <2>. QED  BY <2>2, <2>3
<1>9. 0 \in T
  <2>1. 0 \in 0..(p - 1)
    BY <1>1
  <2>2. \A s \in (-0)..0 : s = 0
    OBVIOUS
  <2>. QED  BY <1>8, <2>1, <2>2
<1>10. ASSUME NEW k \in Nat, k \in T PROVE k + 1 \in T
  <2>. SUFFICES ASSUME NEW s \in (-(k + 1))..(k + 1) PROVE Reduced[s] = s % p
    OBVIOUS
  <2>1. CASE s \in (-k)..k
    BY <1>10, <2>1
  <2>2. CASE s \in 0..(p - 1)
    BY <1>8, <2>2
  <2>3. CASE s = k + 1 /\ s >= p
    <3>1. s - p \in (-k)..k /\ s \in Int
      BY <1>1, <2>3
    <3>2. Reduced[s - p] = (s - p) % p
      BY <1>10, <3>1
    <3>. QED  BY <1>1, <1>2, <1>7, <2>3, <3>1, <3>2
  <2>4. CASE s = -(k + 1)
    <3>1. s \in Int /\ s < 0 /\ (s + p \in (-k)..k \/ s + p \in 0..(p - 1))
      BY <1>1, <2>4
    <3>2. Reduced[s + p] = (s + p) % p
      BY <1>8, <1>10, <3>1
    <3>. QED  BY <1>2, <1>7, <3>1, <3>2
  <2>. QED  BY <1>1, <2>1, <2>2, <2>3, <2>4
<1>. HIDE DEF T
<1>11. Nat \subseteq T
  BY <1>9, <1>10, NatInductive
<1>12. \E k \in Nat : t \in (-k)..k
  <2>1. CASE t >= 0
    BY <2>1
  <2>2. CASE t < 0
    <3>1. -t \in Nat /\ t \in (-(-t))..(-t)
      BY <2>2
    <3>. QED  BY <3>1
  <2>. QED  BY <2>1, <2>2
<1>. QED  BY <1>11, <1>12 DEF T

(* The product has sixteen words: its lower half, and the words above it.      *)
WordAt(product, i) == (product \div BasePower[i + 1]) % Base

LEMMA TopSquared == Top * Top = Base * Power(15)
<1>1. Base \in Int /\ Top \in Int /\ Power(8) = Top /\ Power(0) = 1
  BY BasePowers, EachPower
<1>2. \A y \in Int : Top * (Base * y) = Base * (Top * y)
  BY <1>1
<1>3. Top * Power(0) = Power(8)
  BY <1>1
<1>4. Top * Power(1) = Power(9)
  <2>1. Top * (Base * Power(0)) = Base * (Top * Power(0))
    BY <1>2, EachPower
  <2>. QED  BY <1>3, <2>1, EachPower, Zenon
<1>5. Top * Power(2) = Power(10)
  <2>1. Top * (Base * Power(1)) = Base * (Top * Power(1))
    BY <1>2, EachPower
  <2>. QED  BY <1>4, <2>1, EachPower, Zenon
<1>6. Top * Power(3) = Power(11)
  <2>1. Top * (Base * Power(2)) = Base * (Top * Power(2))
    BY <1>2, EachPower
  <2>. QED  BY <1>5, <2>1, EachPower, Zenon
<1>7. Top * Power(4) = Power(12)
  <2>1. Top * (Base * Power(3)) = Base * (Top * Power(3))
    BY <1>2, EachPower
  <2>. QED  BY <1>6, <2>1, EachPower, Zenon
<1>8. Top * Power(5) = Power(13)
  <2>1. Top * (Base * Power(4)) = Base * (Top * Power(4))
    BY <1>2, EachPower
  <2>. QED  BY <1>7, <2>1, EachPower, Zenon
<1>9. Top * Power(6) = Power(14)
  <2>1. Top * (Base * Power(5)) = Base * (Top * Power(5))
    BY <1>2, EachPower
  <2>. QED  BY <1>8, <2>1, EachPower, Zenon
<1>10. Top * Power(7) = Power(15)
  <2>1. Top * (Base * Power(6)) = Base * (Top * Power(6))
    BY <1>2, EachPower
  <2>. QED  BY <1>9, <2>1, EachPower, Zenon
<1>11. Top * (Base * Power(7)) = Base * (Top * Power(7))
  BY <1>2, EachPower
<1>. QED  BY <1>1, <1>10, <1>11, EachPower, Zenon

LEMMA ProductWords ==
  ASSUME NEW product \in 0..(Top * Top - 1)
  PROVE  /\ \A i \in 8..15 : WordAt(product, i) \in Int
         /\ product = (product % Top)
              + WordAt(product, 8) * Power(8) + WordAt(product, 9) * Power(9)
              + WordAt(product, 10) * Power(10) + WordAt(product, 11) * Power(11)
              + WordAt(product, 12) * Power(12) + WordAt(product, 13) * Power(13)
              + WordAt(product, 14) * Power(14) + WordAt(product, 15) * Power(15)
<1>. DEFINE Rest(i) == product % Power(i)
            last == Base * Power(15)
            Good(i) == WordAt(product, i) \in Int /\ Rest(i) \in Int
<1>1. product \in Int /\ product >= 0 /\ product < last /\ last \in Int
  <2>1. Top * Top \in Int
    BY ModInvAssumption
  <2>. QED  BY <2>1, TopSquared
<1>2. Base \in Nat /\ Base >= 1
  BY BasePowers
<1>3. ASSUME NEW i \in 8..15
      PROVE  /\ WordAt(product, i) \in Int /\ Rest(i) \in Int
             /\ product % (Base * Power(i)) = Rest(i) + WordAt(product, i) * Power(i)
  <2>1. Power(i) \in Nat /\ Power(i) >= 1
    BY BasePowers
  <2>2. product % (Base * Power(i)) = (product % Power(i)) + ((product \div Power(i)) % Base) * Power(i)
    BY <1>1, <1>2, <2>1, DivisionTwice
  <2>3. product \div Power(i) \in Int /\ product % Power(i) \in Int
    BY <1>1, <2>1, Division
  <2>4. (product \div Power(i)) % Base \in Int
    BY <1>2, <2>3, Division
  <2>5. WordAt(product, i) = (product \div Power(i)) % Base
    BY Zenon DEF WordAt, Power
  <2>. QED  BY <2>2, <2>3, <2>4, <2>5, Zenon
<1>4. product % last = product
  <2>1. product = 0 * last + product /\ last \in Nat /\ last > 0 /\ product \in 0..(last - 1)
    <3>. HIDE DEF last
    <3>. QED  BY <1>1
  <2>. HIDE DEF last
  <2>. QED  BY <2>1, DivisionIs
<1>. HIDE DEF Rest
<1>5. /\ Good(8) /\ Good(9) /\ Good(10) /\ Good(11) /\ Good(12) /\ Good(13) /\ Good(14) /\ Good(15)
  BY <1>3
<1>6. Rest(9) = Rest(8) + WordAt(product, 8) * Power(8)
  <2>1. product % (Base * Power(8)) = Rest(8) + WordAt(product, 8) * Power(8)
    BY <1>3
  <2>. QED  BY <2>1, EachPower, Zenon DEF Rest
<1>7. Rest(10) = Rest(9) + WordAt(product, 9) * Power(9)
  <2>1. product % (Base * Power(9)) = Rest(9) + WordAt(product, 9) * Power(9)
    BY <1>3
  <2>. QED  BY <2>1, EachPower, Zenon DEF Rest
<1>8. Rest(11) = Rest(10) + WordAt(product, 10) * Power(10)
  <2>1. product % (Base * Power(10)) = Rest(10) + WordAt(product, 10) * Power(10)
    BY <1>3
  <2>. QED  BY <2>1, EachPower, Zenon DEF Rest
<1>9. Rest(12) = Rest(11) + WordAt(product, 11) * Power(11)
  <2>1. product % (Base * Power(11)) = Rest(11) + WordAt(product, 11) * Power(11)
    BY <1>3
  <2>. QED  BY <2>1, EachPower, Zenon DEF Rest
<1>10. Rest(13) = Rest(12) + WordAt(product, 12) * Power(12)
  <2>1. product % (Base * Power(12)) = Rest(12) + WordAt(product, 12) * Power(12)
    BY <1>3
  <2>. QED  BY <2>1, EachPower, Zenon DEF Rest
<1>11. Rest(14) = Rest(13) + WordAt(product, 13) * Power(13)
  <2>1. product % (Base * Power(13)) = Rest(13) + WordAt(product, 13) * Power(13)
    BY <1>3
  <2>. QED  BY <2>1, EachPower, Zenon DEF Rest
<1>12. Rest(15) = Rest(14) + WordAt(product, 14) * Power(14)
  <2>1. product % (Base * Power(14)) = Rest(14) + WordAt(product, 14) * Power(14)
    BY <1>3
  <2>. QED  BY <2>1, EachPower, Zenon DEF Rest
<1>13. product = Rest(15) + WordAt(product, 15) * Power(15)
  <2>1. product % (Base * Power(15)) = Rest(15) + WordAt(product, 15) * Power(15)
    BY <1>3
  <2>. QED  BY <1>4, <2>1, Zenon
<1>14. Rest(8) = product % Top
  BY BasePowers, Zenon DEF Rest
<1>. DEFINE x8 == WordAt(product, 8) * Power(8)
            x9 == WordAt(product, 9) * Power(9)
            x10 == WordAt(product, 10) * Power(10)
            x11 == WordAt(product, 11) * Power(11)
            x12 == WordAt(product, 12) * Power(12)
            x13 == WordAt(product, 13) * Power(13)
            x14 == WordAt(product, 14) * Power(14)
            x15 == WordAt(product, 15) * Power(15)
<1>15. /\ x8 \in Int /\ x9 \in Int /\ x10 \in Int /\ x11 \in Int
       /\ x12 \in Int /\ x13 \in Int /\ x14 \in Int /\ x15 \in Int
  BY <1>5, EachPower
<1>16. /\ Rest(9) = Rest(8) + x8 /\ Rest(10) = Rest(9) + x9 /\ Rest(11) = Rest(10) + x10 /\ Rest(12) = Rest(11) + x11
       /\ Rest(13) = Rest(12) + x12 /\ Rest(14) = Rest(13) + x13 /\ Rest(15) = Rest(14) + x14 /\ product = Rest(15) + x15
  BY <1>6, <1>7, <1>8, <1>9, <1>10, <1>11, <1>12, <1>13, Zenon
<1>. HIDE DEF x8, x9, x10, x11, x12, x13, x14, x15
<1>17. product = Rest(8) + x8 + x9 + x10 + x11 + x12 + x13 + x14 + x15
  BY <1>5, <1>15, <1>16
<1>18. \A i \in 8..15 : WordAt(product, i) \in Int
  BY <1>3
<1>. QED  BY <1>14, <1>17, <1>18, Zenon DEF x8, x9, x10, x11, x12, x13, x14, x15

(* mmod_fast computes the remainder of a product by p: the nine numbers that   *)
(* it adds and subtracts are the product up to a multiple of the modulus, for  *)
(* every word size and every product of two numbers.                           *)
THEOREM MmodFastIsRemainder ==
  ASSUME NEW product \in 0..(Top * Top - 1)
  PROVE  MmodFast(product) = product % p
<1>. DEFINE w == [i \in 8..15 |-> (product \div BasePower[i + 1]) % Base]
            low == product % Top
            s1 == Number(<<0, 0, 0, w[11], w[12], w[13], w[14], w[15]>>)
            s2 == Number(<<0, 0, 0, w[12], w[13], w[14], w[15], 0>>)
            s3 == Number(<<w[8], w[9], w[10], 0, 0, 0, w[14], w[15]>>)
            s4 == Number(<<w[9], w[10], w[11], w[13], w[14], w[15], w[13], w[8]>>)
            d1 == Number(<<w[11], w[12], w[13], 0, 0, 0, w[8], w[10]>>)
            d2 == Number(<<w[12], w[13], w[14], w[15], 0, 0, w[9], w[11]>>)
            d3 == Number(<<w[13], w[14], w[15], w[8], w[9], w[10], 0, w[12]>>)
            d4 == Number(<<w[14], w[15], 0, w[9], w[10], w[11], 0, w[13]>>)
            total == low + 2 * s1 + 2 * s2 + s3 + s4 - d1 - d2 - d3 - d4
<1>1. MmodFast(product) = Reduced[total]
  BY Zenon DEF MmodFast, FastSum
<1>2. \A i \in 8..15 : w[i] = WordAt(product, i)
  BY Zenon DEF WordAt
<1>. HIDE DEF w
<1>3. /\ w[8] \in Int /\ w[9] \in Int /\ w[10] \in Int /\ w[11] \in Int
      /\ w[12] \in Int /\ w[13] \in Int /\ w[14] \in Int /\ w[15] \in Int /\ 0 \in Int
  BY <1>2, ProductWords
<1>4. product = low + w[8] * Power(8) + w[9] * Power(9) + w[10] * Power(10) + w[11] * Power(11)
                  + w[12] * Power(12) + w[13] * Power(13) + w[14] * Power(14) + w[15] * Power(15)
  <2>1. /\ w[8] = WordAt(product, 8) /\ w[9] = WordAt(product, 9) /\ w[10] = WordAt(product, 10)
        /\ w[11] = WordAt(product, 11) /\ w[12] = WordAt(product, 12) /\ w[13] = WordAt(product, 13)
        /\ w[14] = WordAt(product, 14) /\ w[15] = WordAt(product, 15)
    BY <1>2
  <2>. QED  BY <2>1, ProductWords, ZenonT(30)
<1>5. low \in Int /\ p \in Int
  <2>1. product \in Int /\ Top \in Nat /\ Top > 0
    BY ModInvAssumption
  <2>. QED  BY <2>1, Division, ModInvAssumption
<1>. HIDE DEF low
<1>6. s1 = Part(w[11], 3) + Part(w[12], 4) + Part(w[13], 5) + Part(w[14], 6) + Part(w[15], 7)
  <2>1. s1 = 0 * Power(0) + 0 * Power(1) + 0 * Power(2) + w[11] * Power(3) + w[12] * Power(4) + w[13] * Power(5) + w[14] * Power(6) + w[15] * Power(7)
    BY <1>3, NumberIsSum
  <2>. QED  BY <1>3, <2>1, EachPower DEF Part
<1>7. s2 = Part(w[12], 3) + Part(w[13], 4) + Part(w[14], 5) + Part(w[15], 6)
  <2>1. s2 = 0 * Power(0) + 0 * Power(1) + 0 * Power(2) + w[12] * Power(3) + w[13] * Power(4) + w[14] * Power(5) + w[15] * Power(6) + 0 * Power(7)
    BY <1>3, NumberIsSum
  <2>. QED  BY <1>3, <2>1, EachPower DEF Part
<1>8. s3 = Part(w[8], 0) + Part(w[9], 1) + Part(w[10], 2) + Part(w[14], 6) + Part(w[15], 7)
  <2>1. s3 = w[8] * Power(0) + w[9] * Power(1) + w[10] * Power(2) + 0 * Power(3) + 0 * Power(4) + 0 * Power(5) + w[14] * Power(6) + w[15] * Power(7)
    BY <1>3, NumberIsSum
  <2>. QED  BY <1>3, <2>1, EachPower DEF Part
<1>9. s4 = Part(w[9], 0) + Part(w[10], 1) + Part(w[11], 2) + Part(w[13], 3) + Part(w[14], 4) + Part(w[15], 5) + Part(w[13], 6) + Part(w[8], 7)
  <2>1. s4 = w[9] * Power(0) + w[10] * Power(1) + w[11] * Power(2) + w[13] * Power(3) + w[14] * Power(4) + w[15] * Power(5) + w[13] * Power(6) + w[8] * Power(7)
    BY <1>3, NumberIsSum
  <2>. QED  BY <1>3, <2>1, EachPower DEF Part
<1>10. d1 = Part(w[11], 0) + Part(w[12], 1) + Part(w[13], 2) + Part(w[8], 6) + Part(w[10], 7)
  <2>1. d1 = w[11] * Power(0) + w[12] * Power(1) + w[13] * Power(2) + 0 * Power(3) + 0 * Power(4) + 0 * Power(5) + w[8] * Power(6) + w[10] * Power(7)
    BY <1>3, NumberIsSum
  <2>. QED  BY <1>3, <2>1, EachPower DEF Part
<1>11. d2 = Part(w[12], 0) + Part(w[13], 1) + Part(w[14], 2) + Part(w[15], 3) + Part(w[9], 6) + Part(w[11], 7)
  <2>1. d2 = w[12] * Power(0) + w[13] * Power(1) + w[14] * Power(2) + w[15] * Power(3) + 0 * Power(4) + 0 * Power(5) + w[9] * Power(6) + w[11] * Power(7)
    BY <1>3, NumberIsSum
  <2>. QED  BY <1>3, <2>1, EachPower DEF Part
<1>12. d3 = Part(w[13], 0) + Part(w[14], 1) + Part(w[15], 2) + Part(w[8], 3) + Part(w[9], 4) + Part(w[10], 5) + Part(w[12], 7)
  <2>1. d3 = w[13] * Power(0) + w[14] * Power(1) + w[15] * Power(2) + w[8] * Power(3) + w[9] * Power(4) + w[10] * Power(5) + 0 * Power(6) + w[12] * Power(7)
    BY <1>3, NumberIsSum
  <2>. QED  BY <1>3, <2>1, EachPower DEF Part
<1>13. d4 = Part(w[14], 0) + Part(w[15], 1) + Part(w[9], 3) + Part(w[10], 4) + Part(w[11], 5) + Part(w[13], 7)
  <2>1. d4 = w[14] * Power(0) + w[15] * Power(1) + 0 * Power(2) + w[9] * Power(3) + w[10] * Power(4) + w[11] * Power(5) + 0 * Power(6) + w[13] * Power(7)
    BY <1>3, NumberIsSum
  <2>. QED  BY <1>3, <2>1, EachPower DEF Part
<1>. HIDE DEF s1, s2, s3, s4, d1, d2, d3, d4
<1>14. Folded(w[8] * Power(8), w[8], 1, 0, 0, -1, 0, 0, -1, 1)
  <2>1. Congruent(Power(8), 1, 0, 0, -1, 0, 0, -1, 1) /\ w[8] \in Int /\ Power(8) \in Int
    BY <1>3, UpperPowers, EachPower
  <2>2. -1 \in Int /\ 0 \in Int /\ 1 \in Int /\ 2 \in Int /\ 3 \in Int
    OBVIOUS
  <2>. QED  BY <2>1, <2>2, WordTimesPower, Zenon
<1>15. Folded(w[9] * Power(9), w[9], 1, 1, 0, -1, -1, 0, -1, 0)
  <2>1. Congruent(Power(9), 1, 1, 0, -1, -1, 0, -1, 0) /\ w[9] \in Int /\ Power(9) \in Int
    BY <1>3, UpperPowers, EachPower
  <2>2. -1 \in Int /\ 0 \in Int /\ 1 \in Int /\ 2 \in Int /\ 3 \in Int
    OBVIOUS
  <2>. QED  BY <2>1, <2>2, WordTimesPower, Zenon
<1>16. Folded(w[10] * Power(10), w[10], 0, 1, 1, 0, -1, -1, 0, -1)
  <2>1. Congruent(Power(10), 0, 1, 1, 0, -1, -1, 0, -1) /\ w[10] \in Int /\ Power(10) \in Int
    BY <1>3, UpperPowers, EachPower
  <2>2. -1 \in Int /\ 0 \in Int /\ 1 \in Int /\ 2 \in Int /\ 3 \in Int
    OBVIOUS
  <2>. QED  BY <2>1, <2>2, WordTimesPower, Zenon
<1>17. Folded(w[11] * Power(11), w[11], -1, 0, 1, 2, 0, -1, 0, -1)
  <2>1. Congruent(Power(11), -1, 0, 1, 2, 0, -1, 0, -1) /\ w[11] \in Int /\ Power(11) \in Int
    BY <1>3, UpperPowers, EachPower
  <2>2. -1 \in Int /\ 0 \in Int /\ 1 \in Int /\ 2 \in Int /\ 3 \in Int
    OBVIOUS
  <2>. QED  BY <2>1, <2>2, WordTimesPower, Zenon
<1>18. Folded(w[12] * Power(12), w[12], -1, -1, 0, 2, 2, 0, 0, -1)
  <2>1. Congruent(Power(12), -1, -1, 0, 2, 2, 0, 0, -1) /\ w[12] \in Int /\ Power(12) \in Int
    BY <1>3, UpperPowers, EachPower
  <2>2. -1 \in Int /\ 0 \in Int /\ 1 \in Int /\ 2 \in Int /\ 3 \in Int
    OBVIOUS
  <2>. QED  BY <2>1, <2>2, WordTimesPower, Zenon
<1>19. Folded(w[13] * Power(13), w[13], -1, -1, -1, 1, 2, 2, 1, -1)
  <2>1. Congruent(Power(13), -1, -1, -1, 1, 2, 2, 1, -1) /\ w[13] \in Int /\ Power(13) \in Int
    BY <1>3, UpperPowers, EachPower
  <2>2. -1 \in Int /\ 0 \in Int /\ 1 \in Int /\ 2 \in Int /\ 3 \in Int
    OBVIOUS
  <2>. QED  BY <2>1, <2>2, WordTimesPower, Zenon
<1>20. Folded(w[14] * Power(14), w[14], -1, -1, -1, 0, 1, 2, 3, 0)
  <2>1. Congruent(Power(14), -1, -1, -1, 0, 1, 2, 3, 0) /\ w[14] \in Int /\ Power(14) \in Int
    BY <1>3, UpperPowers, EachPower
  <2>2. -1 \in Int /\ 0 \in Int /\ 1 \in Int /\ 2 \in Int /\ 3 \in Int
    OBVIOUS
  <2>. QED  BY <2>1, <2>2, WordTimesPower, Zenon
<1>21. Folded(w[15] * Power(15), w[15], 0, -1, -1, -1, 0, 1, 2, 3)
  <2>1. Congruent(Power(15), 0, -1, -1, -1, 0, 1, 2, 3) /\ w[15] \in Int /\ Power(15) \in Int
    BY <1>3, UpperPowers, EachPower
  <2>2. -1 \in Int /\ 0 \in Int /\ 1 \in Int /\ 2 \in Int /\ 3 \in Int
    OBVIOUS
  <2>. QED  BY <2>1, <2>2, WordTimesPower, Zenon
<1>22. PICK q8 \in Int :
         w[8] * Power(8)
           = 1 * Part(w[8], 0) + 0 * Part(w[8], 1) + 0 * Part(w[8], 2) + (-1) * Part(w[8], 3) + 0 * Part(w[8], 4) + 0 * Part(w[8], 5) + (-1) * Part(w[8], 6) + 1 * Part(w[8], 7) + q8 * p
  BY <1>14, Zenon DEF Folded
<1>23. PICK q9 \in Int :
         w[9] * Power(9)
           = 1 * Part(w[9], 0) + 1 * Part(w[9], 1) + 0 * Part(w[9], 2) + (-1) * Part(w[9], 3) + (-1) * Part(w[9], 4) + 0 * Part(w[9], 5) + (-1) * Part(w[9], 6) + 0 * Part(w[9], 7) + q9 * p
  BY <1>15, Zenon DEF Folded
<1>24. PICK q10 \in Int :
         w[10] * Power(10)
           = 0 * Part(w[10], 0) + 1 * Part(w[10], 1) + 1 * Part(w[10], 2) + 0 * Part(w[10], 3) + (-1) * Part(w[10], 4) + (-1) * Part(w[10], 5) + 0 * Part(w[10], 6) + (-1) * Part(w[10], 7) + q10 * p
  BY <1>16, Zenon DEF Folded
<1>25. PICK q11 \in Int :
         w[11] * Power(11)
           = (-1) * Part(w[11], 0) + 0 * Part(w[11], 1) + 1 * Part(w[11], 2) + 2 * Part(w[11], 3) + 0 * Part(w[11], 4) + (-1) * Part(w[11], 5) + 0 * Part(w[11], 6) + (-1) * Part(w[11], 7) + q11 * p
  BY <1>17, Zenon DEF Folded
<1>26. PICK q12 \in Int :
         w[12] * Power(12)
           = (-1) * Part(w[12], 0) + (-1) * Part(w[12], 1) + 0 * Part(w[12], 2) + 2 * Part(w[12], 3) + 2 * Part(w[12], 4) + 0 * Part(w[12], 5) + 0 * Part(w[12], 6) + (-1) * Part(w[12], 7) + q12 * p
  BY <1>18, Zenon DEF Folded
<1>27. PICK q13 \in Int :
         w[13] * Power(13)
           = (-1) * Part(w[13], 0) + (-1) * Part(w[13], 1) + (-1) * Part(w[13], 2) + 1 * Part(w[13], 3) + 2 * Part(w[13], 4) + 2 * Part(w[13], 5) + 1 * Part(w[13], 6) + (-1) * Part(w[13], 7) + q13 * p
  BY <1>19, Zenon DEF Folded
<1>28. PICK q14 \in Int :
         w[14] * Power(14)
           = (-1) * Part(w[14], 0) + (-1) * Part(w[14], 1) + (-1) * Part(w[14], 2) + 0 * Part(w[14], 3) + 1 * Part(w[14], 4) + 2 * Part(w[14], 5) + 3 * Part(w[14], 6) + 0 * Part(w[14], 7) + q14 * p
  BY <1>20, Zenon DEF Folded
<1>29. PICK q15 \in Int :
         w[15] * Power(15)
           = 0 * Part(w[15], 0) + (-1) * Part(w[15], 1) + (-1) * Part(w[15], 2) + (-1) * Part(w[15], 3) + 0 * Part(w[15], 4) + 1 * Part(w[15], 5) + 2 * Part(w[15], 6) + 3 * Part(w[15], 7) + q15 * p
  BY <1>21, Zenon DEF Folded
<1>. DEFINE y8 == w[8] * Power(8)
            y9 == w[9] * Power(9)
            y10 == w[10] * Power(10)
            y11 == w[11] * Power(11)
            y12 == w[12] * Power(12)
            y13 == w[13] * Power(13)
            y14 == w[14] * Power(14)
            y15 == w[15] * Power(15)
            z8 == q8 * p
            z9 == q9 * p
            z10 == q10 * p
            z11 == q11 * p
            z12 == q12 * p
            z13 == q13 * p
            z14 == q14 * p
            z15 == q15 * p
            v8 == 1 * Part(w[8], 0) + 0 * Part(w[8], 1) + 0 * Part(w[8], 2) + (-1) * Part(w[8], 3) + 0 * Part(w[8], 4) + 0 * Part(w[8], 5) + (-1) * Part(w[8], 6) + 1 * Part(w[8], 7)
            v9 == 1 * Part(w[9], 0) + 1 * Part(w[9], 1) + 0 * Part(w[9], 2) + (-1) * Part(w[9], 3) + (-1) * Part(w[9], 4) + 0 * Part(w[9], 5) + (-1) * Part(w[9], 6) + 0 * Part(w[9], 7)
            v10 == 0 * Part(w[10], 0) + 1 * Part(w[10], 1) + 1 * Part(w[10], 2) + 0 * Part(w[10], 3) + (-1) * Part(w[10], 4) + (-1) * Part(w[10], 5) + 0 * Part(w[10], 6) + (-1) * Part(w[10], 7)
            v11 == (-1) * Part(w[11], 0) + 0 * Part(w[11], 1) + 1 * Part(w[11], 2) + 2 * Part(w[11], 3) + 0 * Part(w[11], 4) + (-1) * Part(w[11], 5) + 0 * Part(w[11], 6) + (-1) * Part(w[11], 7)
            v12 == (-1) * Part(w[12], 0) + (-1) * Part(w[12], 1) + 0 * Part(w[12], 2) + 2 * Part(w[12], 3) + 2 * Part(w[12], 4) + 0 * Part(w[12], 5) + 0 * Part(w[12], 6) + (-1) * Part(w[12], 7)
            v13 == (-1) * Part(w[13], 0) + (-1) * Part(w[13], 1) + (-1) * Part(w[13], 2) + 1 * Part(w[13], 3) + 2 * Part(w[13], 4) + 2 * Part(w[13], 5) + 1 * Part(w[13], 6) + (-1) * Part(w[13], 7)
            v14 == (-1) * Part(w[14], 0) + (-1) * Part(w[14], 1) + (-1) * Part(w[14], 2) + 0 * Part(w[14], 3) + 1 * Part(w[14], 4) + 2 * Part(w[14], 5) + 3 * Part(w[14], 6) + 0 * Part(w[14], 7)
            v15 == 0 * Part(w[15], 0) + (-1) * Part(w[15], 1) + (-1) * Part(w[15], 2) + (-1) * Part(w[15], 3) + 0 * Part(w[15], 4) + 1 * Part(w[15], 5) + 2 * Part(w[15], 6) + 3 * Part(w[15], 7)
            q == q8 + q9 + q10 + q11 + q12 + q13 + q14 + q15
<1>30. product = low + y8 + y9 + y10 + y11 + y12 + y13 + y14 + y15
  BY <1>4
<1>31. /\ y8 = v8 + z8 /\ y9 = v9 + z9 /\ y10 = v10 + z10 /\ y11 = v11 + z11
       /\ y12 = v12 + z12 /\ y13 = v13 + z13 /\ y14 = v14 + z14 /\ y15 = v15 + z15
  BY <1>22, <1>23, <1>24, <1>25, <1>26, <1>27, <1>28, <1>29, Zenon
<1>32. /\ z8 \in Int /\ z9 \in Int /\ z10 \in Int /\ z11 \in Int
       /\ z12 \in Int /\ z13 \in Int /\ z14 \in Int /\ z15 \in Int
       /\ q \in Int /\ z8 + z9 + z10 + z11 + z12 + z13 + z14 + z15 = q * p
  BY <1>5
<1>33. ASSUME NEW x \in Int
       PROVE  /\ Part(x, 0) \in Int /\ Part(x, 1) \in Int /\ Part(x, 2) \in Int /\ Part(x, 3) \in Int
              /\ Part(x, 4) \in Int /\ Part(x, 5) \in Int /\ Part(x, 6) \in Int /\ Part(x, 7) \in Int
  BY PartProperties
<1>34. /\ Part(w[8], 0) \in Int /\ Part(w[8], 1) \in Int /\ Part(w[8], 2) \in Int /\ Part(w[8], 3) \in Int
       /\ Part(w[8], 4) \in Int /\ Part(w[8], 5) \in Int /\ Part(w[8], 6) \in Int /\ Part(w[8], 7) \in Int
       /\ Part(w[9], 0) \in Int /\ Part(w[9], 1) \in Int /\ Part(w[9], 2) \in Int /\ Part(w[9], 3) \in Int
       /\ Part(w[9], 4) \in Int /\ Part(w[9], 5) \in Int /\ Part(w[9], 6) \in Int /\ Part(w[9], 7) \in Int
       /\ Part(w[10], 0) \in Int /\ Part(w[10], 1) \in Int /\ Part(w[10], 2) \in Int /\ Part(w[10], 3) \in Int
       /\ Part(w[10], 4) \in Int /\ Part(w[10], 5) \in Int /\ Part(w[10], 6) \in Int /\ Part(w[10], 7) \in Int
       /\ Part(w[11], 0) \in Int /\ Part(w[11], 1) \in Int /\ Part(w[11], 2) \in Int /\ Part(w[11], 3) \in Int
       /\ Part(w[11], 4) \in Int /\ Part(w[11], 5) \in Int /\ Part(w[11], 6) \in Int /\ Part(w[11], 7) \in Int
       /\ Part(w[12], 0) \in Int /\ Part(w[12], 1) \in Int /\ Part(w[12], 2) \in Int /\ Part(w[12], 3) \in Int
       /\ Part(w[12], 4) \in Int /\ Part(w[12], 5) \in Int /\ Part(w[12], 6) \in Int /\ Part(w[12], 7) \in Int
       /\ Part(w[13], 0) \in Int /\ Part(w[13], 1) \in Int /\ Part(w[13], 2) \in Int /\ Part(w[13], 3) \in Int
       /\ Part(w[13], 4) \in Int /\ Part(w[13], 5) \in Int /\ Part(w[13], 6) \in Int /\ Part(w[13], 7) \in Int
       /\ Part(w[14], 0) \in Int /\ Part(w[14], 1) \in Int /\ Part(w[14], 2) \in Int /\ Part(w[14], 3) \in Int
       /\ Part(w[14], 4) \in Int /\ Part(w[14], 5) \in Int /\ Part(w[14], 6) \in Int /\ Part(w[14], 7) \in Int
       /\ Part(w[15], 0) \in Int /\ Part(w[15], 1) \in Int /\ Part(w[15], 2) \in Int /\ Part(w[15], 3) \in Int
       /\ Part(w[15], 4) \in Int /\ Part(w[15], 5) \in Int /\ Part(w[15], 6) \in Int /\ Part(w[15], 7) \in Int
  BY <1>3, <1>33
<1>35. low + v8 + v9 + v10 + v11 + v12 + v13 + v14 + v15
         = low
              + 2 * (Part(w[11], 3) + Part(w[12], 4) + Part(w[13], 5) + Part(w[14], 6) + Part(w[15], 7))
              + 2 * (Part(w[12], 3) + Part(w[13], 4) + Part(w[14], 5) + Part(w[15], 6))
              + (Part(w[8], 0) + Part(w[9], 1) + Part(w[10], 2) + Part(w[14], 6) + Part(w[15], 7))
              + (Part(w[9], 0) + Part(w[10], 1) + Part(w[11], 2) + Part(w[13], 3) + Part(w[14], 4) + Part(w[15], 5) + Part(w[13], 6) + Part(w[8], 7))
              - (Part(w[11], 0) + Part(w[12], 1) + Part(w[13], 2) + Part(w[8], 6) + Part(w[10], 7))
              - (Part(w[12], 0) + Part(w[13], 1) + Part(w[14], 2) + Part(w[15], 3) + Part(w[9], 6) + Part(w[11], 7))
              - (Part(w[13], 0) + Part(w[14], 1) + Part(w[15], 2) + Part(w[8], 3) + Part(w[9], 4) + Part(w[10], 5) + Part(w[12], 7))
              - (Part(w[14], 0) + Part(w[15], 1) + Part(w[9], 3) + Part(w[10], 4) + Part(w[11], 5) + Part(w[13], 7))
  BY ONLY <1>5, <1>34
<1>36. low + v8 + v9 + v10 + v11 + v12 + v13 + v14 + v15 = total
  BY <1>6, <1>7, <1>8, <1>9, <1>10, <1>11, <1>12, <1>13, <1>35, Zenon
<1>37. /\ v8 \in Int /\ v9 \in Int /\ v10 \in Int /\ v11 \in Int
       /\ v12 \in Int /\ v13 \in Int /\ v14 \in Int /\ v15 \in Int
  BY ONLY <1>34
<1>. HIDE DEF y8, y9, y10, y11, y12, y13, y14, y15, q, z8, z9, z10, z11, z12, z13, z14, z15,
              v8, v9, v10, v11, v12, v13, v14, v15, total
<1>38. low + y8 + y9 + y10 + y11 + y12 + y13 + y14 + y15 = total + (z8 + z9 + z10 + z11 + z12 + z13 + z14 + z15)
       /\ total \in Int
  BY <1>5, <1>31, <1>32, <1>36, <1>37
<1>39. product = total + q * p
  BY <1>30, <1>32, <1>38, Zenon
<1>40. product % p = total % p
  BY <1>32, <1>38, <1>39, SameRemainder
<1>. QED  BY <1>1, <1>38, <1>40, ReducedIsRemainder

-------------------------------------------------------------------------------
(* Arithmetic modulo p                                                         *)

(* x and y stand for reduced numbers from here on.                             *)
LEMMA RemainderOf ==
  ASSUME NEW x \in Int
  PROVE  /\ x % p \in Residues
         /\ x \in Residues => x % p = x
         /\ x - p \in Residues => x % p = x - p
         /\ x + p \in Residues => x % p = x + p
<1>1. p \in Nat /\ p > 0
  BY ModInvAssumption
<1>2. x % p \in Residues
  BY <1>1, Division DEF Residues
<1>3. x = 0 * p + x /\ x = 1 * p + (x - p) /\ x = (-1) * p + (x + p)
  BY <1>1
<1>. QED  BY <1>1, <1>2, <1>3, DivisionIs DEF Residues

(* uECC_vli_modAdd adds modulo p although the sum may overflow the words.      *)
LEMMA ModAddIsSum ==
  ASSUME NEW x \in Residues, NEW y \in Residues
  PROVE  ModAdd(x, y) \in Residues /\ ModAdd(x, y) = (x + y) % p
<1>. DEFINE sum == Add(x, y)
<1>1. /\ x \in Int /\ 0 <= x /\ x < p /\ y \in Int /\ 0 <= y /\ y < p /\ p \in Nat /\ p < Top /\ Top \in Nat
      /\ x \in Numbers /\ y \in Numbers /\ p \in Numbers
  BY ModInvAssumption DEF Residues, Numbers
<1>2. sum.value \in Numbers /\ sum.carry \in {0, 1} /\ sum.value + sum.carry * Top = x + y
  BY <1>1, AddCorrect
<1>3. Sub(sum.value, p).value = IF sum.value < p THEN sum.value - p + Top ELSE sum.value - p
  BY <1>1, <1>2, SubCorrect
<1>4. ModAdd(x, y) = IF sum.carry # 0 \/ p <= sum.value THEN Sub(sum.value, p).value ELSE sum.value
  BY Zenon DEF ModAdd
<1>. HIDE DEF sum
<1>5. sum.value \in Int /\ 0 <= sum.value /\ sum.value < Top
  BY <1>1, <1>2 DEF Numbers
<1>6. CASE x + y < p
  <2>1. ModAdd(x, y) = x + y
    <3>1. sum.carry = 0
      BY <1>1, <1>2, <1>5, <1>6
    <3>. QED  BY <1>1, <1>2, <1>4, <1>5, <1>6, <3>1
  <2>2. x + y \in Residues /\ x + y \in Int
    BY <1>1, <1>6 DEF Residues
  <2>. QED  BY <2>1, <2>2, RemainderOf
<1>7. CASE x + y >= p
  <2>1. ModAdd(x, y) = (x + y) - p
    <3>1. CASE sum.carry = 0
      BY <1>1, <1>2, <1>3, <1>4, <1>5, <1>7, <3>1
    <3>2. CASE sum.carry = 1
      BY <1>1, <1>2, <1>3, <1>4, <1>5, <1>7, <3>2
    <3>. QED  BY <1>2, <3>1, <3>2
  <2>. DEFINE t == x + y
  <2>2. t - p \in Residues /\ t \in Int
    BY <1>1, <1>7 DEF Residues
  <2>. HIDE DEF t
  <2>3. t % p = t - p
    BY <2>2, RemainderOf
  <2>4. ModAdd(x, y) = t - p
    BY <2>1, Zenon DEF t
  <2>5. ModAdd(x, y) = (x + y) % p
    BY <2>3, <2>4, Zenon DEF t
  <2>. QED  BY <2>2, <2>4, <2>5, Zenon
<1>8. x + y < p \/ x + y >= p
  BY <1>1
<1>. QED  BY <1>6, <1>7, <1>8, Zenon

(* uECC_vli_modSub subtracts modulo p, through a difference that wraps around. *)
LEMMA ModSubIsDifference ==
  ASSUME NEW x \in Residues, NEW y \in Residues
  PROVE  ModSub(x, y) \in Residues /\ ModSub(x, y) = (x - y) % p
<1>. DEFINE d == Sub(x, y)
            s == Add(d.value, p)
<1>1. /\ x \in Int /\ 0 <= x /\ x < p /\ y \in Int /\ 0 <= y /\ y < p /\ p \in Nat /\ p < Top /\ Top \in Nat
      /\ x \in Numbers /\ y \in Numbers /\ p \in Numbers
  BY ModInvAssumption DEF Residues, Numbers
<1>2. d.value = IF x < y THEN x - y + Top ELSE x - y
  BY <1>1, SubCorrect
<1>3. d.borrow = IF x < y THEN 1 ELSE 0
  BY DEF Sub
<1>4. ModSub(x, y) = IF d.borrow # 0 THEN s.value ELSE d.value
  BY Zenon DEF ModSub
<1>. HIDE DEF d
<1>5. d.value \in Numbers
  BY <1>1, <1>2 DEF Numbers
<1>6. s.value \in Numbers /\ s.carry \in {0, 1} /\ s.value + s.carry * Top = d.value + p
  BY <1>1, <1>5, AddCorrect
<1>. HIDE DEF s
<1>7. CASE x < y
  <2>1. ModSub(x, y) = s.value
    BY <1>3, <1>4, <1>7
  <2>2. s.value \in Int /\ 0 <= s.value /\ s.value < Top /\ d.value = x - y + Top
    BY <1>1, <1>2, <1>6, <1>7 DEF Numbers
  <2>3. s.value = x - y + p
    <3>1. CASE s.carry = 0
      BY <1>1, <1>6, <1>7, <2>2, <3>1
    <3>2. CASE s.carry = 1
      BY <1>1, <1>6, <1>7, <2>2, <3>2
    <3>. QED  BY <1>6, <3>1, <3>2
  <2>4. x - y + p \in Residues /\ x - y \in Int
    BY <1>1, <1>7 DEF Residues
  <2>. QED  BY <2>1, <2>3, <2>4, RemainderOf
<1>8. CASE x >= y
  <2>1. ModSub(x, y) = x - y
    BY <1>1, <1>2, <1>3, <1>4, <1>8
  <2>2. x - y \in Residues /\ x - y \in Int
    BY <1>1, <1>8 DEF Residues
  <2>. QED  BY <2>1, <2>2, RemainderOf
<1>. QED  BY <1>1, <1>7, <1>8

(* The product of two numbers has twice the words.                             *)
LEMMA ProductFits ==
  ASSUME NEW x \in Numbers, NEW y \in Numbers
  PROVE  x * y \in 0..(Top * Top - 1)
<1>1. x \in Int /\ 0 <= x /\ x <= Top - 1 /\ y \in Int /\ 0 <= y /\ y <= Top - 1 /\ Top \in Nat /\ Top >= 1
  BY ModInvAssumption DEF Numbers
<1>2. 0 <= x * y /\ x * y \in Int /\ Top * Top \in Int
  BY <1>1
<1>3. x * y <= (Top - 1) * y
  <2>1. (Top - 1 - x) * y >= 0
    BY <1>1
  <2>2. (Top - 1 - x) * y = (Top - 1) * y - x * y
    BY <1>1
  <2>. QED  BY <1>1, <1>2, <2>1, <2>2
<1>4. (Top - 1) * y <= (Top - 1) * Top
  BY <1>1
<1>5. (Top - 1) * Top = Top * Top - Top
  BY <1>1
<1>6. (Top - 1) * y \in Int
  BY <1>1
<1>. DEFINE e == x * y
            f == (Top - 1) * y
            g == Top * Top
            h == (Top - 1) * Top
<1>7. 0 <= e /\ e \in Int /\ g \in Int /\ e <= f /\ f <= h /\ h = g - Top /\ f \in Int
  BY <1>2, <1>3, <1>4, <1>5, <1>6
<1>. HIDE DEF e, f, g, h
<1>8. e \in 0..(g - 1)
  BY <1>1, <1>7
<1>. QED  BY <1>8 DEF e, g

(* uECC_vli_modMult_fast multiplies modulo p.                                  *)
LEMMA ModMultIsProduct ==
  ASSUME NEW x \in Residues, NEW y \in Residues
  PROVE  ModMult(x, y) \in Residues /\ ModMult(x, y) = (x * y) % p
<1>1. x \in Numbers /\ y \in Numbers
  BY ModInvAssumption DEF Residues, Numbers
<1>2. x * y \in 0..(Top * Top - 1)
  BY <1>1, ProductFits
<1>3. MmodFast(x * y) = (x * y) % p
  BY <1>2, MmodFastIsRemainder
<1>4. (x * y) % p \in Residues
  BY <1>2, RemainderOf
<1>. QED  BY <1>3, <1>4 DEF ModMult

-------------------------------------------------------------------------------
(* Operations on points                                                        *)

(* Every operation on reduced coordinates gives reduced coordinates.           *)
LEMMA Closed ==
  /\ \A x \in Residues, y \in Residues :
       ModAdd(x, y) \in Residues /\ ModSub(x, y) \in Residues /\ ModMult(x, y) \in Residues
  /\ \A x \in Residues : ModSquare(x) \in Residues /\ Halve(x) \in Residues
  /\ 0 \in Residues /\ 1 \in Residues
<1>1. \A x \in Residues, y \in Residues :
        ModAdd(x, y) \in Residues /\ ModSub(x, y) \in Residues /\ ModMult(x, y) \in Residues
  BY ModAddIsSum, ModSubIsDifference, ModMultIsProduct
<1>2. \A x \in Residues : Halve(x) \in Residues
  BY HalveCorrect
<1>3. 0 \in Residues /\ 1 \in Residues
  BY ModInvAssumption DEF Residues
<1>. QED  BY <1>1, <1>2, <1>3, Zenon DEF ModSquare

LEMMA CoordinatesAre ==
  /\ \A P \in Coordinates : P.x \in Residues /\ P.y \in Residues
  /\ \A x \in Residues, y \in Residues : [x |-> x, y |-> y] \in Coordinates
BY DEF Coordinates, Residues

LEMMA ApplyZClosed ==
  ASSUME NEW P \in Coordinates, NEW z \in Residues
  PROVE  ApplyZ(P, z) \in Coordinates
<1>1. P.x \in Residues /\ P.y \in Residues
  BY CoordinatesAre
<1>2. ModSquare(z) \in Residues
  BY Closed
<1>3. ModMult(P.x, ModSquare(z)) \in Residues /\ ModMult(ModSquare(z), z) \in Residues
  BY <1>1, <1>2, Closed
<1>4. ModMult(P.y, ModMult(ModSquare(z), z)) \in Residues
  BY <1>1, <1>3, Closed
<1>. QED  BY <1>3, <1>4, CoordinatesAre, Zenon DEF ApplyZ

LEMMA DoubleClosed ==
  ASSUME NEW P \in Coordinates, NEW z \in Residues
  PROVE  DoubleJacobian(P, z).point \in Coordinates /\ DoubleJacobian(P, z).z \in Residues
<1>. DEFINE yy == ModSquare(P.y)
            xyy == ModMult(P.x, yy)
            zz == ModSquare(z)
            plus == ModAdd(P.x, zz)
            m == ModMult(plus, ModSub(plus, ModAdd(zz, zz)))
            slope == Halve(ModAdd(m, ModAdd(m, m)))
            x3 == ModSub(ModSub(ModSquare(slope), xyy), xyy)
            y3 == ModSub(ModMult(slope, ModSub(xyy, x3)), ModSquare(yy))
            z3 == ModMult(P.y, z)
<1>0. DoubleJacobian(P, z).point = [x |-> x3, y |-> y3] /\ DoubleJacobian(P, z).z = z3
  BY DEF DoubleJacobian
<1>1. P.x \in Residues /\ P.y \in Residues
  BY CoordinatesAre
<1>2. yy \in Residues /\ zz \in Residues /\ z3 \in Residues
  BY <1>1, Closed
<1>3. xyy \in Residues /\ plus \in Residues /\ ModAdd(zz, zz) \in Residues /\ ModSquare(yy) \in Residues
  <2>. HIDE DEF yy, zz
  <2>. QED  BY <1>1, <1>2, Closed
<1>. HIDE DEF yy, xyy, zz, plus, z3
<1>4. ModSub(plus, ModAdd(zz, zz)) \in Residues
  BY <1>3, Closed
<1>5. m \in Residues
  BY <1>3, <1>4, Closed
<1>. HIDE DEF m
<1>6. ModAdd(m, m) \in Residues
  BY <1>5, Closed
<1>7. ModAdd(m, ModAdd(m, m)) \in Residues
  BY <1>5, <1>6, Closed
<1>8. slope \in Residues
  BY <1>7, Closed
<1>. HIDE DEF slope
<1>9. ModSquare(slope) \in Residues
  BY <1>8, Closed
<1>10. ModSub(ModSquare(slope), xyy) \in Residues
  BY <1>3, <1>9, Closed
<1>11. x3 \in Residues
  BY <1>3, <1>10, Closed
<1>. HIDE DEF x3
<1>12. ModSub(xyy, x3) \in Residues
  BY <1>3, <1>11, Closed
<1>13. ModMult(slope, ModSub(xyy, x3)) \in Residues
  BY <1>8, <1>12, Closed
<1>14. y3 \in Residues
  BY <1>3, <1>13, Closed
<1>. HIDE DEF y3
<1>. QED  BY <1>0, <1>2, <1>11, <1>14, CoordinatesAre, Zenon

LEMMA InitialDoubleClosed ==
  ASSUME NEW P \in Coordinates, NEW z \in Residues
  PROVE  InitialDouble(P, z)[1] \in Coordinates /\ InitialDouble(P, z)[2] \in Coordinates
<1>. DEFINE one == ApplyZ(P, z)
            double == DoubleJacobian(one, z)
<1>1. one \in Coordinates
  BY ApplyZClosed
<1>. HIDE DEF one
<1>2. double.point \in Coordinates /\ double.z \in Residues
  BY <1>1, DoubleClosed
<1>. HIDE DEF double
<1>3. ApplyZ(P, double.z) \in Coordinates
  BY <1>2, ApplyZClosed
<1>4. InitialDouble(P, z) = <<ApplyZ(P, double.z), double.point>>
  BY Zenon DEF InitialDouble, one, double
<1>. QED  BY <1>2, <1>3, <1>4

LEMMA AddClosed ==
  ASSUME NEW P \in Coordinates, NEW Q \in Coordinates
  PROVE  XYcZAdd(P, Q)[1] \in Coordinates /\ XYcZAdd(P, Q)[2] \in Coordinates
<1>. DEFINE A == ModSquare(ModSub(Q.x, P.x))
            b1 == ModMult(P.x, A)
            c1 == ModMult(Q.x, A)
            dy == ModSub(Q.y, P.y)
            x3 == ModSub(ModSub(ModSquare(dy), b1), c1)
            y1 == ModMult(P.y, ModSub(c1, b1))
            y3 == ModSub(ModMult(dy, ModSub(b1, x3)), y1)
<1>0. XYcZAdd(P, Q) = <<[x |-> b1, y |-> y1], [x |-> x3, y |-> y3]>>
  BY Zenon DEF XYcZAdd
<1>1. P.x \in Residues /\ P.y \in Residues /\ Q.x \in Residues /\ Q.y \in Residues
  BY CoordinatesAre
<1>2. ModSub(Q.x, P.x) \in Residues /\ dy \in Residues
  BY <1>1, Closed
<1>3. A \in Residues
  BY <1>2, Closed
<1>. HIDE DEF A, dy
<1>4. b1 \in Residues /\ c1 \in Residues /\ ModSquare(dy) \in Residues
  BY <1>1, <1>2, <1>3, Closed
<1>. HIDE DEF b1, c1
<1>5. ModSub(c1, b1) \in Residues /\ ModSub(ModSquare(dy), b1) \in Residues
  BY <1>4, Closed
<1>6. x3 \in Residues /\ y1 \in Residues
  BY <1>1, <1>4, <1>5, Closed
<1>. HIDE DEF x3, y1
<1>7. ModSub(b1, x3) \in Residues
  BY <1>4, <1>6, Closed
<1>8. ModMult(dy, ModSub(b1, x3)) \in Residues
  BY <1>2, <1>7, Closed
<1>9. y3 \in Residues
  BY <1>6, <1>8, Closed
<1>. HIDE DEF y3
<1>10. [x |-> b1, y |-> y1] \in Coordinates /\ [x |-> x3, y |-> y3] \in Coordinates
  BY <1>4, <1>6, <1>9, CoordinatesAre, Zenon
<1>. QED  BY <1>0, <1>10

LEMMA AddCClosed ==
  ASSUME NEW P \in Coordinates, NEW Q \in Coordinates
  PROVE  XYcZAddC(P, Q)[1] \in Coordinates /\ XYcZAddC(P, Q)[2] \in Coordinates
<1>. DEFINE A == ModSquare(ModSub(Q.x, P.x))
            b1 == ModMult(P.x, A)
            c1 == ModMult(Q.x, A)
            sy == ModAdd(Q.y, P.y)
            dy == ModSub(Q.y, P.y)
            e1 == ModMult(P.y, ModSub(c1, b1))
            bc == ModAdd(b1, c1)
            x3 == ModSub(ModSquare(dy), bc)
            xd == ModSub(ModSquare(sy), bc)
            yd == ModSub(ModMult(ModSub(xd, b1), sy), e1)
            y3 == ModSub(ModMult(dy, ModSub(b1, x3)), e1)
<1>0. XYcZAddC(P, Q) = <<[x |-> xd, y |-> yd], [x |-> x3, y |-> y3]>>
  BY Zenon DEF XYcZAddC
<1>1. P.x \in Residues /\ P.y \in Residues /\ Q.x \in Residues /\ Q.y \in Residues
  BY CoordinatesAre
<1>2. ModSub(Q.x, P.x) \in Residues /\ dy \in Residues /\ sy \in Residues
  BY <1>1, Closed
<1>3. A \in Residues
  BY <1>2, Closed
<1>. HIDE DEF A, dy, sy
<1>4. b1 \in Residues /\ c1 \in Residues /\ ModSquare(dy) \in Residues /\ ModSquare(sy) \in Residues
  BY <1>1, <1>2, <1>3, Closed
<1>. HIDE DEF b1, c1
<1>5. ModSub(c1, b1) \in Residues /\ bc \in Residues
  BY <1>4, Closed
<1>. HIDE DEF bc
<1>6. x3 \in Residues /\ xd \in Residues /\ e1 \in Residues
  BY <1>1, <1>4, <1>5, Closed
<1>. HIDE DEF x3, xd, e1
<1>7. ModSub(b1, x3) \in Residues /\ ModSub(xd, b1) \in Residues
  BY <1>4, <1>6, Closed
<1>8. ModMult(dy, ModSub(b1, x3)) \in Residues /\ ModMult(ModSub(xd, b1), sy) \in Residues
  BY <1>2, <1>7, Closed
<1>9. y3 \in Residues /\ yd \in Residues
  BY <1>6, <1>8, Closed
<1>. HIDE DEF y3, yd
<1>10. [x |-> xd, y |-> yd] \in Coordinates /\ [x |-> x3, y |-> y3] \in Coordinates
  BY <1>6, <1>9, CoordinatesAre, Zenon
<1>. QED  BY <1>0, <1>10

-------------------------------------------------------------------------------
(* The loops over words                                                        *)

(* The numbers of the model are those that the words hold.                     *)
LEMMA WordsAreNumbers ==
  /\ Total = Top /\ n \in Numbers /\ 0 \in Numbers
  /\ \A x \in Numbers : ToWords(x) \in Words(NumWords) /\ ValueOf(ToWords(x)) = x /\ x \in Nat
  /\ \A words \in Words(NumWords) : ValueOf(words) \in Numbers
  /\ NumWords \in 1..(2 * NumWords)
<1>1. Total = Top
  BY EcdhAssumption DEF Total, Weight
<1>2. Top \in Nat /\ n \in Numbers /\ 0 \in Numbers
  BY ModInvAssumption, EcdhAssumption DEF Numbers
<1>3. ASSUME NEW x \in Numbers PROVE ToWords(x) \in Words(NumWords) /\ ValueOf(ToWords(x)) = x /\ x \in Nat
  BY <1>1, <1>2, WordsHoldNumber DEF Numbers
<1>4. NumWords \in 1..(2 * NumWords) /\ NumWords \in 0..(2 * NumWords)
  BY WordsNumbers
<1>5. ASSUME NEW words \in Words(NumWords) PROVE ValueOf(words) \in Numbers
  <2>1. ValueOf(words) \in 0..(Weight(NumWords + 1) - 1)
    BY <1>4, ValueRange
  <2>. QED  BY <1>1, <2>1 DEF Total, Numbers
<1>. QED  BY <1>1, <1>2, <1>3, <1>4, <1>5

(* A number of twice the words is reduced modulo the order of the curve.       *)
LEMMA MmodIsRemainder ==
  ASSUME NEW product \in 0..(Top * Top - 1)
  PROVE  Mmod(product) = product % n /\ Mmod(product) \in Numbers
<1>. DEFINE words == DoubleWords(product)
            mod == ToWords(n)
<1>1. mod \in Words(NumWords) /\ ValueOf(mod) = n
  BY WordsAreNumbers
<1>2. Weight(2 * NumWords + 1) = Top * Top
  <2>1. /\ NumWords + 1 \in 1..(2 * NumWords + 1)
        /\ (NumWords + 1) + (NumWords + 1) - 1 = 2 * NumWords + 1
        /\ (NumWords + 1) + (NumWords + 1) - 1 <= 2 * NumWords + 1
    BY WordsNumbers
  <2>2. Weight(NumWords + 1) * Weight(NumWords + 1) = Weight((NumWords + 1) + (NumWords + 1) - 1)
    BY <2>1, WeightProduct
  <2>. QED  BY <2>1, <2>2, WordsAreNumbers, Zenon DEF Total
<1>3. product \in Nat /\ product \in 0..(Weight(2 * NumWords + 1) - 1)
  BY <1>2
<1>4. words \in Words(2 * NumWords) /\ ValueOf(words) = product
  BY <1>3, WordsHoldNumber
<1>5. 2 * ValueOf(mod) > Total
  BY <1>1, WordsAreNumbers, EcdhAssumption, Zenon
<1>. HIDE DEF words, mod
<1>6. MmodWords(words, mod) \in Words(NumWords) /\ ValueOf(MmodWords(words, mod)) = product % n
  BY <1>1, <1>4, <1>5, MmodWordsIsRemainder
<1>. QED  BY <1>6, WordsAreNumbers, Zenon DEF Mmod, words, mod

(* Every loop over words of ecc.c does to the words of two numbers what the    *)
(* integers of this model do to the numbers: addition and subtraction with the *)
(* carry and the borrow, both compares, the shift, the product, its remainders *)
(* by p and by n, and the two conversions of bytes.                            *)
THEOREM LoopsAgree ==
  ASSUME NEW x \in Numbers, NEW y \in Numbers
  PROVE  LET xw == ToWords(x)
             yw == ToWords(y)
             sum == AddWords(xw, yw)
             difference == SubWords(xw, yw)
             order == IF x < y THEN -1 ELSE IF x = y THEN 0 ELSE 1
         IN  /\ [value |-> ValueOf(sum.words), carry |-> sum.carry] = Add(x, y)
             /\ [value |-> ValueOf(difference.words), borrow |-> difference.borrow] = Sub(x, y)
             /\ CmpUnsafe(xw, yw) = order /\ CmpConstantTime(xw, yw) = order
             /\ ValueOf(ShiftRightWords(xw)) = ShiftRight(x)
             /\ ValueOf(MultWords(xw, yw)) = x * y
             /\ MmodFast(x * y) = (x * y) % p
             /\ Mmod(x * y) = (x * y) % n
             /\ NativeToBytes(xw) = [i \in 1..NumBytes |-> (x \div BytePower[NumBytes - i + 1]) % ByteBase]
             /\ BytesToNative(NativeToBytes(xw)) = xw
<1>. DEFINE xw == ToWords(x)
            yw == ToWords(y)
            sum == AddWords(xw, yw)
            difference == SubWords(xw, yw)
            order == IF x < y THEN -1 ELSE IF x = y THEN 0 ELSE 1
<1>1. /\ xw \in Words(NumWords) /\ ValueOf(xw) = x /\ x \in Nat
      /\ yw \in Words(NumWords) /\ ValueOf(yw) = y /\ y \in Nat
  BY WordsAreNumbers
<1>2. NativeToBytes(xw) = [i \in 1..NumBytes |-> (x \div BytePower[NumBytes - i + 1]) % ByteBase]
  BY <1>1, NativeToBytesAreDigits
<1>3. BytesToNative(NativeToBytes(xw)) = xw
  BY <1>1, BytesToNativeIsInverse
<1>. HIDE DEF xw, yw
<1>4. [value |-> ValueOf(sum.words), carry |-> sum.carry] = Add(x, y)
  <2>1. sum.words \in Words(NumWords) /\ sum.carry \in {0, 1} /\ ValueOf(sum.words) + sum.carry * Total = x + y
    BY <1>1, AddWordsIsSum
  <2>. DEFINE s == ValueOf(sum.words)
              c == sum.carry
  <2>2. s \in Numbers /\ c \in {0, 1} /\ s + c * Top = x + y
    BY <2>1, WordsAreNumbers
  <2>. HIDE DEF s, c
  <2>3. Top \in Nat /\ Top > 0 /\ s \in 0..(Top - 1) /\ c \in Int /\ x + y \in Int /\ x + y = c * Top + s
    BY <1>1, <2>2, ModInvAssumption DEF Numbers
  <2>4. (x + y) \div Top = c /\ (x + y) % Top = s
    BY <2>3, DivisionIs
  <2>5. Add(x, y) = [value |-> s, carry |-> c]
    BY <2>4, Zenon DEF Add
  <2>. QED  BY <2>5, Zenon DEF s, c
<1>5. [value |-> ValueOf(difference.words), borrow |-> difference.borrow] = Sub(x, y)
  <2>1. IF x < y THEN difference.borrow = 1 /\ ValueOf(difference.words) = x - y + Total
        ELSE difference.borrow = 0 /\ ValueOf(difference.words) = x - y
    BY <1>1, WordsAreNumbers, SubWordsBorrow DEF Total
  <2>2. Sub(x, y).value = IF x < y THEN x - y + Top ELSE x - y
    BY SubCorrect
  <2>3. Sub(x, y) = [value |-> Sub(x, y).value, borrow |-> IF x < y THEN 1 ELSE 0]
    BY DEF Sub
  <2>4. ValueOf(difference.words) = Sub(x, y).value /\ difference.borrow = IF x < y THEN 1 ELSE 0
    BY <2>1, <2>2, WordsAreNumbers, Zenon
  <2>. QED  BY <2>3, <2>4, Zenon
<1>6. CmpUnsafe(xw, yw) = order
  BY <1>1, CmpUnsafeIsOrder
<1>7. CmpConstantTime(xw, yw) = order
  BY <1>1, CmpConstantTimeIsOrder
<1>8. ValueOf(ShiftRightWords(xw)) = ShiftRight(x)
  BY <1>1, WordsAreNumbers, ShiftRightWordsIsHalf DEF ShiftRight
<1>9. ValueOf(MultWords(xw, yw)) = x * y
  BY <1>1, MultWordsIsProduct
<1>10. x * y \in 0..(Top * Top - 1)
  BY ProductFits
<1>11. MmodFast(x * y) = (x * y) % p
  BY <1>10, MmodFastIsRemainder
<1>12. Mmod(x * y) = (x * y) % n
  BY <1>10, MmodIsRemainder
<1>. HIDE DEF sum, difference, order
<1>. QED  BY <1>2, <1>3, <1>4, <1>5, <1>6, <1>7, <1>8, <1>9, <1>11, <1>12, Zenon DEF xw, yw, sum, difference, order

-------------------------------------------------------------------------------
(* The calls                                                                   *)

(* What TypeOK needs to be inductive: a ladder starts with no try counted, a   *)
(* retry still has one, and an inversion of 0 is never entered.                *)
CallOK ==
  /\ TypeOK
  /\ pc = "idle" => tries = 0
  /\ pc = "retry" => tries < MaxTries
  /\ input = 0 => a = 0 /\ b = 0

LEMMA Ranges ==
  /\ MaxTries \in Nat /\ MaxTries >= 1 /\ NumBits \in Nat /\ NumBits >= 1 /\ G \in Coordinates /\ Zero \in Coordinates
  /\ 1..(n - 1) \subseteq Numbers /\ 0..(n - 1) \subseteq Numbers /\ 0 \in Numbers
  /\ Peers \subseteq Coordinates /\ {1} \union RandomInts \subseteq Residues
<1>1. MaxTries \in Nat /\ MaxTries >= 1 /\ NumBits \in Nat /\ NumBits >= 1
  BY EcdhAssumption
<1>2. G \in Coordinates /\ Zero \in Coordinates
  BY EcdhAssumption, ModInvAssumption DEF G, Zero, Coordinates
<1>3. 1..(n - 1) \subseteq Numbers /\ 0..(n - 1) \subseteq Numbers /\ 0 \in Numbers
  BY EcdhAssumption, ModInvAssumption DEF Numbers
<1>4. Peers \subseteq Coordinates
  BY DEF Peers, Curve
<1>5. {1} \union RandomInts \subseteq Residues
  BY ModInvAssumption DEF RandomInts, Residues
<1>. QED  BY <1>1, <1>2, <1>3, <1>4, <1>5

LEMMA RegularizeInRange ==
  ASSUME NEW k \in Numbers
  PROVE  Regularize(k) \in Numbers
<1>. DEFINE k0 == Add(k, n)
            k1 == Add(k0.value, n)
<1>1. k0.value \in Numbers
  BY WordsAreNumbers, AddCorrect
<1>. HIDE DEF k0
<1>2. k1.value \in Numbers
  BY <1>1, WordsAreNumbers, AddCorrect
<1>. HIDE DEF k1
<1>. QED  BY <1>1, <1>2, Zenon DEF Regularize, k0, k1

LEMMA BitInRange == ASSUME TypeOK PROVE nb \in {0, 1} /\ 1 - nb \in {0, 1}
<1>1. scalar \in Int /\ bit \in 0..(NumBits - 1) /\ NumBits \in Nat
  BY Ranges, ModInvAssumption DEF TypeOK
<1>2. bit + 1 \in 1..(NumBits + 1) /\ 2 \in Nat /\ 2 >= 1
  BY <1>1
<1>3. BitPower[bit + 1] \in Nat /\ BitPower[bit + 1] >= 1
  BY <1>1, <1>2, PowersPositive DEF BitPower
<1>4. scalar \div BitPower[bit + 1] \in Int
  BY <1>1, <1>3, Division
<1>5. (scalar \div BitPower[bit + 1]) % 2 \in {0, 1}
  BY <1>4
<1>. QED  BY <1>5 DEF nb, BitOf

(* The two points of the ladder, and what the operations on them return.       *)
LEMMA LadderPoints ==
  ASSUME TypeOK
  PROVE  /\ R[nb] \in Coordinates /\ R[1 - nb] \in Coordinates /\ R[0] \in Coordinates /\ R[1] \in Coordinates
         /\ AddC[1] \in Coordinates /\ AddC[2] \in Coordinates
<1>1. R[nb] \in Coordinates /\ R[1 - nb] \in Coordinates /\ R[0] \in Coordinates /\ R[1] \in Coordinates
  BY BitInRange DEF TypeOK
<1>2. AddC[1] \in Coordinates /\ AddC[2] \in Coordinates
  BY <1>1, AddCClosed, Zenon DEF AddC
<1>. QED  BY <1>1, <1>2

(* A call that starts its multiplication.                                      *)
LEMMA StartMultOK ==
  ASSUME CallOK, NEW name \in {"secret", "public", "make"}, NEW k \in Numbers,
         NEW P \in Coordinates, NEW z \in Residues,
         StartMult(name, k, P, z), tries' \in 0..MaxTries
  PROVE  CallOK'
<1>1. Regularize(k) \in Numbers /\ NumBits - 1 \in 0..(NumBits - 1)
  BY RegularizeInRange, Ranges
<1>2. /\ pc' = "double" /\ call' = name /\ key' = k /\ point' = P /\ initial_Z' = z
      /\ scalar' = Regularize(k) /\ bit' = NumBits - 1
      /\ R' = R /\ input' = input /\ a' = a /\ b' = b /\ u' = u /\ v' = v /\ result' = result /\ ret' = ret
  BY DEF StartMult, registers
<1>3. /\ pc' \in {"idle", "double", "ladder", "invert", "retry", "norandom", "done"}
      /\ call' \in {"none", "secret", "public", "make"}
      /\ initial_Z' \in 0..(p - 1) /\ key' \in 0..(Top - 1) /\ scalar' \in 0..(Top - 1) /\ bit' \in 0..(NumBits - 1)
      /\ point' \in Coordinates
  BY <1>1, <1>2 DEF Numbers, Residues
<1>4. result' \in Coordinates /\ R' \in [{0, 1} -> Coordinates] /\ ret' \in {0, 1}
  BY <1>2 DEF CallOK, TypeOK
<1>5. RegistersReduced' /\ (input = 0 => a = 0 /\ b = 0)'
  BY <1>2 DEF CallOK, TypeOK, RegistersReduced
<1>6. pc' # "idle" /\ pc' # "retry"
  BY <1>2
<1>. QED  BY <1>3, <1>4, <1>5, <1>6 DEF CallOK, TypeOK

(* A call that is refused before it computes anything.                         *)
LEMMA RefuseOK ==
  ASSUME CallOK, NEW at \in {"norandom", "done"}, NEW name \in {"secret", "public", "make"},
         NEW k \in Numbers, NEW P \in Coordinates, Refuse(at, name, k, P)
  PROVE  CallOK'
<1>1. /\ pc' = at /\ call' = name /\ key' = k /\ point' = P /\ ret' = 0
      /\ tries' = tries /\ initial_Z' = initial_Z /\ scalar' = scalar /\ bit' = bit /\ R' = R /\ result' = result
      /\ input' = input /\ a' = a /\ b' = b /\ u' = u /\ v' = v
  BY DEF Refuse, registers
<1>2. /\ pc' \in {"idle", "double", "ladder", "invert", "retry", "norandom", "done"}
      /\ call' \in {"none", "secret", "public", "make"}
      /\ key' \in 0..(Top - 1) /\ point' \in Coordinates /\ ret' \in {0, 1} /\ pc' # "idle" /\ pc' # "retry"
  BY <1>1 DEF Numbers
<1>3. /\ tries' \in 0..MaxTries /\ initial_Z' \in 0..(p - 1) /\ scalar' \in 0..(Top - 1) /\ bit' \in 0..(NumBits - 1)
      /\ result' \in Coordinates /\ R' \in [{0, 1} -> Coordinates]
  BY <1>1 DEF CallOK, TypeOK
<1>4. RegistersReduced' /\ (input = 0 => a = 0 /\ b = 0)'
  BY <1>1 DEF CallOK, TypeOK, RegistersReduced
<1>. QED  BY <1>2, <1>3, <1>4 DEF CallOK, TypeOK

LEMMA TryKeyOK == ASSUME CallOK, TryKey, tries < MaxTries PROVE CallOK'
<1>1. ASSUME NEW r \in Randoms, StartMult("make", Mmod(r), G, 1), tries' = tries + 1
      PROVE  CallOK'
  <2>1. Mmod(r) \in Numbers
    BY EcdhAssumption, MmodIsRemainder
  <2>2. tries' \in 0..MaxTries
    BY <1>1, Ranges DEF CallOK, TypeOK
  <2>. QED  BY <1>1, <2>1, <2>2, Ranges, StartMultOK
<1>2. CASE Refuse("norandom", "make", 0, G)
  BY <1>2, Ranges, RefuseOK
<1>. QED  BY <1>1, <1>2 DEF TryKey

(* One iteration of the inverse, which is never entered for 0.                 *)
LEMMA InvertedRegisters ==
  ASSUME CallOK, InversionStep
  PROVE  Entered /\ RegistersReduced' /\ (input = 0 => a = 0 /\ b = 0)'
<1>1. a # b
  BY ModInvAssumption DEF InversionStep, HalveA, HalveB, SubtractA, SubtractB, CallOK, TypeOK, RegistersReduced
<1>2. input # 0
  BY <1>1 DEF CallOK
<1>3. Entered
  BY <1>2 DEF Entered, CallOK, TypeOK
<1>4. Entered'
  BY <1>3, StepReduced
<1>. QED  BY <1>3, <1>4 DEF Entered

LEMMA CallStep == ASSUME CallOK, [Next]_vars PROVE CallOK'
<1>1. CASE UNCHANGED vars
  BY <1>1 DEF vars, locals, registers, CallOK, TypeOK, RegistersReduced
<1>2. CASE SharedSecret
  <2>1. PICK P \in Peers, k \in 1..(n - 1) :
          \/ /\ \E z \in {1} \union RandomInts : StartMult("secret", k, P, z)
             /\ tries' = 0
          \/ Refuse("norandom", "secret", k, P)
    BY <1>2 DEF SharedSecret
  <2>2. P \in Coordinates /\ k \in Numbers
    BY <2>1, Ranges
  <2>3. ASSUME NEW z \in {1} \union RandomInts, StartMult("secret", k, P, z), tries' = 0 PROVE CallOK'
    <3>1. z \in Residues /\ tries' \in 0..MaxTries
      BY <2>3, Ranges
    <3>. QED  BY <2>2, <2>3, <3>1, StartMultOK
  <2>4. CASE Refuse("norandom", "secret", k, P)
    BY <2>2, <2>4, RefuseOK
  <2>. QED  BY <2>1, <2>3, <2>4
<1>3. CASE ComputePublicKey
  <2>1. PICK k \in 0..(Top - 1) :
          \/ StartMult("public", k, G, 1) /\ tries' = 0
          \/ Refuse("done", "public", k, G)
    BY <1>3 DEF ComputePublicKey
  <2>2. k \in Numbers
    BY <2>1 DEF Numbers
  <2>3. CASE StartMult("public", k, G, 1) /\ tries' = 0
    <3>1. 1 \in Residues /\ tries' \in 0..MaxTries /\ G \in Coordinates
      BY <2>3, Ranges
    <3>. QED  BY <2>2, <2>3, <3>1, StartMultOK
  <2>4. CASE Refuse("done", "public", k, G)
    BY <2>2, <2>4, Ranges, RefuseOK
  <2>. QED  BY <2>1, <2>3, <2>4
<1>4. CASE MakeKey
  <2>1. tries < MaxTries
    BY <1>4, Ranges DEF MakeKey, Idle, CallOK
  <2>. QED  BY <1>4, <2>1, TryKeyOK DEF MakeKey
<1>5. CASE RetryKey
  BY <1>5, TryKeyOK DEF RetryKey, CallOK
<1>6. CASE FirstDouble
  <2>. DEFINE first == InitialDouble(point, initial_Z)
  <2>1. point \in Coordinates /\ initial_Z \in Residues
    BY DEF CallOK, TypeOK, Residues
  <2>2. first[1] \in Coordinates /\ first[2] \in Coordinates
    BY <2>1, InitialDoubleClosed
  <2>3. R' = [i \in {0, 1} |-> first[i + 1]]
    BY <1>6 DEF FirstDouble
  <2>. HIDE DEF first
  <2>4. R' \in [{0, 1} -> Coordinates]
    BY <2>2, <2>3
  <2>5. /\ pc' = "ladder" /\ call' = call /\ key' = key /\ tries' = tries /\ point' = point
        /\ initial_Z' = initial_Z /\ scalar' = scalar /\ bit' = bit
        /\ input' = input /\ a' = a /\ b' = b /\ u' = u /\ v' = v /\ result' = result /\ ret' = ret
    BY <1>6 DEF FirstDouble, registers
  <2>. QED  BY <2>4, <2>5 DEF CallOK, TypeOK, RegistersReduced
<1>7. CASE LadderStep
  <2>. DEFINE sums == XYcZAdd(AddC[2], AddC[1])
  <2>1. AddC[1] \in Coordinates /\ AddC[2] \in Coordinates
    BY LadderPoints DEF CallOK
  <2>2. sums[1] \in Coordinates /\ sums[2] \in Coordinates
    BY <2>1, AddClosed
  <2>3. R' = [i \in {0, 1} |-> IF i = nb THEN sums[1] ELSE sums[2]]
    BY <1>7 DEF LadderStep
  <2>. HIDE DEF sums
  <2>4. R' \in [{0, 1} -> Coordinates]
    BY <2>2, <2>3
  <2>5. /\ pc' = pc /\ call' = call /\ key' = key /\ tries' = tries /\ point' = point
        /\ initial_Z' = initial_Z /\ scalar' = scalar /\ bit' = bit - 1 /\ bit > 0 /\ pc = "ladder"
        /\ input' = input /\ a' = a /\ b' = b /\ u' = u /\ v' = v /\ result' = result /\ ret' = ret
    BY <1>7 DEF LadderStep, registers
  <2>6. bit' \in 0..(NumBits - 1)
    BY <2>5, Ranges DEF CallOK, TypeOK
  <2>. QED  BY <2>4, <2>5, <2>6 DEF CallOK, TypeOK, RegistersReduced
<1>8. CASE LastAddC
  <2>1. AddC[1] \in Coordinates /\ AddC[2] \in Coordinates
    BY LadderPoints DEF CallOK
  <2>2. R' = [i \in {0, 1} |-> IF i = nb THEN AddC[2] ELSE AddC[1]]
    BY <1>8 DEF LastAddC
  <2>3. R' \in [{0, 1} -> Coordinates]
    BY <2>1, <2>2
  <2>4. 1 - nb \in {0, 1}
    BY BitInRange DEF CallOK
  <2>. DEFINE yz == ModMult(ModSub(R'[1].x, R'[0].x), R'[1 - nb].y)
              product == ModMult(yz, point.x)
  <2>5. StartInversion(product)
    BY <1>8 DEF LastAddC
  <2>6. product \in Residues
    <3>1. R'[0] \in Coordinates /\ R'[1] \in Coordinates /\ R'[1 - nb] \in Coordinates /\ point \in Coordinates
      BY <2>3, <2>4 DEF CallOK, TypeOK
    <3>2. R'[0].x \in Residues /\ R'[1].x \in Residues /\ R'[1 - nb].y \in Residues /\ point.x \in Residues
      BY <3>1, CoordinatesAre
    <3>3. ModSub(R'[1].x, R'[0].x) \in Residues
      BY <3>2, Closed
    <3>4. yz \in Residues
      BY <3>2, <3>3, Closed
    <3>. HIDE DEF yz
    <3>. QED  BY <3>2, <3>4, Closed
  <2>. HIDE DEF product
  <2>7. RegistersReduced' /\ (input = 0 => a = 0 /\ b = 0)'
    BY <2>5, <2>6, ModInvAssumption DEF StartInversion, RegistersReduced, Residues
  <2>8. /\ pc' = "invert" /\ call' = call /\ key' = key /\ tries' = tries /\ point' = point
        /\ initial_Z' = initial_Z /\ scalar' = scalar /\ bit' = bit /\ result' = result /\ ret' = ret
    BY <1>8 DEF LastAddC
  <2>. QED  BY <2>3, <2>7, <2>8 DEF CallOK, TypeOK
<1>9. CASE Invert
  <2>1. InversionStep
    BY <1>9 DEF Invert
  <2>2. RegistersReduced' /\ (input = 0 => a = 0 /\ b = 0)'
    BY <2>1, InvertedRegisters
  <2>3. UNCHANGED <<pc, locals, result, ret>>
    BY <1>9 DEF Invert
  <2>. QED  BY <2>2, <2>3 DEF locals, CallOK, TypeOK
<1>10. CASE FinalAdd
  <2>. DEFINE z == ModMult(ModMult(u, point.y), R[1 - nb].x)
              sums == XYcZAdd(R[nb], R[1 - nb])
              last == IF nb = 0 THEN sums[1] ELSE sums[2]
  <2>1. result' = ApplyZ(last, z)
    BY <1>10 DEF FinalAdd
  <2>2. R[nb] \in Coordinates /\ R[1 - nb] \in Coordinates /\ point \in Coordinates /\ u \in Residues
    BY LadderPoints DEF CallOK, TypeOK, RegistersReduced, Residues
  <2>3. point.y \in Residues /\ R[1 - nb].x \in Residues
    BY <2>2, CoordinatesAre
  <2>4. ModMult(u, point.y) \in Residues
    BY <2>2, <2>3, Closed
  <2>5. z \in Residues
    BY <2>3, <2>4, Closed
  <2>6. sums[1] \in Coordinates /\ sums[2] \in Coordinates
    BY <2>2, AddClosed
  <2>. HIDE DEF z, sums
  <2>7. last \in Coordinates
    BY <2>6
  <2>. HIDE DEF last
  <2>8. result' \in Coordinates
    BY <2>1, <2>5, <2>7, ApplyZClosed
  <2>9. ret' \in {0, 1}
    BY <1>10 DEF FinalAdd
  <2>10. /\ pc' = IF call = "make" /\ ret' = 0 /\ tries < MaxTries THEN "retry" ELSE "done"
         /\ call' = call /\ key' = key /\ tries' = tries /\ point' = point /\ initial_Z' = initial_Z
         /\ scalar' = scalar /\ bit' = bit /\ R' = R /\ input' = input /\ a' = a /\ b' = b /\ u' = u /\ v' = v
    BY <1>10 DEF FinalAdd, locals, registers
  <2>. QED  BY <2>8, <2>9, <2>10 DEF CallOK, TypeOK, RegistersReduced
<1>11. CASE Return
  <2>1. /\ pc' = "idle" /\ call' = "none" /\ key' = 0 /\ tries' = 0
        /\ point' = Zero /\ initial_Z' = 0 /\ scalar' = 0 /\ bit' = 0
        /\ R' = [i \in {0, 1} |-> Zero]
        /\ input' = 0 /\ a' = 0 /\ b' = 0 /\ u' = 0 /\ v' = 0
        /\ result' = Zero /\ ret' = 0
    BY <1>11 DEF Return
  <2>. QED  BY <2>1, Ranges, ModInvAssumption DEF CallOK, TypeOK, RegistersReduced
<1>. QED  BY <1>1, <1>2, <1>3, <1>4, <1>5, <1>6, <1>7, <1>8, <1>9, <1>10, <1>11 DEF Next

LEMMA CallInit == Init => CallOK
BY Ranges, ModInvAssumption DEF Init, CallOK, TypeOK, RegistersReduced, Numbers

-------------------------------------------------------------------------------
(* Theorems                                                                    *)

(* The scalar of the ladder (regularize_k, EccPoint_mult) is the key plus once *)
(* or twice the order of the curve, with a highest bit that is always 1: so    *)
(* the ladder can leave this bit out and runs equally long for every key.      *)
THEOREM RegularizeAddsOrder ==
  ASSUME NEW k \in 0..(n - 1)
  PROVE  /\ Regularize(k) \in Numbers
         /\ Top + Regularize(k) \in {k + n, k + 2 * n}
<1>. DEFINE k0 == Add(k, n)
            k1 == Add(k0.value, n)
<1>1. /\ k \in Int /\ 0 <= k /\ k < n /\ n \in Int /\ n < Top /\ Top < 2 * n /\ Top \in Nat
      /\ k \in Numbers /\ n \in Numbers
  BY EcdhAssumption, ModInvAssumption DEF Numbers
<1>2. k0.value \in Numbers /\ k0.carry \in {0, 1} /\ k0.value + k0.carry * Top = k + n
  BY <1>1, AddCorrect
<1>. HIDE DEF k0
<1>3. k1.value \in Numbers /\ k1.carry \in {0, 1} /\ k1.value + k1.carry * Top = k0.value + n
  BY <1>1, <1>2, AddCorrect
<1>. HIDE DEF k1
<1>4. Regularize(k) = IF k0.carry # 0 THEN k0.value ELSE k1.value
  BY Zenon DEF Regularize, k0, k1
<1>5. k0.value \in Int /\ k1.value \in Int /\ 0 <= k0.value /\ k0.value < Top /\ k1.value < Top
  BY <1>1, <1>2, <1>3 DEF Numbers
<1>6. CASE k0.carry = 1
  BY <1>1, <1>2, <1>4, <1>5, <1>6
<1>7. CASE k0.carry = 0
  <2>1. k0.value = k + n
    BY <1>1, <1>2, <1>5, <1>7
  <2>2. k1.carry = 1
    BY <1>1, <1>3, <1>5, <2>1
  <2>3. k1.value + Top = k + 2 * n
    BY <1>1, <1>3, <1>5, <2>1, <2>2
  <2>. QED  BY <1>1, <1>3, <1>4, <1>5, <1>7, <2>3
<1>. QED  BY <1>2, <1>6, <1>7

(* Every coordinate and every register is reduced modulo p in every state of   *)
(* every call, for every word size, every order and every generator.           *)
THEOREM CallsReduced == Spec => []TypeOK
<1>1. CallOK => TypeOK
  BY DEF CallOK
<1>. QED  BY <1>1, CallInit, CallStep, PTL DEF Spec

(* The loops over words agree with the integers of the model on the numbers    *)
(* that every call meets.                                                      *)
THEOREM CallsAgreeWithWords == Spec => []WordsAgree
<1>1. CallOK => WordsAgree
  <2>. SUFFICES ASSUME CallOK PROVE WordsAgree
    OBVIOUS
  <2>1. /\ R[0].x \in Numbers /\ R[1].x \in Numbers /\ R[0].y \in Numbers /\ R[1].y \in Numbers
        /\ a \in Numbers /\ b \in Numbers /\ u \in Numbers /\ v \in Numbers
    <3>1. R[0] \in Coordinates /\ R[1] \in Coordinates
      BY DEF CallOK, TypeOK
    <3>2. R[0].x \in Residues /\ R[1].x \in Residues /\ R[0].y \in Residues /\ R[1].y \in Residues
      BY <3>1, CoordinatesAre
    <3>3. Residues \subseteq Numbers /\ 1..p \subseteq Numbers /\ 0 \in Numbers
      BY ModInvAssumption DEF Residues, Numbers
    <3>4. a \in Numbers /\ b \in Numbers
      BY <3>3 DEF CallOK, TypeOK, RegistersReduced, Residues
    <3>5. u \in Numbers /\ v \in Numbers
      BY <3>3 DEF CallOK, TypeOK, RegistersReduced, Residues
    <3>. QED  BY <3>2, <3>3, <3>4, <3>5
  <2>2. ASSUME NEW pair \in {<<R[0].x, R[1].x>>, <<R[1].y, R[0].y>>, <<a, b>>, <<v, u>>}
        PROVE  pair[1] \in Numbers /\ pair[2] \in Numbers
    BY <2>1
  <2>. QED  BY <2>2, LoopsAgree, Zenon DEF WordsAgree
<1>. QED  BY <1>1, CallInit, CallStep, PTL DEF Spec

(* What a call starts uECC_vli_modInv with belongs to its input, 0 or not.     *)
LEMMA InversionStarts ==
  ASSUME NEW x \in Residues
  PROVE  (1 * x) % p = x % p /\ (0 * x) % p = p % p /\ (0 * 0) % p = 0 % p
<1>1. p \in Nat /\ p > 0 /\ x \in Int /\ 0 * x = 0 /\ 1 * x = x /\ 0 * 0 = 0
  BY ModInvAssumption DEF Residues
<1>2. p % p = 0 /\ 0 % p = 0
  <2>1. p = 1 * p + 0 /\ 0 = 0 * p + 0
    BY <1>1
  <2>. QED  BY <1>1, <2>1, DivisionIs
<1>. QED  BY <1>1, <1>2

(* Within the calls of the curve, too, the coefficients of modInv belong to    *)
(* the numbers of its loop, also for an input that is 0.                       *)
THEOREM CallsKeepBezout == Spec => []BezoutKept
<1>. DEFINE Inductive == CallOK /\ BezoutKept
<1>1. Init => Inductive
  <2>. SUFFICES ASSUME Init PROVE BezoutKept
    BY CallInit
  <2>1. input = 0 /\ a = 0 /\ b = 0 /\ u = 0 /\ v = 0
    BY DEF Init
  <2>. QED  BY <2>1, InversionStarts, Closed DEF BezoutKept
<1>2. Inductive /\ [Next]_vars => Inductive'
  <2>. SUFFICES ASSUME CallOK, BezoutKept, [Next]_vars PROVE BezoutKept'
    BY CallStep
  <2>1. CASE UNCHANGED registers
    BY <2>1 DEF registers, BezoutKept
  <2>2. CASE Invert
    BY <2>2, InvertedRegisters, StepBezout DEF Invert
  <2>3. CASE LastAddC
    <3>. DEFINE product == ModMult(ModMult(ModSub(R'[1].x, R'[0].x), R'[1 - nb].y), point.x)
    <3>1. StartInversion(product)
      BY <2>3 DEF LastAddC
    <3>. HIDE DEF product
    <3>2. input' = product
      BY <3>1 DEF StartInversion
    <3>3. input' \in Residues
      BY CallStep DEF CallOK, TypeOK, RegistersReduced, Residues
    <3>4. CASE product = 0
      <4>1. input' = 0 /\ a' = 0 /\ b' = 0 /\ u' = 0 /\ v' = 0
        BY <3>1, <3>4 DEF StartInversion
      <4>. QED  BY <3>3, <4>1, InversionStarts DEF BezoutKept
    <3>5. CASE product # 0
      <4>1. a' = input' /\ b' = p /\ u' = 1 /\ v' = 0
        BY <3>1, <3>2, <3>5 DEF StartInversion
      <4>2. (1 * input') % p = input' % p /\ (0 * input') % p = p % p
        BY <3>3, InversionStarts
      <4>. QED  BY <4>1, <4>2, Zenon DEF BezoutKept
    <3>. QED  BY <3>4, <3>5
  <2>4. CASE Return
    <3>1. input' = 0 /\ a' = 0 /\ b' = 0 /\ u' = 0 /\ v' = 0
      BY <2>4 DEF Return
    <3>. QED  BY <3>1, InversionStarts, Closed DEF BezoutKept
  <2>5. UNCHANGED registers \/ Invert \/ LastAddC \/ Return
    BY DEF Next, vars, SharedSecret, ComputePublicKey, MakeKey, RetryKey, TryKey, StartMult, Refuse,
           FirstDouble, LadderStep, FinalAdd
  <2>. QED  BY <2>1, <2>2, <2>3, <2>4, <2>5
<1>3. Inductive => BezoutKept
  OBVIOUS
<1>. QED  BY <1>1, <1>2, <1>3, PTL DEF Spec

(* Within the calls of the curve every iteration of modInv at least halves the *)
(* product of its two numbers: the receiver thread cannot hang in it.          *)
THEOREM CallsHalve == Spec => ProductHalves
<1>1. CallOK /\ [Next]_vars => [InversionStep => 2 * a' * b' <= a * b]_registers
  <2>. SUFFICES ASSUME CallOK, InversionStep PROVE 2 * a' * b' <= a * b
    OBVIOUS
  <2>. QED  BY InvertedRegisters, StepHalves
<1>. QED  BY <1>1, CallInit, CallStep, PTL DEF Spec, ProductHalves

(* Within the calls of the curve, for a prime modulus, modInv ends with the    *)
(* inverse of what EccPoint_mult gave it, whenever this is not 0.              *)
THEOREM CallsInvert ==
  ASSUME PrimeModulus
  PROVE  Spec => []InverseFound
<1>. DEFINE Kept == input # 0 => DivisorsKept
<1>1. Init => Kept
  BY DEF Init
<1>2. CallOK /\ Kept /\ [Next]_vars => Kept'
  <2>. SUFFICES ASSUME CallOK, Kept, [Next]_vars, input' # 0 PROVE DivisorsKept'
    OBVIOUS
  <2>1. CASE UNCHANGED registers
    BY <2>1 DEF registers, DivisorsKept
  <2>2. CASE Invert
    BY <2>2, InvertedRegisters, StepDivisors DEF Invert, Entered
  <2>3. CASE LastAddC
    <3>. DEFINE product == ModMult(ModMult(ModSub(R'[1].x, R'[0].x), R'[1 - nb].y), point.x)
    <3>1. StartInversion(product)
      BY <2>3 DEF LastAddC
    <3>. HIDE DEF product
    <3>2. a' = input' /\ b' = p
      BY <3>1 DEF StartInversion
    <3>. QED  BY <3>2 DEF DivisorsKept
  <2>4. CASE Return
    BY <2>4 DEF Return
  <2>5. UNCHANGED registers \/ Invert \/ LastAddC \/ Return
    BY DEF Next, vars, SharedSecret, ComputePublicKey, MakeKey, RetryKey, TryKey, StartMult, Refuse,
           FirstDouble, LadderStep, FinalAdd
  <2>. QED  BY <2>1, <2>2, <2>3, <2>4, <2>5
<1>3. CallOK /\ Kept /\ BezoutKept => InverseFound
  <2>. SUFFICES ASSUME CallOK, Kept, BezoutKept, input # 0 PROVE InverseFound
    BY DEF InverseFound
  <2>1. Entered
    BY DEF Entered, CallOK, TypeOK
  <2>. QED  BY <2>1, MetAtOne
<1>. QED  BY <1>1, <1>2, <1>3, CallInit, CallStep, CallsKeepBezout, PTL DEF Spec

-------------------------------------------------------------------------------
(* Polynomials modulo p: what the code computes from remainders is the         *)
(* remainder of what the formula computes from the numbers.                    *)

LEMMA RemainderParts ==
  ASSUME NEW e \in Int
  PROVE  e % p \in Residues /\ e % p \in Int /\ (e % p) % p = e % p
         /\ \E k \in Int : e % p = e + k * p
<1>1. e % p \in Residues /\ p \in Nat
  BY RemainderOf, ModInvAssumption
<1>2. e % p \in Int
  BY <1>1 DEF Residues
<1>3. (e % p) % p = e % p
  BY <1>1, <1>2, RemainderOf
<1>4. \E k \in Int : e % p = e + k * p
  BY <1>2, <1>3, DifferByMultiple
<1>. QED  BY <1>1, <1>2, <1>3, <1>4, Zenon

LEMMA SumRemainder ==
  ASSUME NEW e \in Int, NEW f \in Int
  PROVE  ((e % p) + (f % p)) % p = (e + f) % p
<1>. DEFINE c == e % p
            d == f % p
<1>1. PICK k \in Int : c = e + k * p
  BY RemainderParts
<1>2. PICK j \in Int : d = f + j * p
  BY RemainderParts
<1>3. c \in Int /\ d \in Int /\ p \in Int
  BY RemainderParts, ModInvAssumption
<1>. HIDE DEF c, d
<1>4. c + d = (e + f) + (k + j) * p /\ c + d \in Int /\ e + f \in Int /\ k + j \in Int
  BY <1>1, <1>2, <1>3
<1>5. (c + d) % p = (e + f) % p
  BY <1>4, SameRemainder
<1>. QED  BY <1>5, Zenon DEF c, d

LEMMA DifferenceRemainder ==
  ASSUME NEW e \in Int, NEW f \in Int
  PROVE  ((e % p) - (f % p)) % p = (e - f) % p
<1>. DEFINE c == e % p
            d == f % p
<1>1. PICK k \in Int : c = e + k * p
  BY RemainderParts
<1>2. PICK j \in Int : d = f + j * p
  BY RemainderParts
<1>3. c \in Int /\ d \in Int /\ p \in Int
  BY RemainderParts, ModInvAssumption
<1>. HIDE DEF c, d
<1>4. c - d = (e - f) + (k - j) * p /\ c - d \in Int /\ e - f \in Int /\ k - j \in Int
  BY <1>1, <1>2, <1>3
<1>5. (c - d) % p = (e - f) % p
  BY <1>4, SameRemainder
<1>. QED  BY <1>5, Zenon DEF c, d

LEMMA ProductRemainder ==
  ASSUME NEW e \in Int, NEW f \in Int
  PROVE  ((e % p) * (f % p)) % p = (e * f) % p
<1>. DEFINE c == e % p
            d == f % p
<1>1. PICK k \in Int : c = e + k * p
  BY RemainderParts
<1>2. PICK j \in Int : d = f + j * p
  BY RemainderParts
<1>3. c \in Int /\ d \in Int /\ p \in Int
  BY RemainderParts, ModInvAssumption
<1>. HIDE DEF c, d
<1>4. c * d = e * f + (e * j + k * f + k * j * p) * p /\ c * d \in Int /\ e * f \in Int
      /\ e * j + k * f + k * j * p \in Int
  BY <1>1, <1>2, <1>3
<1>5. (c * d) % p = (e * f) % p
  BY <1>4, SameRemainder
<1>. QED  BY <1>5, Zenon DEF c, d

(* The four operations of the code on remainders.                              *)
LEMMA CodeComputes ==
  ASSUME NEW e \in Int, NEW f \in Int
  PROVE  /\ ModAdd(e % p, f % p) = (e + f) % p
         /\ ModSub(e % p, f % p) = (e - f) % p
         /\ ModMult(e % p, f % p) = (e * f) % p
         /\ ModSquare(e % p) = (e * e) % p
<1>. DEFINE c == e % p
            d == f % p
<1>1. c \in Residues /\ d \in Residues
  BY RemainderParts
<1>2. (c + d) % p = (e + f) % p /\ (c - d) % p = (e - f) % p /\ (c * d) % p = (e * f) % p
      /\ (c * c) % p = (e * e) % p
  BY SumRemainder, DifferenceRemainder, ProductRemainder
<1>. HIDE DEF c, d
<1>3. ModAdd(c, d) = (c + d) % p /\ ModSub(c, d) = (c - d) % p /\ ModMult(c, d) = (c * d) % p
      /\ ModSquare(c) = (c * c) % p
  BY <1>1, ModAddIsSum, ModSubIsDifference, ModMultIsProduct DEF ModSquare
<1>. QED  BY <1>2, <1>3, Zenon DEF c, d

(* The half of a remainder.                                                    *)
LEMMA CodeHalves ==
  ASSUME NEW e \in Int, NEW f \in Int, e % p = (2 * f) % p
  PROVE  Halve(e % p) = f % p
<1>. DEFINE c == e % p
            h == Halve(c)
<1>1. c \in Residues /\ c \in Int
  BY RemainderParts
<1>2. PICK k \in Int : c = 2 * f + k * p
  <2>1. c = (2 * f) % p /\ 2 * f \in Int
    OBVIOUS
  <2>. HIDE DEF c
  <2>. QED  BY <2>1, RemainderParts
<1>. HIDE DEF c
<1>3. h \in Residues
  BY <1>1, HalveCorrect
<1>4. PICK i \in {0, 1} : 2 * h = c + i * p
  BY <1>1, HalveCorrect
<1>. HIDE DEF h
<1>5. h \in Int /\ p \in Int
  BY <1>3, ModInvAssumption DEF Residues
<1>6. 2 * h = 2 * f + (k + i) * p /\ k + i \in Int
  BY <1>1, <1>2, <1>4, <1>5
<1>7. h % p = f % p
  BY <1>5, <1>6, CancelTwo
<1>8. h % p = h
  BY <1>3, <1>5, RemainderOf
<1>. QED  BY <1>7, <1>8, Zenon DEF h, c

(* The same with the results named: the form in which formulas are followed.   *)
IsSum(g, e, f) == e \in Int /\ f \in Int /\ g = e + f
IsDifference(g, e, f) == e \in Int /\ f \in Int /\ g = e - f
IsProduct(g, e, f) == e \in Int /\ f \in Int /\ g = e * f

LEMMA CodeAdds == ASSUME NEW e, NEW f, NEW g, IsSum(g, e, f) PROVE ModAdd(e % p, f % p) = g % p
BY CodeComputes, Zenon DEF IsSum

LEMMA CodeSubtracts == ASSUME NEW e, NEW f, NEW g, IsDifference(g, e, f) PROVE ModSub(e % p, f % p) = g % p
BY CodeComputes, Zenon DEF IsDifference

LEMMA CodeMultiplies == ASSUME NEW e, NEW f, NEW g, IsProduct(g, e, f) PROVE ModMult(e % p, f % p) = g % p
BY CodeComputes, Zenon DEF IsProduct

LEMMA CodeSquares == ASSUME NEW e, NEW g, IsProduct(g, e, e) PROVE ModSquare(e % p) = g % p
BY CodeComputes, Zenon DEF IsProduct

-------------------------------------------------------------------------------
(* The operations on points, as formulas                                       *)

(* The point with the remainders of two numbers as its coordinates.            *)
Pt(e, f) == [x |-> e % p, y |-> f % p]

(* The point with the coordinates e and f, with the given z.                   *)
At(e, f, z) == Pt(e * z * z, f * z * z * z)

(* x3 and y3 are what the slope s gives from x1, y1 and x2.                    *)
IsThird(x3, y3, s, x1, y1, x2) ==
  /\ s \in Int /\ x1 \in Int /\ y1 \in Int /\ x2 \in Int /\ x3 \in Int /\ y3 \in Int
  /\ x3 = s * s - x1 - x2 /\ y3 = s * (x1 - x3) - y1

(* And what the slope -r gives.                                                *)
IsThirdBack(x3, y3, r, x1, y1, x2) ==
  /\ r \in Int /\ x1 \in Int /\ y1 \in Int /\ x2 \in Int /\ x3 \in Int /\ y3 \in Int
  /\ x3 = r * r - x1 - x2 /\ y3 = (-r) * (x1 - x3) - y1

(* w is the z that follows z in a sum.                                         *)
IsScale(w, z, x1, x2) == z \in Int /\ w \in Int /\ w = (x2 - x1) * z * z * z

(* s is the slope to the point with x2 and y2, and to its opposite with -r.    *)
IsSlope(s, x1, y1, x2, y2) == y2 \in Int /\ y2 % p = (y1 + s * (x2 - x1)) % p
IsSlopeBack(r, x1, y1, x2, y2) == r \in Int /\ y2 % p = (r * (x2 - x1) - y1) % p

(* s is the slope of the tangent, and w the z of the double.                   *)
IsTangent(s, x1, y1) == (2 * s * y1) % p = (3 * (x1 * x1 - 1)) % p
IsDoubleScale(w, z, y1) == z \in Int /\ w \in Int /\ w = y1 * z * z * z * z

LEMMA PtIs ==
  ASSUME NEW e \in Int, NEW f \in Int
  PROVE  Pt(e, f) \in Coordinates /\ Pt(e, f).x = e % p /\ Pt(e, f).y = f % p
<1>1. e % p \in Residues /\ f % p \in Residues
  BY RemainderParts
<1>2. Pt(e, f) \in Coordinates
  BY <1>1, CoordinatesAre, Zenon DEF Pt
<1>. QED  BY <1>2 DEF Pt

(* The numbers behind a call of XYcZ_add, in the order in which it computes.   *)
LEMMA AddSteps ==
  ASSUME NEW e1, NEW f1, NEW e2, NEW f2, NEW d, NEW dd, NEW g1, NEW g2, NEW sw, NEW ss, NEW t, NEW g3,
         NEW c, NEW h1, NEW m, NEW r, NEW h3,
         IsDifference(d, e2, e1), IsProduct(dd, d, d), IsProduct(g1, e1, dd), IsProduct(g2, e2, dd),
         IsDifference(sw, f2, f1), IsProduct(ss, sw, sw), IsDifference(t, ss, g1), IsDifference(g3, t, g2),
         IsDifference(c, g2, g1), IsProduct(h1, f1, c), IsDifference(m, g1, g3), IsProduct(r, sw, m),
         IsDifference(h3, r, h1)
  PROVE  XYcZAdd(Pt(e1, f1), Pt(e2, f2)) = <<Pt(g1, h1), Pt(g3, h3)>>
<1>. DEFINE P == Pt(e1, f1)
            Q == Pt(e2, f2)
<1>1. P.x = e1 % p /\ P.y = f1 % p /\ Q.x = e2 % p /\ Q.y = f2 % p
  BY DEF Pt
<1>. HIDE DEF P, Q
<1>2. ModSub(Q.x, P.x) = d % p
  <2>1. ModSub(e2 % p, e1 % p) = d % p
    BY CodeSubtracts, Zenon
  <2>. QED  BY <1>1, <2>1, Zenon
<1>3. ModSquare(d % p) = dd % p
  BY CodeSquares, Zenon
<1>4. ModMult(P.x, dd % p) = g1 % p
  <2>1. ModMult(e1 % p, dd % p) = g1 % p
    BY CodeMultiplies, Zenon
  <2>. QED  BY <1>1, <2>1, Zenon
<1>5. ModMult(Q.x, dd % p) = g2 % p
  <2>1. ModMult(e2 % p, dd % p) = g2 % p
    BY CodeMultiplies, Zenon
  <2>. QED  BY <1>1, <2>1, Zenon
<1>6. ModSub(Q.y, P.y) = sw % p
  <2>1. ModSub(f2 % p, f1 % p) = sw % p
    BY CodeSubtracts, Zenon
  <2>. QED  BY <1>1, <2>1, Zenon
<1>7. ModSquare(sw % p) = ss % p
  BY CodeSquares, Zenon
<1>8. ModSub(ss % p, g1 % p) = t % p
  BY CodeSubtracts, Zenon
<1>9. ModSub(t % p, g2 % p) = g3 % p
  BY CodeSubtracts, Zenon
<1>10. ModSub(g2 % p, g1 % p) = c % p
  BY CodeSubtracts, Zenon
<1>11. ModMult(P.y, c % p) = h1 % p
  <2>1. ModMult(f1 % p, c % p) = h1 % p
    BY CodeMultiplies, Zenon
  <2>. QED  BY <1>1, <2>1, Zenon
<1>12. ModSub(g1 % p, g3 % p) = m % p
  BY CodeSubtracts, Zenon
<1>13. ModMult(sw % p, m % p) = r % p
  BY CodeMultiplies, Zenon
<1>14. ModSub(r % p, h1 % p) = h3 % p
  BY CodeSubtracts, Zenon
<1>15. XYcZAdd(P, Q) = <<[x |-> g1 % p, y |-> h1 % p], [x |-> g3 % p, y |-> h3 % p]>>
  BY <1>2, <1>3, <1>4, <1>5, <1>6, <1>7, <1>8, <1>9, <1>10, <1>11, <1>12, <1>13, <1>14, Zenon DEF XYcZAdd
<1>. QED  BY <1>15, Zenon DEF Pt, P, Q

(* XYcZ_add: a common z becomes w, the first point stays and the second is the *)
(* sum by the line of slope s through both.                                    *)
LEMMA AddFormula ==
  ASSUME NEW x1, NEW y1, NEW x2, NEW s, NEW z, NEW w, NEW x3, NEW y3,
         IsScale(w, z, x1, x2), IsThird(x3, y3, s, x1, y1, x2)
  PROVE  XYcZAdd(At(x1, y1, z), At(x2, y1 + s * (x2 - x1), z)) = <<At(x1, y1, w), At(x3, y3, w)>>
<1>0. /\ x1 \in Int /\ y1 \in Int /\ x2 \in Int /\ s \in Int /\ z \in Int /\ w \in Int /\ x3 \in Int /\ y3 \in Int
      /\ w = (x2 - x1) * z * z * z /\ x3 = s * s - x1 - x2 /\ y3 = s * (x1 - x3) - y1
  BY DEF IsScale, IsThird
<1>. DEFINE e1 == x1 * z * z
            f1 == y1 * z * z * z
            e2 == x2 * z * z
            f2 == (y1 + s * (x2 - x1)) * z * z * z
            d == (x2 - x1) * z * z
            dd == d * d
            g1 == x1 * w * w
            g2 == x2 * w * w
            sw == s * w
            ss == sw * sw
            t == ss - g1
            g3 == x3 * w * w
            c == g2 - g1
            h1 == y1 * w * w * w
            m == g1 - g3
            r == sw * m
            h3 == y3 * w * w * w
<1>1. /\ e1 \in Int /\ f1 \in Int /\ e2 \in Int /\ f2 \in Int /\ d \in Int /\ dd \in Int /\ g1 \in Int /\ g2 \in Int
      /\ sw \in Int /\ ss \in Int /\ t \in Int /\ g3 \in Int /\ c \in Int /\ h1 \in Int /\ m \in Int /\ r \in Int
      /\ h3 \in Int
  BY <1>0
<1>2. IsDifference(d, e2, e1) /\ IsProduct(dd, d, d) /\ IsProduct(g1, e1, dd) /\ IsProduct(g2, e2, dd)
  BY <1>0, <1>1 DEF IsDifference, IsProduct
<1>3. IsDifference(sw, f2, f1) /\ IsProduct(ss, sw, sw) /\ IsDifference(t, ss, g1) /\ IsDifference(g3, t, g2)
  BY <1>0, <1>1 DEF IsDifference, IsProduct
<1>4. IsDifference(c, g2, g1) /\ IsProduct(h1, f1, c) /\ IsDifference(m, g1, g3) /\ IsProduct(r, sw, m)
      /\ IsDifference(h3, r, h1)
  BY <1>0, <1>1 DEF IsDifference, IsProduct
<1>. HIDE DEF e1, f1, e2, f2, d, dd, g1, g2, sw, ss, t, g3, c, h1, m, r, h3
<1>5. XYcZAdd(Pt(e1, f1), Pt(e2, f2)) = <<Pt(g1, h1), Pt(g3, h3)>>
  BY <1>2, <1>3, <1>4, AddSteps
<1>. QED  BY <1>5, Zenon DEF At, e1, f1, e2, f2, g1, h1, g3, h3

(* The numbers behind a call of XYcZ_addC.                                     *)
LEMMA AddCSteps ==
  ASSUME NEW e1, NEW f1, NEW e2, NEW f2, NEW fs, NEW fr, NEW d, NEW dd, NEW g1, NEW g2, NEW sw, NEW ss,
         NEW rw, NEW rr, NEW bc, NEW g3, NEW g4, NEW c, NEW h1, NEW m, NEW k, NEW h3, NEW j, NEW l, NEW h4,
         f2 % p = fs % p, f2 % p = fr % p,
         IsDifference(d, e2, e1), IsProduct(dd, d, d), IsProduct(g1, e1, dd), IsProduct(g2, e2, dd), IsSum(bc, g1, g2),
         IsDifference(sw, fs, f1), IsProduct(ss, sw, sw), IsDifference(g3, ss, bc),
         IsSum(rw, fr, f1), IsProduct(rr, rw, rw), IsDifference(g4, rr, bc),
         IsDifference(c, g2, g1), IsProduct(h1, f1, c), IsDifference(m, g1, g3), IsProduct(k, sw, m),
         IsDifference(h3, k, h1), IsDifference(j, g4, g1), IsProduct(l, j, rw), IsDifference(h4, l, h1)
  PROVE  XYcZAddC(Pt(e1, f1), Pt(e2, f2)) = <<Pt(g4, h4), Pt(g3, h3)>>
<1>. DEFINE P == Pt(e1, f1)
            Q == Pt(e2, f2)
<1>1. P.x = e1 % p /\ P.y = f1 % p /\ Q.x = e2 % p /\ Q.y = f2 % p /\ Q.y = fs % p /\ Q.y = fr % p
  BY DEF Pt
<1>. HIDE DEF P, Q
<1>2. ModSub(Q.x, P.x) = d % p
  <2>1. ModSub(e2 % p, e1 % p) = d % p
    BY CodeSubtracts, Zenon
  <2>. QED  BY <1>1, <2>1, Zenon
<1>3. ModSquare(d % p) = dd % p
  BY CodeSquares, Zenon
<1>4. ModMult(P.x, dd % p) = g1 % p
  <2>1. ModMult(e1 % p, dd % p) = g1 % p
    BY CodeMultiplies, Zenon
  <2>. QED  BY <1>1, <2>1, Zenon
<1>5. ModMult(Q.x, dd % p) = g2 % p
  <2>1. ModMult(e2 % p, dd % p) = g2 % p
    BY CodeMultiplies, Zenon
  <2>. QED  BY <1>1, <2>1, Zenon
<1>6. ModAdd(g1 % p, g2 % p) = bc % p
  BY CodeAdds, Zenon
<1>7. ModSub(Q.y, P.y) = sw % p
  <2>1. ModSub(fs % p, f1 % p) = sw % p
    BY CodeSubtracts, Zenon
  <2>. QED  BY <1>1, <2>1, Zenon
<1>8. ModSquare(sw % p) = ss % p
  BY CodeSquares, Zenon
<1>9. ModSub(ss % p, bc % p) = g3 % p
  BY CodeSubtracts, Zenon
<1>10. ModAdd(Q.y, P.y) = rw % p
  <2>1. ModAdd(fr % p, f1 % p) = rw % p
    BY CodeAdds, Zenon
  <2>. QED  BY <1>1, <2>1, Zenon
<1>11. ModSquare(rw % p) = rr % p
  BY CodeSquares, Zenon
<1>12. ModSub(rr % p, bc % p) = g4 % p
  BY CodeSubtracts, Zenon
<1>13. ModSub(g2 % p, g1 % p) = c % p
  BY CodeSubtracts, Zenon
<1>14. ModMult(P.y, c % p) = h1 % p
  <2>1. ModMult(f1 % p, c % p) = h1 % p
    BY CodeMultiplies, Zenon
  <2>. QED  BY <1>1, <2>1, Zenon
<1>15. ModSub(g1 % p, g3 % p) = m % p
  BY CodeSubtracts, Zenon
<1>16. ModMult(sw % p, m % p) = k % p
  BY CodeMultiplies, Zenon
<1>17. ModSub(k % p, h1 % p) = h3 % p
  BY CodeSubtracts, Zenon
<1>18. ModSub(g4 % p, g1 % p) = j % p
  BY CodeSubtracts, Zenon
<1>19. ModMult(j % p, rw % p) = l % p
  BY CodeMultiplies, Zenon
<1>20. ModSub(l % p, h1 % p) = h4 % p
  BY CodeSubtracts, Zenon
<1>21. XYcZAddC(P, Q) = <<[x |-> g4 % p, y |-> h4 % p], [x |-> g3 % p, y |-> h3 % p]>>
  BY <1>2, <1>3, <1>4, <1>5, <1>6, <1>7, <1>8, <1>9, <1>10, <1>11, <1>12, <1>13, <1>14, <1>15, <1>16, <1>17,
     <1>18, <1>19, <1>20, Zenon DEF XYcZAddC
<1>. QED  BY <1>21, Zenon DEF Pt, P, Q

(* XYcZ_addC: the same sum, and the difference by the line of slope -r through *)
(* the first point and the negative of the second.                             *)
LEMMA AddCFormula ==
  ASSUME NEW x1, NEW y1, NEW x2, NEW y2, NEW s, NEW r, NEW z, NEW w, NEW x3, NEW y3, NEW x4, NEW y4,
         IsSlope(s, x1, y1, x2, y2), IsSlopeBack(r, x1, y1, x2, y2),
         IsScale(w, z, x1, x2), IsThird(x3, y3, s, x1, y1, x2), IsThirdBack(x4, y4, r, x1, y1, x2)
  PROVE  XYcZAddC(At(x1, y1, z), At(x2, y2, z)) = <<At(x4, y4, w), At(x3, y3, w)>>
<1>0. /\ x1 \in Int /\ y1 \in Int /\ x2 \in Int /\ y2 \in Int /\ s \in Int /\ r \in Int /\ z \in Int /\ w \in Int
      /\ x3 \in Int /\ y3 \in Int /\ x4 \in Int /\ y4 \in Int
      /\ w = (x2 - x1) * z * z * z /\ x3 = s * s - x1 - x2 /\ y3 = s * (x1 - x3) - y1
      /\ x4 = r * r - x1 - x2 /\ y4 = (-r) * (x1 - x4) - y1
  BY DEF IsScale, IsThird, IsThirdBack, IsSlope
<1>. DEFINE e1 == x1 * z * z
            f1 == y1 * z * z * z
            e2 == x2 * z * z
            f2 == y2 * z * z * z
            fs == (y1 + s * (x2 - x1)) * z * z * z
            fr == (r * (x2 - x1) - y1) * z * z * z
            d == (x2 - x1) * z * z
            dd == d * d
            g1 == x1 * w * w
            g2 == x2 * w * w
            sw == s * w
            ss == sw * sw
            rw == r * w
            rr == rw * rw
            bc == g1 + g2
            g3 == x3 * w * w
            g4 == x4 * w * w
            c == g2 - g1
            h1 == y1 * w * w * w
            m == g1 - g3
            k == sw * m
            h3 == y3 * w * w * w
            j == g4 - g1
            l == j * rw
            h4 == y4 * w * w * w
<1>1. /\ e1 \in Int /\ f1 \in Int /\ e2 \in Int /\ f2 \in Int /\ d \in Int /\ dd \in Int /\ g1 \in Int /\ g2 \in Int
      /\ sw \in Int /\ ss \in Int /\ g3 \in Int /\ c \in Int /\ h1 \in Int /\ m \in Int /\ k \in Int
      /\ h3 \in Int /\ rw \in Int /\ rr \in Int /\ bc \in Int /\ g4 \in Int /\ j \in Int /\ l \in Int /\ h4 \in Int
      /\ fs \in Int /\ fr \in Int
  BY <1>0
<1>2. IsDifference(d, e2, e1) /\ IsProduct(dd, d, d) /\ IsProduct(g1, e1, dd) /\ IsProduct(g2, e2, dd) /\ IsSum(bc, g1, g2)
  BY <1>0, <1>1 DEF IsSum, IsDifference, IsProduct
<1>3. IsDifference(sw, fs, f1) /\ IsProduct(ss, sw, sw) /\ IsDifference(g3, ss, bc)
  BY <1>0, <1>1 DEF IsDifference, IsProduct
<1>4. IsSum(rw, fr, f1) /\ IsProduct(rr, rw, rw) /\ IsDifference(g4, rr, bc)
  BY <1>0, <1>1 DEF IsSum, IsDifference, IsProduct
<1>5. IsDifference(c, g2, g1) /\ IsProduct(h1, f1, c) /\ IsDifference(m, g1, g3) /\ IsProduct(k, sw, m)
      /\ IsDifference(h3, k, h1)
  BY <1>0, <1>1 DEF IsDifference, IsProduct
<1>6. IsDifference(j, g4, g1) /\ IsProduct(l, j, rw) /\ IsDifference(h4, l, h1)
  BY <1>0, <1>1 DEF IsDifference, IsProduct
<1>7. f2 % p = fs % p /\ f2 % p = fr % p
  <2>. DEFINE zzz == z * z * z
              ys == y1 + s * (x2 - x1)
              yr == r * (x2 - x1) - y1
  <2>1. zzz \in Int /\ ys \in Int /\ yr \in Int /\ f2 = y2 * zzz /\ fs = ys * zzz /\ fr = yr * zzz
    BY <1>0
  <2>2. y2 % p = ys % p /\ y2 % p = yr % p
    BY Zenon DEF IsSlope, IsSlopeBack
  <2>. HIDE DEF zzz, ys, yr, f2, fs, fr
  <2>0. y2 \in Int
    BY <1>0
  <2>3. ((y2 % p) * (zzz % p)) % p = (y2 * zzz) % p
    BY <2>0, <2>1, ProductRemainder, Zenon
  <2>4. ((ys % p) * (zzz % p)) % p = (ys * zzz) % p
    BY <2>1, ProductRemainder, Zenon
  <2>5. ((yr % p) * (zzz % p)) % p = (yr * zzz) % p
    BY <2>1, ProductRemainder, Zenon
  <2>. QED  BY <2>1, <2>2, <2>3, <2>4, <2>5, Zenon
<1>. HIDE DEF e1, f1, e2, f2, fs, fr, d, dd, g1, g2, sw, ss, rw, rr, bc, g3, g4, c, h1, m, k, h3, j, l, h4
<1>8. XYcZAddC(Pt(e1, f1), Pt(e2, f2)) = <<Pt(g4, h4), Pt(g3, h3)>>
  BY <1>2, <1>3, <1>4, <1>5, <1>6, <1>7, AddCSteps
<1>. QED  BY <1>8, Zenon DEF At, e1, f1, e2, f2, g3, h3, g4, h4

(* apply_z.                                                                    *)
LEMMA ApplyFormula ==
  ASSUME NEW e \in Int, NEW f \in Int, NEW z \in Int
  PROVE  ApplyZ(Pt(e, f), z % p) = At(e, f, z)
<1>. DEFINE zz == z * z
            zzz == zz * z
            g == e * z * z
            h == f * z * z * z
            P == Pt(e, f)
<1>1. zz \in Int /\ zzz \in Int
  OBVIOUS
<1>2. IsProduct(zz, z, z) /\ IsProduct(zzz, zz, z) /\ IsProduct(g, e, zz) /\ IsProduct(h, f, zzz)
  BY <1>1 DEF IsProduct
<1>3. P.x = e % p /\ P.y = f % p
  BY DEF Pt
<1>. HIDE DEF zz, zzz, g, h, P
<1>4. ModSquare(z % p) = zz % p
  BY <1>2, CodeSquares, Zenon
<1>5. ModMult(zz % p, z % p) = zzz % p
  BY <1>2, CodeMultiplies, Zenon
<1>6. ModMult(e % p, zz % p) = g % p
  BY <1>2, CodeMultiplies, Zenon
<1>7. ModMult(f % p, zzz % p) = h % p
  BY <1>2, CodeMultiplies, Zenon
<1>8. ApplyZ(P, z % p) = [x |-> g % p, y |-> h % p]
  BY <1>3, <1>4, <1>5, <1>6, <1>7, Zenon DEF ApplyZ
<1>. QED  BY <1>8, Zenon DEF At, Pt, P, g, h

(* The numbers behind a call of EccPoint_double_jacobian.                      *)
LEMMA DoubleSteps ==
  ASSUME NEW e, NEW f, NEW z, NEW yy, NEW xyy, NEW zz, NEW plus, NEW z2, NEW minus, NEW m, NEW m2, NEW m3, NEW sw,
         NEW ss, NEW t, NEW g, NEW d, NEW sd, NEW y4, NEW h, NEW w,
         IsProduct(yy, f, f), IsProduct(xyy, e, yy), IsProduct(zz, z, z), IsSum(plus, e, zz), IsSum(z2, zz, zz),
         IsDifference(minus, plus, z2), IsProduct(m, plus, minus), IsSum(m2, m, m), IsSum(m3, m, m2),
         m3 \in Int, sw \in Int, m3 % p = (2 * sw) % p,
         IsProduct(ss, sw, sw), IsDifference(t, ss, xyy), IsDifference(g, t, xyy), IsDifference(d, xyy, g),
         IsProduct(sd, sw, d), IsProduct(y4, yy, yy), IsDifference(h, sd, y4), IsProduct(w, f, z)
  PROVE  DoubleJacobian(Pt(e, f), z % p) = [point |-> Pt(g, h), z |-> w % p]
<1>. DEFINE P == Pt(e, f)
<1>1. P.x = e % p /\ P.y = f % p
  BY DEF Pt
<1>. HIDE DEF P
<1>2. ModSquare(f % p) = yy % p
  BY CodeSquares, Zenon
<1>3. ModMult(e % p, yy % p) = xyy % p
  BY CodeMultiplies, Zenon
<1>4. ModSquare(z % p) = zz % p
  BY CodeSquares, Zenon
<1>5. ModAdd(e % p, zz % p) = plus % p
  BY CodeAdds, Zenon
<1>6. ModAdd(zz % p, zz % p) = z2 % p
  BY CodeAdds, Zenon
<1>7. ModSub(plus % p, z2 % p) = minus % p
  BY CodeSubtracts, Zenon
<1>8. ModMult(plus % p, minus % p) = m % p
  BY CodeMultiplies, Zenon
<1>9. ModAdd(m % p, m % p) = m2 % p
  BY CodeAdds, Zenon
<1>10. ModAdd(m % p, m2 % p) = m3 % p
  BY CodeAdds, Zenon
<1>11. Halve(m3 % p) = sw % p
  BY CodeHalves, Zenon
<1>12. ModSquare(sw % p) = ss % p
  BY CodeSquares, Zenon
<1>13. ModSub(ss % p, xyy % p) = t % p
  BY CodeSubtracts, Zenon
<1>14. ModSub(t % p, xyy % p) = g % p
  BY CodeSubtracts, Zenon
<1>15. ModSub(xyy % p, g % p) = d % p
  BY CodeSubtracts, Zenon
<1>16. ModMult(sw % p, d % p) = sd % p
  BY CodeMultiplies, Zenon
<1>17. ModSquare(yy % p) = y4 % p
  BY CodeSquares, Zenon
<1>18. ModSub(sd % p, y4 % p) = h % p
  BY CodeSubtracts, Zenon
<1>19. ModMult(f % p, z % p) = w % p
  BY CodeMultiplies, Zenon
<1>20. DoubleJacobian(P, z % p) = [point |-> [x |-> g % p, y |-> h % p], z |-> w % p]
  BY <1>1, <1>2, <1>3, <1>4, <1>5, <1>6, <1>7, <1>8, <1>9, <1>10, <1>11, <1>12, <1>13, <1>14, <1>15, <1>16, <1>17,
     <1>18, <1>19, Zenon DEF DoubleJacobian
<1>. QED  BY <1>20, Zenon DEF Pt, P

(* XYcZ_initial_double: the point and its double by the tangent of slope s,    *)
(* with a common z.                                                            *)
LEMMA DoubleFormula ==
  ASSUME NEW x1, NEW y1, NEW s, NEW z, NEW w, NEW x3, NEW y3,
         IsTangent(s, x1, y1), IsDoubleScale(w, z, y1), IsThird(x3, y3, s, x1, y1, x1)
  PROVE  InitialDouble(Pt(x1, y1), z % p) = <<At(x1, y1, w), At(x3, y3, w)>>
<1>0. /\ x1 \in Int /\ y1 \in Int /\ s \in Int /\ x3 \in Int /\ y3 \in Int /\ z \in Int /\ w \in Int
      /\ w = y1 * z * z * z * z /\ x3 = s * s - x1 - x1 /\ y3 = s * (x1 - x3) - y1
  BY DEF IsThird, IsDoubleScale
<1>. DEFINE e == x1 * z * z
            f == y1 * z * z * z
            yy == f * f
            xyy == e * yy
            zz == z * z
            plus == e + zz
            z2 == zz + zz
            minus == plus - z2
            m == plus * minus
            m2 == m + m
            m3 == m + m2
            sw == s * w
            ss == sw * sw
            t == ss - xyy
            g == x3 * w * w
            d == xyy - g
            sd == sw * d
            y4 == yy * yy
            h == y3 * w * w * w
<1>1. /\ e \in Int /\ f \in Int /\ yy \in Int /\ xyy \in Int /\ zz \in Int /\ plus \in Int /\ z2 \in Int
      /\ minus \in Int /\ m \in Int /\ m2 \in Int /\ m3 \in Int /\ sw \in Int /\ ss \in Int /\ t \in Int
      /\ g \in Int /\ d \in Int /\ sd \in Int /\ y4 \in Int /\ h \in Int
  BY <1>0
<1>2. IsProduct(yy, f, f) /\ IsProduct(xyy, e, yy) /\ IsProduct(zz, z, z) /\ IsSum(plus, e, zz) /\ IsSum(z2, zz, zz)
  BY <1>0, <1>1 DEF IsProduct, IsSum
<1>3. IsDifference(minus, plus, z2) /\ IsProduct(m, plus, minus) /\ IsSum(m2, m, m) /\ IsSum(m3, m, m2)
  BY <1>0, <1>1 DEF IsProduct, IsSum, IsDifference
<1>4. IsProduct(ss, sw, sw) /\ IsDifference(t, ss, xyy) /\ IsDifference(g, t, xyy)
  BY <1>0, <1>1 DEF IsProduct, IsDifference
<1>5. IsDifference(d, xyy, g) /\ IsProduct(sd, sw, d) /\ IsProduct(y4, yy, yy) /\ IsDifference(h, sd, y4)
      /\ IsProduct(w, f, z)
  BY <1>0, <1>1 DEF IsProduct, IsDifference
<1>6. m3 % p = (2 * sw) % p
  <2>. DEFINE z4 == z * z * z * z
              l == 2 * s * y1
              r == 3 * (x1 * x1 - 1)
              sv == 2 * sw
  <2>1. z4 \in Int /\ l \in Int /\ r \in Int /\ m3 = r * z4 /\ sv = l * z4
    BY <1>0
  <2>2. l % p = r % p
    BY Zenon DEF IsTangent
  <2>. HIDE DEF z4, l, r, sv, m3
  <2>3. ((l % p) * (z4 % p)) % p = (l * z4) % p
    BY <2>1, ProductRemainder, Zenon
  <2>4. ((r % p) * (z4 % p)) % p = (r * z4) % p
    BY <2>1, ProductRemainder, Zenon
  <2>5. m3 % p = sv % p
    BY <2>1, <2>2, <2>3, <2>4, Zenon
  <2>. QED  BY <2>5, Zenon DEF sv
<1>7. w \in Int
  BY <1>0
<1>. DEFINE one == Pt(e, f)
            two == Pt(g, h)
<1>8. ApplyZ(Pt(x1, y1), z % p) = one
  BY <1>0, ApplyFormula DEF At
<1>9. ApplyZ(Pt(x1, y1), w % p) = At(x1, y1, w)
  BY <1>0, ApplyFormula
<1>. HIDE DEF e, f, yy, xyy, zz, plus, z2, minus, m, m2, m3, sw, ss, t, g, d, sd, y4, h
<1>10. DoubleJacobian(one, z % p) = [point |-> two, z |-> w % p]
  BY <1>1, <1>2, <1>3, <1>4, <1>5, <1>6, DoubleSteps
<1>. HIDE DEF one, two
<1>. DEFINE double == DoubleJacobian(one, z % p)
<1>11. double.point = two /\ double.z = w % p
  BY <1>10
<1>12. InitialDouble(Pt(x1, y1), z % p) = <<ApplyZ(Pt(x1, y1), double.z), double.point>>
  BY <1>8, Zenon DEF InitialDouble
<1>. HIDE DEF double
<1>13. InitialDouble(Pt(x1, y1), z % p) = <<At(x1, y1, w), two>>
  BY <1>9, <1>11, <1>12, Zenon
<1>. QED  BY <1>13, Zenon DEF At, two, g, h

-------------------------------------------------------------------------------
(* The field of the remainders                                                 *)

(* Remainders that are equal differ by a multiple, written out.                *)
LEMMA Differ ==
  ASSUME NEW x \in Int, NEW y \in Int
  PROVE  x % p = y % p <=> \E k \in Int : x = y + k * p
<1>1. x % p = y % p => \E k \in Int : x = y + k * p
  BY DifferByMultiple
<1>2. (\E k \in Int : x = y + k * p) => x % p = y % p
  BY SameRemainder
<1>. QED  BY <1>1, <1>2

LEMMA SmallRemainders ==
  /\ p \in Nat /\ p > 2 /\ 0 % p = 0 /\ 1 % p = 1 /\ p % p = 0
  /\ \A x \in Residues : x \in Int /\ x % p = x
<1>1. p \in Nat /\ p > 2
  BY ModInvAssumption
<1>2. 0 \in Residues /\ 1 \in Residues /\ p - p \in Residues /\ 0 \in Int /\ 1 \in Int /\ p \in Int
  BY <1>1 DEF Residues
<1>3. 0 % p = 0 /\ 1 % p = 1 /\ p % p = p - p
  BY <1>2, RemainderOf
<1>4. \A x \in Residues : x \in Int /\ x % p = x
  <2>. TAKE x \in Residues
  <2>1. x \in Int
    BY DEF Residues
  <2>. QED  BY <2>1, RemainderOf
<1>. QED  BY <1>1, <1>3, <1>4

(* p is prime: every remainder but 0 has an inverse.                           *)
LEMMA InverseExists ==
  ASSUME NEW x \in 1..(p - 1)
  PROVE  \E y \in 1..(p - 1) : (x * y) % p = 1
<1>. DEFINE Reached == {t \in Nat : t >= 1 /\ \E i \in Int : (i * x) % p = t % p}
<1>1. p \in Nat /\ p > 2 /\ x \in Int /\ x >= 1 /\ x < p
  BY SmallRemainders
<1>2. x \in Reached
  <2>1. 1 * x = x /\ 1 \in Int /\ x \in Nat
    BY <1>1
  <2>. QED  BY <1>1, <2>1
<1>3. PICK m \in Reached : \A t \in Reached : m <= t
  <2>1. Reached \subseteq Nat /\ Reached # {}
    BY <1>2
  <2>. HIDE DEF Reached
  <2>. QED  BY <2>1, LeastNatural
<1>4. m \in Nat /\ m >= 1 /\ m <= x
  BY <1>2, <1>3
<1>5. PICK i \in Int : (i * x) % p = m % p
  BY <1>3
<1>6. m = 1
  <2>. SUFFICES ASSUME m # 1 PROVE FALSE
    OBVIOUS
  <2>. DEFINE q == p \div m
              r == p % m
  <2>1. m \in 2..(p - 1)
    BY <1>1, <1>4
  <2>2. r # 0
    BY <2>1, CurveAssumption
  <2>3. q \in Int /\ r \in 0..(m - 1) /\ p = q * m + r
    BY <1>1, <1>4, Division
  <2>. HIDE DEF q, r
  <2>4. r \in Nat /\ r >= 1 /\ r < m
    BY <1>4, <2>2, <2>3
  <2>5. PICK k \in Int : i * x = m + k * p
    <3>1. i * x \in Int /\ m \in Int
      BY <1>1, <1>4
    <3>. QED  BY <1>5, <3>1, DifferByMultiple
  <2>. DEFINE c == (-q) * i
              e == -1 - q * k
  <2>6. c \in Int /\ e \in Int /\ c * x \in Int
    BY <1>1, <2>3, <2>5
  <2>7. c * x = r + e * p
    <3>1. c * x = (-q) * (i * x)
      BY <1>1, <2>3
    <3>2. (-q) * (m + k * p) = r + e * p
      BY <1>1, <1>4, <2>3, <2>5
    <3>. QED  BY <2>5, <3>1, <3>2
  <2>. HIDE DEF c, e
  <2>8. (c * x) % p = r % p
    BY <2>4, <2>6, <2>7, SameRemainder
  <2>9. r \in Reached
    BY <2>4, <2>6, <2>8
  <2>. HIDE DEF Reached
  <2>. QED  BY <1>3, <1>4, <2>4, <2>9
<1>. DEFINE y == i % p
<1>7. y \in Residues
  BY RemainderParts
<1>8. (x * y) % p = 1
  <2>1. ((x % p) * (i % p)) % p = (x * i) % p
    BY <1>1, ProductRemainder, Zenon
  <2>2. x % p = x
    BY <1>1, SmallRemainders DEF Residues
  <2>3. x * i = i * x
    BY <1>1
  <2>4. (i * x) % p = 1
    BY <1>5, <1>6, SmallRemainders
  <2>. QED  BY <2>1, <2>2, <2>3, <2>4, Zenon
<1>. HIDE DEF y
<1>9. y # 0
  BY <1>1, <1>8, SmallRemainders
<1>10. y \in 1..(p - 1)
  BY <1>1, <1>7, <1>9 DEF Residues
<1>. QED  BY <1>8, <1>10

LEMMA InverseIs ==
  ASSUME NEW x \in 1..(p - 1)
  PROVE  InverseOf[x] \in 1..(p - 1) /\ (x * InverseOf[x]) % p = 1
<1>1. InverseOf[x] = CHOOSE y \in 1..(p - 1) : (x * y) % p = 1
  BY DEF InverseOf
<1>. QED  BY <1>1, InverseExists

(* What a quotient of the textbook addition is.                                *)
LEMMA QuotientIs ==
  ASSUME NEW d \in Int, d % p # 0, NEW e \in Int
  PROVE  /\ InverseOf[d % p] \in Int
         /\ ((e * InverseOf[d % p]) * d) % p = e % p
<1>. DEFINE x == d % p
            y == InverseOf[x]
<1>1. x \in 1..(p - 1)
  BY RemainderParts, SmallRemainders DEF Residues
<1>. HIDE DEF x
<1>2. y \in Int /\ (x * y) % p = 1 /\ x \in Int
  BY <1>1, InverseIs
<1>. HIDE DEF y
<1>3. PICK k \in Int : x = d + k * p
  BY RemainderParts DEF x
<1>4. PICK j \in Int : x * y = 1 + j * p
  <2>1. x * y \in Int /\ 1 \in Int /\ (x * y) % p = 1 % p
    BY <1>2, SmallRemainders
  <2>. QED  BY <2>1, DifferByMultiple
<1>5. p \in Int
  BY SmallRemainders
<1>. DEFINE c == e * j - e * y * k
<1>6. (e * y) * d = e + c * p
  <2>1. (e * y) * d = (e * y) * (x - k * p)
    BY <1>2, <1>3, <1>5
  <2>2. (e * y) * (x - k * p) = e * (x * y) - e * y * k * p
    BY <1>2, <1>3, <1>5
  <2>3. e * (1 + j * p) - e * y * k * p = e + c * p
    BY <1>2, <1>3, <1>4, <1>5
  <2>. QED  BY <1>4, <2>1, <2>2, <2>3
<1>7. (e * y) * d \in Int /\ c \in Int
  BY <1>2, <1>3, <1>4
<1>. HIDE DEF c
<1>8. ((e * y) * d) % p = e % p
  BY <1>6, <1>7, SameRemainder
<1>. QED  BY <1>2, <1>8, Zenon DEF x, y

(* A product is only 0 modulo p if a factor is.                                *)
LEMMA NoZeroDivisors ==
  ASSUME NEW x \in Int, NEW y \in Int, (x * y) % p = 0
  PROVE  x % p = 0 \/ y % p = 0
<1>. SUFFICES ASSUME x % p # 0 PROVE y % p = 0
  OBVIOUS
<1>. DEFINE i == InverseOf[x % p]
<1>1. i \in Int /\ ((y * i) * x) % p = y % p
  BY QuotientIs
<1>. HIDE DEF i
<1>2. (y * i) * x = i * (x * y) /\ x * y \in Int
  BY <1>1
<1>3. ((i % p) * ((x * y) % p)) % p = (i * (x * y)) % p
  BY <1>1, <1>2, ProductRemainder
<1>4. (i % p) * 0 = 0
  BY <1>1, RemainderParts
<1>. QED  BY <1>1, <1>2, <1>3, <1>4, SmallRemainders, Zenon

-------------------------------------------------------------------------------
(* The textbook addition                                                       *)

Points == Peers \union {G}
Group == Curve \union {Infinity}

LEMMA CurveNumbers ==
  /\ n \in Nat /\ n >= 3 /\ n % 2 = 1 /\ B \in Residues
  /\ \A P \in Curve : P \in Coordinates /\ P.x \in Residues /\ P.y \in Residues /\ P.x \in Int /\ P.y \in Int
  /\ \A P \in Coordinates : P # Infinity /\ P = [x |-> P.x, y |-> P.y]
  /\ \A P \in Points : P \in Coordinates
<1>1. n \in Nat /\ n >= 3 /\ n % 2 = 1 /\ B \in Residues
  BY EcdhAssumption, CurveAssumption, ModInvAssumption DEF Residues
<1>2. \A P \in Curve : P \in Coordinates /\ P.x \in Residues /\ P.y \in Residues /\ P.x \in Int /\ P.y \in Int
  BY CoordinatesAre, SmallRemainders DEF Curve
<1>3. \A P \in Coordinates : P # Infinity
  <2>. TAKE P \in Coordinates
  <2>1. P.x \in Residues
    BY CoordinatesAre
  <2>2. P.x # -1
    BY <2>1 DEF Residues
  <2>. QED  BY <2>2 DEF Infinity
<1>4. \A P \in Coordinates : P = [x |-> P.x, y |-> P.y]
  BY DEF Coordinates
<1>5. \A P \in Points : P \in Coordinates
  BY Ranges DEF Points
<1>. QED  BY <1>1, <1>2, <1>3, <1>4, <1>5

(* A point is the remainders of its coordinates.                               *)
LEMMA PointIsPt ==
  ASSUME NEW P \in Coordinates
  PROVE  P.x \in Int /\ P.y \in Int /\ P.x \in Residues /\ P.y \in Residues /\ P = Pt(P.x, P.y)
<1>1. P.x \in Residues /\ P.y \in Residues
  BY CoordinatesAre
<1>2. P.x \in Int /\ P.y \in Int /\ P.x % p = P.x /\ P.y % p = P.y
  BY <1>1, SmallRemainders
<1>3. P = [x |-> P.x, y |-> P.y]
  BY CurveNumbers
<1>. QED  BY <1>1, <1>2, <1>3, Zenon DEF Pt

LEMMA PlusInfinity ==
  /\ \A Q : Plus(Infinity, Q) = Q
  /\ \A Q \in Group : Plus(Q, Infinity) = Q
<1>1. \A Q : Plus(Infinity, Q) = Q
  BY DEF Plus
<1>2. \A Q \in Curve : Q # Infinity
  BY CurveNumbers
<1>3. \A Q : Q # Infinity => Plus(Q, Infinity) = Q
  BY DEF Plus
<1>. QED  BY <1>1, <1>2, <1>3, Zenon DEF Group

(* The third point of the line of slope s, mirrored.                           *)
Third(P, Q, s) ==
  [x |-> (s * s - P.x - Q.x) % p, y |-> (s * (P.x - ((s * s - P.x - Q.x) % p)) - P.y) % p]

LEMMA ThirdIs ==
  ASSUME NEW P, NEW Q, P.x \in Int, P.y \in Int, Q.x \in Int, NEW s \in Int
  PROVE  Third(P, Q, s) = Pt(s * s - P.x - Q.x, s * (P.x - (s * s - P.x - Q.x)) - P.y)
<1>. DEFINE x1 == P.x
            y1 == P.y
            x2 == Q.x
            x3 == s * s - x1 - x2
            c == x3 % p
            e == s * (x1 - c) - y1
            f == s * (x1 - x3) - y1
<1>1. x1 \in Int /\ y1 \in Int /\ x2 \in Int /\ p \in Int
  BY SmallRemainders
<1>2. Third(P, Q, s) = [x |-> x3 % p, y |-> e % p]
  BY Zenon DEF Third
<1>. HIDE DEF x1, y1, x2
<1>3. x3 \in Int
  BY <1>1
<1>4. PICK k \in Int : c = x3 + k * p
  <2>. HIDE DEF x3
  <2>. QED  BY <1>3, RemainderParts
<1>. HIDE DEF c
<1>5. e = f + (-(s * k)) * p /\ e \in Int /\ f \in Int /\ -(s * k) \in Int
  BY <1>1, <1>3, <1>4
<1>6. e % p = f % p
  <2>. HIDE DEF e, f
  <2>. QED  BY <1>5, SameRemainder
<1>. QED  BY <1>2, <1>6, Zenon DEF Pt, f, x3, x1, y1, x2

LEMMA PlusUnfolded ==
  ASSUME NEW P \in Coordinates, NEW Q \in Coordinates
  PROVE  Plus(P, Q) =
           IF P.x = Q.x /\ (P.y + Q.y) % p = 0 THEN Infinity
           ELSE Third(P, Q, IF P = Q THEN (3 * (P.x * P.x - 1) * InverseOf[(2 * P.y) % p]) % p
                            ELSE ((Q.y - P.y) * InverseOf[(Q.x - P.x) % p]) % p)
<1>1. P # Infinity /\ Q # Infinity
  BY CurveNumbers
<1>. QED  BY <1>1 DEF Plus, Third

(* Two points that are not above each other: the line through them.            *)
LEMMA Chord ==
  ASSUME NEW P \in Coordinates, NEW Q \in Coordinates, P.x # Q.x
  PROVE  /\ (Q.x - P.x) % p # 0
         /\ \E s \in Int : /\ Q.y % p = (P.y + s * (Q.x - P.x)) % p
                           /\ Plus(P, Q) = Pt(s * s - P.x - Q.x, s * (P.x - (s * s - P.x - Q.x)) - P.y)
<1>. DEFINE x1 == P.x
            y1 == P.y
            x2 == Q.x
            y2 == Q.y
            d == x2 - x1
            t == (y2 - y1) * InverseOf[d % p]
            s == t % p
<1>1. /\ x1 \in Int /\ y1 \in Int /\ x2 \in Int /\ y2 \in Int /\ x1 \in Residues /\ x2 \in Residues /\ p \in Int
      /\ x1 % p = x1 /\ x2 % p = x2
  BY PointIsPt, SmallRemainders
<1>2. Plus(P, Q) = Third(P, Q, s)
  <2>1. P # Q
    OBVIOUS
  <2>2. Plus(P, Q) = Third(P, Q, IF P = Q THEN (3 * (P.x * P.x - 1) * InverseOf[(2 * P.y) % p]) % p
                                 ELSE ((Q.y - P.y) * InverseOf[(Q.x - P.x) % p]) % p)
    BY PlusUnfolded, Zenon
  <2>. QED  BY <2>1, <2>2, Zenon
<1>3. x1 # x2
  OBVIOUS
<1>. HIDE DEF x1, y1, x2, y2
<1>4. d \in Int /\ d % p # 0
  <2>1. SUFFICES ASSUME d % p = 0 PROVE FALSE
    BY <1>1
  <2>2. d \in Int /\ 0 \in Int /\ d % p = 0 % p
    BY <1>1, <2>1, SmallRemainders
  <2>. HIDE DEF d
  <2>3. PICK k \in Int : d = 0 + k * p
    BY <2>2, DifferByMultiple
  <2>4. x2 = x1 + k * p
    BY <1>1, <2>3 DEF d
  <2>5. x2 % p = x1 % p
    BY <1>1, <2>4, SameRemainder
  <2>. QED  BY <1>1, <1>3, <2>5
<1>5. t \in Int /\ (t * d) % p = (y2 - y1) % p
  <2>. DEFINE e == y2 - y1
  <2>1. e \in Int
    BY <1>1
  <2>. HIDE DEF d, e
  <2>2. InverseOf[d % p] \in Int /\ ((e * InverseOf[d % p]) * d) % p = e % p
    BY <1>4, <2>1, QuotientIs
  <2>. QED  BY <2>1, <2>2 DEF e
<1>. HIDE DEF t
<1>6. s \in Int
  BY <1>5, RemainderParts
<1>7. y2 % p = (y1 + s * d) % p
  <2>1. PICK k \in Int : s = t + k * p
    BY <1>5, RemainderParts
  <2>2. PICK j \in Int : t * d = (y2 - y1) + j * p
    <3>1. t * d \in Int /\ y2 - y1 \in Int
      BY <1>1, <1>4, <1>5
    <3>. QED  BY <1>5, <3>1, DifferByMultiple
  <2>. HIDE DEF s, d
  <2>. DEFINE c == -(j + k * d)
  <2>3. y2 = (y1 + s * d) + c * p
    <3>1. s * d = t * d + k * d * p
      BY <1>1, <1>4, <1>5, <2>1
    <3>2. y1 + (((y2 - y1) + j * p) + k * d * p) + c * p = y2
      BY <1>1, <1>4
    <3>. QED  BY <2>2, <3>1, <3>2
  <2>4. y1 + s * d \in Int /\ c \in Int
    BY <1>1, <1>4, <1>6
  <2>. HIDE DEF c
  <2>. QED  BY <1>1, <2>3, <2>4, SameRemainder
<1>. HIDE DEF s, d
<1>8. Third(P, Q, s) = Pt(s * s - P.x - Q.x, s * (P.x - (s * s - P.x - Q.x)) - P.y)
  BY <1>1, <1>6, ThirdIs DEF x1, y1, x2
<1>. QED  BY <1>2, <1>4, <1>6, <1>7, <1>8 DEF x1, y1, x2, y2, d

(* A point and itself: the tangent.                                            *)
LEMMA Tangent ==
  ASSUME NEW P \in Coordinates, (P.y + P.y) % p # 0
  PROVE  \E s \in Int : /\ (2 * s * P.y) % p = (3 * (P.x * P.x - 1)) % p
                        /\ Plus(P, P) = Pt(s * s - P.x - P.x, s * (P.x - (s * s - P.x - P.x)) - P.y)
<1>. DEFINE x1 == P.x
            y1 == P.y
            d == 2 * y1
            e == 3 * (x1 * x1 - 1)
            t == e * InverseOf[d % p]
            s == t % p
<1>1. x1 \in Int /\ y1 \in Int /\ p \in Int
  BY PointIsPt, SmallRemainders
<1>2. Plus(P, P) = Third(P, P, s)
  <2>1. Plus(P, P) = Third(P, P, IF P = P THEN (3 * (P.x * P.x - 1) * InverseOf[(2 * P.y) % p]) % p
                                 ELSE ((P.y - P.y) * InverseOf[(P.x - P.x) % p]) % p)
    BY PlusUnfolded, Zenon
  <2>. QED  BY <2>1, Zenon
<1>3. (y1 + y1) % p # 0
  OBVIOUS
<1>. HIDE DEF x1, y1
<1>4. d \in Int /\ d % p # 0 /\ e \in Int
  <2>1. d = y1 + y1
    BY <1>1
  <2>2. d \in Int /\ e \in Int
    BY <1>1
  <2>. HIDE DEF d
  <2>. QED  BY <1>3, <2>1, <2>2
<1>. HIDE DEF e
<1>5. t \in Int /\ (t * d) % p = e % p
  <2>. HIDE DEF d
  <2>1. InverseOf[d % p] \in Int /\ ((e * InverseOf[d % p]) * d) % p = e % p
    BY <1>4, QuotientIs
  <2>. QED  BY <1>4, <2>1
<1>. HIDE DEF t
<1>6. s \in Int
  BY <1>5, RemainderParts
<1>7. (2 * s * y1) % p = e % p
  <2>1. PICK k \in Int : s = t + k * p
    BY <1>5, RemainderParts
  <2>. HIDE DEF s
  <2>2. 2 * s * y1 = t * d + (k * d) * p /\ 2 * s * y1 \in Int /\ t * d \in Int /\ k * d \in Int
    BY <1>1, <1>4, <1>5, <1>6, <2>1
  <2>3. (2 * s * y1) % p = (t * d) % p
    BY <2>2, SameRemainder
  <2>. QED  BY <1>5, <2>3
<1>. HIDE DEF s
<1>8. Third(P, P, s) = Pt(s * s - P.x - P.x, s * (P.x - (s * s - P.x - P.x)) - P.y)
  BY <1>1, <1>6, ThirdIs DEF x1, y1
<1>. QED  BY <1>2, <1>6, <1>7, <1>8 DEF x1, y1, e

(* Points of the curve that are above each other are equal or opposite.        *)
LEMMA SameX ==
  ASSUME NEW P \in Curve, NEW Q \in Curve, P.x = Q.x
  PROVE  P = Q \/ (P.y + Q.y) % p = 0
<1>. DEFINE y1 == P.y
            y2 == Q.y
            c == y1 * y1
            d == y2 * y2
            s == y1 + y2
            m == y1 - y2
<1>1. /\ P \in Coordinates /\ Q \in Coordinates /\ y1 \in Int /\ y2 \in Int /\ y1 \in Residues /\ y2 \in Residues
      /\ y1 % p = y1 /\ y2 % p = y2 /\ p \in Int
  BY CurveNumbers, SmallRemainders
<1>2. c % p = d % p
  BY DEF Curve
<1>3. c \in Int /\ d \in Int /\ s \in Int /\ m \in Int
  BY <1>1
<1>4. PICK k \in Int : c = d + k * p
  <2>. HIDE DEF c, d
  <2>. QED  BY <1>2, <1>3, DifferByMultiple
<1>5. (m * s) % p = 0
  <2>1. m * s = c - d
    BY <1>1
  <2>. HIDE DEF c, d, m, s
  <2>. DEFINE l == m * s
  <2>2. l = 0 + k * p /\ l \in Int /\ 0 \in Int
    BY <1>1, <1>3, <1>4, <2>1
  <2>. HIDE DEF l
  <2>3. l % p = 0 % p
    BY <2>2, SameRemainder
  <2>4. l % p = 0
    BY <2>3, SmallRemainders
  <2>. QED  BY <2>4 DEF l
<1>6. CASE s % p = 0
  BY <1>6
<1>7. CASE m % p = 0
  <2>1. PICK j \in Int : m = 0 + j * p
    <3>. HIDE DEF m
    <3>1. m % p = 0 % p /\ 0 \in Int
      BY <1>7, SmallRemainders
    <3>. QED  BY <1>3, <3>1, DifferByMultiple
  <2>2. y1 = y2 + j * p
    <3>. HIDE DEF y1, y2
    <3>. QED  BY <1>1, <2>1
  <2>. HIDE DEF y1, y2
  <2>3. y1 = y2
    BY <1>1, <2>2, SameRemainder
  <2>4. P.y = Q.y
    BY <2>3 DEF y1, y2
  <2>5. P = [x |-> P.x, y |-> P.y] /\ Q = [x |-> Q.x, y |-> Q.y]
    BY <1>1, CurveNumbers
  <2>. QED  BY <2>4, <2>5, Zenon
<1>. HIDE DEF m, s
<1>8. m % p = 0 \/ s % p = 0
  BY <1>3, <1>5, NoZeroDivisors
<1>. QED  BY <1>6, <1>7, <1>8

(* Only a point and its opposite add up to infinity.                           *)
LEMMA PlusIsInfinity ==
  ASSUME NEW P \in Curve, NEW Q \in Curve
  PROVE  Plus(P, Q) = Infinity <=> P.x = Q.x /\ (P.y + Q.y) % p = 0
<1>1. P \in Coordinates /\ Q \in Coordinates
  BY CurveNumbers
<1>2. ASSUME NEW e \in Int, NEW f \in Int PROVE Pt(e, f) # Infinity
  BY PtIs, CurveNumbers
<1>3. CASE P.x = Q.x /\ (P.y + Q.y) % p = 0
  <2>1. Plus(P, Q) = Infinity
    BY <1>1, <1>3, PlusUnfolded, Zenon
  <2>. QED  BY <1>3, <2>1
<1>4. CASE P.x # Q.x
  <2>1. PICK s \in Int : Plus(P, Q) = Pt(s * s - P.x - Q.x, s * (P.x - (s * s - P.x - Q.x)) - P.y)
    BY <1>1, <1>4, Chord
  <2>. DEFINE e == s * s - P.x - Q.x
              f == s * (P.x - (s * s - P.x - Q.x)) - P.y
  <2>2. e \in Int /\ f \in Int
    BY <1>1, PointIsPt
  <2>. HIDE DEF e, f
  <2>3. Plus(P, Q) # Infinity
    BY <1>2, <2>1, <2>2 DEF e, f
  <2>. QED  BY <1>4, <2>3
<1>5. CASE P = Q /\ (P.y + P.y) % p # 0
  <2>1. PICK s \in Int : Plus(P, P) = Pt(s * s - P.x - P.x, s * (P.x - (s * s - P.x - P.x)) - P.y)
    BY <1>1, <1>5, Tangent
  <2>. DEFINE e == s * s - P.x - P.x
              f == s * (P.x - (s * s - P.x - P.x)) - P.y
  <2>2. e \in Int /\ f \in Int
    BY <1>1, PointIsPt
  <2>. HIDE DEF e, f
  <2>3. Plus(P, Q) # Infinity
    BY <1>2, <1>5, <2>1, <2>2 DEF e, f
  <2>. QED  BY <1>5, <2>3
<1>. QED  BY <1>3, <1>4, <1>5, SameX

-------------------------------------------------------------------------------
(* The multiples of a point                                                    *)

LEMMA MultipleRecursion ==
  ASSUME NEW P \in Points
  PROVE  /\ Multiple[P][0] = Infinity
         /\ \A m \in 1..(n - 1) : Multiple[P][m] = Plus(Multiple[P][m - 1], P)
<1>. DEFINE D(before, i) == Plus(before, P)
            h == CHOOSE g : g = [m \in 0..(n - 1) |-> IF m = 0 THEN Infinity ELSE Plus(g[m - 1], P)]
<1>1. n - 1 \in Nat
  BY CurveNumbers
<1>2. FiniteNatInductiveDefHypothesis(h, Infinity, D, 0, n - 1)
  BY Zenon DEF FiniteNatInductiveDefHypothesis
<1>3. FiniteNatInductiveDefConclusion(h, Infinity, D, 0, n - 1)
  BY <1>1, <1>2, FiniteNatInductiveDef
<1>4. h = [m \in 0..(n - 1) |-> IF m = 0 THEN Infinity ELSE Plus(h[m - 1], P)]
  BY <1>3, Zenon DEF FiniteNatInductiveDefConclusion
<1>5. Multiple[P] = h
  BY Zenon DEF Multiple, Points
<1>. HIDE DEF h
<1>6. h[0] = Infinity
  BY <1>1, <1>4
<1>7. \A m \in 1..(n - 1) : h[m] = Plus(h[m - 1], P)
  <2>. TAKE m \in 1..(n - 1)
  <2>1. m \in 0..(n - 1) /\ m # 0
    BY <1>1
  <2>. QED  BY <1>4, <2>1, Zenon
<1>. QED  BY <1>5, <1>6, <1>7

(* Remainders by the order.                                                    *)
LEMMA OrderRemainders ==
  /\ \A m \in Nat : m % n \in 0..(n - 1)
  /\ \A m \in 0..(n - 1) : m % n = m
  /\ \A m \in n..(2 * n - 1) : m % n = m - n
  /\ \A m \in (2 * n)..(3 * n - 1) : m % n = m - 2 * n
  /\ \A i, j \in Nat : ((i % n) + (j % n)) % n = (i + j) % n
<1>1. n \in Nat /\ n > 0
  BY CurveNumbers
<1>2. \A m \in Nat : m % n \in 0..(n - 1)
  BY <1>1, Division
<1>3. \A m \in 0..(n - 1) : m % n = m
  <2>. TAKE m \in 0..(n - 1)
  <2>1. m = 0 * n + m /\ m \in Int /\ 0 \in Int
    BY <1>1
  <2>. QED  BY <1>1, <2>1, DivisionIs
<1>4. \A m \in n..(2 * n - 1) : m % n = m - n
  <2>. TAKE m \in n..(2 * n - 1)
  <2>1. m = 1 * n + (m - n) /\ m \in Int /\ 1 \in Int /\ m - n \in 0..(n - 1)
    BY <1>1
  <2>. QED  BY <1>1, <2>1, DivisionIs
<1>5. \A m \in (2 * n)..(3 * n - 1) : m % n = m - 2 * n
  <2>. TAKE m \in (2 * n)..(3 * n - 1)
  <2>1. m = 2 * n + (m - 2 * n) /\ m \in Int /\ 2 \in Int /\ m - 2 * n \in 0..(n - 1)
    BY <1>1
  <2>. QED  BY <1>1, <2>1, DivisionIs
<1>6. \A i, j \in Nat : ((i % n) + (j % n)) % n = (i + j) % n
  <2>. TAKE i, j \in Nat
  <2>. DEFINE q == i \div n
              r == i % n
              k == j \div n
              s == j % n
              c == (r + s) \div n
              t == (r + s) % n
  <2>1. q \in Int /\ r \in 0..(n - 1) /\ i = q * n + r /\ k \in Int /\ s \in 0..(n - 1) /\ j = k * n + s
    BY <1>1, Division
  <2>. HIDE DEF q, r, k, s
  <2>2. c \in Int /\ t \in 0..(n - 1) /\ r + s = c * n + t
    BY <1>1, <2>1, Division
  <2>. HIDE DEF c, t
  <2>3. i + j = (q + k + c) * n + t /\ i + j \in Int /\ q + k + c \in Int
    BY <1>1, <2>1, <2>2
  <2>4. (i + j) % n = t
    BY <1>1, <2>2, <2>3, DivisionIs
  <2>. QED  BY <2>4 DEF t, r, s
<1>. QED  BY <1>2, <1>3, <1>4, <1>5, <1>6

(* The multiples by repeated addition are a cyclic group of the order n.       *)
LEMMA MultiplesAdd ==
  ASSUME NEW P \in Points
  PROVE  /\ P = Multiple[P][1]
         /\ \A m \in 1..(n - 1) : Multiple[P][m] \in Curve
         /\ \A i, j \in 0..(n - 1) : Plus(Multiple[P][i], Multiple[P][j]) = Multiple[P][(i + j) % n]
<1>. DEFINE M(m) == Multiple[P][m]
            T == {m \in 0..(n - 1) : M(m) \in Group}
            U == {j \in 0..(n - 1) : \A i \in 0..(n - 1) : Plus(M(i), M(j)) = M((i + j) % n)}
<1>1. n \in Nat /\ n >= 3
  BY CurveNumbers
<1>2. /\ M(0) = Infinity /\ \A m \in 1..(n - 1) : M(m) = Plus(M(m - 1), P)
  BY MultipleRecursion
<1>3. /\ \A Q \in Group : Plus(Q, P) \in Group
      /\ \A Q \in Group, t \in Group : Plus(Plus(Q, t), P) = Plus(Q, Plus(t, P))
      /\ \A m \in 1..(n - 1) : M(m) # Infinity
      /\ Plus(M(n - 1), P) = Infinity
  BY CurveAssumption, Zenon DEF Group, Points
<1>. HIDE DEF M
<1>4. P = M(1)
  <2>1. 1 \in 1..(n - 1) /\ 1 - 1 = 0
    BY <1>1
  <2>2. M(1) = Plus(M(0), P)
    BY <1>2, <2>1
  <2>. QED  BY <1>2, <2>2, PlusInfinity
<1>5. \A m \in 0..(n - 1) : M(m) \in Group
  <2>1. 0 \in T
    BY <1>1, <1>2 DEF Group
  <2>2. ASSUME NEW m \in 0..((n - 1) - 1), m \in T PROVE m + 1 \in T
    <3>1. m + 1 \in 1..(n - 1) /\ m + 1 \in 0..(n - 1) /\ (m + 1) - 1 = m
      BY <1>1
    <3>2. M(m + 1) = Plus(M(m), P)
      BY <1>2, <3>1
    <3>. QED  BY <1>3, <2>2, <3>1, <3>2
  <2>. HIDE DEF T
  <2>3. 0..(n - 1) \subseteq T
    BY <1>1, <2>1, <2>2, IntervalInductive
  <2>. QED  BY <2>3 DEF T
<1>6. \A m \in 1..(n - 1) : M(m) \in Curve
  <2>. TAKE m \in 1..(n - 1)
  <2>1. m \in 0..(n - 1)
    BY <1>1
  <2>. QED  BY <1>3, <1>5, <2>1 DEF Group
<1>7. \A m \in 0..(n - 1) : Plus(M(m), P) = M((m + 1) % n)
  <2>. TAKE m \in 0..(n - 1)
  <2>1. CASE m = n - 1
    <3>1. (m + 1) % n = 0
      <4>1. m + 1 \in n..(2 * n - 1) /\ (m + 1) - n = 0
        BY <1>1, <2>1
      <4>. QED  BY <4>1, OrderRemainders
    <3>. QED  BY <1>2, <1>3, <2>1, <3>1
  <2>2. CASE m # n - 1
    <3>1. m + 1 \in 1..(n - 1) /\ m + 1 \in 0..(n - 1) /\ (m + 1) - 1 = m
      BY <1>1, <2>2
    <3>2. (m + 1) % n = m + 1
      BY <3>1, OrderRemainders
    <3>. QED  BY <1>2, <3>1, <3>2
  <2>. QED  BY <2>1, <2>2
<1>8. \A i, j \in 0..(n - 1) : Plus(M(i), M(j)) = M((i + j) % n)
  <2>1. 0 \in U
    <3>1. ASSUME NEW i \in 0..(n - 1) PROVE Plus(M(i), M(0)) = M((i + 0) % n)
      <4>1. i + 0 = i /\ (i + 0) % n = i
        BY <1>1, OrderRemainders
      <4>2. Plus(M(i), Infinity) = M(i)
        BY <1>5, PlusInfinity
      <4>. QED  BY <1>2, <4>1, <4>2
    <3>. QED  BY <1>1, <3>1
  <2>2. ASSUME NEW j \in 0..((n - 1) - 1), j \in U PROVE j + 1 \in U
    <3>1. j + 1 \in 1..(n - 1) /\ j + 1 \in 0..(n - 1) /\ (j + 1) - 1 = j /\ j \in 0..(n - 1) /\ j \in Nat
      BY <1>1
    <3>2. M(j + 1) = Plus(M(j), P)
      BY <1>2, <3>1
    <3>3. ASSUME NEW i \in 0..(n - 1) PROVE Plus(M(i), M(j + 1)) = M((i + (j + 1)) % n)
      <4>. DEFINE m == (i + j) % n
      <4>1. i + j \in Nat /\ (i + j) + 1 = i + (j + 1) /\ 1 \in Nat /\ 1 \in 0..(n - 1)
        BY <1>1
      <4>2. m \in 0..(n - 1)
        BY <4>1, OrderRemainders
      <4>3. Plus(Plus(M(i), M(j)), P) = Plus(M(i), Plus(M(j), P))
        BY <1>3, <1>5, <3>1
      <4>4. Plus(M(i), M(j)) = M(m)
        BY <2>2
      <4>. HIDE DEF m
      <4>5. Plus(M(m), P) = M((m + 1) % n)
        BY <1>7, <4>2
      <4>6. (m + (1 % n)) % n = ((i + j) + 1) % n
        BY <4>1, OrderRemainders DEF m
      <4>7. 1 % n = 1
        BY <4>1, OrderRemainders
      <4>. QED  BY <3>2, <4>1, <4>3, <4>4, <4>5, <4>6, <4>7, Zenon
    <3>. QED  BY <3>1, <3>3
  <2>. HIDE DEF U
  <2>3. 0..(n - 1) \subseteq U
    BY <1>1, <2>1, <2>2, IntervalInductive
  <2>. QED  BY <2>3 DEF U
<1>. QED  BY <1>4, <1>6, <1>8 DEF M

(* Different multiples are different points; those above each other are        *)
(* opposite; none has y = 0, as the order is odd.                              *)
LEMMA MultiplesDiffer ==
  ASSUME NEW P \in Points, NEW i \in 1..(n - 1), NEW j \in 1..(n - 1)
  PROVE  /\ Multiple[P][i] = Multiple[P][j] => i = j
         /\ Multiple[P][i].x = Multiple[P][j].x => i = j \/ i + j = n
         /\ (Multiple[P][i].y + Multiple[P][i].y) % p # 0
         /\ Multiple[P][i].y # 0
<1>. DEFINE M(m) == Multiple[P][m]
<1>1. n \in Nat /\ n >= 3 /\ n % 2 = 1
  BY CurveNumbers
<1>2. /\ M(0) = Infinity
      /\ \A m \in 1..(n - 1) : M(m) \in Curve
      /\ \A k, m \in 0..(n - 1) : Plus(M(k), M(m)) = M((k + m) % n)
  BY MultipleRecursion, MultiplesAdd
<1>. HIDE DEF M
<1>3. \A m \in 1..(n - 1) : M(m) # Infinity
  BY <1>2, CurveNumbers
<1>4. ASSUME NEW k \in 0..(n - 1), NEW m \in 0..(n - 1), Plus(M(k), M(m)) = Infinity
      PROVE  k + m \in {0, n}
  <2>1. (k + m) % n \in 0..(n - 1) /\ k + m \in Nat
    BY <1>1, OrderRemainders
  <2>2. M((k + m) % n) = Infinity
    BY <1>2, <1>4
  <2>3. (k + m) % n = 0
    BY <1>3, <2>1, <2>2
  <2>4. CASE k + m < n
    <3>1. (k + m) % n = k + m
      BY <1>1, <2>1, <2>4, OrderRemainders
    <3>. QED  BY <2>3, <3>1
  <2>5. CASE k + m >= n
    <3>1. k + m \in n..(2 * n - 1)
      BY <1>1, <2>5
    <3>2. (k + m) % n = (k + m) - n
      BY <3>1, OrderRemainders
    <3>. QED  BY <1>1, <2>1, <2>3, <3>2
  <2>. QED  BY <1>1, <2>1, <2>4, <2>5
<1>5. i \in 0..(n - 1) /\ j \in 0..(n - 1) /\ n - i \in 0..(n - 1) /\ i \in Int /\ j \in Int
  BY <1>1
<1>6. M(i) = M(j) => i = j
  <2>. SUFFICES ASSUME M(i) = M(j) PROVE i = j
    OBVIOUS
  <2>1. Plus(M(n - i), M(i)) = M(((n - i) + i) % n)
    BY <1>2, <1>5
  <2>2. ((n - i) + i) % n = 0
    <3>1. (n - i) + i = n /\ n \in n..(2 * n - 1) /\ n - n = 0
      BY <1>1
    <3>2. n % n = n - n
      BY <3>1, OrderRemainders
    <3>. QED  BY <3>1, <3>2
  <2>3. Plus(M(n - i), M(j)) = Infinity
    BY <1>2, <2>1, <2>2
  <2>4. (n - i) + j \in {0, n}
    BY <1>4, <1>5, <2>3
  <2>. QED  BY <1>1, <2>4
<1>7. M(i).x = M(j).x => i = j \/ i + j = n
  <2>. SUFFICES ASSUME M(i).x = M(j).x PROVE i = j \/ i + j = n
    OBVIOUS
  <2>1. M(i) \in Curve /\ M(j) \in Curve
    BY <1>2
  <2>2. M(i) = M(j) \/ (M(i).y + M(j).y) % p = 0
    BY <2>1, SameX
  <2>3. CASE (M(i).y + M(j).y) % p = 0
    <3>1. Plus(M(i), M(j)) = Infinity
      BY <2>1, <2>3, PlusIsInfinity
    <3>2. i + j \in {0, n}
      BY <1>4, <1>5, <3>1
    <3>. QED  BY <1>1, <3>2
  <2>. QED  BY <1>6, <2>2, <2>3
<1>8. (M(i).y + M(i).y) % p # 0
  <2>. SUFFICES ASSUME (M(i).y + M(i).y) % p = 0 PROVE FALSE
    OBVIOUS
  <2>1. Plus(M(i), M(i)) = Infinity
    BY <1>2, PlusIsInfinity
  <2>2. i + i \in {0, n}
    BY <1>4, <1>5, <2>1
  <2>. QED  BY <1>1, <2>2
<1>9. M(i).y # 0
  BY <1>8, SmallRemainders
<1>. QED  BY <1>6, <1>7, <1>8, <1>9 DEF M

(* The multiple by the rest of the order is the opposite point.                *)
LEMMA Opposite ==
  ASSUME NEW P \in Points, NEW i \in 1..(n - 1)
  PROVE  /\ n - i \in 1..(n - 1)
         /\ Multiple[P][n - i].x = Multiple[P][i].x
         /\ (Multiple[P][i].y + Multiple[P][n - i].y) % p = 0
<1>. DEFINE M(m) == Multiple[P][m]
<1>1. n \in Nat /\ n >= 3
  BY CurveNumbers
<1>2. /\ M(0) = Infinity
      /\ \A m \in 1..(n - 1) : M(m) \in Curve
      /\ \A k, m \in 0..(n - 1) : Plus(M(k), M(m)) = M((k + m) % n)
  BY MultipleRecursion, MultiplesAdd
<1>. HIDE DEF M
<1>3. n - i \in 1..(n - 1) /\ n - i \in 0..(n - 1) /\ i \in 0..(n - 1)
  BY <1>1
<1>4. (i + (n - i)) % n = 0
  <2>1. i + (n - i) = n /\ n \in n..(2 * n - 1) /\ n - n = 0
    BY <1>1
  <2>2. n % n = n - n
    BY <2>1, OrderRemainders
  <2>. QED  BY <2>1, <2>2
<1>5. Plus(M(i), M(n - i)) = Infinity
  BY <1>2, <1>3, <1>4
<1>6. M(i).x = M(n - i).x /\ (M(i).y + M(n - i).y) % p = 0
  BY <1>2, <1>3, <1>5, PlusIsInfinity
<1>. QED  BY <1>3, <1>6 DEF M

-------------------------------------------------------------------------------
(* The operations of the code on multiples of a point                          *)

LEMMA SameProduct ==
  ASSUME NEW e \in Int, NEW f \in Int, NEW g \in Int, NEW h \in Int, e % p = g % p, f % p = h % p
  PROVE  (e * f) % p = (g * h) % p
<1>1. ((e % p) * (f % p)) % p = (e * f) % p
  BY ProductRemainder
<1>2. ((g % p) * (h % p)) % p = (g * h) % p
  BY ProductRemainder
<1>. QED  BY <1>1, <1>2, Zenon

LEMMA SameScaled ==
  ASSUME NEW e \in Int, NEW f \in Int, NEW g \in Int, NEW h \in Int, NEW z \in Int, NEW w \in Int,
         e % p = g % p, f % p = h % p, z % p = w % p
  PROVE  At(e, f, z) = At(g, h, w)
<1>. DEFINE e1 == e * z
            e2 == e1 * z
            f1 == f * z
            f2 == f1 * z
            f3 == f2 * z
            g1 == g * w
            g2 == g1 * w
            h1 == h * w
            h2 == h1 * w
            h3 == h2 * w
<1>1. e1 \in Int /\ f1 \in Int /\ g1 \in Int /\ h1 \in Int /\ f2 \in Int /\ h2 \in Int
  OBVIOUS
<1>2. e1 % p = g1 % p /\ f1 % p = h1 % p
  BY SameProduct
<1>. HIDE DEF e1, f1, g1, h1
<1>3. e2 % p = g2 % p /\ f2 % p = h2 % p
  BY <1>1, <1>2, SameProduct
<1>. HIDE DEF f2, h2
<1>4. f3 % p = h3 % p
  BY <1>1, <1>3, SameProduct
<1>. HIDE DEF e2, g2, f3, h3
<1>5. Pt(e2, f3) = Pt(g2, h3)
  BY <1>3, <1>4, Zenon DEF Pt
<1>. QED  BY <1>5, Zenon DEF At, e2, g2, f3, h3, f2, h2, e1, f1, g1, h1

(* A scaled point, by numbers whose remainders are its coordinates.            *)
LEMMA ScaledIs ==
  ASSUME NEW e \in Int, NEW f \in Int, NEW w \in Int
  PROVE  /\ Scaled(Pt(e, f), w % p) = At(e, f, w)
         /\ Scaled(Pt(e, f), w) = At(e, f, w)
<1>. DEFINE c == e % p
            d == f % p
            z == w % p
<1>1. c \in Int /\ d \in Int /\ z \in Int /\ c % p = e % p /\ d % p = f % p /\ z % p = w % p
  BY RemainderParts
<1>2. Pt(e, f).x = c /\ Pt(e, f).y = d
  BY DEF Pt
<1>. HIDE DEF c, d, z
<1>3. Scaled(Pt(e, f), z) = At(c, d, z) /\ Scaled(Pt(e, f), w) = At(c, d, w)
  BY <1>2, Zenon DEF Scaled, At, Pt
<1>4. w % p = w % p
  OBVIOUS
<1>5. At(c, d, z) = At(e, f, w)
  BY <1>1, SameScaled
<1>6. At(c, d, w) = At(e, f, w)
  BY <1>1, <1>4, SameScaled
<1>. QED  BY <1>3, <1>5, <1>6, Zenon DEF z

(* What is not 0 modulo p stays so in products.                                *)
LEMMA Units ==
  ASSUME NEW d \in Int, NEW z \in 1..(p - 1), d % p # 0
  PROVE  /\ (d * z) % p # 0 /\ (d * z * z * z) % p \in 1..(p - 1) /\ (d * z * z * z * z) % p \in 1..(p - 1)
<1>1. z \in Int /\ z % p # 0 /\ p \in Nat
  BY SmallRemainders DEF Residues
<1>. DEFINE d1 == d * z
            d2 == d1 * z
            d3 == d2 * z
            d4 == d3 * z
<1>2. d1 \in Int /\ d2 \in Int /\ d3 \in Int /\ d4 \in Int
  BY <1>1
<1>3. d1 % p # 0
  BY <1>1, NoZeroDivisors
<1>. HIDE DEF d1
<1>4. d2 % p # 0
  BY <1>1, <1>2, <1>3, NoZeroDivisors
<1>. HIDE DEF d2
<1>5. d3 % p # 0
  BY <1>1, <1>2, <1>4, NoZeroDivisors
<1>. HIDE DEF d3
<1>6. d4 % p # 0
  BY <1>1, <1>2, <1>5, NoZeroDivisors
<1>. HIDE DEF d4
<1>7. d3 % p \in Residues /\ d4 % p \in Residues
  BY <1>2, RemainderParts
<1>8. d3 % p \in 1..(p - 1) /\ d4 % p \in 1..(p - 1)
  <2>. DEFINE r == d3 % p
              s == d4 % p
  <2>1. r \in Residues /\ s \in Residues /\ r # 0 /\ s # 0
    BY <1>5, <1>6, <1>7
  <2>. HIDE DEF r, s
  <2>2. r \in 1..(p - 1) /\ s \in 1..(p - 1)
    BY <1>1, <2>1 DEF Residues
  <2>. QED  BY <2>2 DEF r, s
<1>. QED  BY <1>3, <1>8, Zenon DEF d1, d2, d3, d4

(* XYcZ_add adds any two multiples of a point that differ and are not opposite *)
(* and gives both results one z, which is not 0.                               *)
THEOREM AddMultiples ==
  ASSUME NEW P \in Points, NEW i \in 1..(n - 1), NEW j \in 1..(n - 1), i # j, i + j # n, NEW z \in 1..(p - 1)
  PROVE  LET w == ((Multiple[P][j].x - Multiple[P][i].x) * z * z * z) % p
         IN  /\ w \in 1..(p - 1)
             /\ XYcZAdd(Scaled(Multiple[P][i], z), Scaled(Multiple[P][j], z))
                  = <<Scaled(Multiple[P][i], w), Scaled(Multiple[P][(i + j) % n], w)>>
<1>. DEFINE Q == Multiple[P][i]
            T == Multiple[P][j]
            U == Multiple[P][(i + j) % n]
<1>1. Q \in Coordinates /\ T \in Coordinates /\ Q.x # T.x /\ Plus(Q, T) = U
  <2>1. i \in 0..(n - 1) /\ j \in 0..(n - 1)
    BY CurveNumbers
  <2>. QED  BY <2>1, MultiplesAdd, MultiplesDiffer, CurveNumbers
<1>. HIDE DEF Q, T, U
<1>. DEFINE x1 == Q.x
            y1 == Q.y
            x2 == T.x
            y2 == T.y
            d == x2 - x1
            w == d * z * z * z
<1>2. /\ x1 \in Int /\ y1 \in Int /\ x2 \in Int /\ y2 \in Int /\ z \in Int /\ Q = Pt(x1, y1) /\ T = Pt(x2, y2)
      /\ d % p # 0
  BY <1>1, PointIsPt, Chord
<1>3. PICK s \in Int : /\ y2 % p = (y1 + s * d) % p
                       /\ Plus(Q, T) = Pt(s * s - x1 - x2, s * (x1 - (s * s - x1 - x2)) - y1)
  BY <1>1, Chord
<1>. DEFINE x3 == s * s - x1 - x2
            y3 == s * (x1 - x3) - y1
            t == y1 + s * d
<1>4. U = Pt(x3, y3)
  BY <1>1, <1>3
<1>. HIDE DEF x1, y1, x2, y2
<1>5. d \in Int /\ w \in Int /\ x3 \in Int /\ y3 \in Int /\ t \in Int
  BY <1>2
<1>6. w % p \in 1..(p - 1)
  <2>1. d \in Int /\ d % p # 0
    BY <1>2, <1>5
  <2>. HIDE DEF d
  <2>2. (d * z * z * z) % p \in 1..(p - 1)
    BY <2>1, Units, Zenon
  <2>. QED  BY <2>2
<1>7. IsScale(w, z, x1, x2) /\ IsThird(x3, y3, s, x1, y1, x2)
  BY <1>2, <1>5 DEF IsScale, IsThird
<1>. HIDE DEF w, x3, y3
<1>8. XYcZAdd(At(x1, y1, z), At(x2, t, z)) = <<At(x1, y1, w), At(x3, y3, w)>>
  BY <1>7, AddFormula
<1>9. At(x2, t, z) = At(x2, y2, z)
  <2>1. t % p = y2 % p /\ x2 % p = x2 % p /\ z % p = z % p
    BY <1>3
  <2>. HIDE DEF t
  <2>. QED  BY <1>2, <1>5, <2>1, SameScaled
<1>. HIDE DEF t, d
<1>10. /\ Scaled(Q, z) = At(x1, y1, z) /\ Scaled(T, z) = At(x2, y2, z)
       /\ Scaled(Q, w % p) = At(x1, y1, w) /\ Scaled(U, w % p) = At(x3, y3, w)
  BY <1>2, <1>4, <1>5, ScaledIs
<1>11. XYcZAdd(Scaled(Q, z), Scaled(T, z)) = <<Scaled(Q, w % p), Scaled(U, w % p)>>
  BY <1>8, <1>9, <1>10, Zenon
<1>. QED  BY <1>6, <1>11, Zenon DEF Q, T, U, w, d, x1, x2

(* XYcZ_addC gives the difference and the sum of two such multiples.           *)
THEOREM AddCMultiples ==
  ASSUME NEW P \in Points, NEW i \in 1..(n - 1), NEW j \in 1..(n - 1), i # j, i + j # n, NEW z \in 1..(p - 1)
  PROVE  \E w \in 1..(p - 1) :
           XYcZAddC(Scaled(Multiple[P][i], z), Scaled(Multiple[P][j], z))
             = <<Scaled(Multiple[P][(i + (n - j)) % n], w), Scaled(Multiple[P][(i + j) % n], w)>>
<1>. DEFINE Q == Multiple[P][i]
            T == Multiple[P][j]
            V == Multiple[P][n - j]
            U == Multiple[P][(i + j) % n]
            W == Multiple[P][(i + (n - j)) % n]
<1>1. /\ Q \in Coordinates /\ T \in Coordinates /\ V \in Coordinates /\ Q.x # T.x /\ Plus(Q, T) = U
      /\ Plus(Q, V) = W /\ V.x = T.x /\ (T.y + V.y) % p = 0
  <2>1. i \in 0..(n - 1) /\ j \in 0..(n - 1) /\ n - j \in 1..(n - 1) /\ n - j \in 0..(n - 1)
    BY CurveNumbers
  <2>. QED  BY <2>1, MultiplesAdd, MultiplesDiffer, CurveNumbers, Opposite
<1>. HIDE DEF Q, T, U, V, W
<1>. DEFINE x1 == Q.x
            y1 == Q.y
            x2 == T.x
            y2 == T.y
            v2 == V.y
            d == x2 - x1
            w == d * z * z * z
<1>2. /\ x1 \in Int /\ y1 \in Int /\ x2 \in Int /\ y2 \in Int /\ z \in Int /\ Q = Pt(x1, y1) /\ T = Pt(x2, y2)
      /\ d % p # 0 /\ v2 \in Int /\ p \in Int
  BY <1>1, PointIsPt, Chord, SmallRemainders
<1>3. PICK s \in Int : /\ y2 % p = (y1 + s * d) % p
                       /\ Plus(Q, T) = Pt(s * s - x1 - x2, s * (x1 - (s * s - x1 - x2)) - y1)
  BY <1>1, Chord
<1>4. PICK l \in Int : /\ v2 % p = (y1 + l * d) % p
                       /\ Plus(Q, V) = Pt(l * l - x1 - x2, l * (x1 - (l * l - x1 - x2)) - y1)
  <2>1. V.x = T.x /\ Q.x # V.x
    BY <1>1
  <2>2. \E l \in Int : /\ V.y % p = (Q.y + l * (V.x - Q.x)) % p
                       /\ Plus(Q, V) = Pt(l * l - Q.x - V.x, l * (Q.x - (l * l - Q.x - V.x)) - Q.y)
    BY <1>1, <2>1, Chord
  <2>. QED  BY <2>1, <2>2, Zenon
<1>. DEFINE r == -l
            x3 == s * s - x1 - x2
            y3 == s * (x1 - x3) - y1
            x4 == r * r - x1 - x2
            y4 == (-r) * (x1 - x4) - y1
            c == r * d - y1
<1>5. U = Pt(x3, y3)
  BY <1>1, <1>3
<1>6. (T.y + V.y) % p = 0
  BY <1>1
<1>7. (y2 + v2) % p = 0
  BY <1>6
<1>. HIDE DEF x1, y1, x2, y2, v2
<1>8. W = Pt(x4, y4)
  <2>1. x4 = l * l - x1 - x2 /\ -r = l
    BY <1>2
  <2>. HIDE DEF r
  <2>2. y4 = l * (x1 - (l * l - x1 - x2)) - y1
    BY <2>1
  <2>. HIDE DEF x4, y4
  <2>. QED  BY <1>1, <1>4, <2>1, <2>2
<1>9. d \in Int /\ w \in Int /\ x3 \in Int /\ y3 \in Int /\ x4 \in Int /\ y4 \in Int /\ r \in Int /\ c \in Int
  BY <1>2
<1>10. y2 % p = c % p
  <2>1. PICK k \in Int : v2 = (y1 + l * d) + k * p
    <3>1. y1 + l * d \in Int
      BY <1>2
    <3>. QED  BY <1>2, <1>4, <3>1, DifferByMultiple
  <2>2. PICK m \in Int : y2 + v2 = 0 + m * p
    <3>. DEFINE e == y2 + v2
    <3>1. e \in Int /\ 0 \in Int /\ e % p = 0 % p
      BY <1>2, <1>7, SmallRemainders
    <3>. HIDE DEF e
    <3>2. \E m \in Int : e = 0 + m * p
      BY <3>1, DifferByMultiple
    <3>. QED  BY <3>2 DEF e
  <2>3. l * d = -(r * d)
    BY <1>2
  <2>4. y2 = c + (m - k) * p /\ m - k \in Int
    BY <1>2, <1>9, <2>1, <2>2, <2>3
  <2>5. c \in Int
    BY <1>9
  <2>. HIDE DEF c
  <2>6. y2 % p = c % p
    <3>. DEFINE q == m - k
    <3>1. q \in Int /\ y2 = c + q * p
      BY <2>4
    <3>. HIDE DEF q
    <3>2. y2 \in Int
      BY <1>2
    <3>. QED  BY <2>5, <3>1, <3>2, SameRemainder
  <2>. QED  BY <2>6
<1>11. w % p \in 1..(p - 1)
  <2>1. d \in Int /\ d % p # 0
    BY <1>2, <1>9
  <2>. HIDE DEF d
  <2>2. (d * z * z * z) % p \in 1..(p - 1)
    BY <2>1, Units, Zenon
  <2>. QED  BY <2>2
<1>12. IsScale(w, z, x1, x2) /\ IsThird(x3, y3, s, x1, y1, x2) /\ IsThirdBack(x4, y4, r, x1, y1, x2)
  <2>. HIDE DEF r
  <2>. QED  BY <1>2, <1>9 DEF IsScale, IsThird, IsThirdBack
<1>13. IsSlope(s, x1, y1, x2, y2) /\ IsSlopeBack(r, x1, y1, x2, y2)
  BY <1>2, <1>3, <1>9, <1>10 DEF IsSlope, IsSlopeBack
<1>. HIDE DEF w, x3, y3, x4, y4, d, r
<1>14. XYcZAddC(At(x1, y1, z), At(x2, y2, z)) = <<At(x4, y4, w), At(x3, y3, w)>>
  BY <1>12, <1>13, AddCFormula
<1>15. /\ Scaled(Q, z) = At(x1, y1, z) /\ Scaled(T, z) = At(x2, y2, z)
       /\ Scaled(W, w % p) = At(x4, y4, w) /\ Scaled(U, w % p) = At(x3, y3, w)
  <2>1. Scaled(Pt(x1, y1), z) = At(x1, y1, z) /\ Scaled(Pt(x2, y2), z) = At(x2, y2, z)
    BY <1>2, ScaledIs
  <2>2. Scaled(Pt(x4, y4), w % p) = At(x4, y4, w) /\ Scaled(Pt(x3, y3), w % p) = At(x3, y3, w)
    BY <1>9, ScaledIs
  <2>. QED  BY <1>2, <1>5, <1>8, <2>1, <2>2, Zenon
<1>16. XYcZAddC(Scaled(Q, z), Scaled(T, z)) = <<Scaled(W, w % p), Scaled(U, w % p)>>
  BY <1>14, <1>15, Zenon
<1>. QED  BY <1>11, <1>16, Zenon DEF Q, T, U, W

(* XYcZ_initial_double gives a point and its double, for every z to start from.*)
THEOREM DoubleMultiples ==
  ASSUME NEW P \in Points, NEW z \in 1..(p - 1)
  PROVE  \E w \in 1..(p - 1) : InitialDouble(P, z) = <<Scaled(Multiple[P][1], w), Scaled(Multiple[P][2], w)>>
<1>. DEFINE x1 == P.x
            y1 == P.y
            U == Multiple[P][2]
            w == y1 * z * z * z * z
<1>1. n \in Nat /\ n >= 3 /\ 1 \in 1..(n - 1) /\ 1 \in 0..(n - 1) /\ 2 \in 0..(n - 1) /\ 1 + 1 = 2
  BY CurveNumbers
<1>2. P = Multiple[P][1] /\ P \in Coordinates /\ (P.y + P.y) % p # 0 /\ P.y # 0
  <2>1. P = Multiple[P][1] /\ Multiple[P][1] \in Curve
    BY <1>1, MultiplesAdd
  <2>2. (Multiple[P][1].y + Multiple[P][1].y) % p # 0 /\ Multiple[P][1].y # 0
    BY <1>1, MultiplesDiffer
  <2>3. P \in Coordinates
    BY CurveNumbers
  <2>. QED  BY <2>1, <2>2, <2>3, Zenon
<1>3. Plus(P, P) = U
  <2>1. Plus(Multiple[P][1], Multiple[P][1]) = Multiple[P][(1 + 1) % n]
    BY <1>1, MultiplesAdd
  <2>2. (1 + 1) % n = 2
    BY <1>1, OrderRemainders
  <2>. QED  BY <1>2, <2>1, <2>2, Zenon
<1>4. x1 \in Int /\ y1 \in Int /\ z \in Int /\ P = Pt(x1, y1) /\ z % p = z /\ y1 % p # 0
  <2>1. P.x \in Int /\ P.y \in Int /\ P.y \in Residues /\ P = Pt(P.x, P.y) /\ z \in Residues
    BY <1>2, PointIsPt DEF Residues
  <2>. QED  BY <1>2, <2>1, SmallRemainders
<1>5. PICK s \in Int : /\ (2 * s * y1) % p = (3 * (x1 * x1 - 1)) % p
                       /\ Plus(P, P) = Pt(s * s - x1 - x1, s * (x1 - (s * s - x1 - x1)) - y1)
  BY <1>2, Tangent
<1>. HIDE DEF x1, y1, U
<1>. DEFINE x3 == s * s - x1 - x1
            y3 == s * (x1 - x3) - y1
<1>6. U = Pt(x3, y3)
  BY <1>3, <1>5
<1>7. x3 \in Int /\ y3 \in Int /\ w \in Int
  BY <1>4
<1>8. w % p \in 1..(p - 1)
  BY <1>4, Units, Zenon
<1>9. IsThird(x3, y3, s, x1, y1, x1) /\ IsDoubleScale(w, z, y1) /\ IsTangent(s, x1, y1)
  BY <1>4, <1>5, <1>7 DEF IsThird, IsDoubleScale, IsTangent
<1>. HIDE DEF w, x3, y3
<1>10. InitialDouble(Pt(x1, y1), z % p) = <<At(x1, y1, w), At(x3, y3, w)>>
  BY <1>9, DoubleFormula
<1>11. Scaled(Pt(x1, y1), w % p) = At(x1, y1, w) /\ Scaled(Pt(x3, y3), w % p) = At(x3, y3, w)
  BY <1>4, <1>7, ScaledIs
<1>12. InitialDouble(P, z) = <<Scaled(P, w % p), Scaled(U, w % p)>>
  BY <1>4, <1>6, <1>10, <1>11, Zenon
<1>. QED  BY <1>2, <1>8, <1>12, Zenon DEF U

-------------------------------------------------------------------------------
(* The operations of the code where the group's sums are infinity              *)

(* The coordinates of a point of y^2 = x^3, which is not the curve.            *)
Cusp(w) == Pt(w * w, w * w * w)

LEMMA ZeroIs == Pt(0, 0) = Zero
<1>1. 0 % p = 0
  BY SmallRemainders
<1>. QED  BY <1>1, Zenon DEF Pt, Zero

(* XYcZ_addC of a point and its opposite, which have the same x.               *)
LEMMA AddCVertical ==
  ASSUME NEW e \in Int, NEW f1 \in Int, NEW f2 \in Int, (f1 + f2) % p = 0
  PROVE  \E w \in Int : XYcZAddC(Pt(e, f1), Pt(e, f2)) = <<Zero, Cusp(w)>>
<1>. DEFINE fr == -f1
            d == e - e
            dd == d * d
            g1 == e * dd
            g2 == e * dd
            bc == g1 + g2
            sw == f2 - f1
            ss == sw * sw
            g3 == ss - bc
            rw == fr + f1
            rr == rw * rw
            g4 == rr - bc
            c == g2 - g1
            h1 == f1 * c
            m == g1 - g3
            k == sw * m
            h3 == k - h1
            j == g4 - g1
            l == j * rw
            h4 == l - h1
            w == -sw
<1>1. d = 0 /\ dd = 0 /\ g1 = 0 /\ g2 = 0 /\ bc = 0 /\ rw = 0 /\ rr = 0 /\ g4 = 0 /\ c = 0 /\ h1 = 0 /\ j = 0
      /\ l = 0 /\ h4 = 0
  OBVIOUS
<1>2. /\ fr \in Int /\ d \in Int /\ dd \in Int /\ g1 \in Int /\ g2 \in Int /\ bc \in Int /\ sw \in Int /\ ss \in Int
      /\ g3 \in Int /\ rw \in Int /\ rr \in Int /\ g4 \in Int /\ c \in Int /\ h1 \in Int /\ m \in Int /\ k \in Int
      /\ h3 \in Int /\ j \in Int /\ l \in Int /\ h4 \in Int /\ w \in Int
  OBVIOUS
<1>3. f2 % p = fr % p
  <2>1. p \in Int /\ 0 % p = 0
    BY SmallRemainders
  <2>2. PICK q \in Int : f1 + f2 = 0 + q * p
    <3>. DEFINE t == f1 + f2
    <3>1. t \in Int /\ t % p = 0 % p /\ 0 \in Int
      BY <2>1
    <3>. HIDE DEF t
    <3>2. \E q \in Int : t = 0 + q * p
      BY <3>1, DifferByMultiple
    <3>. QED  BY <3>2 DEF t
  <2>3. f2 = fr + q * p
    BY <2>1, <2>2
  <2>. HIDE DEF fr
  <2>. QED  BY <1>2, <2>2, <2>3, SameRemainder
<1>4. g3 = w * w /\ h3 = w * w * w
  <2>1. w \in Int /\ sw = -w /\ ss = w * w /\ g3 = ss
    BY <1>1
  <2>2. h3 = sw * (0 - g3)
    BY <1>1
  <2>. HIDE DEF w, sw, ss, g3, h3
  <2>. QED  BY <2>1, <2>2
<1>5. IsDifference(d, e, e) /\ IsProduct(dd, d, d) /\ IsProduct(g1, e, dd) /\ IsProduct(g2, e, dd) /\ IsSum(bc, g1, g2)
      /\ IsDifference(sw, f2, f1) /\ IsProduct(ss, sw, sw) /\ IsDifference(g3, ss, bc)
  BY <1>2, Zenon DEF IsSum, IsDifference, IsProduct
<1>6. IsSum(rw, fr, f1) /\ IsProduct(rr, rw, rw) /\ IsDifference(g4, rr, bc)
      /\ IsDifference(c, g2, g1) /\ IsProduct(h1, f1, c) /\ IsDifference(m, g1, g3) /\ IsProduct(k, sw, m)
  BY <1>2, Zenon DEF IsSum, IsDifference, IsProduct
<1>7. IsDifference(h3, k, h1) /\ IsDifference(j, g4, g1) /\ IsProduct(l, j, rw) /\ IsDifference(h4, l, h1)
  BY <1>2, Zenon DEF IsSum, IsDifference, IsProduct
<1>8. f2 % p = f2 % p
  OBVIOUS
<1>. HIDE DEF fr, d, dd, g1, g2, bc, sw, ss, g3, rw, rr, g4, c, h1, m, k, h3, j, l, h4, w
<1>9. XYcZAddC(Pt(e, f1), Pt(e, f2)) = <<Pt(g4, h4), Pt(g3, h3)>>
  BY <1>3, <1>5, <1>6, <1>7, <1>8, AddCSteps
<1>10. Pt(g4, h4) = Zero /\ Pt(g3, h3) = Cusp(w)
  BY <1>1, <1>4, ZeroIs, Zenon DEF Cusp
<1>. QED  BY <1>2, <1>9, <1>10, Zenon

(* XYcZ_add of what is left.                                                   *)
LEMMA AddCusp ==
  ASSUME NEW w \in Int
  PROVE  \E q \in Int : XYcZAdd(Cusp(w), Zero) = <<Cusp(q), Zero>>
<1>. DEFINE e1 == w * w
            f1 == w * w * w
            e2 == 0
            f2 == 0
            d == e2 - e1
            dd == d * d
            g1 == e1 * dd
            g2 == e2 * dd
            sw == f2 - f1
            ss == sw * sw
            t == ss - g1
            g3 == t - g2
            c == g2 - g1
            h1 == f1 * c
            m == g1 - g3
            r == sw * m
            h3 == r - h1
            q == -(w * w * w)
<1>1. g2 = 0 /\ t = 0 /\ g3 = 0 /\ h3 = 0 /\ g1 = q * q /\ h1 = q * q * q
  OBVIOUS
<1>2. /\ e1 \in Int /\ f1 \in Int /\ e2 \in Int /\ f2 \in Int /\ d \in Int /\ dd \in Int /\ g1 \in Int /\ g2 \in Int
      /\ sw \in Int /\ ss \in Int /\ t \in Int /\ g3 \in Int /\ c \in Int /\ h1 \in Int /\ m \in Int /\ r \in Int
      /\ h3 \in Int /\ q \in Int
  OBVIOUS
<1>3. IsDifference(d, e2, e1) /\ IsProduct(dd, d, d) /\ IsProduct(g1, e1, dd) /\ IsProduct(g2, e2, dd)
      /\ IsDifference(sw, f2, f1) /\ IsProduct(ss, sw, sw) /\ IsDifference(t, ss, g1)
  BY <1>2, Zenon DEF IsDifference, IsProduct
<1>4. IsDifference(g3, t, g2) /\ IsDifference(c, g2, g1) /\ IsProduct(h1, f1, c) /\ IsDifference(m, g1, g3)
      /\ IsProduct(r, sw, m) /\ IsDifference(h3, r, h1)
  BY <1>2, Zenon DEF IsDifference, IsProduct
<1>5. Pt(e1, f1) = Cusp(w) /\ Pt(e2, f2) = Zero
  BY ZeroIs, Zenon DEF Cusp
<1>. HIDE DEF e1, f1, e2, f2, d, dd, g1, g2, sw, ss, t, g3, c, h1, m, r, h3, q
<1>6. XYcZAdd(Pt(e1, f1), Pt(e2, f2)) = <<Pt(g1, h1), Pt(g3, h3)>>
  BY <1>3, <1>4, AddSteps
<1>7. Pt(g1, h1) = Cusp(q) /\ Pt(g3, h3) = Zero
  BY <1>1, ZeroIs, Zenon DEF Cusp
<1>. QED  BY <1>2, <1>5, <1>6, <1>7, Zenon

(* XYcZ_addC of what is left, in either order.                                 *)
LEMMA AddCCusp ==
  ASSUME NEW w \in Int
  PROVE  XYcZAddC(Cusp(w), Zero) = <<Zero, Zero>> /\ XYcZAddC(Zero, Cusp(w)) = <<Zero, Zero>>
<1>1. ASSUME NEW e1 \in Int, NEW f1 \in Int, NEW e2 \in Int, NEW f2 \in Int,
             \/ e1 = w * w /\ f1 = w * w * w /\ e2 = 0 /\ f2 = 0
             \/ e2 = w * w /\ f2 = w * w * w /\ e1 = 0 /\ f1 = 0
      PROVE  XYcZAddC(Pt(e1, f1), Pt(e2, f2)) = <<Zero, Zero>>
  <2>. DEFINE d == e2 - e1
              dd == d * d
              g1 == e1 * dd
              g2 == e2 * dd
              bc == g1 + g2
              sw == f2 - f1
              ss == sw * sw
              g3 == ss - bc
              rw == f2 + f1
              rr == rw * rw
              g4 == rr - bc
              c == g2 - g1
              h1 == f1 * c
              m == g1 - g3
              k == sw * m
              h3 == k - h1
              j == g4 - g1
              l == j * rw
              h4 == l - h1
  <2>1. g3 = 0 /\ h3 = 0 /\ g4 = 0 /\ h4 = 0
    <3>1. CASE e1 = w * w /\ f1 = w * w * w /\ e2 = 0 /\ f2 = 0
      BY <3>1
    <3>2. CASE e2 = w * w /\ f2 = w * w * w /\ e1 = 0 /\ f1 = 0
      BY <3>2
    <3>. QED  BY <1>1, <3>1, <3>2
  <2>2. /\ d \in Int /\ dd \in Int /\ g1 \in Int /\ g2 \in Int /\ bc \in Int /\ sw \in Int /\ ss \in Int
        /\ g3 \in Int /\ rw \in Int /\ rr \in Int /\ g4 \in Int /\ c \in Int /\ h1 \in Int /\ m \in Int /\ k \in Int
        /\ h3 \in Int /\ j \in Int /\ l \in Int /\ h4 \in Int
    BY <1>1
  <2>3. IsDifference(d, e2, e1) /\ IsProduct(dd, d, d) /\ IsProduct(g1, e1, dd) /\ IsProduct(g2, e2, dd) /\ IsSum(bc, g1, g2)
        /\ IsDifference(sw, f2, f1) /\ IsProduct(ss, sw, sw) /\ IsDifference(g3, ss, bc)
    BY <1>1, <2>2, Zenon DEF IsSum, IsDifference, IsProduct
  <2>4. IsSum(rw, f2, f1) /\ IsProduct(rr, rw, rw) /\ IsDifference(g4, rr, bc)
        /\ IsDifference(c, g2, g1) /\ IsProduct(h1, f1, c) /\ IsDifference(m, g1, g3) /\ IsProduct(k, sw, m)
    BY <1>1, <2>2, Zenon DEF IsSum, IsDifference, IsProduct
  <2>5. IsDifference(h3, k, h1) /\ IsDifference(j, g4, g1) /\ IsProduct(l, j, rw) /\ IsDifference(h4, l, h1)
    BY <1>1, <2>2, Zenon DEF IsSum, IsDifference, IsProduct
  <2>6. f2 % p = f2 % p
    OBVIOUS
  <2>. HIDE DEF d, dd, g1, g2, bc, sw, ss, g3, rw, rr, g4, c, h1, m, k, h3, j, l, h4
  <2>7. XYcZAddC(Pt(e1, f1), Pt(e2, f2)) = <<Pt(g4, h4), Pt(g3, h3)>>
    BY <2>3, <2>4, <2>5, <2>6, AddCSteps
  <2>. QED  BY <2>1, <2>7, ZeroIs, Zenon
<1>. DEFINE x == w * w
            y == w * w * w
<1>2. x \in Int /\ y \in Int /\ x = w * w /\ y = w * w * w /\ 0 \in Int
  OBVIOUS
<1>3. Cusp(w) = Pt(x, y)
  BY Zenon DEF Cusp
<1>. HIDE DEF x, y
<1>4. XYcZAddC(Pt(x, y), Pt(0, 0)) = <<Zero, Zero>> /\ XYcZAddC(Pt(0, 0), Pt(x, y)) = <<Zero, Zero>>
  BY <1>1, <1>2
<1>. QED  BY <1>3, <1>4, ZeroIs, Zenon

-------------------------------------------------------------------------------
(* The steps of the ladder, on the rests of the multiples by the order         *)

LEMMA OddOrder == \E h \in Int : n = 2 * h + 1
<1>1. n \in Nat /\ n % 2 = 1
  BY CurveNumbers
<1>. DEFINE h == n \div 2
<1>2. h \in Int /\ n = 2 * h + 1
  BY <1>1
<1>. HIDE DEF h
<1>. QED  BY <1>2

(* Where neither of two neighbours is a multiple of the order, which is odd.   *)
LEMMA Neighbours ==
  ASSUME NEW m \in Nat, m % n # 0, (m + 1) % n # 0
  PROVE  /\ m % n \in 1..(n - 2) /\ (m + 1) % n = (m % n) + 1
         /\ (2 * m) % n = (2 * (m % n)) % n
         /\ (2 * m + 1) % n = (2 * (m % n) + 1) % n
         /\ (2 * m + 2) % n = (2 * (m % n) + 2) % n
         /\ (2 * m) % n # 0 /\ (2 * m + 2) % n # 0
<1>. DEFINE i == m % n
<1>1. n \in Nat /\ n >= 3 /\ i \in 0..(n - 1) /\ i # 0 /\ i \in Nat
  BY CurveNumbers, OrderRemainders
<1>2. ASSUME NEW c \in Nat
      PROVE  (m + c) % n = (i + c) % n /\ (2 * m + c) % n = (2 * i + c) % n
  <2>1. /\ ((m % n) + (c % n)) % n = (m + c) % n
        /\ ((i % n) + (c % n)) % n = (i + c) % n
        /\ ((m % n) + (m % n)) % n = (m + m) % n
        /\ ((i % n) + (i % n)) % n = (i + i) % n
        /\ i % n = i
    <3>. HIDE DEF i
    <3>. QED  BY <1>1, <1>2, OrderRemainders
  <2>2. m + m \in Nat /\ i + i \in Nat /\ m + m = 2 * m /\ i + i = 2 * i
    BY <1>1
  <2>3. (((2 * m) % n) + (c % n)) % n = (2 * m + c) % n
    BY <1>2, <2>2, OrderRemainders, Zenon
  <2>4. (((2 * i) % n) + (c % n)) % n = (2 * i + c) % n
    BY <1>2, <2>2, OrderRemainders, Zenon
  <2>5. (2 * m) % n = (2 * i) % n
    BY <2>1, <2>2, Zenon
  <2>6. (m + c) % n = (i + c) % n
    BY <2>1, Zenon
  <2>. QED  BY <2>3, <2>4, <2>5, <2>6, Zenon
<1>3. 0 \in Nat /\ 1 \in Nat /\ 2 \in Nat
  OBVIOUS
<1>4. /\ (m + 1) % n = (i + 1) % n /\ (2 * m + 1) % n = (2 * i + 1) % n /\ (2 * m + 2) % n = (2 * i + 2) % n
      /\ (2 * m + 0) % n = (2 * i + 0) % n
  BY <1>2, <1>3, Zenon
<1>5. 2 * m + 0 = 2 * m /\ 2 * i + 0 = 2 * i
  BY <1>1
<1>. HIDE DEF i
<1>6. i # n - 1
  <2>. SUFFICES ASSUME i = n - 1 PROVE FALSE
    OBVIOUS
  <2>1. n \in n..(2 * n - 1) /\ i + 1 = n /\ n - n = 0
    BY <1>1
  <2>2. n % n = 0
    BY <2>1, OrderRemainders
  <2>. QED  BY <1>4, <2>1, <2>2
<1>7. i \in 1..(n - 2) /\ (i + 1) % n = i + 1
  <2>1. i + 1 \in 0..(n - 1)
    BY <1>1, <1>6
  <2>. QED  BY <1>1, <1>6, <2>1, OrderRemainders
<1>8. (2 * i) % n # 0 /\ (2 * i + 2) % n # 0
  <2>1. PICK h \in Int : n = 2 * h + 1
    BY OddOrder
  <2>2. 2 * i # n /\ 2 * i + 2 # n /\ 2 * i \in 1..(2 * n - 1) /\ 2 * i + 2 \in 1..(2 * n - 1)
    BY <1>1, <1>7, <2>1
  <2>3. ASSUME NEW c \in 1..(2 * n - 1), c # n PROVE c % n # 0
    <3>1. CASE c < n
      <4>1. c \in 0..(n - 1)
        BY <1>1, <3>1
      <4>. QED  BY <1>1, <4>1, OrderRemainders
    <3>2. CASE c >= n
      <4>1. c \in n..(2 * n - 1)
        BY <1>1, <3>2
      <4>2. c % n = c - n
        BY <4>1, OrderRemainders
      <4>. QED  BY <1>1, <2>3, <4>2
    <3>. QED  BY <1>1, <3>1, <3>2
  <2>. QED  BY <2>2, <2>3
<1>9. i = m % n
  BY DEF i
<1>. QED  BY <1>4, <1>5, <1>7, <1>8, <1>9, Zenon

(* The sums of the ladder's rests.                                             *)
LEMMA LadderRests ==
  ASSUME NEW i \in 1..(n - 2), (2 * i + 1) % n # 0
  PROVE  /\ i \in 1..(n - 1) /\ i + 1 \in 1..(n - 1) /\ i # i + 1 /\ i + (i + 1) # n
         /\ (i + (n - (i + 1))) % n = n - 1 /\ ((i + 1) + (n - i)) % n = 1
         /\ i + (i + 1) = 2 * i + 1 /\ (i + 1) + i = 2 * i + 1
         /\ LET s == (2 * i + 1) % n
            IN  /\ s \in 2..(n - 2)
                /\ (s + (n - 1)) % n = (2 * i) % n /\ (s + 1) % n = (2 * i + 2) % n
<1>. DEFINE s == (2 * i + 1) % n
<1>1. n \in Nat /\ n >= 3 /\ i \in Nat
  BY CurveNumbers
<1>2. PICK h \in Int : n = 2 * h + 1
  BY OddOrder
<1>3. 2 * i + 1 # n
  <2>. SUFFICES ASSUME 2 * i + 1 = n PROVE FALSE
    OBVIOUS
  <2>1. n \in n..(2 * n - 1) /\ n - n = 0
    BY <1>1
  <2>. QED  BY <2>1, OrderRemainders
<1>4. (i + (n - (i + 1))) % n = n - 1 /\ ((i + 1) + (n - i)) % n = 1
  <2>1. i + (n - (i + 1)) = n - 1 /\ (i + 1) + (n - i) = n + 1 /\ n - 1 \in 0..(n - 1) /\ n + 1 \in n..(2 * n - 1)
        /\ (n + 1) - n = 1
    BY <1>1
  <2>2. (n - 1) % n = n - 1 /\ (n + 1) % n = (n + 1) - n
    BY <2>1, OrderRemainders
  <2>. QED  BY <2>1, <2>2
<1>5. i \in 1..(n - 1) /\ i + 1 \in 1..(n - 1) /\ i # i + 1 /\ i + (i + 1) = 2 * i + 1 /\ (i + 1) + i = 2 * i + 1
  BY <1>1
<1>6. s \in 2..(n - 2) /\ (s + (n - 1)) % n = (2 * i) % n /\ (s + 1) % n = (2 * i + 2) % n
  <2>1. CASE 2 * i + 1 < n
    <3>1. 2 * i + 1 \in 0..(n - 1)
      BY <1>1, <2>1
    <3>2. s = 2 * i + 1
      BY <3>1, OrderRemainders
    <3>. HIDE DEF s
    <3>3. s \in 2..(n - 2) /\ s + 1 = 2 * i + 2
      BY <1>1, <1>2, <2>1, <3>2
    <3>4. s + (n - 1) \in n..(2 * n - 1) /\ (s + (n - 1)) - n = 2 * i /\ 2 * i \in 0..(n - 1)
      BY <1>1, <2>1, <3>2
    <3>5. (s + (n - 1)) % n = (s + (n - 1)) - n /\ (2 * i) % n = 2 * i
      BY <3>4, OrderRemainders
    <3>. QED  BY <3>3, <3>4, <3>5
  <2>2. CASE 2 * i + 1 >= n
    <3>1. 2 * i + 1 \in n..(2 * n - 1)
      BY <1>1, <2>2
    <3>2. s = (2 * i + 1) - n
      BY <3>1, OrderRemainders
    <3>. HIDE DEF s
    <3>3. s \in 2..(n - 2) /\ s + (n - 1) = 2 * i
      BY <1>1, <1>2, <1>3, <2>2, <3>2
    <3>4. s + 1 \in 0..(n - 1) /\ 2 * i + 2 \in n..(2 * n - 1) /\ (2 * i + 2) - n = s + 1
      BY <1>1, <1>2, <2>2, <3>2, <3>3
    <3>5. (s + 1) % n = s + 1 /\ (2 * i + 2) % n = (2 * i + 2) - n
      BY <3>4, OrderRemainders
    <3>. QED  BY <3>3, <3>4, <3>5
  <2>. QED  BY <1>1, <2>1, <2>2
<1>7. i + (i + 1) # n
  BY <1>1, <1>3
<1>. QED  BY <1>4, <1>5, <1>6, <1>7, Zenon

(* XYcZ_addC on neighbouring multiples, in either order, and the XYcZ_add that *)
(* follows it.                                                                 *)
LEMMA LadderDifferences ==
  ASSUME NEW P \in Points, NEW i \in 1..(n - 2), (2 * i + 1) % n # 0, NEW z \in 1..(p - 1)
  PROVE  /\ \E w \in 1..(p - 1) :
              XYcZAddC(Scaled(Multiple[P][i], z), Scaled(Multiple[P][i + 1], z))
                = <<Scaled(Multiple[P][n - 1], w), Scaled(Multiple[P][(2 * i + 1) % n], w)>>
         /\ \E w \in 1..(p - 1) :
              XYcZAddC(Scaled(Multiple[P][i + 1], z), Scaled(Multiple[P][i], z))
                = <<Scaled(Multiple[P][1], w), Scaled(Multiple[P][(2 * i + 1) % n], w)>>
<1>. DEFINE j == i + 1
            s == (2 * i + 1) % n
<1>1. /\ i \in 1..(n - 1) /\ j \in 1..(n - 1) /\ i # j /\ i + j # n /\ j + i # n /\ j # i
      /\ (i + (n - j)) % n = n - 1 /\ (j + (n - i)) % n = 1 /\ (i + j) % n = s /\ (j + i) % n = s
  <2>1. i + j = j + i
    BY CurveNumbers
  <2>2. /\ i \in 1..(n - 1) /\ j \in 1..(n - 1) /\ i # j /\ i + j # n
        /\ (i + (n - j)) % n = n - 1 /\ (j + (n - i)) % n = 1 /\ i + j = 2 * i + 1 /\ j + i = 2 * i + 1
    BY LadderRests
  <2>. HIDE DEF j
  <2>. QED  BY <2>1, <2>2
<1>. HIDE DEF j, s
<1>2. \E w \in 1..(p - 1) : XYcZAddC(Scaled(Multiple[P][i], z), Scaled(Multiple[P][j], z))
                              = <<Scaled(Multiple[P][(i + (n - j)) % n], w), Scaled(Multiple[P][(i + j) % n], w)>>
  BY <1>1, AddCMultiples
<1>3. \E w \in 1..(p - 1) : XYcZAddC(Scaled(Multiple[P][j], z), Scaled(Multiple[P][i], z))
                              = <<Scaled(Multiple[P][(j + (n - i)) % n], w), Scaled(Multiple[P][(j + i) % n], w)>>
  BY <1>1, AddCMultiples
<1>. QED  BY <1>1, <1>2, <1>3, Zenon DEF j, s

LEMMA LadderSums ==
  ASSUME NEW P \in Points, NEW i \in 1..(n - 2), (2 * i + 1) % n # 0, NEW z \in 1..(p - 1)
  PROVE  /\ \E w \in 1..(p - 1) :
              XYcZAdd(Scaled(Multiple[P][(2 * i + 1) % n], z), Scaled(Multiple[P][n - 1], z))
                = <<Scaled(Multiple[P][(2 * i + 1) % n], w), Scaled(Multiple[P][(2 * i) % n], w)>>
         /\ \E w \in 1..(p - 1) :
              XYcZAdd(Scaled(Multiple[P][(2 * i + 1) % n], z), Scaled(Multiple[P][1], z))
                = <<Scaled(Multiple[P][(2 * i + 1) % n], w), Scaled(Multiple[P][(2 * i + 2) % n], w)>>
<1>. DEFINE s == (2 * i + 1) % n
            j == n - 1
            l == 1
<1>1. s \in 2..(n - 2) /\ (s + j) % n = (2 * i) % n /\ (s + l) % n = (2 * i + 2) % n
  BY LadderRests
<1>. HIDE DEF s
<1>2. /\ s \in 1..(n - 1) /\ j \in 1..(n - 1) /\ l \in 1..(n - 1) /\ s # j /\ s + j # n /\ s # l /\ s + l # n
  BY <1>1, CurveNumbers
<1>. HIDE DEF j, l
<1>3. \E w \in 1..(p - 1) : XYcZAdd(Scaled(Multiple[P][s], z), Scaled(Multiple[P][j], z))
                              = <<Scaled(Multiple[P][s], w), Scaled(Multiple[P][(s + j) % n], w)>>
  BY <1>2, AddMultiples
<1>4. \E w \in 1..(p - 1) : XYcZAdd(Scaled(Multiple[P][s], z), Scaled(Multiple[P][l], z))
                              = <<Scaled(Multiple[P][s], w), Scaled(Multiple[P][(s + l) % n], w)>>
  BY <1>2, AddMultiples
<1>. QED  BY <1>1, <1>3, <1>4, Zenon DEF s, j, l

-------------------------------------------------------------------------------
(* The bits that the ladder has read                                           *)

LEMMA BitPowers ==
  /\ NumBits \in Nat /\ NumBits >= 1 /\ Top \in Nat /\ Top >= 1
  /\ \A i \in 1..(NumBits + 1) : BitPower[i] \in Nat /\ BitPower[i] >= 1
  /\ \A i \in 1..NumBits : BitPower[i + 1] = 2 * BitPower[i]
  /\ BitPower[1] = 1 /\ BitPower[NumBits + 1] = Top
  /\ \A i \in 1..NumBits : \E e \in Nat : Top = (2 * e) * BitPower[i]
<1>1. NumBits \in Nat /\ NumBits >= 1 /\ Top \in Nat /\ Top >= 1 /\ BitPower[NumBits + 1] = Top
  BY EcdhAssumption, ModInvAssumption
<1>2. /\ \A i \in 1..(NumBits + 1) : BitPower[i] \in Nat /\ BitPower[i] >= 1
      /\ \A i \in 1..NumBits : BitPower[i + 1] = 2 * BitPower[i]
      /\ BitPower[1] = 1
  <2>. DEFINE s == Powers(2, NumBits)
  <2>1. NumBits \in Nat /\ 2 \in Nat /\ 2 >= 1
    BY <1>1
  <2>2. s[1] = 1 /\ \A i \in 1..NumBits : s[i + 1] = 2 * s[i]
    BY <2>1, PowersProperties, Zenon
  <2>3. \A i \in 1..(NumBits + 1) : s[i] \in Nat /\ s[i] >= 1
    BY <2>1, PowersPositive, Zenon
  <2>. QED  BY <2>2, <2>3, Zenon DEF BitPower
<1>. DEFINE T == {j \in 0..(NumBits - 1) : \E e \in Nat : Top = (2 * e) * BitPower[NumBits - j]}
<1>3. 0 \in T
  <2>1. NumBits \in 1..NumBits /\ NumBits \in 1..(NumBits + 1) /\ NumBits - 0 = NumBits /\ 0 \in 0..(NumBits - 1)
    BY <1>1
  <2>2. Top = (2 * 1) * BitPower[NumBits - 0]
    BY <1>1, <1>2, <2>1
  <2>. QED  BY <2>1, <2>2
<1>4. ASSUME NEW j \in 0..((NumBits - 1) - 1), j \in T PROVE j + 1 \in T
  <2>. DEFINE k == NumBits - (j + 1)
              d == BitPower[k]
  <2>1. k \in 1..NumBits /\ k \in 1..(NumBits + 1) /\ k + 1 = NumBits - j /\ j + 1 \in 0..(NumBits - 1)
    BY <1>1
  <2>2. PICK e \in Nat : Top = (2 * e) * BitPower[NumBits - j]
    BY <1>4
  <2>3. d \in Nat /\ BitPower[NumBits - j] = 2 * d
    BY <1>2, <2>1
  <2>. HIDE DEF d
  <2>4. Top = (2 * (2 * e)) * d /\ 2 * e \in Nat
    BY <2>2, <2>3
  <2>. QED  BY <2>1, <2>4 DEF d
<1>. HIDE DEF T
<1>5. 0..(NumBits - 1) \subseteq T
  <2>1. 0 \in Int /\ NumBits - 1 \in Int
    BY <1>1
  <2>. QED  BY <1>3, <1>4, <2>1, IntervalInductive
<1>6. ASSUME NEW i \in 1..NumBits PROVE \E e \in Nat : Top = (2 * e) * BitPower[i]
  <2>1. NumBits - i \in 0..(NumBits - 1) /\ NumBits - (NumBits - i) = i
    BY <1>1
  <2>2. NumBits - i \in T
    BY <1>5, <2>1
  <2>. QED  BY <2>1, <2>2 DEF T
<1>. QED  BY <1>1, <1>2, <1>6

(* The part of a scalar, with its implicit highest bit, from bit i on.         *)
From(k, i) == (Top + k) \div BitPower[i + 1]

(* It is twice the part above, plus the bit.                                   *)
LEMMA NextBit ==
  ASSUME NEW k \in Numbers, NEW i \in 0..(NumBits - 1)
  PROVE  /\ From(k, i) \in Nat /\ From(k, i + 1) \in Nat
         /\ BitOf(k, i) \in {0, 1}
         /\ From(k, i) = 2 * From(k, i + 1) + BitOf(k, i)
<1>. DEFINE d == BitPower[i + 1]
            x == Top + k
            q == x \div d
            c == k \div d
            r == k % d
<1>0. Top \in Nat /\ NumBits \in Nat
  BY BitPowers
<1>1. /\ k \in Nat /\ i + 1 \in 1..NumBits /\ i + 1 \in 1..(NumBits + 1) /\ (i + 1) + 1 \in 1..(NumBits + 1)
  BY <1>0 DEF Numbers
<1>2. d \in Nat /\ d >= 1 /\ BitPower[(i + 1) + 1] = 2 * d /\ x \in Nat
  <2>1. d \in Nat /\ d >= 1
    BY <1>1, BitPowers, Zenon
  <2>2. BitPower[(i + 1) + 1] = 2 * d
    BY <1>1, BitPowers, Zenon
  <2>3. x \in Nat
    BY <1>0, <1>1
  <2>. QED  BY <2>1, <2>2, <2>3
<1>3. PICK e \in Nat : Top = (2 * e) * d
  BY <1>1, BitPowers
<1>. HIDE DEF d
<1>4. c \in Int /\ r \in 0..(d - 1) /\ k = c * d + r
  BY <1>1, <1>2, Division
<1>. HIDE DEF c, r
<1>5. q = 2 * e + c
  <2>1. x = (2 * e + c) * d + r
    <3>1. (2 * e + c) * d = (2 * e) * d + c * d
      BY <1>2, <1>3, <1>4
    <3>2. c * d \in Int /\ (2 * e) * d \in Int /\ r \in Int
      BY <1>2, <1>3, <1>4
    <3>. QED  BY <1>3, <1>4, <3>1, <3>2
  <2>2. 2 * e + c \in Int
    BY <1>4
  <2>. HIDE DEF x
  <2>. QED  BY <1>2, <1>4, <2>1, <2>2, DivisionIs
<1>6. x \div (2 * d) = q \div 2
  <2>1. x \in Int /\ 2 \in Nat /\ 2 >= 1
    BY <1>2
  <2>. HIDE DEF x
  <2>. QED  BY <1>2, <2>1, DivisionTwice, Zenon
<1>. HIDE DEF x
<1>7. q \in Int /\ 0 <= q
  BY <1>2
<1>. HIDE DEF q
<1>8. q % 2 = c % 2 /\ q % 2 \in {0, 1} /\ q \div 2 \in Nat /\ q = 2 * (q \div 2) + (q % 2)
  <2>1. q \div 2 \in Nat /\ q % 2 \in {0, 1} /\ q = 2 * (q \div 2) + (q % 2)
    BY <1>7
  <2>2. q % 2 = c % 2
    <3>. HIDE DEF c
    <3>1. (2 * e + c) % 2 = c % 2
      BY <1>4
    <3>. QED  BY <1>5, <3>1
  <2>. QED  BY <2>1, <2>2
<1>9. From(k, i) = q /\ From(k, i + 1) = q \div 2 /\ BitOf(k, i) = c % 2
  BY <1>2, <1>6, Zenon DEF From, BitOf, q, x, c, d
<1>. HIDE DEF q, c
<1>. QED  BY <1>7, <1>8, <1>9

LEMMA HighestBit ==
  ASSUME NEW k \in Numbers
  PROVE  From(k, NumBits) = 1
<1>1. k \in 0..(Top - 1) /\ Top \in Nat /\ Top >= 1 /\ BitPower[NumBits + 1] = Top /\ 1 \in Int
  <2>1. Top \in Nat /\ Top >= 1 /\ BitPower[NumBits + 1] = Top
    BY BitPowers, Zenon
  <2>. QED  BY <2>1 DEF Numbers
<1>. DEFINE x == Top + k
<1>2. x = 1 * Top + k /\ x \in Int
  BY <1>1
<1>. HIDE DEF x
<1>3. x \div Top = 1
  BY <1>1, <1>2, DivisionIs
<1>. QED  BY <1>1, <1>3, Zenon DEF From, x

(* regularize_k, with the choice that it makes.                                *)
LEMMA RegularizeChoice ==
  ASSUME NEW k \in 0..(n - 1)
  PROVE  /\ Regularize(k) \in Numbers
         /\ Top + Regularize(k) = IF k + n < Top THEN k + 2 * n ELSE k + n
<1>. DEFINE k0 == Add(k, n)
            r == Regularize(k)
<1>1. k \in Int /\ 0 <= k /\ k < n /\ n \in Int /\ n < Top /\ Top < 2 * n /\ Top \in Nat /\ k \in Numbers /\ n \in Numbers
  BY EcdhAssumption, ModInvAssumption DEF Numbers
<1>2. k0.value \in Numbers /\ k0.carry \in {0, 1} /\ k0.value + k0.carry * Top = k + n
  BY <1>1, AddCorrect
<1>3. r \in Numbers /\ Top + r \in {k + n, k + 2 * n}
  BY RegularizeAddsOrder
<1>4. k0.carry # 0 => r = k0.value
  BY Zenon DEF Regularize
<1>. HIDE DEF k0, r
<1>5. k0.value \in 0..(Top - 1) /\ r \in 0..(Top - 1)
  BY <1>2, <1>3 DEF Numbers
<1>6. CASE k + n < Top
  <2>1. Top + r = k + 2 * n
    BY <1>1, <1>3, <1>5, <1>6
  <2>. QED  BY <1>3, <1>6, <2>1 DEF r
<1>7. CASE ~(k + n < Top)
  <2>1. k0.carry = 1
    BY <1>1, <1>2, <1>5, <1>7
  <2>2. Top + r = k + n
    BY <1>1, <1>2, <1>4, <1>5, <2>1
  <2>. QED  BY <1>3, <1>7, <2>2 DEF r
<1>. QED  BY <1>3, <1>6, <1>7 DEF r

(* A scalar that regularize_k makes takes the ladder to a multiple that is the *)
(* point at infinity before the last bit only, and for exceptional keys only.  *)
THEOREM InfinityIsLate ==
  ASSUME NEW k \in 0..(n - 1), NEW i \in 1..(NumBits - 1), (2 * From(Regularize(k), i + 1) + 1) % n = 0
  PROVE  i = 1 /\ k \in Exceptional
<1>. DEFINE r == Regularize(k)
            m == From(r, i + 1)
            q == From(r, i)
            l == From(r, i - 1)
            full == Top + r
<1>1. k \in Int /\ 0 <= k /\ k < n /\ n \in Nat /\ n >= 3 /\ n < Top /\ Top < 2 * n /\ Top \in Nat /\ NumBits \in Nat
      /\ i \in Int /\ i >= 1
  BY EcdhAssumption, ModInvAssumption
<1>2. r \in Numbers /\ full \in {k + n, k + 2 * n}
  BY RegularizeAddsOrder
<1>3. r \in Int /\ 0 <= r /\ r < Top
  BY <1>1, <1>2 DEF Numbers
<1>. HIDE DEF r
<1>4. full \in Int /\ full < 2 * Top
  BY <1>1, <1>3
<1>5. PICK h \in Int : Top = 2 * h
  <2>1. Top % 2 = 0
    BY ModInvAssumption
  <2>2. Top \div 2 \in Int /\ Top = 2 * (Top \div 2)
    BY <1>1, <2>1
  <2>. QED  BY <2>2
<1>6. /\ m \in Nat /\ q \in Nat /\ l \in Nat /\ q - 2 * m \in {0, 1} /\ l - 2 * q \in {0, 1}
  <2>1. i \in 0..(NumBits - 1) /\ i - 1 \in 0..(NumBits - 1) /\ (i - 1) + 1 = i
    BY <1>1
  <2>2. m \in Nat /\ q \in Nat /\ BitOf(r, i) \in {0, 1} /\ q = 2 * m + BitOf(r, i)
    BY <1>2, <2>1, NextBit
  <2>3. l \in Nat /\ BitOf(r, i - 1) \in {0, 1} /\ l = 2 * q + BitOf(r, i - 1)
    BY <1>2, <2>1, NextBit
  <2>. HIDE DEF m, q, l
  <2>. QED  BY <2>2, <2>3
<1>7. (2 * m + 1) % n = 0
  BY DEF r
<1>8. ASSUME 2 * m + 1 < 2 * n PROVE 2 * m + 1 = n
  <2>. DEFINE c == 2 * m + 1
  <2>1. c \in 1..(2 * n - 1) /\ c % n = 0
    BY <1>1, <1>6, <1>7, <1>8
  <2>. HIDE DEF c
  <2>2. CASE c < n
    <3>1. c \in 0..(n - 1) /\ c # 0
      BY <1>1, <2>1, <2>2
    <3>2. c % n = c
      BY <3>1, OrderRemainders
    <3>. QED  BY <2>1, <3>1, <3>2
  <2>3. CASE c >= n
    <3>1. c \in n..(2 * n - 1)
      BY <1>1, <2>1, <2>3
    <3>2. c % n = c - n
      BY <3>1, OrderRemainders
    <3>3. c = n
      BY <1>1, <2>1, <3>1, <3>2
    <3>. QED  BY <3>3 DEF c
  <2>. QED  BY <1>1, <2>1, <2>2, <2>3
<1>9. CASE i = 1
  <2>1. l = full
    <3>1. BitPower[1] = 1
      BY BitPowers, Zenon
    <3>2. (i - 1) + 1 = 1 /\ full \div 1 = full
      BY <1>4, <1>9
    <3>. QED  BY <3>1, <3>2 DEF From
  <2>. HIDE DEF m, q, l, full
  <2>2. 2 * m + 1 = n
    <3>1. 2 * m + 1 < 2 * n
      BY <1>1, <1>4, <1>6, <2>1
    <3>. QED  BY <1>8, <3>1
  <2>3. full \in (2 * n - 2)..(2 * n + 1)
    BY <1>1, <1>4, <1>6, <2>1, <2>2
  <2>4. k \in {0, 1, n - 2, n - 1}
    BY <1>1, <1>2, <2>3
  <2>. QED  BY <1>9, <2>4 DEF Exceptional
<1>10. CASE i >= 2
  <2>. DEFINE t == From(r, i - 2)
              d == BitPower[i - 1]
  <2>1. /\ t \in Nat /\ t - 2 * l \in {0, 1}
    <3>1. i - 2 \in 0..(NumBits - 1) /\ (i - 2) + 1 = i - 1
      BY <1>1, <1>10
    <3>2. t \in Nat /\ BitOf(r, i - 2) \in {0, 1} /\ t = 2 * l + BitOf(r, i - 2)
      BY <1>2, <3>1, NextBit
    <3>. HIDE DEF t, l
    <3>. QED  BY <1>6, <3>2
  <2>2. t <= full
    <3>1. i - 1 \in 1..(NumBits + 1) /\ (i - 2) + 1 = i - 1
      BY <1>1, <1>10
    <3>2. d \in Nat /\ d >= 1
      BY <3>1, BitPowers, Zenon
    <3>3. t = full \div d
      BY <3>1 DEF From
    <3>. HIDE DEF d, t, full
    <3>4. full = t * d + (full % d) /\ full % d \in 0..(d - 1)
      BY <1>4, <3>2, <3>3, Division
    <3>. DEFINE e == full % d
    <3>5. e \in Int /\ 0 <= e /\ full = t * d + e
      BY <3>2, <3>4
    <3>. HIDE DEF e
    <3>6. t * d >= t
      BY <2>1, <3>2
    <3>7. t * d \in Int
      BY <2>1, <3>2
    <3>. QED  BY <1>4, <2>1, <3>5, <3>6, <3>7
  <2>. HIDE DEF m, q, l, full, t
  <2>3. 8 * m <= full
    BY <1>6, <2>1, <2>2, <1>4
  <2>4. 2 * m + 1 < n
    BY <1>1, <1>4, <1>5, <1>6, <2>3
  <2>. QED  BY <1>1, <1>6, <1>8, <2>4
<1>. QED  BY <1>1, <1>9, <1>10

(* At the last bit: the keys for which the point at infinity was not met, and  *)
(* the rest that is left.                                                      *)
LEMMA LastRests ==
  ASSUME NEW k \in 0..(n - 1), NEW m, m = From(Regularize(k), 1), m % n # 0, (m + 1) % n # 0
  PROVE  /\ k \in 2..(n - 3) /\ k \notin Exceptional
         /\ BitOf(Regularize(k), 0) = 1 => (2 * m + 1) % n = k
         /\ BitOf(Regularize(k), 0) = 0 => (2 * m + 1) % n = k + 1
<1>. DEFINE r == Regularize(k)
            full == Top + r
            e == BitOf(r, 0)
<1>1. k \in Int /\ 0 <= k /\ k < n /\ n \in Nat /\ n >= 3 /\ n + 1 < Top /\ Top < 2 * n /\ Top \in Nat /\ NumBits \in Nat
      /\ NumBits >= 1
  BY EcdhAssumption, ModInvAssumption
<1>2. r \in Numbers /\ full = IF k + n < Top THEN k + 2 * n ELSE k + n
  BY RegularizeChoice
<1>3. r \in Int /\ 0 <= r /\ r < Top /\ full \in Int /\ Top <= full /\ full < 2 * Top
  BY <1>1, <1>2 DEF Numbers
<1>4. m \in Nat /\ e \in {0, 1} /\ full = 2 * m + e
  <2>1. 0 \in 0..(NumBits - 1) /\ 0 + 1 = 1
    BY <1>1
  <2>2. From(r, 0) \in Nat /\ From(r, 1) \in Nat /\ e \in {0, 1} /\ From(r, 0) = 2 * From(r, 1) + e
    BY <1>2, <2>1, NextBit
  <2>3. From(r, 0) = full
    <3>1. BitPower[1] = 1
      BY BitPowers, Zenon
    <3>2. 0 + 1 = 1 /\ full \div 1 = full
      BY <1>3
    <3>. QED  BY <3>1, <3>2 DEF From
  <2>. QED  BY <2>2, <2>3
<1>5. PICK h \in Int : Top = 2 * h
  <2>1. Top % 2 = 0
    BY ModInvAssumption
  <2>2. Top \div 2 \in Int /\ Top = 2 * (Top \div 2)
    BY <1>1, <2>1
  <2>. QED  BY <2>2
<1>6. e = BitOf(Regularize(k), 0)
  OBVIOUS
<1>. HIDE DEF r, full, e
<1>7. m # n /\ m # n - 1
  <2>1. n \in n..(2 * n - 1) /\ n - n = 0 /\ (n - 1) + 1 = n
    BY <1>1
  <2>2. n % n = 0
    BY <2>1, OrderRemainders
  <2>. QED  BY <2>1, <2>2
<1>8. k \in 2..(n - 3)
  <2>1. k # 0 /\ k # 1
    BY <1>1, <1>2, <1>4, <1>7
  <2>2. k # n - 2 /\ k # n - 1
    BY <1>1, <1>2, <1>3, <1>4, <1>5, <1>7
  <2>. QED  BY <1>1, <2>1, <2>2
<1>9. k \notin Exceptional
  BY <1>1, <1>8 DEF Exceptional
<1>10. (2 * m + 1) % n = k + (1 - e)
  <2>. DEFINE c == k + (1 - e)
  <2>1. c \in 0..(n - 1) /\ c \in Nat
    BY <1>1, <1>4, <1>8
  <2>2. 2 * m + 1 = c + n \/ 2 * m + 1 = c + 2 * n
    BY <1>1, <1>2, <1>4
  <2>. HIDE DEF c
  <2>3. c + n \in n..(2 * n - 1) /\ (c + n) - n = c /\ c + 2 * n \in (2 * n)..(3 * n - 1) /\ (c + 2 * n) - 2 * n = c
    BY <1>1, <2>1
  <2>4. (c + n) % n = (c + n) - n /\ (c + 2 * n) % n = (c + 2 * n) - 2 * n
    BY <2>3, OrderRemainders
  <2>5. (2 * m + 1) % n = c
    BY <2>2, <2>3, <2>4
  <2>. QED  BY <2>5 DEF c
<1>11. (e = 1 => (2 * m + 1) % n = k) /\ (e = 0 => (2 * m + 1) % n = k + 1)
  BY <1>1, <1>4, <1>10
<1>. QED  BY <1>6, <1>8, <1>9, <1>11

-------------------------------------------------------------------------------
(* An iteration of the ladder, as a function of its two points                 *)

(* The neighbours m P and (m + 1) P, with the same z.                          *)
AreNeighbours(Q, T, P, m) ==
  /\ m \in Nat /\ m % n # 0 /\ (m + 1) % n # 0
  /\ \E z \in 1..(p - 1) : Q = Scaled(Multiple[P][m % n], z) /\ T = Scaled(Multiple[P][(m + 1) % n], z)

LEMMA LadderDifference ==
  ASSUME NEW P \in Points, NEW m, NEW Q, NEW T, AreNeighbours(Q, T, P, m), (2 * m + 1) % n # 0
  PROVE  /\ \E w \in 1..(p - 1) :
              XYcZAddC(Q, T) = <<Scaled(Multiple[P][n - 1], w), Scaled(Multiple[P][(2 * m + 1) % n], w)>>
         /\ \E w \in 1..(p - 1) :
              XYcZAddC(T, Q) = <<Scaled(Multiple[P][1], w), Scaled(Multiple[P][(2 * m + 1) % n], w)>>
<1>. DEFINE i == m % n
<1>1. m \in Nat /\ m % n # 0 /\ (m + 1) % n # 0
  BY DEF AreNeighbours
<1>2. i \in 1..(n - 2) /\ (m + 1) % n = i + 1 /\ (2 * m + 1) % n = (2 * i + 1) % n
  BY <1>1, Neighbours
<1>3. PICK z \in 1..(p - 1) : Q = Scaled(Multiple[P][i], z) /\ T = Scaled(Multiple[P][(m + 1) % n], z)
  BY Zenon DEF AreNeighbours
<1>. HIDE DEF i
<1>4. /\ \E w \in 1..(p - 1) :
           XYcZAddC(Scaled(Multiple[P][i], z), Scaled(Multiple[P][i + 1], z))
             = <<Scaled(Multiple[P][n - 1], w), Scaled(Multiple[P][(2 * i + 1) % n], w)>>
      /\ \E w \in 1..(p - 1) :
           XYcZAddC(Scaled(Multiple[P][i + 1], z), Scaled(Multiple[P][i], z))
             = <<Scaled(Multiple[P][1], w), Scaled(Multiple[P][(2 * i + 1) % n], w)>>
  BY <1>2, LadderDifferences, Zenon
<1>. QED  BY <1>2, <1>3, <1>4, Zenon

(* The two sums of an iteration, for either bit: the new neighbours.           *)
LEMMA LadderAdvances ==
  ASSUME NEW P \in Points, NEW m, NEW Q, NEW T, AreNeighbours(Q, T, P, m), (2 * m + 1) % n # 0
  PROVE  /\ LET C == XYcZAddC(Q, T)
                sums == XYcZAdd(C[2], C[1])
            IN  AreNeighbours(sums[2], sums[1], P, 2 * m)
         /\ LET C == XYcZAddC(T, Q)
                sums == XYcZAdd(C[2], C[1])
            IN  AreNeighbours(sums[1], sums[2], P, 2 * m + 1)
<1>. DEFINE i == m % n
            s == (2 * m + 1) % n
            M(c) == Multiple[P][c]
<1>1. m \in Nat /\ m % n # 0 /\ (m + 1) % n # 0
  BY DEF AreNeighbours
<1>2. /\ i \in 1..(n - 2) /\ (2 * m + 1) % n = (2 * i + 1) % n
      /\ (2 * m) % n = (2 * i) % n /\ (2 * m + 2) % n = (2 * i + 2) % n
      /\ (2 * m) % n # 0 /\ (2 * m + 2) % n # 0
  BY <1>1, Neighbours
<1>3. PICK w \in 1..(p - 1) : XYcZAddC(Q, T) = <<Scaled(M(n - 1), w), Scaled(M(s), w)>>
  BY LadderDifference
<1>4. PICK r \in 1..(p - 1) : XYcZAddC(T, Q) = <<Scaled(M(1), r), Scaled(M(s), r)>>
  BY LadderDifference
<1>5. PICK z \in 1..(p - 1) :
        XYcZAdd(Scaled(M(s), w), Scaled(M(n - 1), w)) = <<Scaled(M(s), z), Scaled(M((2 * m) % n), z)>>
  <2>. HIDE DEF i
  <2>1. \E z \in 1..(p - 1) :
          XYcZAdd(Scaled(M((2 * i + 1) % n), w), Scaled(M(n - 1), w))
            = <<Scaled(M((2 * i + 1) % n), z), Scaled(M((2 * i) % n), z)>>
    BY <1>2, LadderSums, Zenon
  <2>. QED  BY <1>2, <2>1, Zenon
<1>6. PICK v1 \in 1..(p - 1) :
        XYcZAdd(Scaled(M(s), r), Scaled(M(1), r)) = <<Scaled(M(s), v1), Scaled(M((2 * m + 2) % n), v1)>>
  <2>. HIDE DEF i
  <2>1. \E z1 \in 1..(p - 1) :
          XYcZAdd(Scaled(M((2 * i + 1) % n), r), Scaled(M(1), r))
            = <<Scaled(M((2 * i + 1) % n), z1), Scaled(M((2 * i + 2) % n), z1)>>
    BY <1>2, LadderSums, Zenon
  <2>. QED  BY <1>2, <2>1, Zenon
<1>. DEFINE C == XYcZAddC(Q, T)
            D == XYcZAddC(T, Q)
            sums == XYcZAdd(C[2], C[1])
            others == XYcZAdd(D[2], D[1])
<1>. HIDE DEF M, s
<1>7. C[1] = Scaled(M(n - 1), w) /\ C[2] = Scaled(M(s), w)
  BY <1>3
<1>8. D[1] = Scaled(M(1), r) /\ D[2] = Scaled(M(s), r)
  BY <1>4
<1>. HIDE DEF C, D
<1>9. sums = <<Scaled(M(s), z), Scaled(M((2 * m) % n), z)>>
  BY <1>5, <1>7
<1>10. others = <<Scaled(M(s), v1), Scaled(M((2 * m + 2) % n), v1)>>
  BY <1>6, <1>8
<1>. HIDE DEF sums, others
<1>11. sums[1] = Scaled(M(s), z) /\ sums[2] = Scaled(M((2 * m) % n), z)
  BY <1>9
<1>12. others[1] = Scaled(M(s), v1) /\ others[2] = Scaled(M((2 * m + 2) % n), v1)
  BY <1>10
<1>13. 2 * m \in Nat /\ 2 * m + 1 \in Nat /\ (2 * m + 1) + 1 = 2 * m + 2
  BY <1>1
<1>14. AreNeighbours(sums[2], sums[1], P, 2 * m)
  BY <1>2, <1>11, <1>13, Zenon DEF AreNeighbours, M, s
<1>15. AreNeighbours(others[1], others[2], P, 2 * m + 1)
  BY <1>2, <1>12, <1>13, Zenon DEF AreNeighbours, M, s
<1>. QED  BY <1>14, <1>15, Zenon DEF sums, others, C, D

(* A multiple of the order in between: the sums break down.                    *)
LEMMA LadderBreaks ==
  ASSUME NEW P \in Points, NEW m, NEW Q, NEW T, AreNeighbours(Q, T, P, m), (2 * m + 1) % n = 0
  PROVE  /\ LET C == XYcZAddC(Q, T)
                sums == XYcZAdd(C[2], C[1])
            IN  \E w \in Int : sums[1] = Cusp(w) /\ sums[2] = Zero
         /\ LET C == XYcZAddC(T, Q)
                sums == XYcZAdd(C[2], C[1])
            IN  \E w \in Int : sums[1] = Cusp(w) /\ sums[2] = Zero
<1>. DEFINE i == m % n
<1>1. m \in Nat /\ m % n # 0 /\ (m + 1) % n # 0
  BY DEF AreNeighbours
<1>2. /\ i \in 1..(n - 2) /\ (m + 1) % n = i + 1 /\ (2 * i + 1) % n = 0
  BY <1>1, Neighbours
<1>3. PICK z \in 1..(p - 1) : Q = Scaled(Multiple[P][i], z) /\ T = Scaled(Multiple[P][(m + 1) % n], z)
  BY Zenon DEF AreNeighbours
<1>. HIDE DEF i
<1>4. i \in 1..(n - 1) /\ n - i = i + 1
  <2>1. n \in Nat /\ n >= 3 /\ i \in Nat
    BY <1>2, CurveNumbers
  <2>. DEFINE c == 2 * i + 1
  <2>2. c \in 1..(2 * n - 1) /\ c % n = 0
    BY <1>2, <2>1
  <2>. HIDE DEF c
  <2>3. CASE c < n
    <3>1. c \in 0..(n - 1) /\ c # 0
      BY <2>1, <2>2, <2>3
    <3>2. c % n = c
      BY <3>1, OrderRemainders
    <3>. QED  BY <2>2, <3>1, <3>2
  <2>4. CASE c >= n
    <3>1. c \in n..(2 * n - 1)
      BY <2>1, <2>2, <2>4
    <3>2. c % n = c - n
      BY <3>1, OrderRemainders
    <3>3. c = n
      BY <2>1, <2>2, <3>1, <3>2
    <3>. QED  BY <1>2, <2>1, <3>3 DEF c
  <2>. QED  BY <2>1, <2>2, <2>3, <2>4
<1>. DEFINE U == Multiple[P][i]
            V == Multiple[P][i + 1]
<1>5. U \in Coordinates /\ V \in Coordinates /\ V.x = U.x /\ (U.y + V.y) % p = 0
  <2>1. n - i \in 1..(n - 1) /\ V.x = U.x /\ (U.y + V.y) % p = 0
    BY <1>4, Opposite
  <2>2. U \in Curve /\ V \in Curve
    BY <1>4, <2>1, MultiplesAdd
  <2>. QED  BY <2>1, <2>2, CurveNumbers
<1>6. Q = Scaled(U, z) /\ T = Scaled(V, z)
  BY <1>2, <1>3
<1>. HIDE DEF U, V
<1>7. /\ U.x \in Int /\ U.y \in Int /\ V.y \in Int /\ U = Pt(U.x, U.y) /\ V = Pt(U.x, V.y) /\ z \in Int
  <2>1. U.x \in Int /\ U.y \in Int /\ V.y \in Int /\ U = Pt(U.x, U.y) /\ V = Pt(V.x, V.y)
    BY <1>5, PointIsPt
  <2>. QED  BY <1>5, <2>1
<1>. DEFINE x == U.x
            y1 == U.y
            y2 == V.y
            e == x * z * z
            f1 == y1 * z * z * z
            f2 == y2 * z * z * z
<1>8. /\ x \in Int /\ y1 \in Int /\ y2 \in Int /\ z \in Int /\ U = Pt(x, y1) /\ V = Pt(x, y2) /\ (y1 + y2) % p = 0
  BY <1>5, <1>7
<1>. HIDE DEF x, y1, y2
<1>9. Q = Pt(e, f1) /\ T = Pt(e, f2)
  <2>1. Scaled(Pt(x, y1), z) = At(x, y1, z) /\ Scaled(Pt(x, y2), z) = At(x, y2, z)
    BY <1>8, ScaledIs
  <2>. QED  BY <1>6, <1>8, <2>1, Zenon DEF At
<1>10. e \in Int /\ f1 \in Int /\ f2 \in Int
  BY <1>8
<1>11. (f1 + f2) % p = 0 /\ (f2 + f1) % p = 0
  <2>. DEFINE t == y1 + y2
              zz == z * z * z
              c == t * zz
  <2>1. t \in Int /\ zz \in Int /\ f1 + f2 = c /\ f2 + f1 = c /\ t % p = 0
    BY <1>8
  <2>. HIDE DEF t, zz, f1, f2
  <2>2. c % p = 0
    <3>1. ((t % p) * (zz % p)) % p = (t * zz) % p
      BY <2>1, ProductRemainder, Zenon
    <3>2. zz % p \in Int /\ 0 % p = 0
      BY <2>1, RemainderParts, SmallRemainders
    <3>3. 0 * (zz % p) = 0
      BY <3>2
    <3>. QED  BY <2>1, <3>1, <3>2, <3>3, Zenon
  <2>. QED  BY <2>1, <2>2
<1>. HIDE DEF e, f1, f2
<1>12. PICK w \in Int : XYcZAddC(Q, T) = <<Zero, Cusp(w)>>
  <2>1. \E w \in Int : XYcZAddC(Pt(e, f1), Pt(e, f2)) = <<Zero, Cusp(w)>>
    BY <1>10, <1>11, AddCVertical, Zenon
  <2>. QED  BY <1>9, <2>1, Zenon
<1>13. PICK r \in Int : XYcZAddC(T, Q) = <<Zero, Cusp(r)>>
  <2>1. \E r \in Int : XYcZAddC(Pt(e, f2), Pt(e, f1)) = <<Zero, Cusp(r)>>
    BY <1>10, <1>11, AddCVertical, Zenon
  <2>. QED  BY <1>9, <2>1, Zenon
<1>14. PICK c \in Int : XYcZAdd(Cusp(w), Zero) = <<Cusp(c), Zero>>
  BY AddCusp
<1>15. PICK d \in Int : XYcZAdd(Cusp(r), Zero) = <<Cusp(d), Zero>>
  BY AddCusp
<1>. DEFINE C == XYcZAddC(Q, T)
            D == XYcZAddC(T, Q)
            sums == XYcZAdd(C[2], C[1])
            others == XYcZAdd(D[2], D[1])
<1>16. C[1] = Zero /\ C[2] = Cusp(w) /\ D[1] = Zero /\ D[2] = Cusp(r)
  BY <1>12, <1>13
<1>. HIDE DEF C, D
<1>17. sums = <<Cusp(c), Zero>> /\ others = <<Cusp(d), Zero>>
  BY <1>14, <1>15, <1>16, Zenon
<1>. HIDE DEF sums, others
<1>18. sums[1] = Cusp(c) /\ sums[2] = Zero /\ others[1] = Cusp(d) /\ others[2] = Zero
  BY <1>17
<1>. QED  BY <1>18, Zenon DEF sums, others, C, D

-------------------------------------------------------------------------------
(* The end of a multiplication                                                 *)

(* Applying a z that is the inverse of the point's gives the point.            *)
LEMMA ApplyInverse ==
  ASSUME NEW x \in Int, NEW y \in Int, NEW w \in Int, NEW g \in Int, (w * g) % p = 1
  PROVE  ApplyZ(Scaled(Pt(x, y), w % p), g % p) = Pt(x, y)
<1>. DEFINE e == x * w * w
            f == y * w * w * w
            c == w * g
<1>1. e \in Int /\ f \in Int /\ c \in Int /\ 1 \in Int
  OBVIOUS
<1>2. Scaled(Pt(x, y), w % p) = Pt(e, f)
  <2>1. Scaled(Pt(x, y), w % p) = At(x, y, w)
    BY ScaledIs
  <2>. QED  BY <2>1, Zenon DEF At
<1>3. e * g * g = x * c * c /\ f * g * g * g = y * c * c * c
  OBVIOUS
<1>4. c % p = 1 % p
  BY SmallRemainders
<1>5. x % p = x % p /\ y % p = y % p
  OBVIOUS
<1>6. x * 1 * 1 = x /\ y * 1 * 1 * 1 = y
  OBVIOUS
<1>. HIDE DEF e, f, c
<1>7. ApplyZ(Pt(e, f), g % p) = At(e, f, g)
  BY <1>1, ApplyFormula
<1>8. At(e, f, g) = At(x, y, c)
  BY <1>3, Zenon DEF At
<1>9. At(x, y, c) = At(x, y, 1)
  BY <1>1, <1>4, <1>5, SameScaled
<1>10. At(x, y, 1) = Pt(x, y)
  BY <1>6, Zenon DEF At
<1>. QED  BY <1>2, <1>7, <1>8, <1>9, <1>10, Zenon

(* What EccPoint_mult inverts, for the multiples s P and e P with z.           *)
ToInvert(P, s, e, z) ==
  (((Multiple[P][e].x - Multiple[P][s].x) * z * z * z) * (P.y * P.x * z * z)) % p

(* The number that the code computes, with the last two points in either order.*)
LEMMA ToInvertIs ==
  ASSUME NEW P \in Points, NEW s \in 1..(n - 1), NEW e \in 1..(n - 1), NEW z \in 1..(p - 1)
  PROVE  LET Q == Scaled(Multiple[P][s], z)
             T == Scaled(Multiple[P][e], z)
         IN  /\ Multiple[P][e].y = P.y
                  => ModMult(ModMult(ModSub(T.x, Q.x), T.y), P.x) = ToInvert(P, s, e, z)
             /\ (Multiple[P][e].y + P.y) % p = 0
                  => ModMult(ModMult(ModSub(Q.x, T.x), T.y), P.x) = ToInvert(P, s, e, z)
<1>. DEFINE xs == Multiple[P][s].x
            ys == Multiple[P][s].y
            xe == Multiple[P][e].x
            ye == Multiple[P][e].y
            x == P.x
            y == P.y
            Q == Scaled(Multiple[P][s], z)
            T == Scaled(Multiple[P][e], z)
            g == ((xe - xs) * z * z * z) * (y * x * z * z)
<1>1. /\ xs \in Int /\ ys \in Int /\ xe \in Int /\ ye \in Int /\ x \in Int /\ y \in Int /\ z \in Int /\ x % p = x
      /\ Multiple[P][s] = Pt(xs, ys) /\ Multiple[P][e] = Pt(xe, ye)
  <2>1. Multiple[P][s] \in Coordinates /\ Multiple[P][e] \in Coordinates /\ P \in Coordinates
    BY MultiplesAdd, CurveNumbers
  <2>2. /\ xs \in Int /\ ys \in Int /\ xe \in Int /\ ye \in Int /\ x \in Int /\ y \in Int /\ x \in Residues
        /\ Multiple[P][s] = Pt(xs, ys) /\ Multiple[P][e] = Pt(xe, ye)
    BY <2>1, PointIsPt
  <2>. QED  BY <2>2, SmallRemainders
<1>2. ToInvert(P, s, e, z) = g % p
  BY Zenon DEF ToInvert
<1>. HIDE DEF xs, ys, xe, ye, x, y
<1>. DEFINE ex == xe * z * z
            sx == xs * z * z
            ey == ye * z * z * z
            d == ex - sx
            c == sx - ex
            t == d * ey
            r == c * ey
            h == t * x
            k == r * x
<1>3. /\ ex \in Int /\ sx \in Int /\ ey \in Int /\ d \in Int /\ c \in Int /\ t \in Int /\ r \in Int /\ h \in Int /\ k \in Int
      /\ g \in Int
  BY <1>1
<1>4. T.x = ex % p /\ Q.x = sx % p /\ T.y = ey % p
  <2>1. Q = At(xs, ys, z) /\ T = At(xe, ye, z)
    BY <1>1, ScaledIs
  <2>. QED  BY <2>1 DEF At, Pt
<1>5. ye = y => h = g
  BY <1>1
<1>6. (ye + y) % p = 0 => k % p = g % p
  <2>. SUFFICES ASSUME (ye + y) % p = 0 PROVE k % p = g % p
    OBVIOUS
  <2>. DEFINE v0 == ye + y
              m == (xe - xs) * z * z * z * x * z * z
              q == -m
              w == v0 * q
  <2>1. v0 \in Int /\ q \in Int /\ w \in Int /\ v0 % p = 0 % p /\ 0 \in Int /\ q % p = q % p /\ 0 * q = 0
    <3>1. v0 \in Int /\ q \in Int /\ w \in Int
      BY <1>1
    <3>2. v0 % p = 0 % p
      BY SmallRemainders
    <3>. HIDE DEF q
    <3>3. 0 * q = 0 /\ q % p = q % p
      BY <3>1
    <3>. QED  BY <3>1, <3>2, <3>3
  <2>2. k = g + w
    <3>1. m \in Int
      BY <1>1
    <3>2. k = -(m * ye)
      BY <1>1
    <3>3. g = m * y
      BY <1>1
    <3>4. w = (ye + y) * (-m)
      OBVIOUS
    <3>. HIDE DEF m
    <3>5. (ye + y) * (-m) = -(m * ye) - (m * y) /\ m * ye \in Int /\ m * y \in Int
      BY <1>1, <3>1
    <3>. HIDE DEF k, g, w
    <3>. QED  BY <3>2, <3>3, <3>4, <3>5
  <2>. HIDE DEF v0, q, k, g
  <2>3. PICK i \in Int : v0 = 0 + i * p
    BY <2>1, DifferByMultiple
  <2>. DEFINE j == i * q
  <2>4. j \in Int /\ w = j * p
    <3>1. p \in Int
      BY SmallRemainders
    <3>2. j \in Int
      BY <2>1
    <3>3. v0 * q = (i * q) * p
      BY <2>1, <2>3, <3>1
    <3>. QED  BY <3>2, <3>3
  <2>. HIDE DEF j, w
  <2>5. k = g + j * p
    BY <2>2, <2>4
  <2>. QED  BY <1>3, <2>4, <2>5, SameRemainder
<1>7. IsDifference(d, ex, sx) /\ IsDifference(c, sx, ex) /\ IsProduct(t, d, ey) /\ IsProduct(r, c, ey)
      /\ IsProduct(h, t, x) /\ IsProduct(k, r, x)
  BY <1>1, <1>3, Zenon DEF IsDifference, IsProduct
<1>. HIDE DEF ex, sx, ey, d, c, t, r, h, k, g, Q, T
<1>8. /\ ModSub(ex % p, sx % p) = d % p /\ ModSub(sx % p, ex % p) = c % p
      /\ ModMult(d % p, ey % p) = t % p /\ ModMult(c % p, ey % p) = r % p
      /\ ModMult(t % p, x % p) = h % p /\ ModMult(r % p, x % p) = k % p
  BY <1>7, CodeSubtracts, CodeMultiplies
<1>9. ModMult(ModMult(ModSub(T.x, Q.x), T.y), x) = h % p
  BY <1>1, <1>4, <1>8, Zenon
<1>10. ModMult(ModMult(ModSub(Q.x, T.x), T.y), x) = k % p
  BY <1>1, <1>4, <1>8, Zenon
<1>. QED  BY <1>2, <1>5, <1>6, <1>9, <1>10, Zenon DEF Q, T, ye, y, x

(* With the inverse, the two points of the last sum are known. It exists, but  *)
(* for a point with x = 0.                                                     *)
LEMMA FinalPoints ==
  ASSUME NEW P \in Points, P.x # 0, NEW s \in 1..(n - 1), NEW e \in 1..(n - 1), s # e, s + e # n, NEW z \in 1..(p - 1),
         Multiple[P][e].x = P.x
  PROVE  /\ ToInvert(P, s, e, z) # 0
         /\ \A i \in Residues :
              (i * ToInvert(P, s, e, z)) % p = 1 =>
                LET Q == Scaled(Multiple[P][s], z)
                    T == Scaled(Multiple[P][e], z)
                    final == ModMult(ModMult(i, P.y), T.x)
                    sums == XYcZAdd(Q, T)
                IN  /\ ApplyZ(sums[1], final) = Multiple[P][s]
                    /\ ApplyZ(sums[2], final) = Multiple[P][(s + e) % n]
<1>. DEFINE l == (s + e) % n
            M(c) == Multiple[P][c]
            xs == M(s).x
            ys == M(s).y
            xe == M(e).x
            ye == M(e).y
            xl == M(l).x
            yl == M(l).y
            x == P.x
            y == P.y
            d == xe - xs
            w == d * z * z * z
            yx == y * x
            yxz == yx * z
            g0 == yxz * z
            h == w * g0
<1>1. l \in 1..(n - 1)
  <2>1. n \in Nat /\ n >= 3 /\ s + e \in 2..(2 * n - 2)
    BY CurveNumbers
  <2>2. CASE s + e < n
    <3>1. s + e \in 0..(n - 1)
      BY <2>1, <2>2
    <3>2. l = s + e
      BY <3>1, OrderRemainders
    <3>. HIDE DEF l
    <3>. QED  BY <2>1, <3>1, <3>2
  <2>3. CASE s + e > n
    <3>1. s + e \in n..(2 * n - 1)
      BY <2>1, <2>3
    <3>2. l = (s + e) - n
      BY <3>1, OrderRemainders
    <3>. HIDE DEF l
    <3>. QED  BY <2>1, <2>3, <3>2
  <2>. QED  BY <2>1, <2>2, <2>3
<1>. HIDE DEF l
<1>2. M(s) \in Coordinates /\ M(e) \in Coordinates /\ M(l) \in Coordinates /\ P \in Coordinates
  BY <1>1, MultiplesAdd, CurveNumbers
<1>3. xe # xs /\ y # 0 /\ x # 0 /\ xe = x
  <2>1. xe # xs
    BY MultiplesDiffer
  <2>2. y # 0
    <3>1. 1 \in 1..(n - 1) /\ P = Multiple[P][1]
      BY CurveNumbers, MultiplesAdd
    <3>. QED  BY <3>1, MultiplesDiffer
  <2>. QED  BY <2>1, <2>2
<1>4. /\ xs \in Int /\ ys \in Int /\ xe \in Int /\ ye \in Int /\ xl \in Int /\ yl \in Int /\ x \in Int /\ y \in Int
      /\ xs \in Residues /\ xe \in Residues /\ x \in Residues /\ y \in Residues
      /\ M(s) = Pt(xs, ys) /\ M(e) = Pt(xe, ye) /\ M(l) = Pt(xl, yl)
  BY <1>2, PointIsPt
<1>5. x % p = x /\ y % p = y /\ z % p = z /\ z \in Residues /\ z \in Int /\ z # 0
  <2>1. z \in Residues /\ z \in Int /\ z # 0
    BY SmallRemainders DEF Residues
  <2>. QED  BY <1>4, <2>1, SmallRemainders
<1>6. d % p # 0
  BY <1>2, <1>3, Chord
<1>. HIDE DEF M, xs, ys, xe, ye, xl, yl, x, y
<1>7. d \in Int /\ w \in Int /\ yx \in Int /\ yxz \in Int /\ g0 \in Int /\ h \in Int
  BY <1>4, <1>5
<1>8. w % p # 0
  <2>. HIDE DEF d
  <2>1. (d * z * z * z) % p \in 1..(p - 1)
    BY <1>6, <1>7, Units, Zenon
  <2>2. w % p \in 1..(p - 1)
    BY <2>1
  <2>. HIDE DEF w
  <2>. QED  BY <2>2
<1>9. h % p # 0
  <2>1. yx % p # 0
    BY <1>3, <1>4, <1>5, NoZeroDivisors
  <2>. HIDE DEF yx
  <2>2. yxz % p # 0
    BY <1>5, <1>7, <2>1, NoZeroDivisors
  <2>. HIDE DEF yxz
  <2>3. g0 % p # 0
    BY <1>5, <1>7, <2>2, NoZeroDivisors
  <2>. HIDE DEF w, g0
  <2>. QED  BY <1>7, <1>8, <2>3, NoZeroDivisors
<1>10. ToInvert(P, s, e, z) = h % p
  <2>1. ToInvert(P, s, e, z) = (((xe - xs) * z * z * z) * (y * x * z * z)) % p
    BY Zenon DEF ToInvert, M, xe, xs, y, x
  <2>. QED  BY <2>1
<1>11. ASSUME NEW i \in Residues, (i * (h % p)) % p = 1
       PROVE  LET Q == Scaled(M(s), z)
                  T == Scaled(M(e), z)
                  final == ModMult(ModMult(i, y), T.x)
                  sums == XYcZAdd(Q, T)
              IN  ApplyZ(sums[1], final) = M(s) /\ ApplyZ(sums[2], final) = M(l)
  <2>. DEFINE Q == Scaled(M(s), z)
              T == Scaled(M(e), z)
              ex == xe * z * z
              iy == i * y
              g == iy * ex
              sums == XYcZAdd(Q, T)
              final == ModMult(ModMult(i, y), T.x)
  <2>1. i \in Int /\ i % p = i
    BY SmallRemainders
  <2>2. T.x = ex % p
    <3>1. T = At(xe, ye, z)
      BY <1>4, <1>5, ScaledIs
    <3>. HIDE DEF T
    <3>. QED  BY <3>1 DEF At, Pt
  <2>3. ex \in Int /\ iy \in Int /\ g \in Int
    BY <1>4, <1>5, <2>1
  <2>4. w * g = i * h
    BY <1>3, <1>4, <1>5, <2>1
  <2>5. IsProduct(iy, i, y) /\ IsProduct(g, iy, ex)
    BY <1>4, <2>1, <2>3, Zenon DEF IsProduct
  <2>. HIDE DEF ex, iy, g, T, Q, w, h
  <2>6. final = g % p
    <3>1. ModMult(i % p, y % p) = iy % p /\ ModMult(iy % p, ex % p) = g % p
      BY <2>5, CodeMultiplies
    <3>. QED  BY <1>5, <2>1, <2>2, <3>1, Zenon
  <2>7. (w * g) % p = 1
    <3>1. ((i % p) * (h % p)) % p = (i * h) % p
      BY <1>7, <2>1, ProductRemainder, Zenon
    <3>. QED  BY <1>11, <2>1, <2>4, <3>1, Zenon
  <2>8. sums = <<Scaled(M(s), w % p), Scaled(M(l), w % p)>>
    <3>1. XYcZAdd(Scaled(Multiple[P][s], z), Scaled(Multiple[P][e], z))
            = <<Scaled(Multiple[P][s], ((Multiple[P][e].x - Multiple[P][s].x) * z * z * z) % p),
                Scaled(Multiple[P][(s + e) % n], ((Multiple[P][e].x - Multiple[P][s].x) * z * z * z) % p)>>
      BY AddMultiples
    <3>. QED  BY <3>1, Zenon DEF Q, T, M, l, w, d, xe, xs
  <2>. HIDE DEF sums, final
  <2>9. sums[1] = Scaled(M(s), w % p) /\ sums[2] = Scaled(M(l), w % p)
    BY <2>8
  <2>. xs \in Int /\ ys \in Int /\ xl \in Int /\ yl \in Int /\ w \in Int /\ g \in Int
    BY <1>4, <1>7, <2>3
  <2>10. ApplyZ(Scaled(Pt(xs, ys), w % p), g % p) = Pt(xs, ys)
    BY <2>7, ApplyInverse
  <2>11. ApplyZ(Scaled(Pt(xl, yl), w % p), g % p) = Pt(xl, yl)
    BY <2>7, ApplyInverse
  <2>12. ApplyZ(sums[1], final) = M(s) /\ ApplyZ(sums[2], final) = M(l)
    BY <1>4, <2>6, <2>9, <2>10, <2>11, Zenon
  <2>. QED  BY <2>12, Zenon DEF sums, final, Q, T
<1>12. ToInvert(P, s, e, z) # 0
  BY <1>9, <1>10, Zenon
<1>. QED  BY <1>10, <1>11, <1>12, Zenon DEF M, l, y

(* With 0 for the inverse the result is 0.                                     *)
LEMMA FinalZero ==
  ASSUME NEW Q \in Coordinates, NEW x \in Residues, NEW y \in Residues
  PROVE  ApplyZ(Q, ModMult(ModMult(0, x), y)) = Zero
<1>. DEFINE e == Q.x
            f == Q.y
<1>1. e \in Int /\ f \in Int /\ Q = Pt(e, f)
  BY PointIsPt
<1>2. 0 % p = 0 /\ x % p = x /\ y % p = y /\ x \in Int /\ y \in Int /\ 0 \in Int
  BY SmallRemainders
<1>3. IsProduct(0, 0, x) /\ IsProduct(0, 0, y)
  BY <1>2 DEF IsProduct
<1>4. ModMult(0 % p, x % p) = 0 % p /\ ModMult(0 % p, y % p) = 0 % p
  BY <1>3, CodeMultiplies
<1>5. ModMult(ModMult(0, x), y) = 0 % p
  BY <1>2, <1>4, Zenon
<1>. HIDE DEF e, f
<1>6. ApplyZ(Pt(e, f), 0 % p) = At(e, f, 0)
  BY <1>1, <1>2, ApplyFormula
<1>7. e * 0 * 0 = 0 /\ f * 0 * 0 * 0 = 0
  BY <1>1
<1>8. At(e, f, 0) = Zero
  BY <1>7, ZeroIs, Zenon DEF At
<1>. QED  BY <1>1, <1>5, <1>6, <1>8, Zenon

-------------------------------------------------------------------------------
(* What a result is checked for                                                *)

(* A point of the curve is valid, for uECC_valid_point.                        *)
LEMMA ValidOnCurve ==
  ASSUME NEW Q \in Curve, Q.y # 0
  PROVE  ValidPoint(Q)
<1>. DEFINE x == Q.x
            y == Q.y
            xx == x * x
            x2 == xx - 3
            x3 == x2 * x
            s == x3 + B
            yy == y * y
<1>1. Q \in Coordinates /\ x \in Residues /\ y \in Residues /\ x \in Int /\ y \in Int /\ B \in Residues
      /\ (Q.y * Q.y) % p = (Q.x * Q.x * Q.x - 3 * Q.x + B) % p
  BY CurveNumbers DEF Curve
<1>2. p \in Nat /\ p > 3
  <2>1. /\ Power(0) = 1 /\ Power(3) \in Nat /\ Power(5) \in Nat /\ Power(5) >= 1 /\ Power(6) \in Nat /\ Power(7) \in Nat
        /\ Power(3) >= 1 /\ Base \in Nat /\ Base >= 2
    BY BasePowers
  <2>2. Power(6) = Base * Power(5) /\ Power(7) = Base * Power(6) /\ Power(8) = Base * Power(7)
    BY EachPower
  <2>3. Power(6) >= 2 * Power(5)
    BY <2>1, <2>2
  <2>4. Power(7) >= 2 * Power(6)
    BY <2>1, <2>2
  <2>5. Power(8) >= 2 * Power(7)
    BY <2>1, <2>2
  <2>6. Power(8) = Power(7) - Power(6) - Power(3) + Power(0) + p \/ p = Power(8) - Power(7) + Power(6) + Power(3) - Power(0)
    BY ModulusShape
  <2>7. p \in Nat /\ Power(8) \in Int
    BY SmallRemainders, EachPower
  <2>. QED  BY <2>1, <2>3, <2>4, <2>5, <2>6, <2>7, ModulusShape
<1>3. x % p = x /\ y % p = y /\ B % p = B /\ 3 % p = 3 /\ B \in Int
  <2>1. 3 \in Residues
    BY <1>2 DEF Residues
  <2>. QED  BY <1>1, <2>1, SmallRemainders
<1>4. xx \in Int /\ x2 \in Int /\ x3 \in Int /\ s \in Int /\ yy \in Int /\ 3 \in Int
  BY <1>1, <1>3
<1>5. yy % p = s % p
  <2>1. s = x * x * x - 3 * x + B
    BY <1>1, <1>3
  <2>2. yy % p = (x * x * x - 3 * x + B) % p
    BY <1>1
  <2>. QED  BY <2>1, <2>2
<1>6. IsProduct(xx, x, x) /\ IsDifference(x2, xx, 3) /\ IsProduct(x3, x2, x) /\ IsSum(s, x3, B) /\ IsProduct(yy, y, y)
  BY <1>1, <1>3, <1>4, Zenon DEF IsProduct, IsDifference, IsSum
<1>7. Q # Zero
  <2>1. Zero.y = 0
    BY DEF Zero
  <2>. QED  BY <2>1
<1>8. x < p /\ y < p
  BY <1>1, <1>2 DEF Residues
<1>. HIDE DEF xx, x2, x3, s, yy, x, y
<1>9. ModSquare(x % p) = xx % p /\ ModSquare(y % p) = yy % p
  BY <1>6, CodeSquares
<1>10. ModSub(xx % p, 3 % p) = x2 % p
  BY <1>6, CodeSubtracts
<1>11. ModMult(x2 % p, x % p) = x3 % p
  BY <1>6, CodeMultiplies
<1>12. ModAdd(x3 % p, B % p) = s % p
  BY <1>6, CodeAdds
<1>13. XSide(x) = s % p
  BY <1>3, <1>9, <1>10, <1>11, <1>12, Zenon DEF XSide
<1>14. ModSquare(y) = XSide(x)
  BY <1>3, <1>5, <1>9, <1>13, Zenon
<1>. QED  BY <1>7, <1>8, <1>14, Zenon DEF ValidPoint, x, y

(* The multiples that are no exception are valid, and public keys.             *)
LEMMA MultipleIsValid ==
  ASSUME NEW P \in Points, NEW k \in 2..(n - 3)
  PROVE  /\ Multiple[P][k] # Zero /\ ValidPoint(Multiple[P][k])
         /\ P = G => ValidPublicKey(Multiple[P][k])
<1>1. n \in Nat /\ k \in 1..(n - 1) /\ 1 \in 1..(n - 1) /\ k # 1
  BY CurveNumbers
<1>2. Multiple[P][k] \in Curve /\ P = Multiple[P][1] /\ Multiple[P][k].y # 0
  BY <1>1, MultiplesAdd, MultiplesDiffer
<1>3. Multiple[P][k] # P
  BY <1>1, <1>2, MultiplesDiffer
<1>4. ValidPoint(Multiple[P][k])
  BY <1>2, ValidOnCurve
<1>5. Multiple[P][k] # Zero
  BY <1>4, Zenon DEF ValidPoint
<1>. QED  BY <1>3, <1>4, <1>5, Zenon DEF ValidPublicKey

-------------------------------------------------------------------------------
(* The calls, and the multiples                                                *)

(* While it computes a call has a point and a key from the order's range.      *)
CallKnown ==
  pc \in {"double", "ladder", "invert"} =>
    /\ point \in Points /\ key \in 0..(n - 1) /\ scalar = Regularize(key)
    /\ call # "secret" => point = G

StartKnown == pc = "double" => bit = NumBits - 1 /\ initial_Z \in 1..(p - 1)

(* The ladder has neighbouring multiples; or the point at infinity was met, in *)
(* its last sums, and one of its two points is zero.                           *)
BrokenDown ==
  /\ bit = 0 /\ key \in Exceptional
  /\ From(scalar, 1) % n = 0 \/ (From(scalar, 1) + 1) % n = 0
  /\ \E w \in Int : (R[0] = Zero /\ R[1] = Cusp(w)) \/ (R[1] = Zero /\ R[0] = Cusp(w))

LadderKnown ==
  pc = "ladder" => AreNeighbours(R[0], R[1], point, From(scalar, bit + 1)) \/ BrokenDown

(* The inverse is that of a number that gives the last z.                      *)
EndsWith(Q, T, P, s, e, i) ==
  \E z \in 1..(p - 1) : /\ Q = Scaled(Multiple[P][s], z) /\ T = Scaled(Multiple[P][e], z)
                        /\ i = ToInvert(P, s, e, z)

InvertKnown ==
  pc = "invert" =>
    \/ key \in Exceptional /\ input = 0
    \/ key \in 2..(n - 3) /\ nb = 0 /\ EndsWith(R[0], R[1], point, key, 1, input)
    \/ key \in 2..(n - 3) /\ nb = 1 /\ EndsWith(R[1], R[0], point, key + 1, n - 1, input)

ZeroKept == input = 0 => u = 0

(* What LadderHoldsMultiples and ResultIsMultiple need to be inductive.        *)
Multiplies == CallKnown /\ StartKnown /\ LadderKnown /\ InvertKnown /\ ZeroKept /\ ResultIsMultiple

LEMMA StartMultKnown ==
  ASSUME ZeroKept, NEW name \in {"secret", "public", "make"}, NEW k \in 0..(n - 1), NEW P \in Points,
         NEW z \in 1..(p - 1), name # "secret" => P = G, StartMult(name, k, P, z)
  PROVE  Multiplies'
<1>1. /\ pc' = "double" /\ call' = name /\ key' = k /\ point' = P /\ initial_Z' = z
      /\ scalar' = Regularize(k) /\ bit' = NumBits - 1 /\ input' = input /\ u' = u
  BY DEF StartMult, registers
<1>2. CallKnown'
  BY <1>1, Zenon DEF CallKnown
<1>3. StartKnown'
  BY <1>1, Zenon DEF StartKnown
<1>4. pc' # "ladder" /\ pc' # "invert" /\ pc' # "done"
  BY <1>1
<1>5. ZeroKept'
  BY <1>1 DEF ZeroKept
<1>. QED  BY <1>2, <1>3, <1>4, <1>5, Zenon DEF Multiplies, LadderKnown, InvertKnown, ResultIsMultiple

LEMMA RefuseKnown ==
  ASSUME ZeroKept, NEW at \in {"norandom", "done"}, NEW name, NEW k, NEW P, Refuse(at, name, k, P),
         at = "done" => k \notin 1..(n - 1)
  PROVE  Multiplies'
<1>1. pc' = at /\ key' = k /\ ret' = 0 /\ input' = input /\ u' = u
  BY DEF Refuse, registers
<1>2. pc' # "ladder" /\ pc' # "invert" /\ pc' # "double"
  BY <1>1
<1>3. ZeroKept'
  BY <1>1 DEF ZeroKept
<1>4. ResultIsMultiple'
  <2>1. n \in Nat /\ n >= 3
    BY CurveNumbers
  <2>2. pc' = "done" => ~(key' \in (0..(n - 1)) \ Exceptional)
    BY <1>1, <2>1 DEF Exceptional
  <2>. QED  BY <1>1, <2>2, Zenon DEF ResultIsMultiple
<1>5. CallKnown' /\ StartKnown' /\ LadderKnown' /\ InvertKnown'
  BY <1>2, Zenon DEF CallKnown, StartKnown, LadderKnown, InvertKnown
<1>. QED  BY <1>3, <1>4, <1>5, Zenon DEF Multiplies

LEMMA TryKeyKnown == ASSUME ZeroKept, TryKey PROVE Multiplies'
<1>0. n \in Nat /\ n >= 3 /\ 0 \in 0..(n - 1) /\ G \in Points /\ 1 \in 1..(p - 1)
  <2>1. p \in Nat /\ p > 2 /\ n \in Nat /\ n >= 3
    BY SmallRemainders, CurveNumbers
  <2>. QED  BY <2>1 DEF Points
<1>1. ASSUME NEW r \in Randoms, StartMult("make", Mmod(r), G, 1) PROVE Multiplies'
  <2>1. r \in 0..(Top * Top - 1)
    BY EcdhAssumption
  <2>2. Mmod(r) \in 0..(n - 1)
    <3>1. Mmod(r) = r % n
      BY <2>1, MmodIsRemainder
    <3>2. r \in Nat
      BY <2>1
    <3>. QED  BY <3>1, <3>2, OrderRemainders
  <2>. QED  BY <1>0, <1>1, <2>2, StartMultKnown
<1>2. CASE Refuse("norandom", "make", 0, G)
  BY <1>2, RefuseKnown
<1>. QED  BY <1>1, <1>2 DEF TryKey

LEMMA SharedSecretKnown == ASSUME Multiplies, SharedSecret PROVE Multiplies'
<1>1. /\ n \in Nat /\ n >= 3 /\ p \in Nat /\ p > 2 /\ 0 \notin 1..(n - 1)
      /\ \A P \in Peers : P \in Points
  BY CurveNumbers, SmallRemainders DEF Points
<1>2. ZeroKept
  BY Zenon DEF Multiplies
<1>3. ASSUME NEW P \in Peers, NEW k \in 1..(n - 1), NEW z \in {1} \union RandomInts, StartMult("secret", k, P, z)
      PROVE  Multiplies'
  <2>1. z \in 1..(p - 1) /\ k \in 0..(n - 1) /\ P \in Points
    BY <1>1 DEF RandomInts
  <2>. QED  BY <1>2, <1>3, <2>1, StartMultKnown
<1>4. ASSUME NEW P \in Peers, NEW k \in 1..(n - 1), Refuse("norandom", "secret", k, P) PROVE Multiplies'
  BY <1>2, <1>4, RefuseKnown
<1>. QED  BY <1>3, <1>4, Zenon DEF SharedSecret

LEMMA ComputePublicKeyKnown == ASSUME Multiplies, ComputePublicKey PROVE Multiplies'
<1>1. n \in Nat /\ n >= 3 /\ p \in Nat /\ p > 2 /\ G \in Points /\ 1 \in 1..(p - 1) /\ Top \in Nat
  BY CurveNumbers, SmallRemainders, ModInvAssumption DEF Points
<1>2. ZeroKept
  BY Zenon DEF Multiplies
<1>3. ASSUME NEW k \in 0..(Top - 1)
      PROVE  PublicKeyInRange(k) <=> k \in 1..(n - 1)
  <2>1. k \in Numbers /\ n \in Numbers
    BY WordsAreNumbers DEF Numbers
  <2>2. k \in Int /\ n \in Int /\ Top \in Int /\ k >= 0 /\ k < Top /\ n < Top
    BY <1>1, <2>1 DEF Numbers
  <2>3. Sub(k, n).borrow # 0 <=> k < n
    BY <2>2 DEF Sub
  <2>. QED  BY <1>1, <2>2, <2>3 DEF PublicKeyInRange
<1>4. ASSUME NEW k \in 0..(Top - 1), PublicKeyInRange(k), StartMult("public", k, G, 1) PROVE Multiplies'
  <2>1. k \in 0..(n - 1)
    BY <1>1, <1>3, <1>4
  <2>. QED  BY <1>1, <1>2, <1>4, <2>1, StartMultKnown
<1>5. ASSUME NEW k \in 0..(Top - 1), ~PublicKeyInRange(k), Refuse("done", "public", k, G) PROVE Multiplies'
  BY <1>2, <1>3, <1>5, RefuseKnown
<1>. QED  BY <1>4, <1>5, Zenon DEF ComputePublicKey

(* The doubling gives the first neighbours, P and 2 P, whatever z it is        *)
(* started with.                                                               *)
LEMMA FirstDoubleKnown == ASSUME CallOK, Multiplies, FirstDouble PROVE Multiplies'
<1>1. /\ pc = "double" /\ pc' = "ladder" /\ call' = call /\ key' = key /\ point' = point /\ scalar' = scalar
      /\ bit' = bit /\ input' = input /\ u' = u
      /\ R' = [i \in {0, 1} |-> InitialDouble(point, initial_Z)[i + 1]]
  BY DEF FirstDouble, registers
<1>2. /\ point \in Points /\ key \in 0..(n - 1) /\ scalar = Regularize(key)
      /\ call # "secret" => point = G
      /\ bit = NumBits - 1 /\ initial_Z \in 1..(p - 1) /\ ZeroKept
  BY <1>1, Zenon DEF Multiplies, CallKnown, StartKnown
<1>3. scalar \in Numbers
  BY <1>2, RegularizeChoice
<1>4. bit + 1 = NumBits
  BY <1>2, Ranges
<1>5. From(scalar, bit + 1) = 1
  BY <1>3, <1>4, HighestBit
<1>6. R'[0] = InitialDouble(point, initial_Z)[1] /\ R'[1] = InitialDouble(point, initial_Z)[2]
  BY <1>1
<1>7. n \in Nat /\ n >= 3
  BY CurveNumbers
<1>8. 1 \in 0..(n - 1) /\ 2 \in 0..(n - 1)
  BY <1>7
<1>9. 1 \in Nat /\ 1 % n = 1 /\ (1 + 1) % n = 2
  BY <1>8, OrderRemainders
<1>10. AreNeighbours(R'[0], R'[1], point, 1)
  <2>1. PICK w \in 1..(p - 1) :
          InitialDouble(point, initial_Z) = <<Scaled(Multiple[point][1], w), Scaled(Multiple[point][2], w)>>
    BY <1>2, DoubleMultiples
  <2>2. R'[0] = Scaled(Multiple[point][1 % n], w) /\ R'[1] = Scaled(Multiple[point][(1 + 1) % n], w)
    BY <1>6, <1>9, <2>1
  <2>3. 1 % n # 0 /\ (1 + 1) % n # 0
    BY <1>9
  <2>. QED  BY <1>9, <2>2, <2>3, Zenon DEF AreNeighbours
<1>11. LadderKnown'
  <2>1. AreNeighbours(R'[0], R'[1], point', From(scalar', bit' + 1))
    BY <1>1, <1>5, <1>10, Zenon
  <2>. QED  BY <2>1, Zenon DEF LadderKnown
<1>12. CallKnown'
  BY <1>1, <1>2, Zenon DEF CallKnown
<1>13. pc' # "double" /\ pc' # "invert" /\ pc' # "done"
  BY <1>1
<1>14. ZeroKept'
  BY <1>1, <1>2, Zenon DEF ZeroKept
<1>. QED  BY <1>11, <1>12, <1>13, <1>14, Zenon DEF Multiplies, StartKnown, InvertKnown, ResultIsMultiple

(* A bit takes the neighbours of m to those of 2 m or of 2 m + 1, or breaks    *)
(* down next to the point at infinity, before the last bit.                    *)
LEMMA LadderStepKnown == ASSUME CallOK, Multiplies, LadderStep PROVE Multiplies'
<1>1. /\ pc = "ladder" /\ pc' = "ladder" /\ call' = call /\ key' = key /\ point' = point /\ scalar' = scalar
      /\ bit > 0 /\ bit' = bit - 1 /\ input' = input /\ u' = u
      /\ R' = [i \in {0, 1} |-> IF i = nb THEN XYcZAdd(AddC[2], AddC[1])[1] ELSE XYcZAdd(AddC[2], AddC[1])[2]]
  BY DEF LadderStep, registers
<1>2. /\ point \in Points /\ key \in 0..(n - 1) /\ scalar = Regularize(key)
      /\ call # "secret" => point = G
      /\ LadderKnown /\ ZeroKept
  BY <1>1, Zenon DEF Multiplies, CallKnown
<1>3. scalar \in Numbers
  BY <1>2, RegularizeChoice
<1>4. bit \in 1..(NumBits - 1) /\ bit \in 0..(NumBits - 1) /\ bit - 1 + 1 = bit /\ bit # 0
  BY <1>1, Ranges DEF CallOK, TypeOK
<1>5. AreNeighbours(R[0], R[1], point, From(scalar, bit + 1))
  BY <1>1, <1>2, <1>4, Zenon DEF LadderKnown, BrokenDown
<1>. DEFINE m == From(scalar, bit + 1)
<1>6. BitOf(scalar, bit) \in {0, 1} /\ m \in Nat /\ From(scalar, bit) = 2 * m + BitOf(scalar, bit)
  BY <1>3, <1>4, NextBit
<1>7. CallKnown'
  BY <1>1, <1>2, Zenon DEF CallKnown
<1>8. ZeroKept'
  BY <1>1, <1>2, Zenon DEF ZeroKept
<1>9. pc' # "double" /\ pc' # "invert" /\ pc' # "done"
  BY <1>1
<1>10. LadderKnown'
  <2>1. AreNeighbours(R[0], R[1], point, m)
    BY <1>5
  <2>2. (2 * m + 1) % n = 0 => bit = 1 /\ key \in Exceptional
    BY <1>2, <1>4, InfinityIsLate
  <2>3. From(scalar', bit' + 1) = From(scalar, bit)
    BY <1>1, <1>4
  <2>. HIDE DEF m
  <2>4. CASE BitOf(scalar, bit) = 0
    <3>1. nb = 1 /\ 1 - nb = 0 /\ AddC = XYcZAddC(R[0], R[1])
      BY <2>4 DEF nb, AddC
    <3>. DEFINE C == XYcZAddC(R[0], R[1])
                sums == XYcZAdd(C[2], C[1])
    <3>2. R'[1] = sums[1] /\ R'[0] = sums[2]
      BY <1>1, <3>1
    <3>3. From(scalar, bit) = 2 * m
      BY <1>6, <2>4
    <3>4. CASE (2 * m + 1) % n # 0
      <4>1. AreNeighbours(sums[2], sums[1], point, 2 * m)
        BY <1>2, <2>1, <3>4, LadderAdvances
      <4>2. AreNeighbours(R'[0], R'[1], point', From(scalar', bit' + 1))
        BY <1>1, <2>3, <3>2, <3>3, <4>1, Zenon
      <4>. QED  BY <4>2, Zenon DEF LadderKnown
    <3>5. CASE (2 * m + 1) % n = 0
      <4>1. PICK w \in Int : sums[1] = Cusp(w) /\ sums[2] = Zero
        BY <1>2, <2>1, <3>5, LadderBreaks
      <4>2. R'[0] = Zero /\ R'[1] = Cusp(w)
        BY <3>2, <4>1, Zenon
      <4>3. bit = 1
        BY <2>2, <3>5
      <4>4. bit' = 0 /\ key' \in Exceptional
        BY <1>1, <2>2, <3>5, <4>3
      <4>5. From(scalar', 1) = 2 * m
        BY <1>1, <3>3, <4>3
      <4>6. (From(scalar', 1) + 1) % n = 0
        BY <3>5, <4>5
      <4>7. BrokenDown'
        BY <4>2, <4>4, <4>6, Zenon DEF BrokenDown
      <4>. QED  BY <4>7, Zenon DEF LadderKnown
    <3>. QED  BY <3>4, <3>5
  <2>5. CASE BitOf(scalar, bit) = 1
    <3>1. nb = 0 /\ 1 - nb = 1 /\ AddC = XYcZAddC(R[1], R[0])
      BY <2>5 DEF nb, AddC
    <3>. DEFINE C == XYcZAddC(R[1], R[0])
                sums == XYcZAdd(C[2], C[1])
    <3>2. R'[0] = sums[1] /\ R'[1] = sums[2]
      BY <1>1, <3>1
    <3>3. From(scalar, bit) = 2 * m + 1
      BY <1>6, <2>5
    <3>4. CASE (2 * m + 1) % n # 0
      <4>1. AreNeighbours(sums[1], sums[2], point, 2 * m + 1)
        BY <1>2, <2>1, <3>4, LadderAdvances
      <4>2. AreNeighbours(R'[0], R'[1], point', From(scalar', bit' + 1))
        BY <1>1, <2>3, <3>2, <3>3, <4>1, Zenon
      <4>. QED  BY <4>2, Zenon DEF LadderKnown
    <3>5. CASE (2 * m + 1) % n = 0
      <4>1. PICK w \in Int : sums[1] = Cusp(w) /\ sums[2] = Zero
        BY <1>2, <2>1, <3>5, LadderBreaks
      <4>2. R'[1] = Zero /\ R'[0] = Cusp(w)
        BY <3>2, <4>1, Zenon
      <4>3. bit = 1
        BY <2>2, <3>5
      <4>4. bit' = 0 /\ key' \in Exceptional
        BY <1>1, <2>2, <3>5, <4>3
      <4>5. From(scalar', 1) = 2 * m + 1
        BY <1>1, <3>3, <4>3
      <4>6. From(scalar', 1) % n = 0
        BY <3>5, <4>5
      <4>7. BrokenDown'
        BY <4>2, <4>4, <4>6, Zenon DEF BrokenDown
      <4>. QED  BY <4>7, Zenon DEF LadderKnown
    <3>. QED  BY <3>4, <3>5
  <2>. QED  BY <1>6, <2>4, <2>5
<1>. QED  BY <1>7, <1>8, <1>9, <1>10, Zenon DEF Multiplies, StartKnown, InvertKnown, ResultIsMultiple

(* The last bit leaves the multiple by the key, or the one after it, next to   *)
(* P or -P; the number to invert gives their z. After a breakdown it is zero.  *)
LEMMA LastAddCKnown == ASSUME CallOK, Multiplies, LastAddC PROVE Multiplies'
<1>. DEFINE product == ModMult(ModMult(ModSub(R'[1].x, R'[0].x), R'[1 - nb].y), point.x)
<1>1. /\ pc = "ladder" /\ pc' = "invert" /\ call' = call /\ key' = key /\ point' = point /\ scalar' = scalar
      /\ bit = 0 /\ bit' = bit
      /\ R' = [i \in {0, 1} |-> IF i = nb THEN AddC[2] ELSE AddC[1]]
      /\ StartInversion(product)
  BY DEF LastAddC
<1>2. /\ point \in Points /\ key \in 0..(n - 1) /\ scalar = Regularize(key)
      /\ call # "secret" => point = G
      /\ LadderKnown /\ ZeroKept
  BY <1>1, Zenon DEF Multiplies, CallKnown
<1>3. CallKnown'
  BY <1>1, <1>2, Zenon DEF CallKnown
<1>4. ZeroKept'
  <2>. HIDE DEF product
  <2>. QED  BY <1>1 DEF ZeroKept, StartInversion
<1>5. input' = product
  <2>. HIDE DEF product
  <2>. QED  BY <1>1 DEF StartInversion
<1>6. nb' = nb
  BY <1>1, Zenon DEF nb
<1>7. scalar \in Numbers /\ 0 \in 0..(NumBits - 1)
  <2>1. scalar \in Numbers
    BY <1>2, RegularizeChoice
  <2>. QED  BY <2>1, Ranges
<1>8. BitOf(scalar, 0) \in {0, 1}
  BY <1>7, NextBit
<1>9. /\ BitOf(scalar, 0) = 0 => nb = 1 /\ 1 - nb = 0 /\ AddC = XYcZAddC(R[0], R[1])
      /\ BitOf(scalar, 0) = 1 => nb = 0 /\ 1 - nb = 1 /\ AddC = XYcZAddC(R[1], R[0])
  BY <1>1 DEF nb, AddC
<1>10. /\ nb = 1 => R'[1] = AddC[2] /\ R'[0] = AddC[1]
       /\ nb = 0 => R'[0] = AddC[2] /\ R'[1] = AddC[1]
  BY <1>1
<1>11. pc' # "double" /\ pc' # "ladder" /\ pc' # "done"
  BY <1>1
<1>12. InvertKnown'
  <2>. DEFINE m == From(scalar, 1)
  <2>1. AreNeighbours(R[0], R[1], point, m) \/ BrokenDown
    <3>1. bit + 1 = 1
      BY <1>1
    <3>. QED  BY <1>1, <1>2, <3>1, Zenon DEF LadderKnown
  <2>2. CASE AreNeighbours(R[0], R[1], point, m)
    <3>1. m = From(Regularize(key), 1) /\ m % n # 0 /\ (m + 1) % n # 0
      BY <1>2, <2>2, Zenon DEF AreNeighbours
    <3>. HIDE DEF m
    <3>2. key \in 2..(n - 3)
      BY <1>2, <3>1, LastRests
    <3>3. /\ BitOf(scalar, 0) = 1 => (2 * m + 1) % n = key
          /\ BitOf(scalar, 0) = 0 => (2 * m + 1) % n = key + 1
      BY <1>2, <3>1, LastRests
    <3>4. n \in Nat /\ n >= 3
      BY CurveNumbers
    <3>5. key \in 1..(n - 1) /\ key + 1 \in 1..(n - 1) /\ key # 0 /\ key + 1 # 0
          /\ 1 \in 1..(n - 1) /\ n - 1 \in 1..(n - 1)
      BY <3>2, <3>4
    <3>6. Multiple[point][1].y = point.y /\ (Multiple[point][n - 1].y + point.y) % p = 0
      <4>1. point = Multiple[point][1]
        BY <1>2, MultiplesAdd
      <4>2. (Multiple[point][1].y + Multiple[point][n - 1].y) % p = 0
        BY <1>2, <3>5, Opposite
      <4>3. point.y \in Int
        BY <1>2, CurveNumbers, PointIsPt
      <4>4. Multiple[point][n - 1].y \in Int
        BY <1>2, <3>5, MultiplesAdd, CurveNumbers
      <4>. DEFINE y1 == Multiple[point][1].y
                  yn == Multiple[point][n - 1].y
      <4>5. y1 = point.y /\ y1 \in Int /\ yn \in Int /\ (y1 + yn) % p = 0
        BY <4>1, <4>2, <4>3, <4>4
      <4>. HIDE DEF y1, yn
      <4>6. y1 + yn = yn + y1
        BY <4>5
      <4>7. (yn + y1) % p = 0
        BY <4>5, <4>6
      <4>. QED  BY <4>5, <4>7, Zenon DEF y1, yn
    <3>7. CASE BitOf(scalar, 0) = 0
      <4>1. nb = 1 /\ 1 - nb = 0 /\ AddC = XYcZAddC(R[0], R[1]) /\ R'[1] = AddC[2] /\ R'[0] = AddC[1]
        BY <1>9, <1>10, <3>7
      <4>2. (2 * m + 1) % n = key + 1 /\ (2 * m + 1) % n # 0
        BY <3>3, <3>5, <3>7
      <4>3. PICK w \in 1..(p - 1) :
              XYcZAddC(R[0], R[1]) = <<Scaled(Multiple[point][n - 1], w), Scaled(Multiple[point][(2 * m + 1) % n], w)>>
        BY <1>2, <2>2, <4>2, LadderDifference DEF m
      <4>4. R'[1] = Scaled(Multiple[point][key + 1], w) /\ R'[0] = Scaled(Multiple[point][n - 1], w)
        BY <4>1, <4>2, <4>3
      <4>5. ModMult(ModMult(ModSub(R'[1].x, R'[0].x), R'[0].y), point.x) = ToInvert(point, key + 1, n - 1, w)
        BY <1>2, <3>5, <3>6, <4>4, ToInvertIs
      <4>6. input' = ToInvert(point, key + 1, n - 1, w)
        BY <1>5, <4>1, <4>5, Zenon
      <4>7. EndsWith(R'[1], R'[0], point', key' + 1, n - 1, input')
        BY <1>1, <4>4, <4>6, Zenon DEF EndsWith
      <4>8. key' \in 2..(n - 3) /\ nb' = 1
        BY <1>1, <1>6, <3>2, <4>1, Zenon
      <4>. QED  BY <4>7, <4>8, Zenon DEF InvertKnown
    <3>8. CASE BitOf(scalar, 0) = 1
      <4>1. nb = 0 /\ 1 - nb = 1 /\ AddC = XYcZAddC(R[1], R[0]) /\ R'[0] = AddC[2] /\ R'[1] = AddC[1]
        BY <1>9, <1>10, <3>8
      <4>2. (2 * m + 1) % n = key /\ (2 * m + 1) % n # 0
        BY <3>3, <3>5, <3>8
      <4>3. PICK w \in 1..(p - 1) :
              XYcZAddC(R[1], R[0]) = <<Scaled(Multiple[point][1], w), Scaled(Multiple[point][(2 * m + 1) % n], w)>>
        BY <1>2, <2>2, <4>2, LadderDifference DEF m
      <4>4. R'[0] = Scaled(Multiple[point][key], w) /\ R'[1] = Scaled(Multiple[point][1], w)
        BY <4>1, <4>2, <4>3
      <4>5. ModMult(ModMult(ModSub(R'[1].x, R'[0].x), R'[1].y), point.x) = ToInvert(point, key, 1, w)
        BY <1>2, <3>5, <3>6, <4>4, ToInvertIs
      <4>6. input' = ToInvert(point, key, 1, w)
        BY <1>5, <4>1, <4>5, Zenon
      <4>7. EndsWith(R'[0], R'[1], point', key', 1, input')
        BY <1>1, <4>4, <4>6, Zenon DEF EndsWith
      <4>8. key' \in 2..(n - 3) /\ nb' = 0
        BY <1>1, <1>6, <3>2, <4>1, Zenon
      <4>. QED  BY <4>7, <4>8, Zenon DEF InvertKnown
    <3>. QED  BY <1>8, <3>7, <3>8
  <2>3. CASE BrokenDown
    <3>1. PICK w \in Int : (R[0] = Zero /\ R[1] = Cusp(w)) \/ (R[1] = Zero /\ R[0] = Cusp(w))
      BY <2>3, Zenon DEF BrokenDown
    <3>2. XYcZAddC(R[0], R[1]) = <<Zero, Zero>> /\ XYcZAddC(R[1], R[0]) = <<Zero, Zero>>
      BY <3>1, AddCCusp
    <3>3. R'[0] = Zero /\ R'[1] = Zero
      BY <1>8, <1>9, <1>10, <3>2
    <3>4. R'[1 - nb] = Zero
      BY <1>8, <1>9, <3>3
    <3>5. 0 \in Residues /\ ModSub(0, 0) \in Residues /\ point.x \in Residues
      BY <1>2, Closed, CurveNumbers, CoordinatesAre
    <3>6. Zero.x = 0 /\ Zero.y = 0
      BY DEF Zero
    <3>7. \A x \in Residues : ModMult(x, 0) = 0 /\ ModMult(0, x) = 0
      <4>1. \A x \in Residues : x \in Int /\ x * 0 = 0 /\ 0 * x = 0
        BY SmallRemainders
      <4>. QED  BY <3>5, <4>1, ModMultIsProduct, SmallRemainders
    <3>8. product = ModMult(ModMult(ModSub(0, 0), 0), point.x)
      BY <3>3, <3>4, <3>6, Zenon
    <3>9. product = 0
      BY <3>5, <3>7, <3>8
    <3>10. key' \in Exceptional /\ input' = 0
      BY <1>1, <1>5, <2>3, <3>9, Zenon DEF BrokenDown
    <3>. QED  BY <3>10, Zenon DEF InvertKnown
  <2>. QED  BY <2>1, <2>2, <2>3
<1>. QED  BY <1>3, <1>4, <1>11, <1>12, Zenon DEF Multiplies, StartKnown, LadderKnown, ResultIsMultiple

(* The iterations of the inverse leave all but its own registers as they are.  *)
LEMMA InvertKept == ASSUME CallOK, Multiplies, Invert PROVE Multiplies'
<1>1. /\ pc = "invert" /\ pc' = pc /\ call' = call /\ key' = key /\ point' = point /\ scalar' = scalar
      /\ bit' = bit /\ R' = R
      /\ InversionStep
  BY DEF Invert, locals
<1>2. input # 0 /\ input' = input
  <2>1. input # 0
    BY <1>1, InvertedRegisters DEF Entered
  <2>. QED  BY <1>1, <2>1 DEF InversionStep, HalveA, HalveB, SubtractA, SubtractB
<1>3. CallKnown /\ InvertKnown
  BY Zenon DEF Multiplies
<1>4. CallKnown'
  BY <1>1, <1>3, Zenon DEF CallKnown
<1>5. nb' = nb
  BY <1>1, Zenon DEF nb
<1>6. InvertKnown'
  BY <1>1, <1>2, <1>3, <1>5, Zenon DEF InvertKnown
<1>7. ZeroKept'
  BY <1>2, Zenon DEF ZeroKept
<1>8. pc' # "double" /\ pc' # "ladder" /\ pc' # "done"
  BY <1>1
<1>. QED  BY <1>4, <1>6, <1>7, <1>8, Zenon DEF Multiplies, StartKnown, LadderKnown, ResultIsMultiple

(* A point whose x is 0 gives nothing to invert.                               *)
LEMMA NothingToInvert ==
  ASSUME NEW P \in Points, P.x = 0, NEW s \in 1..(n - 1), NEW e \in 1..(n - 1), NEW z \in 1..(p - 1)
  PROVE  ToInvert(P, s, e, z) = 0
<1>1. Multiple[P][e].x \in Int /\ Multiple[P][s].x \in Int /\ P.y \in Int
  BY MultiplesAdd, CurveNumbers, PointIsPt
<1>. DEFINE xe == Multiple[P][e].x
            xs == Multiple[P][s].x
            d == (xe - xs) * z * z * z
            c == P.y * P.x * z * z
<1>2. z \in Int
  BY SmallRemainders
<1>3. d \in Int
  <2>1. xe \in Int /\ xs \in Int
    BY <1>1
  <2>. HIDE DEF xe, xs
  <2>. QED  BY <1>2, <2>1
<1>4. c = 0
  <2>1. P.y * P.x = 0
    BY <1>1
  <2>. QED  BY <1>2, <2>1
<1>. HIDE DEF d
<1>5. d * c = 0
  <2>. HIDE DEF c
  <2>. QED  BY <1>3, <1>4
<1>6. ToInvert(P, s, e, z) = (d * c) % p
  BY Zenon DEF ToInvert, d, c
<1>. QED  BY <1>5, <1>6, SmallRemainders

(* A point A with the z that undoes its scale is the multiple, unless there    *)
(* was nothing to invert.                                                      *)
GivesMultiple(A, z, P, k, i) ==
  /\ P.x = 0 <=> i = 0
  /\ P.x # 0 => ApplyZ(A, z) = Multiple[P][k]

(* The last sum, with the z that the inverse gives, is the multiple of P by    *)
(* the key, for both of the last bits.                                         *)
LEMMA FinalMultiple ==
  ASSUME NEW P \in Points, NEW k \in 2..(n - 3), NEW Q, NEW T, NEW w \in Residues, NEW i \in Residues,
         (w * i) % p = 1
  PROVE  /\ EndsWith(Q, T, P, k, 1, i) =>
              GivesMultiple(XYcZAdd(Q, T)[1], ModMult(ModMult(w, P.y), T.x), P, k, i)
         /\ EndsWith(Q, T, P, k + 1, n - 1, i) =>
              GivesMultiple(XYcZAdd(Q, T)[2], ModMult(ModMult(w, P.y), T.x), P, k, i)
<1>. DEFINE final == ModMult(ModMult(w, P.y), T.x)
<1>1. n \in Nat /\ n >= 3
  BY CurveNumbers
<1>2. /\ k \in 1..(n - 1) /\ k + 1 \in 1..(n - 1) /\ 1 \in 1..(n - 1) /\ n - 1 \in 1..(n - 1)
      /\ k # 1 /\ k + 1 # n /\ k + 1 # n - 1 /\ k + 1 + (n - 1) # n
  BY <1>1
<1>3. (k + 1 + (n - 1)) % n = k
  <2>. DEFINE m == k + 1 + (n - 1)
  <2>1. m \in n..(2 * n - 1) /\ m - n = k
    BY <1>1
  <2>. HIDE DEF m
  <2>2. m % n = m - n
    BY <2>1, OrderRemainders, Zenon
  <2>. QED  BY <2>1, <2>2 DEF m
<1>4. Multiple[P][1].x = P.x /\ Multiple[P][n - 1].x = P.x
  BY <1>2, MultiplesAdd, Opposite
<1>5. ASSUME NEW s \in 1..(n - 1), NEW e \in 1..(n - 1), s # e, s + e # n, Multiple[P][e].x = P.x, EndsWith(Q, T, P, s, e, i)
      PROVE  /\ P.x = 0 <=> i = 0
             /\ P.x # 0 => ApplyZ(XYcZAdd(Q, T)[1], final) = Multiple[P][s]
             /\ P.x # 0 => ApplyZ(XYcZAdd(Q, T)[2], final) = Multiple[P][(s + e) % n]
  <2>1. PICK z \in 1..(p - 1) : /\ Q = Scaled(Multiple[P][s], z) /\ T = Scaled(Multiple[P][e], z)
                                /\ i = ToInvert(P, s, e, z)
    BY <1>5, Zenon DEF EndsWith
  <2>2. P.x = 0 => i = 0
    BY <2>1, NothingToInvert
  <2>3. CASE P.x # 0
    <3>1. ToInvert(P, s, e, z) # 0
      BY <1>5, <2>3, FinalPoints
    <3>2. (w * ToInvert(P, s, e, z)) % p = 1
      BY <2>1
    <3>3. /\ ApplyZ(XYcZAdd(Scaled(Multiple[P][s], z), Scaled(Multiple[P][e], z))[1],
                    ModMult(ModMult(w, P.y), Scaled(Multiple[P][e], z).x)) = Multiple[P][s]
          /\ ApplyZ(XYcZAdd(Scaled(Multiple[P][s], z), Scaled(Multiple[P][e], z))[2],
                    ModMult(ModMult(w, P.y), Scaled(Multiple[P][e], z).x)) = Multiple[P][(s + e) % n]
      BY <1>5, <2>3, <3>2, FinalPoints
    <3>. QED  BY <2>1, <2>3, <3>1, <3>3, Zenon
  <2>. QED  BY <2>2, <2>3
<1>6. EndsWith(Q, T, P, k, 1, i) =>
        /\ P.x = 0 <=> i = 0
        /\ P.x # 0 => ApplyZ(XYcZAdd(Q, T)[1], final) = Multiple[P][k]
  BY <1>2, <1>4, <1>5
<1>7. EndsWith(Q, T, P, k + 1, n - 1, i) =>
        /\ P.x = 0 <=> i = 0
        /\ P.x # 0 => ApplyZ(XYcZAdd(Q, T)[2], final) = Multiple[P][k]
  <2>. SUFFICES ASSUME EndsWith(Q, T, P, k + 1, n - 1, i)
                PROVE  /\ P.x = 0 <=> i = 0
                       /\ P.x # 0 => ApplyZ(XYcZAdd(Q, T)[2], final) = Multiple[P][k]
    OBVIOUS
  <2>1. /\ P.x = 0 <=> i = 0
        /\ P.x # 0 => ApplyZ(XYcZAdd(Q, T)[2], final) = Multiple[P][(k + 1 + (n - 1)) % n]
    BY <1>2, <1>4, <1>5
  <2>. QED  BY <1>3, <2>1, Zenon
<1>. QED  BY <1>6, <1>7, Zenon DEF GivesMultiple

LEMMA FinalAddKnown == ASSUME CallOK, Multiplies, InverseFound, FinalAdd PROVE Multiplies'
<1>. DEFINE final == ModMult(ModMult(u, point.y), R[1 - nb].x)
            sums == XYcZAdd(R[nb], R[1 - nb])
            last == IF nb = 0 THEN sums[1] ELSE sums[2]
<1>1. /\ pc = "invert" /\ InversionEnded /\ result' = ApplyZ(last, final)
      /\ ret' = IF result' = Zero THEN 0 ELSE 1
      /\ pc' \in {"retry", "done"} /\ call' = call /\ key' = key /\ point' = point
      /\ input' = input /\ u' = u
  BY DEF FinalAdd, locals, registers
<1>. HIDE DEF final, last
<1>2. /\ point \in Points /\ key \in 0..(n - 1)
      /\ call # "secret" => point = G
      /\ InvertKnown /\ ZeroKept
  BY <1>1, Zenon DEF Multiplies, CallKnown
<1>3. ZeroKept'
  BY <1>1, <1>2, Zenon DEF ZeroKept
<1>4. pc' # "double" /\ pc' # "ladder" /\ pc' # "invert"
  BY <1>1
<1>5. u \in Residues /\ input \in Residues
  BY DEF CallOK, TypeOK, RegistersReduced, Residues
<1>6. CASE input = 0
  <2>1. u = 0
    BY <1>2, <1>6, Zenon DEF ZeroKept
  <2>2. R[nb] \in Coordinates /\ R[1 - nb] \in Coordinates
    BY LadderPoints DEF CallOK
  <2>3. last \in Coordinates
    BY <2>2, AddClosed, Zenon DEF last
  <2>4. point.y \in Residues /\ R[1 - nb].x \in Residues
    BY <1>2, <2>2, CurveNumbers, CoordinatesAre
  <2>5. result' = Zero
    <3>1. ApplyZ(last, ModMult(ModMult(0, point.y), R[1 - nb].x)) = Zero
      BY <2>3, <2>4, FinalZero
    <3>. QED  BY <1>1, <2>1, <3>1, Zenon DEF final
  <2>6. ret' = 0
    BY <1>1, <2>5
  <2>7. key \in Exceptional \/ point.x = 0
    <3>1. ASSUME key \in 2..(n - 3), point.x # 0, NEW Q, NEW T,
                 EndsWith(Q, T, point, key, 1, input) \/ EndsWith(Q, T, point, key + 1, n - 1, input)
          PROVE  FALSE
      <4>1. n \in Nat /\ n >= 3 /\ key \in 1..(n - 1) /\ key + 1 \in 1..(n - 1) /\ 1 \in 1..(n - 1) /\ n - 1 \in 1..(n - 1)
            /\ key # 1 /\ key + 1 # n /\ key + 1 # n - 1 /\ key + 1 + (n - 1) # n
        BY <3>1, CurveNumbers
      <4>2. Multiple[point][1].x = point.x /\ Multiple[point][n - 1].x = point.x
        BY <1>2, <4>1, MultiplesAdd, Opposite
      <4>3. \A z \in 1..(p - 1) : ToInvert(point, key, 1, z) # 0
        BY <1>2, <3>1, <4>1, <4>2, FinalPoints
      <4>4. \A z \in 1..(p - 1) : ToInvert(point, key + 1, n - 1, z) # 0
        BY <1>2, <3>1, <4>1, <4>2, FinalPoints
      <4>. QED  BY <1>6, <3>1, <4>3, <4>4, Zenon DEF EndsWith
    <3>. QED  BY <1>1, <1>2, <3>1, Zenon DEF InvertKnown
  <2>8. ResultIsMultiple'
    BY <1>1, <2>6, <2>7, Zenon DEF ResultIsMultiple
  <2>. QED  BY <1>3, <1>4, <2>8, Zenon DEF Multiplies, CallKnown, StartKnown, LadderKnown, InvertKnown
<1>7. CASE input # 0
  <2>1. (u * input) % p = 1
    BY <1>1, <1>7 DEF InverseFound
  <2>2. /\ key \in 2..(n - 3)
        /\ \/ nb = 0 /\ EndsWith(R[0], R[1], point, key, 1, input)
           \/ nb = 1 /\ EndsWith(R[1], R[0], point, key + 1, n - 1, input)
    BY <1>1, <1>2, <1>7, Zenon DEF InvertKnown
  <2>9. ASSUME NEW Q, NEW T
        PROVE  /\ EndsWith(Q, T, point, key, 1, input) =>
                    GivesMultiple(XYcZAdd(Q, T)[1], ModMult(ModMult(u, point.y), T.x), point, key, input)
               /\ EndsWith(Q, T, point, key + 1, n - 1, input) =>
                    GivesMultiple(XYcZAdd(Q, T)[2], ModMult(ModMult(u, point.y), T.x), point, key, input)
    <3>1. point \in Points /\ key \in 2..(n - 3)
      BY <1>2, <2>2, Zenon
    <3>. QED  BY <1>5, <2>1, <3>1, FinalMultiple, Zenon
  <2>3. point.x # 0 /\ result' = Multiple[point][key]
    <3>1. CASE nb = 0 /\ EndsWith(R[0], R[1], point, key, 1, input)
      <4>1. R[nb] = R[0] /\ R[1 - nb] = R[1]
        BY <3>1
      <4>2. last = XYcZAdd(R[0], R[1])[1] /\ final = ModMult(ModMult(u, point.y), R[1].x)
        BY <3>1, <4>1 DEF last, final
      <4>3. /\ point.x = 0 <=> input = 0
            /\ point.x # 0 => ApplyZ(XYcZAdd(R[0], R[1])[1], ModMult(ModMult(u, point.y), R[1].x)) = Multiple[point][key]
        BY <2>9, <3>1, Zenon DEF GivesMultiple
      <4>. QED  BY <1>1, <1>7, <4>2, <4>3, Zenon
    <3>2. CASE nb = 1 /\ EndsWith(R[1], R[0], point, key + 1, n - 1, input)
      <4>1. R[nb] = R[1] /\ R[1 - nb] = R[0]
        BY <3>2
      <4>2. last = XYcZAdd(R[1], R[0])[2] /\ final = ModMult(ModMult(u, point.y), R[0].x)
        BY <3>2, <4>1 DEF last, final
      <4>3. /\ point.x = 0 <=> input = 0
            /\ point.x # 0 => ApplyZ(XYcZAdd(R[1], R[0])[2], ModMult(ModMult(u, point.y), R[0].x)) = Multiple[point][key]
        BY <2>9, <3>2, Zenon DEF GivesMultiple
      <4>. QED  BY <1>1, <1>7, <4>2, <4>3, Zenon
    <3>. QED  BY <2>2, <3>1, <3>2
  <2>4. /\ Multiple[point][key] # Zero /\ ValidPoint(Multiple[point][key])
        /\ point = G => ValidPublicKey(Multiple[point][key])
    BY <1>2, <2>2, MultipleIsValid
  <2>5. ret' = 1
    BY <1>1, <2>3, <2>4
  <2>6. key \in (0..(n - 1)) \ Exceptional
    <3>1. n \in Nat /\ n >= 3
      BY CurveNumbers
    <3>. QED  BY <1>2, <2>2, <3>1 DEF Exceptional
  <2>7. /\ ret' = 1 /\ result' = Multiple[point'][key'] /\ ValidPoint(result')
        /\ call' # "secret" => ValidPublicKey(result')
    BY <1>1, <1>2, <2>3, <2>4, <2>5, Zenon
  <2>8. ResultIsMultiple'
    BY <1>1, <2>3, <2>6, <2>7, Zenon DEF ResultIsMultiple
  <2>. QED  BY <1>3, <1>4, <2>8, Zenon DEF Multiplies, CallKnown, StartKnown, LadderKnown, InvertKnown
<1>. QED  BY <1>6, <1>7

LEMMA MultipliesInit == Init => Multiplies
<1>. SUFFICES ASSUME Init PROVE Multiplies
  OBVIOUS
<1>1. pc = "idle" /\ u = 0
  BY DEF Init
<1>2. pc # "double" /\ pc # "ladder" /\ pc # "invert" /\ pc # "done"
  BY <1>1
<1>. QED  BY <1>1, <1>2, Zenon DEF Multiplies, CallKnown, StartKnown, LadderKnown, InvertKnown, ZeroKept, ResultIsMultiple

LEMMA MultipliesStep == ASSUME CallOK, Multiplies, InverseFound, [Next]_vars PROVE Multiplies'
<1>1. ZeroKept
  BY Zenon DEF Multiplies
<1>2. CASE SharedSecret
  BY <1>2, SharedSecretKnown
<1>3. CASE ComputePublicKey
  BY <1>3, ComputePublicKeyKnown
<1>4. CASE MakeKey
  BY <1>1, <1>4, TryKeyKnown DEF MakeKey
<1>5. CASE RetryKey
  BY <1>1, <1>5, TryKeyKnown DEF RetryKey
<1>6. CASE FirstDouble
  BY <1>6, FirstDoubleKnown
<1>7. CASE LadderStep
  BY <1>7, LadderStepKnown
<1>8. CASE LastAddC
  BY <1>8, LastAddCKnown
<1>9. CASE Invert
  BY <1>9, InvertKept
<1>10. CASE FinalAdd
  BY <1>10, FinalAddKnown
<1>11. CASE Return
  <2>1. pc' = "idle" /\ u' = 0
    BY <1>11 DEF Return
  <2>2. pc' # "double" /\ pc' # "ladder" /\ pc' # "invert" /\ pc' # "done"
    BY <2>1
  <2>. QED  BY <2>1, <2>2, Zenon DEF Multiplies, CallKnown, StartKnown, LadderKnown, InvertKnown, ZeroKept, ResultIsMultiple
<1>12. CASE UNCHANGED vars
  <2>1. /\ pc' = pc /\ call' = call /\ key' = key /\ point' = point /\ initial_Z' = initial_Z /\ scalar' = scalar
        /\ bit' = bit /\ R' = R /\ input' = input /\ u' = u /\ result' = result /\ ret' = ret
    BY <1>12 DEF vars, locals, registers
  <2>2. CallKnown /\ StartKnown /\ LadderKnown /\ InvertKnown /\ ResultIsMultiple
    BY Zenon DEF Multiplies
  <2>3. CallKnown' /\ StartKnown' /\ ZeroKept'
    BY <1>1, <2>1, <2>2, Zenon DEF CallKnown, StartKnown, ZeroKept
  <2>4. LadderKnown'
    BY <2>1, <2>2, Zenon DEF LadderKnown, BrokenDown
  <2>5. InvertKnown'
    BY <2>1, <2>2, Zenon DEF InvertKnown, nb
  <2>6. ResultIsMultiple'
    BY <2>1, <2>2, Zenon DEF ResultIsMultiple
  <2>. QED  BY <2>3, <2>4, <2>5, <2>6, Zenon DEF Multiplies
<1>. QED  BY <1>2, <1>3, <1>4, <1>5, <1>6, <1>7, <1>8, <1>9, <1>10, <1>11, <1>12 DEF Next

(* The modulus of the curve is prime, as the inverse of modInv needs.          *)
LEMMA ModulusIsPrime == PrimeModulus
<1>. SUFFICES ASSUME NEW d \in 1..p, Divides(d, p) PROVE d \in {1, p}
  BY DEF PrimeModulus
<1>1. p \in Nat /\ p > 2
  BY SmallRemainders
<1>2. PICK k \in Int : p = d * k
  BY DEF Divides
<1>3. p = k * d + 0 /\ d \in Int /\ d > 0
  BY <1>1, <1>2
<1>4. p % d = 0
  BY <1>1, <1>3, DivisionIs
<1>5. d \notin 2..(p - 1)
  BY <1>4, CurveAssumption, Zenon
<1>. QED  BY <1>1, <1>5

LEMMA MultiplesKnown == ASSUME TypeOK, Multiplies PROVE LadderHoldsMultiples
<1>. DEFINE m == From(scalar, bit + 1)
            low == Multiple[point][m % n]
            high == Multiple[point][(m + 1) % n]
<1>. SUFFICES ASSUME pc = "ladder"
              PROVE  IF low = Infinity \/ high = Infinity
                     THEN bit = 0 /\ key \in Exceptional
                     ELSE \E z \in 1..(p - 1) : R[0] = Scaled(low, z) /\ R[1] = Scaled(high, z)
  <2>1. bit + 1 + 1 = bit + 2
    BY DEF TypeOK
  <2>2. Prefix = m
    BY <2>1, Zenon DEF Prefix, From
  <2>. QED  BY <2>2, Zenon DEF LadderHoldsMultiples
<1>1. point \in Points /\ (AreNeighbours(R[0], R[1], point, m) \/ BrokenDown)
  BY Zenon DEF Multiplies, CallKnown, LadderKnown
<1>2. CASE AreNeighbours(R[0], R[1], point, m)
  <2>1. m \in Nat /\ m % n # 0 /\ (m + 1) % n # 0
    BY <1>2, Zenon DEF AreNeighbours
  <2>2. PICK z \in 1..(p - 1) : R[0] = Scaled(low, z) /\ R[1] = Scaled(high, z)
    BY <1>2, Zenon DEF AreNeighbours
  <2>. HIDE DEF m
  <2>3. m % n \in 1..(n - 1) /\ (m + 1) % n \in 1..(n - 1)
    <3>1. m + 1 \in Nat /\ n \in Nat
      BY <2>1, CurveNumbers
    <3>2. m % n \in 0..(n - 1) /\ (m + 1) % n \in 0..(n - 1)
      BY <2>1, <3>1, OrderRemainders
    <3>. QED  BY <2>1, <3>1, <3>2
  <2>4. low # Infinity /\ high # Infinity
    BY <1>1, <2>3, MultiplesAdd, CurveNumbers
  <2>. QED  BY <2>2, <2>4, Zenon
<1>3. CASE BrokenDown
  <2>1. bit = 0 /\ key \in Exceptional /\ (m % n = 0 \/ (m + 1) % n = 0)
    <3>1. bit = 0 /\ bit + 1 = 1
      BY <1>3 DEF BrokenDown
    <3>. QED  BY <1>3, <3>1, Zenon DEF BrokenDown
  <2>2. low = Infinity \/ high = Infinity
    BY <1>1, <2>1, MultipleRecursion, Zenon
  <2>. QED  BY <2>1, <2>2, Zenon
<1>. QED  BY <1>1, <1>2, <1>3

(* The ladder of EccPoint_mult holds neighbouring multiples of the point at    *)
(* every step, with one z for both, for every key, every point and every z it  *)
(* starts with; it meets the point at infinity only before the last bit of an  *)
(* exceptional key.                                                            *)
THEOREM CallsHoldMultiples == Spec => []LadderHoldsMultiples
<1>1. CallOK /\ Multiplies => LadderHoldsMultiples
  BY MultiplesKnown DEF CallOK
<1>2. Spec => []InverseFound
  BY ModulusIsPrime, CallsInvert
<1>. QED  BY <1>1, <1>2, CallInit, CallStep, MultipliesInit, MultipliesStep, PTL DEF Spec

(* A call that succeeds has computed the multiple of the point by the key, and *)
(* it fails for exactly the exceptional keys, keys out of range and points     *)
(* with x = 0: on every curve of odd order over a prime of this shape.         *)
THEOREM CallsGiveMultiple == Spec => []ResultIsMultiple
<1>1. Multiplies => ResultIsMultiple
  BY Zenon DEF Multiplies
<1>2. Spec => []InverseFound
  BY ModulusIsPrime, CallsInvert
<1>. QED  BY <1>1, <1>2, CallInit, CallStep, MultipliesInit, MultipliesStep, PTL DEF Spec
=============================================================================
