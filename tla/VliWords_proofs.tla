---------------------------- MODULE VliWords_proofs ---------------------------
(* Proofs about module VliWords: the loops over words compute sums,            *)
(* differences, orders, halves, products and remainders, for every word size,  *)
(* every number of words and all their values.                                 *)
EXTENDS VliWords, Naturals_proofs, SequenceTheorems

-------------------------------------------------------------------------------
(* Powers                                                                      *)

(* The recursive function inside Powers, and what it gives.                    *)
PowersUpTo(base, last) ==
  CHOOSE g : g = [i \in 0 .. last |->
                    IF i = 0 THEN <<1>>
                    ELSE LET before == g[i - 1] IN Append(before, base * before[i])]

LEMMA PowersRecursion ==
  ASSUME NEW base, NEW last \in Nat
  PROVE  /\ Powers(base, last) = PowersUpTo(base, last)[last]
         /\ PowersUpTo(base, last)[0] = <<1>>
         /\ \A i \in 1 .. last : PowersUpTo(base, last)[i] =
              Append(PowersUpTo(base, last)[i - 1], base * PowersUpTo(base, last)[i - 1][i])
<1>. DEFINE D(before, i) == Append(before, base * before[i])
            h == CHOOSE g : g = [i \in 0 .. last |-> IF i = 0 THEN <<1>> ELSE Append(g[i - 1], base * g[i - 1][i])]
<1>1. FiniteNatInductiveDefHypothesis(h, <<1>>, D, 0, last)
  BY Zenon DEF FiniteNatInductiveDefHypothesis
<1>2. FiniteNatInductiveDefConclusion(h, <<1>>, D, 0, last)
  BY <1>1, FiniteNatInductiveDef
<1>3. h = [i \in 0 .. last |-> IF i = 0 THEN <<1>> ELSE Append(h[i - 1], base * h[i - 1][i])]
  BY <1>2, Zenon DEF FiniteNatInductiveDefConclusion
<1>. HIDE DEF h
<1>4. PowersUpTo(base, last) = [i \in 0 .. last |->
         IF i = 0 THEN <<1>>
         ELSE LET before == PowersUpTo(base, last)[i - 1] IN Append(before, base * before[i])]
  BY <1>3, Zenon DEF PowersUpTo
<1>5. Powers(base, last) = PowersUpTo(base, last)[last]
  BY Zenon DEF Powers, PowersUpTo
<1>6. PowersUpTo(base, last)[0] = <<1>>
  BY <1>4
<1>7. \A i \in 1 .. last : PowersUpTo(base, last)[i] =
        Append(PowersUpTo(base, last)[i - 1], base * PowersUpTo(base, last)[i - 1][i])
  <2>. SUFFICES ASSUME NEW i \in 1 .. last
                PROVE  PowersUpTo(base, last)[i] =
                         Append(PowersUpTo(base, last)[i - 1], base * PowersUpTo(base, last)[i - 1][i])
    OBVIOUS
  <2>1. i \in 0 .. last /\ i # 0
    OBVIOUS
  <2>. QED  BY <1>4, <2>1, Zenon
<1>. QED  BY <1>5, <1>6, <1>7

(* Each power is the base times the one before.                                *)
LEMMA PowersProperties ==
  ASSUME NEW base \in Nat, NEW last \in Nat
  PROVE  /\ Powers(base, last) \in Seq(Nat) /\ Len(Powers(base, last)) = last + 1
         /\ Powers(base, last)[1] = 1
         /\ \A i \in 1 .. last : Powers(base, last)[i + 1] = base * Powers(base, last)[i]
<1>. DEFINE f == PowersUpTo(base, last)
            Good(s, i) == /\ s \in Seq(Nat) /\ Len(s) = i + 1 /\ s[1] = 1
                          /\ \A j \in 1 .. i : s[j + 1] = base * s[j]
            T == {i \in 0 .. last : Good(f[i], i)}
<1>1. 0 \in T
  <2>1. Good(<<1>>, 0)
    OBVIOUS
  <2>2. f[0] = <<1>> /\ 0 \in 0 .. last
    BY PowersRecursion
  <2>. HIDE DEF Good, f
  <2>. QED  BY <2>1, <2>2
<1>2. ASSUME NEW i \in 0 .. (last - 1), i \in T  PROVE i + 1 \in T
  <2>. DEFINE s == f[i]
              x == base * s[i + 1]
  <2>1. Good(s, i)
    BY <1>2
  <2>2. f[i + 1] = Append(s, x)
    <3>1. i + 1 \in 1 .. last /\ (i + 1) - 1 = i
      OBVIOUS
    <3>2. f[i + 1] = Append(f[(i + 1) - 1], base * f[(i + 1) - 1][i + 1])
      BY <3>1, PowersRecursion, Zenon
    <3>. QED  BY <3>1, <3>2
  <2>3. x \in Nat /\ x = base * s[i + 1]
    <3>1. s[i + 1] \in Nat
      BY <2>1
    <3>. QED  BY <3>1
  <2>. HIDE DEF f, x, s
  <2>4. Good(Append(s, x), i + 1)
    <3>1. Append(s, x) \in Seq(Nat) /\ Len(Append(s, x)) = (i + 1) + 1 /\ Append(s, x)[i + 2] = x
          /\ \A j \in 1 .. (i + 1) : Append(s, x)[j] = s[j]
      BY <2>1, <2>3
    <3>2. \A j \in 1 .. (i + 1) : Append(s, x)[j + 1] = base * Append(s, x)[j]
      <4>. SUFFICES ASSUME NEW j \in 1 .. (i + 1) PROVE Append(s, x)[j + 1] = base * Append(s, x)[j]
        OBVIOUS
      <4>1. CASE j = i + 1
        BY <2>3, <3>1, <4>1
      <4>2. CASE j # i + 1
        <5>1. j \in 1 .. i /\ j + 1 \in 1 .. (i + 1)
          BY <4>2
        <5>. QED  BY <2>1, <3>1, <5>1
      <4>. QED  BY <4>1, <4>2
    <3>3. Append(s, x)[1] = 1
      BY <2>1, <3>1
    <3>. QED  BY <3>1, <3>2, <3>3
  <2>5. i + 1 \in 0 .. last
    OBVIOUS
  <2>. HIDE DEF Good
  <2>. QED  BY <2>2, <2>4, <2>5
<1>. HIDE DEF T
<1>3. 0 .. last \subseteq T
  BY <1>1, <1>2, IntervalInductive
<1>4. Good(f[last], last)
  BY <1>3 DEF T
<1>. QED  BY <1>4, PowersRecursion

-------------------------------------------------------------------------------
(* What the words of a number count for                                        *)

Weight(i) == WordPower[i]
Digit == 0 .. (WordBase - 1)

(* Words of the lengths that occur.                                            *)
Words(k) == {w \in Seq(Digit) : Len(w) = k}

LEMMA WordsNumbers ==
  /\ WordBase \in Nat /\ WordBase >= 2 /\ WordBase % 2 = 0 /\ WordBits \in Nat /\ WordBits >= 1
  /\ NumWords \in Nat /\ NumWords >= 1 /\ 2 * NumWords \in Nat /\ NumWords <= WordBase
<1>1. WordBits \in Nat /\ WordBits >= 1 /\ NumWords \in Nat /\ NumWords >= 1 /\ NumWords <= WordBase
      /\ WordBase = Powers(2, WordBits)[WordBits + 1]
  BY VliWordsAssumption
<1>. DEFINE s == Powers(2, WordBits)
<1>2. s \in Seq(Nat) /\ Len(s) = WordBits + 1 /\ s[1] = 1 /\ \A i \in 1 .. WordBits : s[i + 1] = 2 * s[i]
  BY <1>1, PowersProperties
<1>. DEFINE T == {i \in 1 .. (WordBits + 1) : s[i] >= 1}
<1>. HIDE DEF s
<1>3. 1 .. (WordBits + 1) \subseteq T
  <2>1. 1 \in T
    BY <1>1, <1>2
  <2>2. ASSUME NEW i \in 1 .. ((WordBits + 1) - 1), i \in T PROVE i + 1 \in T
    <3>1. i \in 1 .. WordBits /\ i + 1 \in 1 .. (WordBits + 1) /\ s[i] >= 1 /\ s[i] \in Nat /\ s[i + 1] = 2 * s[i]
      BY <1>1, <1>2, <2>2
    <3>. QED  BY <3>1
  <2>. HIDE DEF T
  <2>. QED  BY <1>1, <2>1, <2>2, IntervalInductive
<1>4. s[WordBits] \in Nat /\ s[WordBits] >= 1 /\ s[WordBits + 1] = 2 * s[WordBits]
  <2>1. WordBits \in 1 .. (WordBits + 1) /\ WordBits \in 1 .. WordBits
    BY <1>1
  <2>. QED  BY <1>2, <1>3, <2>1
<1>5. \A x \in Nat : (2 * x) % 2 = 0
  OBVIOUS
<1>6. WordBase = 2 * s[WordBits]
  BY <1>1, <1>4 DEF s
<1>. QED  BY <1>1, <1>4, <1>5, <1>6

LEMMA Weights ==
  /\ Weight(1) = 1
  /\ \A i \in 1 .. (2 * NumWords) : Weight(i + 1) = WordBase * Weight(i)
  /\ \A i \in 1 .. (2 * NumWords + 1) : Weight(i) \in Nat /\ Weight(i) >= 1
<1>1. /\ WordPower \in Seq(Nat) /\ Len(WordPower) = 2 * NumWords + 1 /\ WordPower[1] = 1
      /\ \A i \in 1 .. (2 * NumWords) : WordPower[i + 1] = WordBase * WordPower[i]
  BY WordsNumbers, PowersProperties DEF WordPower
<1>2. \A i \in 1 .. (2 * NumWords + 1) : WordPower[i] \in Nat
  BY <1>1
<1>. DEFINE T == {i \in 1 .. (2 * NumWords + 1) : WordPower[i] >= 1}
<1>3. 1 .. (2 * NumWords + 1) \subseteq T
  <2>1. 1 \in T
    BY <1>1, WordsNumbers
  <2>2. ASSUME NEW i \in 1 .. ((2 * NumWords + 1) - 1), i \in T PROVE i + 1 \in T
    <3>1. i \in 1 .. (2 * NumWords) /\ i + 1 \in 1 .. (2 * NumWords + 1) /\ WordPower[i] >= 1 /\ WordPower[i] \in Nat
          /\ WordPower[i + 1] = WordBase * WordPower[i]
      BY <1>1, <1>2, <2>2, WordsNumbers
    <3>2. WordBase * WordPower[i] >= 1
      BY <3>1, WordsNumbers
    <3>. QED  BY <3>1, <3>2
  <2>. HIDE DEF T
  <2>3. 1 \in Int /\ 2 * NumWords + 1 \in Int
    BY WordsNumbers
  <2>. QED  BY <2>1, <2>2, <2>3, IntervalInductive
<1>. QED  BY <1>1, <1>2, <1>3 DEF Weight

-------------------------------------------------------------------------------
(* The value of a tuple of words                                               *)

(* The value of its first words.                                               *)
PartValue(words) ==
  CHOOSE g : g = [i \in 0 .. Len(words) |-> IF i = 0 THEN 0 ELSE g[i - 1] + words[i] * WordPower[i]]

LEMMA PartValueRecursion ==
  ASSUME NEW words, Len(words) \in Nat
  PROVE  /\ ValueOf(words) = PartValue(words)[Len(words)]
         /\ PartValue(words)[0] = 0
         /\ \A i \in 1 .. Len(words) : PartValue(words)[i] = PartValue(words)[i - 1] + words[i] * Weight(i)
<1>. DEFINE D(before, i) == before + words[i] * WordPower[i]
            last == Len(words)
            h == CHOOSE g : g = [i \in 0 .. last |-> IF i = 0 THEN 0 ELSE g[i - 1] + words[i] * WordPower[i]]
<1>1. FiniteNatInductiveDefHypothesis(h, 0, D, 0, last)
  BY Zenon DEF FiniteNatInductiveDefHypothesis
<1>2. FiniteNatInductiveDefConclusion(h, 0, D, 0, last)
  BY <1>1, FiniteNatInductiveDef
<1>3. h = [i \in 0 .. last |-> IF i = 0 THEN 0 ELSE h[i - 1] + words[i] * WordPower[i]]
  BY <1>2, Zenon DEF FiniteNatInductiveDefConclusion
<1>4. PartValue(words) = [i \in 0 .. last |-> IF i = 0 THEN 0 ELSE PartValue(words)[i - 1] + words[i] * WordPower[i]]
  BY <1>3, Zenon DEF PartValue
<1>5. ValueOf(words) = PartValue(words)[last]
  BY Zenon DEF ValueOf, PartValue
<1>6. 0 \in 0 .. last /\ \A i \in 1 .. last : i \in 0 .. last /\ i # 0
  OBVIOUS
<1>. HIDE DEF h, D
<1>7. PartValue(words)[0] = 0
  BY <1>4, <1>6, Zenon
<1>8. \A i \in 1 .. last : PartValue(words)[i] = PartValue(words)[i - 1] + words[i] * WordPower[i]
  BY <1>4, <1>6, Zenon
<1>. QED  BY <1>5, <1>7, <1>8 DEF Weight

(* It is a natural number, and below what the next word counts for.            *)
LEMMA PartValueRange ==
  ASSUME NEW k \in 0 .. (2 * NumWords), NEW words \in Words(k), NEW i \in 0 .. k
  PROVE  PartValue(words)[i] \in 0 .. (Weight(i + 1) - 1)
<1>. DEFINE v == PartValue(words)
            T == {j \in 0 .. k : v[j] \in 0 .. (Weight(j + 1) - 1)}
<1>1. k \in Nat /\ Len(words) = k /\ k <= 2 * NumWords /\ \A j \in 1 .. k : words[j] \in Digit
  BY WordsNumbers DEF Words
<1>2. v[0] = 0 /\ \A j \in 1 .. k : v[j] = v[j - 1] + words[j] * Weight(j)
  BY <1>1, PartValueRecursion
<1>. HIDE DEF v
<1>3. 0 \in T
  BY <1>1, <1>2, Weights, WordsNumbers
<1>4. ASSUME NEW j \in 0 .. (k - 1), j \in T PROVE j + 1 \in T
  <2>. DEFINE w == Weight(j + 1)
              d == words[j + 1]
  <2>1. j + 1 \in 1 .. (2 * NumWords) /\ j + 1 \in 1 .. k /\ (j + 1) - 1 = j /\ (j + 1) + 1 = j + 2 /\ j + 1 \in 0 .. k
    BY <1>1, WordsNumbers
  <2>2. w \in Nat /\ w >= 1 /\ Weight(j + 2) = WordBase * w
    <3>1. j + 1 \in 1 .. (2 * NumWords + 1)
      BY <2>1, WordsNumbers
    <3>. QED  BY <2>1, <3>1, Weights
  <2>3. d \in Nat /\ d <= WordBase - 1
    BY <1>1, <2>1, WordsNumbers DEF Digit
  <2>4. v[j + 1] = v[j] + d * w /\ v[j] \in Nat /\ v[j] <= w - 1
    BY <1>2, <1>4, <2>1, <2>2
  <2>. HIDE DEF w, d
  <2>5. d * w \in Nat /\ d * w <= (WordBase - 1) * w
    BY <2>2, <2>3, WordsNumbers
  <2>6. (WordBase - 1) * w = WordBase * w - w
    BY <2>2, WordsNumbers
  <2>7. v[j + 1] \in 0 .. (Weight(j + 2) - 1)
    <3>1. WordBase * w \in Nat
      BY <2>2, WordsNumbers
    <3>. QED  BY <2>2, <2>4, <2>5, <2>6, <3>1
  <2>. QED  BY <2>1, <2>7
<1>. HIDE DEF T
<1>5. 0 .. k \subseteq T
  BY <1>1, <1>3, <1>4, IntervalInductive
<1>. QED  BY <1>5 DEF T, v

(* So is the value of all of them.                                             *)
LEMMA ValueRange ==
  ASSUME NEW k \in 0 .. (2 * NumWords), NEW words \in Words(k)
  PROVE  ValueOf(words) \in 0 .. (Weight(k + 1) - 1) /\ ValueOf(words) = PartValue(words)[k]
<1>1. Len(words) = k /\ k \in Nat /\ k \in 0 .. k
  BY WordsNumbers DEF Words
<1>2. ValueOf(words) = PartValue(words)[k]
  BY <1>1, PartValueRecursion
<1>. QED  BY <1>1, <1>2, PartValueRange

(* The value of some first words only depends on these.                        *)
LEMMA PartValueSame ==
  ASSUME NEW k \in Nat, NEW u, NEW v, Len(u) \in Nat, Len(v) \in Nat, k <= Len(u), k <= Len(v),
         \A i \in 1 .. k : u[i] = v[i]
  PROVE  PartValue(u)[k] = PartValue(v)[k]
<1>. DEFINE f == PartValue(u)
            g == PartValue(v)
            T == {i \in 0 .. k : f[i] = g[i]}
<1>1. /\ f[0] = 0 /\ \A i \in 1 .. Len(u) : f[i] = f[i - 1] + u[i] * Weight(i)
      /\ g[0] = 0 /\ \A i \in 1 .. Len(v) : g[i] = g[i - 1] + v[i] * Weight(i)
  BY PartValueRecursion
<1>. HIDE DEF f, g
<1>2. 0 \in T
  BY <1>1
<1>3. ASSUME NEW i \in 0 .. (k - 1), i \in T PROVE i + 1 \in T
  <2>1. i + 1 \in 1 .. k /\ i + 1 \in 1 .. Len(u) /\ i + 1 \in 1 .. Len(v) /\ (i + 1) - 1 = i /\ i + 1 \in 0 .. k
    OBVIOUS
  <2>2. f[i + 1] = f[i] + u[i + 1] * Weight(i + 1) /\ g[i + 1] = g[i] + v[i + 1] * Weight(i + 1)
    BY <1>1, <2>1
  <2>3. f[i] = g[i] /\ u[i + 1] = v[i + 1]
    BY <1>3, <2>1
  <2>. QED  BY <2>1, <2>2, <2>3
<1>. HIDE DEF T
<1>4. 0 .. k \subseteq T
  <2>1. 0 \in Int /\ k \in Int
    OBVIOUS
  <2>. QED  BY <1>2, <1>3, <2>1, IntervalInductive
<1>5. k \in 0 .. k
  OBVIOUS
<1>. QED  BY <1>4, <1>5 DEF T, f, g

(* One more word adds what it counts for.                                      *)
LEMMA ValueAppend ==
  ASSUME NEW k \in 0 .. (2 * NumWords - 1), NEW words \in Words(k), NEW d \in Digit
  PROVE  /\ Append(words, d) \in Words(k + 1)
         /\ ValueOf(Append(words, d)) = ValueOf(words) + d * Weight(k + 1)
<1>. DEFINE t == Append(words, d)
<1>1. k \in Nat /\ Len(words) = k /\ words \in Seq(Digit)
  BY WordsNumbers DEF Words
<1>2. t \in Seq(Digit) /\ Len(t) = k + 1 /\ t[k + 1] = d /\ \A i \in 1 .. k : t[i] = words[i]
  BY <1>1
<1>. HIDE DEF t
<1>3. k + 1 \in 1 .. Len(t) /\ (k + 1) - 1 = k /\ Len(t) \in Nat
  BY <1>1, <1>2
<1>4. ValueOf(t) = PartValue(t)[k] + t[k + 1] * Weight(k + 1)
  BY <1>2, <1>3, PartValueRecursion
<1>5. PartValue(t)[k] = PartValue(words)[k]
  <2>1. k <= Len(t) /\ k <= Len(words)
    BY <1>1, <1>2
  <2>. QED  BY <1>1, <1>2, <1>3, <2>1, PartValueSame
<1>6. ValueOf(words) = PartValue(words)[k]
  BY <1>1, PartValueRecursion
<1>7. t \in Words(k + 1)
  BY <1>2 DEF Words
<1>. QED  BY <1>2, <1>4, <1>5, <1>6, <1>7 DEF t

-------------------------------------------------------------------------------
(* Numbers as words                                                            *)

(* Dividing twice is dividing by the product.                                  *)
LEMMA DivisionTwice ==
  ASSUME NEW x \in Int, NEW d \in Nat, d >= 1, NEW e \in Nat, e >= 1
  PROVE  /\ e * d \in Nat /\ e * d >= 1
         /\ x \div (e * d) = (x \div d) \div e
         /\ x % (e * d) = (x % d) + ((x \div d) % e) * d
<1>. DEFINE q == x \div d
            r == x % d
            k == q \div e
            s == q % e
<1>1. q \in Int /\ r \in 0 .. (d - 1) /\ x = q * d + r
  BY Division
<1>2. k \in Int /\ s \in 0 .. (e - 1) /\ q = k * e + s
  BY <1>1, Division
<1>. HIDE DEF q, r, k, s
<1>3. e * d \in Nat /\ e * d >= 1
  OBVIOUS
<1>4. s * d \in Nat /\ s * d <= (e - 1) * d
  BY <1>2
<1>5. (e - 1) * d = e * d - d
  OBVIOUS
<1>6. r + s * d \in 0 .. (e * d - 1)
  BY <1>1, <1>3, <1>4, <1>5
<1>7. x = k * (e * d) + (r + s * d)
  <2>1. (k * e + s) * d = (k * e) * d + s * d
    BY <1>2
  <2>2. (k * e) * d = k * (e * d)
    BY <1>2
  <2>3. (k * e) * d \in Int /\ s * d \in Int /\ r \in Int
    BY <1>1, <1>2
  <2>. QED  BY <1>1, <1>2, <2>1, <2>2, <2>3
<1>8. x \div (e * d) = k /\ x % (e * d) = r + s * d
  BY <1>2, <1>3, <1>6, <1>7, DivisionIs
<1>. QED  BY <1>3, <1>8 DEF q, r, k, s

(* The first i words of a number are its remainder by what word i + 1 counts.  *)
LEMMA WordsOfNumber ==
  ASSUME NEW k \in 0 .. (2 * NumWords), NEW x \in Nat
  PROVE  LET t == [i \in 1 .. k |-> (x \div WordPower[i]) % WordBase]
         IN  t \in Words(k) /\ \A i \in 0 .. k : PartValue(t)[i] = x % Weight(i + 1)
<1>. DEFINE t == [i \in 1 .. k |-> (x \div WordPower[i]) % WordBase]
            v == PartValue(t)
            T == {i \in 0 .. k : v[i] = x % Weight(i + 1)}
<1>1. k \in Nat /\ \A i \in 1 .. k : i \in 1 .. (2 * NumWords) /\ i \in 1 .. (2 * NumWords + 1)
  BY WordsNumbers
<1>2. \A i \in 1 .. k : /\ (x \div Weight(i)) % WordBase \in Digit
                        /\ Weight(i) \in Nat /\ Weight(i) >= 1
  <2>. SUFFICES ASSUME NEW i \in 1 .. k
                PROVE  (x \div Weight(i)) % WordBase \in Digit /\ Weight(i) \in Nat /\ Weight(i) >= 1
    OBVIOUS
  <2>1. Weight(i) \in Nat /\ Weight(i) >= 1
    BY <1>1, Weights
  <2>2. x \div Weight(i) \in Int
    BY <2>1, Division
  <2>3. (x \div Weight(i)) % WordBase \in 0 .. (WordBase - 1)
    BY <2>2, Division, WordsNumbers
  <2>. QED  BY <2>1, <2>3 DEF Digit
<1>3. t \in Seq(Digit) /\ Len(t) = k /\ \A i \in 1 .. k : t[i] = (x \div Weight(i)) % WordBase
  BY <1>1, <1>2 DEF Weight
<1>. HIDE DEF t
<1>4. v[0] = 0 /\ \A i \in 1 .. k : v[i] = v[i - 1] + t[i] * Weight(i)
  BY <1>1, <1>3, PartValueRecursion
<1>. HIDE DEF v
<1>5. 0 \in T
  BY <1>1, <1>4, Weights
<1>6. ASSUME NEW i \in 0 .. (k - 1), i \in T PROVE i + 1 \in T
  <2>. DEFINE w == Weight(i + 1)
  <2>1. i + 1 \in 1 .. k /\ (i + 1) - 1 = i /\ (i + 1) + 1 = i + 2 /\ i + 1 \in 0 .. k
    BY <1>1
  <2>2. w \in Nat /\ w >= 1 /\ Weight(i + 2) = WordBase * w
    BY <1>1, <1>2, <2>1, Weights
  <2>3. v[i + 1] = v[i] + ((x \div w) % WordBase) * w
    BY <1>3, <1>4, <2>1
  <2>4. v[i] = x % w
    BY <1>6
  <2>. HIDE DEF w
  <2>5. x % (WordBase * w) = (x % w) + ((x \div w) % WordBase) * w
    <3>1. x \in Int /\ w \in Nat /\ w >= 1 /\ WordBase \in Nat /\ WordBase >= 1
      BY <2>2, WordsNumbers
    <3>. QED  BY <3>1, DivisionTwice, Zenon
  <2>. QED  BY <2>1, <2>2, <2>3, <2>4, <2>5
<1>. HIDE DEF T
<1>7. 0 .. k \subseteq T
  BY <1>1, <1>5, <1>6, IntervalInductive
<1>8. t \in Words(k)
  BY <1>3 DEF Words
<1>. QED  BY <1>7, <1>8 DEF T, v, t

Total == Weight(NumWords + 1)

(* The words of a number that fits have its value; and so have twice as many.  *)
LEMMA WordsHoldNumber ==
  /\ \A x \in Nat : ToWords(x) \in Words(NumWords) /\ DoubleWords(x) \in Words(2 * NumWords)
  /\ \A x \in 0 .. (Total - 1) : ValueOf(ToWords(x)) = x
  /\ \A x \in 0 .. (Weight(2 * NumWords + 1) - 1) : ValueOf(DoubleWords(x)) = x
<1>1. ASSUME NEW k \in {NumWords, 2 * NumWords}, NEW x \in Nat
      PROVE  LET t == [i \in 1 .. k |-> (x \div WordPower[i]) % WordBase]
             IN  t \in Words(k) /\ (x < Weight(k + 1) => ValueOf(t) = x)
  <2>. DEFINE t == [i \in 1 .. k |-> (x \div WordPower[i]) % WordBase]
  <2>1. k \in 0 .. (2 * NumWords) /\ k \in 0 .. k /\ k + 1 \in 1 .. (2 * NumWords + 1)
    BY WordsNumbers
  <2>2. t \in Words(k) /\ PartValue(t)[k] = x % Weight(k + 1)
    BY <2>1, WordsOfNumber
  <2>. HIDE DEF t
  <2>3. ValueOf(t) = x % Weight(k + 1)
    BY <2>1, <2>2, ValueRange
  <2>4. x < Weight(k + 1) => x % Weight(k + 1) = x
    BY <2>1, Weights
  <2>. QED  BY <2>2, <2>3, <2>4 DEF t
<1>2. Total \in Nat /\ Weight(2 * NumWords + 1) \in Nat
  BY Weights, WordsNumbers DEF Total
<1>3. \A x \in Nat : ToWords(x) = [i \in 1 .. NumWords |-> (x \div WordPower[i]) % WordBase]
  BY DEF ToWords, Index
<1>4. \A x \in Nat : DoubleWords(x) = [i \in 1 .. (2 * NumWords) |-> (x \div WordPower[i]) % WordBase]
  BY DEF DoubleWords
<1>5. ASSUME NEW x \in Nat
      PROVE  /\ ToWords(x) \in Words(NumWords) /\ DoubleWords(x) \in Words(2 * NumWords)
             /\ x < Total => ValueOf(ToWords(x)) = x
             /\ x < Weight(2 * NumWords + 1) => ValueOf(DoubleWords(x)) = x
  BY <1>1, <1>3, <1>4 DEF Total
<1>. QED  BY <1>2, <1>5

-------------------------------------------------------------------------------
(* Sums and differences                                                        *)

(* What one word carries is what all the words so far carry.                   *)
LEMMA Carrying ==
  ASSUME NEW w \in Int, NEW base \in Int, NEW d \in Int, NEW above \in Int, NEW x \in Int, NEW c \in Int,
         d + above * base = x + c
  PROVE  d * w + above * (base * w) = x * w + c * w
<1>1. (d + above * base) * w = (x + c) * w
  OBVIOUS
<1>2. (x + c) * w = x * w + c * w
  OBVIOUS
<1>3. (d + above * base) * w = d * w + (above * base) * w
  OBVIOUS
<1>4. (above * base) * w = above * (base * w)
  OBVIOUS
<1>. QED  BY <1>1, <1>2, <1>3, <1>4

(* The carry out of a word is told by comparing the sum with the old word.     *)
LEMMA AddDigit ==
  ASSUME NEW x \in Digit, NEW y \in Digit, NEW c \in {0, 1}
  PROVE  LET sum == (x + y + c) % WordBase
             carry == IF sum = x THEN c ELSE IF sum < x THEN 1 ELSE 0
         IN  sum \in Digit /\ carry \in {0, 1} /\ sum + carry * WordBase = x + y + c
<1>. DEFINE sum == (x + y + c) % WordBase
            carry == IF sum = x THEN c ELSE IF sum < x THEN 1 ELSE 0
<1>1. /\ x \in Nat /\ y \in Nat /\ x <= WordBase - 1 /\ y <= WordBase - 1 /\ c \in Nat /\ c <= 1
      /\ WordBase \in Nat /\ WordBase >= 2
  BY WordsNumbers DEF Digit
<1>2. CASE x + y + c < WordBase
  <2>1. sum = x + y + c
    BY <1>1, <1>2
  <2>. HIDE DEF sum
  <2>2. carry = 0
    BY <1>1, <2>1
  <2>. QED  BY <1>1, <1>2, <2>1, <2>2 DEF Digit, sum
<1>3. CASE x + y + c >= WordBase
  <2>1. x + y + c = 1 * WordBase + (x + y + c - WordBase) /\ x + y + c - WordBase \in 0 .. (WordBase - 1)
    BY <1>1, <1>3
  <2>2. sum = x + y + c - WordBase
    BY <1>1, <2>1, DivisionIs
  <2>. HIDE DEF sum
  <2>3. carry = 1
    BY <1>1, <2>2
  <2>. QED  BY <1>1, <2>1, <2>2, <2>3 DEF Digit, sum
<1>. QED  BY <1>1, <1>2, <1>3

LEMMA SubDigit ==
  ASSUME NEW x \in Digit, NEW y \in Digit, NEW c \in {0, 1}
  PROVE  LET diff == (x - y - c) % WordBase
             borrow == IF diff = x THEN c ELSE IF diff > x THEN 1 ELSE 0
         IN  diff \in Digit /\ borrow \in {0, 1} /\ diff + y + c = x + borrow * WordBase
<1>. DEFINE diff == (x - y - c) % WordBase
            borrow == IF diff = x THEN c ELSE IF diff > x THEN 1 ELSE 0
<1>1. /\ x \in Nat /\ y \in Nat /\ x <= WordBase - 1 /\ y <= WordBase - 1 /\ c \in Nat /\ c <= 1
      /\ WordBase \in Nat /\ WordBase >= 2
  BY WordsNumbers DEF Digit
<1>2. CASE x - y - c >= 0
  <2>1. diff = x - y - c
    BY <1>1, <1>2
  <2>. HIDE DEF diff
  <2>2. borrow = 0
    BY <1>1, <2>1
  <2>. QED  BY <1>1, <1>2, <2>1, <2>2 DEF Digit, diff
<1>3. CASE x - y - c < 0
  <2>1. x - y - c = (-1) * WordBase + (x - y - c + WordBase) /\ x - y - c + WordBase \in 0 .. (WordBase - 1)
    BY <1>1, <1>3
  <2>2. diff = x - y - c + WordBase
    BY <1>1, <2>1, DivisionIs
  <2>. HIDE DEF diff
  <2>3. borrow = 1
    BY <1>1, <2>2
  <2>. QED  BY <1>1, <2>1, <2>2, <2>3 DEF Digit, diff
<1>. QED  BY <1>1, <1>2, <1>3

(* The function in AddWords, word by word.                                     *)
Adding(left, right) ==
  CHOOSE g : g =
    [i \in 0 .. NumWords |->
        IF i = 0 THEN [words |-> <<>>, carry |-> 0]
        ELSE LET before == g[i - 1]
                 sum == (left[i] + right[i] + before.carry) % WordBase
             IN  [words |-> Append(before.words, sum),
                  carry |-> IF sum = left[i] THEN before.carry
                            ELSE IF sum < left[i] THEN 1 ELSE 0]]

AddStep(before, x, y) ==
  LET sum == (x + y + before.carry) % WordBase
  IN  [words |-> Append(before.words, sum),
       carry |-> IF sum = x THEN before.carry ELSE IF sum < x THEN 1 ELSE 0]

LEMMA AddingRecursion ==
  ASSUME NEW left, NEW right
  PROVE  /\ AddWords(left, right) = Adding(left, right)[NumWords]
         /\ Adding(left, right)[0] = [words |-> <<>>, carry |-> 0]
         /\ \A i \in 1 .. NumWords : Adding(left, right)[i] = AddStep(Adding(left, right)[i - 1], left[i], right[i])
<1>. DEFINE D(before, i) == AddStep(before, left[i], right[i])
            zero == [words |-> <<>>, carry |-> 0]
            h == CHOOSE g : g = [i \in 0 .. NumWords |-> IF i = 0 THEN zero ELSE D(g[i - 1], i)]
<1>1. FiniteNatInductiveDefHypothesis(h, zero, D, 0, NumWords)
  BY Zenon DEF FiniteNatInductiveDefHypothesis
<1>2. FiniteNatInductiveDefConclusion(h, zero, D, 0, NumWords)
  BY <1>1, WordsNumbers, FiniteNatInductiveDef
<1>3. h = [i \in 0 .. NumWords |-> IF i = 0 THEN zero ELSE D(h[i - 1], i)]
  BY <1>2, Zenon DEF FiniteNatInductiveDefConclusion
<1>4. Adding(left, right) = [i \in 0 .. NumWords |-> IF i = 0 THEN zero ELSE D(Adding(left, right)[i - 1], i)]
  BY <1>3, Zenon DEF Adding, AddStep
<1>5. AddWords(left, right) = Adding(left, right)[NumWords]
  BY Zenon DEF AddWords, Adding
<1>6. 0 \in 0 .. NumWords /\ \A i \in 1 .. NumWords : i \in 0 .. NumWords /\ i # 0
  BY WordsNumbers
<1>. HIDE DEF h, D, zero
<1>7. Adding(left, right)[0] = zero
  BY <1>4, <1>6, Zenon
<1>8. \A i \in 1 .. NumWords : Adding(left, right)[i] = D(Adding(left, right)[i - 1], i)
  BY <1>4, <1>6, Zenon
<1>. QED  BY <1>5, <1>7, <1>8 DEF D, zero

(* uECC_vli_add: the words and the carry are the sum.                          *)
THEOREM AddWordsIsSum ==
  ASSUME NEW left \in Words(NumWords), NEW right \in Words(NumWords)
  PROVE  LET sum == AddWords(left, right)
         IN  /\ sum.words \in Words(NumWords) /\ sum.carry \in {0, 1}
             /\ ValueOf(sum.words) + sum.carry * Total = ValueOf(left) + ValueOf(right)
<1>. DEFINE f == Adding(left, right)
            L == PartValue(left)
            R == PartValue(right)
            Good(s, i) == /\ s.words \in Words(i) /\ s.carry \in {0, 1}
                          /\ ValueOf(s.words) + s.carry * Weight(i + 1) = L[i] + R[i]
            T == {i \in 0 .. NumWords : Good(f[i], i)}
<1>1. /\ f[0] = [words |-> <<>>, carry |-> 0]
      /\ \A i \in 1 .. NumWords : f[i] = AddStep(f[i - 1], left[i], right[i])
      /\ AddWords(left, right) = f[NumWords]
  BY AddingRecursion
<1>2. Len(left) = NumWords /\ Len(right) = NumWords /\ \A i \in 1 .. NumWords : left[i] \in Digit /\ right[i] \in Digit
  BY WordsNumbers DEF Words
<1>3. /\ L[0] = 0 /\ \A i \in 1 .. NumWords : L[i] = L[i - 1] + left[i] * Weight(i)
      /\ R[0] = 0 /\ \A i \in 1 .. NumWords : R[i] = R[i - 1] + right[i] * Weight(i)
  BY <1>2, WordsNumbers, PartValueRecursion
<1>4. \A i \in 0 .. NumWords : L[i] \in Nat /\ R[i] \in Nat
  <2>1. NumWords \in 0 .. (2 * NumWords) /\ \A i \in 0 .. NumWords : i + 1 \in 1 .. (2 * NumWords + 1)
    BY WordsNumbers
  <2>. QED  BY <2>1, PartValueRange, Weights
<1>. HIDE DEF f, L, R
<1>5. 0 \in T
  <2>1. <<>> \in Words(0) /\ ValueOf(<<>>) = 0
    <3>1. <<>> \in Words(0) /\ Len(<<>>) = 0
      BY DEF Words
    <3>. QED  BY <3>1, PartValueRecursion
  <2>2. Weight(0 + 1) = 1 /\ 0 \in 0 .. NumWords
    BY WordsNumbers, Weights
  <2>3. f[0].words = <<>> /\ f[0].carry = 0
    BY <1>1
  <2>. QED  BY <1>3, <2>1, <2>2, <2>3
<1>6. ASSUME NEW i \in 0 .. (NumWords - 1), i \in T PROVE i + 1 \in T
  <2>. DEFINE s == f[i]
              w == Weight(i + 1)
              x == left[i + 1]
              y == right[i + 1]
              d == (x + y + s.carry) % WordBase
              c == IF d = x THEN s.carry ELSE IF d < x THEN 1 ELSE 0
  <2>1. i \in 0 .. (2 * NumWords - 1) /\ i + 1 \in 1 .. NumWords /\ (i + 1) - 1 = i /\ i + 1 \in 0 .. NumWords
        /\ i \in 0 .. NumWords /\ (i + 1) + 1 = i + 2 /\ i + 1 \in 1 .. (2 * NumWords) /\ i + 1 \in 1 .. (2 * NumWords + 1)
    BY WordsNumbers
  <2>2. Good(s, i)
    BY <1>6
  <2>3. x \in Digit /\ y \in Digit
    BY <1>2, <2>1
  <2>4. d \in Digit /\ c \in {0, 1} /\ d + c * WordBase = x + y + s.carry
    BY <2>2, <2>3, AddDigit
  <2>5. f[i + 1] = [words |-> Append(s.words, d), carry |-> c]
    BY <1>1, <2>1 DEF AddStep
  <2>6. w \in Nat /\ Weight(i + 2) = WordBase * w
    BY <2>1, Weights
  <2>7. L[i + 1] = L[i] + x * w /\ R[i + 1] = R[i] + y * w /\ L[i] \in Nat /\ R[i] \in Nat
    BY <1>3, <1>4, <2>1
  <2>. HIDE DEF s, w, x, y, d, c
  <2>8. Append(s.words, d) \in Words(i + 1) /\ ValueOf(Append(s.words, d)) = ValueOf(s.words) + d * w
    BY <2>1, <2>2, <2>4, ValueAppend DEF w
  <2>9. ValueOf(s.words) \in Int
    <3>1. i \in 0 .. (2 * NumWords)
      BY WordsNumbers
    <3>. QED  BY <2>2, <2>6, <3>1, ValueRange DEF w
  <2>10. ValueOf(Append(s.words, d)) + c * Weight(i + 2) = L[i + 1] + R[i + 1]
    <3>1. x \in Int /\ y \in Int /\ d \in Int /\ c \in Int /\ s.carry \in Int /\ x + y \in Int /\ WordBase \in Int
      BY <2>2, <2>3, <2>4, WordsNumbers DEF Digit
    <3>2. d * w + c * (WordBase * w) = (x + y) * w + s.carry * w
      <4>. DEFINE z == x + y
                  k == s.carry
      <4>1. z \in Int /\ k \in Int /\ d + c * WordBase = z + k
        BY <2>4, <3>1
      <4>. HIDE DEF z, k
      <4>2. d * w + c * (WordBase * w) = z * w + k * w
        BY <2>6, <3>1, <4>1, Carrying
      <4>. QED  BY <4>2 DEF z, k
    <3>3. (x + y) * w = x * w + y * w
      BY <2>6, <3>1
    <3>4. ValueOf(s.words) + s.carry * w = L[i] + R[i]
      BY <2>2 DEF w
    <3>5. d * w \in Int /\ c * (WordBase * w) \in Int /\ s.carry * w \in Int /\ x * w \in Int /\ y * w \in Int
      BY <2>6, <3>1
    <3>. QED  BY <2>6, <2>7, <2>8, <2>9, <3>2, <3>3, <3>4, <3>5
  <2>11. f[i + 1].words = Append(s.words, d) /\ f[i + 1].carry = c
    BY <2>5
  <2>. QED  BY <2>1, <2>4, <2>8, <2>10, <2>11
<1>. HIDE DEF T
<1>7. 0 .. NumWords \subseteq T
  BY <1>5, <1>6, WordsNumbers, IntervalInductive
<1>8. Good(f[NumWords], NumWords)
  BY <1>7, WordsNumbers DEF T
<1>9. ValueOf(left) = L[NumWords] /\ ValueOf(right) = R[NumWords]
  BY <1>2, PartValueRecursion, WordsNumbers DEF L, R
<1>. QED  BY <1>1, <1>8, <1>9 DEF Total

(* The function in SubWords, word by word.                                     *)
Subtracting(left, right) ==
  CHOOSE g : g =
    [i \in 0 .. Len(left) |->
        IF i = 0 THEN [words |-> <<>>, borrow |-> 0]
        ELSE LET before == g[i - 1]
                 diff == (left[i] - right[i] - before.borrow) % WordBase
             IN  [words |-> Append(before.words, diff),
                  borrow |-> IF diff = left[i] THEN before.borrow
                             ELSE IF diff > left[i] THEN 1 ELSE 0]]

SubStep(before, x, y) ==
  LET diff == (x - y - before.borrow) % WordBase
  IN  [words |-> Append(before.words, diff),
       borrow |-> IF diff = x THEN before.borrow ELSE IF diff > x THEN 1 ELSE 0]

LEMMA SubtractingRecursion ==
  ASSUME NEW left, NEW right, Len(left) \in Nat
  PROVE  /\ SubWords(left, right) = Subtracting(left, right)[Len(left)]
         /\ Subtracting(left, right)[0] = [words |-> <<>>, borrow |-> 0]
         /\ \A i \in 1 .. Len(left) :
              Subtracting(left, right)[i] = SubStep(Subtracting(left, right)[i - 1], left[i], right[i])
<1>. DEFINE D(before, i) == SubStep(before, left[i], right[i])
            zero == [words |-> <<>>, borrow |-> 0]
            h == CHOOSE g : g = [i \in 0 .. Len(left) |-> IF i = 0 THEN zero ELSE D(g[i - 1], i)]
<1>1. FiniteNatInductiveDefHypothesis(h, zero, D, 0, Len(left))
  BY Zenon DEF FiniteNatInductiveDefHypothesis
<1>2. FiniteNatInductiveDefConclusion(h, zero, D, 0, Len(left))
  BY <1>1, FiniteNatInductiveDef
<1>3. h = [i \in 0 .. Len(left) |-> IF i = 0 THEN zero ELSE D(h[i - 1], i)]
  BY <1>2, Zenon DEF FiniteNatInductiveDefConclusion
<1>4. Subtracting(left, right) =
        [i \in 0 .. Len(left) |-> IF i = 0 THEN zero ELSE D(Subtracting(left, right)[i - 1], i)]
  BY <1>3, Zenon DEF Subtracting, SubStep
<1>5. SubWords(left, right) = Subtracting(left, right)[Len(left)]
  BY Zenon DEF SubWords, Subtracting
<1>6. 0 \in 0 .. Len(left) /\ \A i \in 1 .. Len(left) : i \in 0 .. Len(left) /\ i # 0
  OBVIOUS
<1>. HIDE DEF h, D, zero
<1>7. Subtracting(left, right)[0] = zero
  BY <1>4, <1>6, Zenon
<1>8. \A i \in 1 .. Len(left) : Subtracting(left, right)[i] = D(Subtracting(left, right)[i - 1], i)
  BY <1>4, <1>6, Zenon
<1>. QED  BY <1>5, <1>7, <1>8 DEF D, zero

(* uECC_vli_sub, and the subtraction of uECC_vli_mmod on twice the words: the  *)
(* words and the borrow are the difference.                                    *)
THEOREM SubWordsIsDifference ==
  ASSUME NEW k \in 1 .. (2 * NumWords), NEW left \in Words(k), NEW right \in Words(k)
  PROVE  LET difference == SubWords(left, right)
         IN  /\ difference.words \in Words(k) /\ difference.borrow \in {0, 1}
             /\ ValueOf(difference.words) + ValueOf(right) = ValueOf(left) + difference.borrow * Weight(k + 1)
<1>. DEFINE f == Subtracting(left, right)
            L == PartValue(left)
            R == PartValue(right)
            Good(s, i) == /\ s.words \in Words(i) /\ s.borrow \in {0, 1}
                          /\ ValueOf(s.words) + R[i] = L[i] + s.borrow * Weight(i + 1)
            T == {i \in 0 .. k : Good(f[i], i)}
<1>0. k \in Nat /\ k >= 1 /\ k <= 2 * NumWords
  BY WordsNumbers
<1>2. Len(left) = k /\ Len(right) = k /\ \A i \in 1 .. k : left[i] \in Digit /\ right[i] \in Digit
  BY WordsNumbers DEF Words
<1>1. /\ f[0] = [words |-> <<>>, borrow |-> 0]
      /\ \A i \in 1 .. k : f[i] = SubStep(f[i - 1], left[i], right[i])
      /\ SubWords(left, right) = f[k]
  BY <1>0, <1>2, SubtractingRecursion, SMTT(30)
<1>3. /\ L[0] = 0 /\ \A i \in 1 .. k : L[i] = L[i - 1] + left[i] * Weight(i)
      /\ R[0] = 0 /\ \A i \in 1 .. k : R[i] = R[i - 1] + right[i] * Weight(i)
  BY <1>0, <1>2, PartValueRecursion
<1>4. \A i \in 0 .. k : L[i] \in Nat /\ R[i] \in Nat
  <2>1. k \in 0 .. (2 * NumWords) /\ \A i \in 0 .. k : i + 1 \in 1 .. (2 * NumWords + 1)
    BY <1>0, WordsNumbers
  <2>. QED  BY <2>1, PartValueRange, Weights
<1>. HIDE DEF f, L, R
<1>5. 0 \in T
  <2>1. <<>> \in Words(0) /\ ValueOf(<<>>) = 0
    <3>1. <<>> \in Words(0) /\ Len(<<>>) = 0
      BY DEF Words
    <3>. QED  BY <3>1, PartValueRecursion
  <2>2. Weight(0 + 1) = 1 /\ 0 \in 0 .. k
    BY <1>0, Weights
  <2>3. f[0].words = <<>> /\ f[0].borrow = 0
    BY <1>1
  <2>. QED  BY <1>3, <2>1, <2>2, <2>3
<1>6. ASSUME NEW i \in 0 .. (k - 1), i \in T PROVE i + 1 \in T
  <2>. DEFINE s == f[i]
              w == Weight(i + 1)
              x == left[i + 1]
              y == right[i + 1]
              d == (x - y - s.borrow) % WordBase
              c == IF d = x THEN s.borrow ELSE IF d > x THEN 1 ELSE 0
  <2>1. i \in 0 .. (2 * NumWords - 1) /\ i + 1 \in 1 .. k /\ (i + 1) - 1 = i /\ i + 1 \in 0 .. k
        /\ i \in 0 .. k /\ (i + 1) + 1 = i + 2 /\ i + 1 \in 1 .. (2 * NumWords) /\ i + 1 \in 1 .. (2 * NumWords + 1)
        /\ i \in 0 .. (2 * NumWords)
    BY <1>0, WordsNumbers
  <2>2. Good(s, i)
    BY <1>6
  <2>3. x \in Digit /\ y \in Digit
    BY <1>2, <2>1
  <2>4. d \in Digit /\ c \in {0, 1} /\ d + y + s.borrow = x + c * WordBase
    BY <2>2, <2>3, SubDigit
  <2>5. f[i + 1] = [words |-> Append(s.words, d), borrow |-> c]
    BY <1>1, <2>1 DEF SubStep
  <2>6. w \in Nat /\ Weight(i + 2) = WordBase * w
    BY <2>1, Weights
  <2>7. L[i + 1] = L[i] + x * w /\ R[i + 1] = R[i] + y * w /\ L[i] \in Nat /\ R[i] \in Nat
    BY <1>3, <1>4, <2>1
  <2>. HIDE DEF s, w, x, y, d, c
  <2>8. Append(s.words, d) \in Words(i + 1) /\ ValueOf(Append(s.words, d)) = ValueOf(s.words) + d * w
    BY <2>1, <2>2, <2>4, ValueAppend DEF w
  <2>9. ValueOf(s.words) \in Int
    BY <2>1, <2>2, <2>6, ValueRange DEF w
  <2>10. ValueOf(Append(s.words, d)) + R[i + 1] = L[i + 1] + c * Weight(i + 2)
    <3>1. x \in Int /\ y \in Int /\ d \in Int /\ c \in Int /\ s.borrow \in Int /\ x - y \in Int /\ WordBase \in Int
      BY <2>2, <2>3, <2>4, WordsNumbers DEF Digit
    <3>2. d * w + (-c) * (WordBase * w) = (x - y) * w + (-s.borrow) * w
      <4>. DEFINE z == x - y
                  k1 == -s.borrow
                  k2 == -c
      <4>0. (-c) * WordBase = -(c * WordBase)
        BY <3>1
      <4>1. z \in Int /\ k1 \in Int /\ k2 \in Int /\ d + k2 * WordBase = z + k1
        <5>1. c * WordBase \in Int
          BY <3>1
        <5>. QED  BY <2>4, <3>1, <4>0, <5>1
      <4>. HIDE DEF z, k1, k2
      <4>2. d * w + k2 * (WordBase * w) = z * w + k1 * w
        BY <2>6, <3>1, <4>1, Carrying
      <4>. QED  BY <4>2 DEF z, k1, k2
    <3>3. (x - y) * w = x * w - y * w
      BY <2>6, <3>1
    <3>4. ValueOf(s.words) + R[i] = L[i] + s.borrow * w
      BY <2>2 DEF w
    <3>5. d * w \in Int /\ c * (WordBase * w) \in Int /\ s.borrow * w \in Int /\ x * w \in Int /\ y * w \in Int
      BY <2>6, <3>1
    <3>6. (-c) * (WordBase * w) = -(c * (WordBase * w)) /\ (-s.borrow) * w = -(s.borrow * w)
      BY <2>6, <3>1
    <3>. QED  BY <2>6, <2>7, <2>8, <2>9, <3>2, <3>3, <3>4, <3>5, <3>6
  <2>11. f[i + 1].words = Append(s.words, d) /\ f[i + 1].borrow = c
    BY <2>5
  <2>. QED  BY <2>1, <2>4, <2>8, <2>10, <2>11
<1>. HIDE DEF T
<1>7. 0 .. k \subseteq T
  BY <1>0, <1>5, <1>6, IntervalInductive
<1>8. Good(f[k], k)
  BY <1>0, <1>7 DEF T
<1>9. ValueOf(left) = L[k] /\ ValueOf(right) = R[k]
  BY <1>0, <1>2, PartValueRecursion DEF L, R
<1>. QED  BY <1>1, <1>8, <1>9

(* The borrow tells which is the larger.                                       *)
LEMMA SubWordsBorrow ==
  ASSUME NEW k \in 1 .. (2 * NumWords), NEW left \in Words(k), NEW right \in Words(k)
  PROVE  LET difference == SubWords(left, right)
         IN  IF ValueOf(left) < ValueOf(right)
             THEN difference.borrow = 1 /\ ValueOf(difference.words) = ValueOf(left) - ValueOf(right) + Weight(k + 1)
             ELSE difference.borrow = 0 /\ ValueOf(difference.words) = ValueOf(left) - ValueOf(right)
<1>. DEFINE s == SubWords(left, right)
            x == ValueOf(left)
            y == ValueOf(right)
            z == ValueOf(s.words)
            w == Weight(k + 1)
<1>1. s.words \in Words(k) /\ s.borrow \in {0, 1} /\ z + y = x + s.borrow * w
  BY SubWordsIsDifference
<1>2. k \in 0 .. (2 * NumWords) /\ k + 1 \in 1 .. (2 * NumWords + 1)
  BY WordsNumbers
<1>3. w \in Nat /\ x \in 0 .. (w - 1) /\ y \in 0 .. (w - 1) /\ z \in 0 .. (w - 1)
  BY <1>1, <1>2, Weights, ValueRange
<1>. HIDE DEF s, x, y, z, w
<1>4. CASE s.borrow = 0
  BY <1>1, <1>3, <1>4 DEF s, x, y, z, w
<1>5. CASE s.borrow = 1
  <2>1. z + y = x + w
    BY <1>1, <1>3, <1>5
  <2>. QED  BY <1>3, <1>5, <2>1 DEF s, x, y, z, w
<1>. QED  BY <1>1, <1>4, <1>5

-------------------------------------------------------------------------------
(* Comparisons                                                                 *)

(* A word that is not zero makes the number positive.                          *)
LEMMA ValueZero ==
  ASSUME NEW k \in 0 .. (2 * NumWords), NEW words \in Words(k)
  PROVE  ValueOf(words) = 0 <=> \A i \in 1 .. k : words[i] = 0
<1>. DEFINE v == PartValue(words)
            T == {i \in 0 .. k : v[i] = 0 <=> \A j \in 1 .. i : words[j] = 0}
<1>1. k \in Nat /\ k <= 2 * NumWords /\ Len(words) = k /\ \A i \in 1 .. k : words[i] \in Digit
  BY WordsNumbers DEF Words
<1>2. v[0] = 0 /\ \A i \in 1 .. k : v[i] = v[i - 1] + words[i] * Weight(i)
  BY <1>1, PartValueRecursion
<1>3. \A i \in 0 .. k : v[i] \in Nat
  <2>1. \A i \in 0 .. k : i + 1 \in 1 .. (2 * NumWords + 1)
    BY <1>1, WordsNumbers
  <2>. QED  BY <2>1, PartValueRange, Weights
<1>. HIDE DEF v
<1>4. 0 \in T
  BY <1>1, <1>2
<1>5. ASSUME NEW i \in 0 .. (k - 1), i \in T PROVE i + 1 \in T
  <2>. DEFINE w == Weight(i + 1)
              d == words[i + 1]
  <2>1. i + 1 \in 1 .. k /\ (i + 1) - 1 = i /\ i + 1 \in 0 .. k /\ i \in 0 .. k /\ i + 1 \in 1 .. (2 * NumWords + 1)
    BY <1>1, WordsNumbers
  <2>2. w \in Nat /\ w >= 1
    BY <2>1, Weights
  <2>3. d \in Nat /\ v[i] \in Nat /\ v[i + 1] = v[i] + d * w
    BY <1>1, <1>2, <1>3, <2>1, WordsNumbers DEF Digit
  <2>4. d * w \in Nat /\ (d * w = 0 <=> d = 0)
    <3>. HIDE DEF d, w
    <3>1. CASE d = 0
      BY <2>2, <3>1
    <3>2. CASE d # 0
      <4>1. d >= 1
        BY <2>3, <3>2
      <4>2. d * w >= 1 * w
        BY <2>2, <2>3, <4>1
      <4>. QED  BY <2>2, <2>3, <3>2, <4>2
    <3>. QED  BY <3>1, <3>2
  <2>5. v[i] = 0 <=> \A j \in 1 .. i : words[j] = 0
    BY <1>5
  <2>6. (\A j \in 1 .. (i + 1) : words[j] = 0) <=> (\A j \in 1 .. i : words[j] = 0) /\ words[i + 1] = 0
    OBVIOUS
  <2>. HIDE DEF w
  <2>. QED  BY <2>1, <2>3, <2>4, <2>5, <2>6
<1>. HIDE DEF T
<1>6. 0 .. k \subseteq T
  BY <1>1, <1>4, <1>5, IntervalInductive
<1>7. ValueOf(words) = v[k] /\ k \in 0 .. k
  BY <1>1, PartValueRecursion DEF v
<1>. QED  BY <1>6, <1>7 DEF T

(* uECC_vli_cmp: the order, from the borrow and the words of a difference.     *)
THEOREM CmpConstantTimeIsOrder ==
  ASSUME NEW left \in Words(NumWords), NEW right \in Words(NumWords)
  PROVE  CmpConstantTime(left, right) =
           IF ValueOf(left) < ValueOf(right) THEN -1 ELSE IF ValueOf(left) = ValueOf(right) THEN 0 ELSE 1
<1>. DEFINE s == SubWords(left, right)
            x == ValueOf(left)
            y == ValueOf(right)
            z == ValueOf(s.words)
            nonzero == \E i \in Index : s.words[i] # 0
<1>1. NumWords \in 1 .. (2 * NumWords) /\ NumWords \in 0 .. (2 * NumWords) /\ NumWords + 1 \in 1 .. (2 * NumWords + 1)
  BY WordsNumbers
<1>2. /\ s.words \in Words(NumWords)
      /\ IF x < y THEN s.borrow = 1 /\ z = x - y + Total ELSE s.borrow = 0 /\ z = x - y
  BY <1>1, SubWordsIsDifference, SubWordsBorrow DEF Total
<1>3. Total \in Nat /\ x \in 0 .. (Total - 1) /\ y \in 0 .. (Total - 1)
  BY <1>1, Weights, ValueRange DEF Total
<1>4. nonzero <=> z # 0
  BY <1>1, <1>2, ValueZero DEF Index
<1>5. CmpConstantTime(left, right) = (IF nonzero THEN 1 ELSE 0) - 2 * s.borrow
  BY DEF CmpConstantTime
<1>. HIDE DEF s, x, y, z, nonzero
<1>6. CmpConstantTime(left, right) = IF x < y THEN -1 ELSE IF x = y THEN 0 ELSE 1
  BY <1>2, <1>3, <1>4, <1>5
<1>. QED  BY <1>6 DEF x, y

(* Where the higher words agree, the lower ones make the difference.           *)
LEMMA ValueDifference ==
  ASSUME NEW k \in 0 .. (2 * NumWords), NEW left \in Words(k), NEW right \in Words(k), NEW i \in 0 .. k,
         \A j \in (i + 1) .. k : left[j] = right[j]
  PROVE  ValueOf(left) - ValueOf(right) = PartValue(left)[i] - PartValue(right)[i]
<1>. DEFINE f == PartValue(left)
            g == PartValue(right)
            T == {j \in i .. k : f[j] - g[j] = f[i] - g[i]}
<1>1. k \in Nat /\ k <= 2 * NumWords /\ Len(left) = k /\ Len(right) = k
      /\ \A j \in 1 .. k : left[j] \in Digit /\ right[j] \in Digit
  BY WordsNumbers DEF Words
<1>2. /\ \A j \in 1 .. k : f[j] = f[j - 1] + left[j] * Weight(j)
      /\ \A j \in 1 .. k : g[j] = g[j - 1] + right[j] * Weight(j)
      /\ ValueOf(left) = f[k] /\ ValueOf(right) = g[k]
  BY <1>1, PartValueRecursion
<1>3. \A j \in 0 .. k : f[j] \in Nat /\ g[j] \in Nat
  <2>1. \A j \in 0 .. k : j + 1 \in 1 .. (2 * NumWords + 1)
    BY <1>1, WordsNumbers
  <2>. QED  BY <2>1, PartValueRange, Weights
<1>. HIDE DEF f, g
<1>4. i \in T
  BY <1>1
<1>5. ASSUME NEW j \in i .. (k - 1), j \in T PROVE j + 1 \in T
  <2>. DEFINE w == Weight(j + 1)
  <2>1. j + 1 \in 1 .. k /\ (j + 1) - 1 = j /\ j + 1 \in i .. k /\ j + 1 \in (i + 1) .. k /\ j \in 0 .. k
        /\ j + 1 \in 0 .. k /\ j + 1 \in 1 .. (2 * NumWords + 1)
    BY <1>1, WordsNumbers
  <2>2. f[j + 1] = f[j] + left[j + 1] * w /\ g[j + 1] = g[j] + left[j + 1] * w
    BY <1>2, <2>1
  <2>3. left[j + 1] * w \in Int
    <3>1. left[j + 1] \in Int /\ w \in Int
      BY <1>1, <2>1, Weights, WordsNumbers, SMTT(30) DEF Digit
    <3>. HIDE DEF w
    <3>. QED  BY <3>1
  <2>. HIDE DEF w
  <2>4. f[j] - g[j] = f[i] - g[i]
    BY <1>5
  <2>5. f[j] \in Int /\ g[j] \in Int
    BY <1>3, <2>1
  <2>. QED  BY <2>1, <2>2, <2>3, <2>4, <2>5
<1>. HIDE DEF T
<1>6. i .. k \subseteq T
  BY <1>1, <1>4, <1>5, IntervalInductive
<1>7. k \in i .. k
  BY <1>1
<1>. QED  BY <1>2, <1>6, <1>7 DEF T, f, g

(* A higher word outweighs all those below it.                                 *)
LEMMA HigherWord ==
  ASSUME NEW k \in 1 .. (2 * NumWords), NEW left \in Words(k), NEW right \in Words(k), NEW i \in 1 .. k,
         left[i] > right[i]
  PROVE  PartValue(left)[i] > PartValue(right)[i]
<1>. DEFINE w == Weight(i)
            x == left[i]
            y == right[i]
            e == PartValue(left)[i - 1]
            f == PartValue(right)[i - 1]
<1>1. k \in Nat /\ k <= 2 * NumWords /\ Len(left) = k /\ Len(right) = k /\ x \in Digit /\ y \in Digit
      /\ i - 1 \in 0 .. k /\ (i - 1) + 1 = i /\ i \in 1 .. (2 * NumWords + 1) /\ k \in 0 .. (2 * NumWords)
  BY WordsNumbers DEF Words
<1>2. w \in Nat /\ w >= 1 /\ e \in 0 .. (w - 1) /\ f \in 0 .. (w - 1)
  BY <1>1, Weights, PartValueRange
<1>3. PartValue(left)[i] = e + x * w /\ PartValue(right)[i] = f + y * w
  BY <1>1, PartValueRecursion
<1>4. x \in Nat /\ y \in Nat /\ x >= y + 1
  BY <1>1, WordsNumbers DEF Digit
<1>. HIDE DEF w, x, y, e, f
<1>5. x * w >= (y + 1) * w /\ (y + 1) * w = y * w + w /\ x * w \in Nat /\ y * w \in Nat
  BY <1>2, <1>4
<1>6. e + x * w > f + y * w
  BY <1>2, <1>5
<1>. QED  BY <1>3, <1>6

(* The search in uECC_vli_cmp_unsafe, from the lowest word up.                 *)
Differing(left, right) ==
  CHOOSE g : g = [i \in 0 .. NumWords |-> IF i = 0 \/ left[i] # right[i] THEN i ELSE g[i - 1]]

LEMMA DifferingRecursion ==
  ASSUME NEW left, NEW right
  PROVE  /\ Differing(left, right)[0] = 0
         /\ \A i \in 1 .. NumWords :
              Differing(left, right)[i] = IF left[i] # right[i] THEN i ELSE Differing(left, right)[i - 1]
<1>. DEFINE D(before, i) == IF left[i] # right[i] THEN i ELSE before
            h == CHOOSE g : g = [i \in 0 .. NumWords |-> IF i = 0 THEN 0 ELSE D(g[i - 1], i)]
<1>1. FiniteNatInductiveDefHypothesis(h, 0, D, 0, NumWords)
  BY Zenon DEF FiniteNatInductiveDefHypothesis
<1>2. FiniteNatInductiveDefConclusion(h, 0, D, 0, NumWords)
  BY <1>1, WordsNumbers, FiniteNatInductiveDef
<1>3. h = [i \in 0 .. NumWords |-> IF i = 0 THEN 0 ELSE D(h[i - 1], i)]
  BY <1>2, Zenon DEF FiniteNatInductiveDefConclusion
<1>. HIDE DEF h
<1>4. h = [i \in 0 .. NumWords |-> IF i = 0 \/ left[i] # right[i] THEN i ELSE h[i - 1]]
  <2>1. \A i \in 0 .. NumWords : (IF i = 0 THEN 0 ELSE D(h[i - 1], i))
                                  = (IF i = 0 \/ left[i] # right[i] THEN i ELSE h[i - 1])
    OBVIOUS
  <2>. HIDE DEF D
  <2>. QED  BY <1>3, <2>1, Zenon
<1>5. Differing(left, right) =
        [i \in 0 .. NumWords |-> IF i = 0 \/ left[i] # right[i] THEN i ELSE Differing(left, right)[i - 1]]
  BY <1>4, Zenon DEF Differing
<1>6. 0 \in 0 .. NumWords /\ \A i \in 1 .. NumWords : i \in 0 .. NumWords /\ i # 0
  BY WordsNumbers
<1>. QED  BY <1>5, <1>6

(* uECC_vli_cmp_unsafe: the highest word that differs gives the order.         *)
THEOREM CmpUnsafeIsOrder ==
  ASSUME NEW left \in Words(NumWords), NEW right \in Words(NumWords)
  PROVE  CmpUnsafe(left, right) =
           IF ValueOf(left) < ValueOf(right) THEN -1 ELSE IF ValueOf(left) = ValueOf(right) THEN 0 ELSE 1
<1>. DEFINE f == Differing(left, right)
            Good(t, i) == /\ t \in 0 .. i
                          /\ t # 0 => left[t] # right[t]
                          /\ \A j \in (t + 1) .. i : left[j] = right[j]
            T == {i \in 0 .. NumWords : Good(f[i], i)}
<1>1. f[0] = 0 /\ \A i \in 1 .. NumWords : f[i] = IF left[i] # right[i] THEN i ELSE f[i - 1]
  BY DifferingRecursion
<1>2. NumWords \in Nat /\ NumWords \in 1 .. (2 * NumWords) /\ NumWords \in 0 .. (2 * NumWords)
      /\ NumWords \in 0 .. NumWords
  BY WordsNumbers
<1>. HIDE DEF f
<1>3. 0 .. NumWords \subseteq T
  <2>1. 0 \in T
    BY <1>1, <1>2
  <2>2. ASSUME NEW i \in 0 .. (NumWords - 1), i \in T PROVE i + 1 \in T
    <3>1. i + 1 \in 1 .. NumWords /\ (i + 1) - 1 = i /\ i + 1 \in 0 .. NumWords
      BY <1>2
    <3>2. f[i + 1] = IF left[i + 1] # right[i + 1] THEN i + 1 ELSE f[i]
      BY <1>1, <3>1
    <3>3. Good(f[i], i)
      BY <2>2
    <3>4. Good(f[i + 1], i + 1)
      <4>1. CASE left[i + 1] # right[i + 1]
        BY <1>2, <3>2, <4>1
      <4>2. CASE left[i + 1] = right[i + 1]
        <5>1. \A j \in (f[i] + 1) .. (i + 1) : j \in (f[i] + 1) .. i \/ j = i + 1
          BY <1>2, <3>3
        <5>. QED  BY <1>2, <3>2, <3>3, <4>2, <5>1
      <4>. QED  BY <4>1, <4>2
    <3>. QED  BY <3>1, <3>4
  <2>. HIDE DEF T
  <2>. QED  BY <1>2, <2>1, <2>2, IntervalInductive
<1>4. CmpUnsafe(left, right) = LET top == f[NumWords]
                               IN  IF top = 0 THEN 0 ELSE IF left[top] > right[top] THEN 1 ELSE -1
  BY Zenon DEF CmpUnsafe, Differing, f
<1>. DEFINE top == f[NumWords]
            x == ValueOf(left)
            y == ValueOf(right)
<1>5. Good(top, NumWords)
  BY <1>2, <1>3
<1>6. top \in 0 .. NumWords /\ x - y = PartValue(left)[top] - PartValue(right)[top]
  BY <1>2, <1>5, ValueDifference
<1>7. NumWords + 1 \in 1 .. (2 * NumWords + 1) /\ Len(left) = NumWords /\ Len(right) = NumWords
      /\ \A i \in 1 .. NumWords : left[i] \in Digit /\ right[i] \in Digit
  BY WordsNumbers DEF Words
<1>8. x \in Nat /\ y \in Nat
  BY <1>2, <1>7, Weights, ValueRange
<1>. HIDE DEF top, x, y
<1>9. CASE top = 0
  <2>1. PartValue(left)[top] = 0 /\ PartValue(right)[top] = 0
    BY <1>2, <1>7, <1>9, PartValueRecursion
  <2>2. x = y
    BY <1>6, <1>8, <2>1
  <2>. QED  BY <1>4, <1>8, <1>9, <2>2 DEF top, x, y
<1>10. CASE top # 0
  <2>1. top \in 1 .. NumWords /\ left[top] \in Nat /\ right[top] \in Nat /\ left[top] # right[top]
        /\ top \in 0 .. NumWords /\ top + 1 \in 1 .. (2 * NumWords + 1)
    BY <1>2, <1>5, <1>6, <1>7, <1>10, WordsNumbers DEF Digit
  <2>2. PartValue(left)[top] \in Nat /\ PartValue(right)[top] \in Nat
    BY <1>2, <2>1, PartValueRange, Weights
  <2>3. CASE left[top] > right[top]
    <3>1. PartValue(left)[top] > PartValue(right)[top]
      BY <1>2, <2>1, <2>3, HigherWord
    <3>2. x > y
      BY <1>6, <1>8, <2>2, <3>1
    <3>. QED  BY <1>4, <1>8, <1>10, <2>3, <3>2 DEF top, x, y
  <2>4. CASE ~(left[top] > right[top])
    <3>0. right[top] > left[top]
      BY <2>1, <2>4
    <3>1. PartValue(right)[top] > PartValue(left)[top]
      BY <1>2, <2>1, <3>0, HigherWord
    <3>2. x < y
      BY <1>6, <1>8, <2>2, <3>1
    <3>. QED  BY <1>4, <1>8, <1>10, <2>4, <3>2 DEF top, x, y
  <2>. QED  BY <2>3, <2>4
<1>. QED  BY <1>9, <1>10

-------------------------------------------------------------------------------
(* Halves                                                                      *)

(* The function in ShiftRightWords, word by word.                              *)
Halved(words, i) ==
  words[i] \div 2 + IF i = Len(words) THEN 0 ELSE (words[i + 1] % 2) * (WordBase \div 2)

Shifting(words) ==
  CHOOSE g : g =
    [i \in 0 .. Len(words) |->
        IF i = 0 THEN <<>>
        ELSE Append(g[i - 1],
                    words[i] \div 2 + IF i = Len(words) THEN 0
                                      ELSE (words[i + 1] % 2) * (WordBase \div 2))]

LEMMA ShiftingRecursion ==
  ASSUME NEW words, Len(words) \in Nat
  PROVE  /\ ShiftRightWords(words) = Shifting(words)[Len(words)]
         /\ Shifting(words)[0] = <<>>
         /\ \A i \in 1 .. Len(words) : Shifting(words)[i] = Append(Shifting(words)[i - 1], Halved(words, i))
<1>. DEFINE D(before, i) == Append(before, Halved(words, i))
            h == CHOOSE g : g = [i \in 0 .. Len(words) |-> IF i = 0 THEN <<>> ELSE D(g[i - 1], i)]
<1>1. FiniteNatInductiveDefHypothesis(h, <<>>, D, 0, Len(words))
  BY Zenon DEF FiniteNatInductiveDefHypothesis
<1>2. FiniteNatInductiveDefConclusion(h, <<>>, D, 0, Len(words))
  BY <1>1, FiniteNatInductiveDef
<1>3. h = [i \in 0 .. Len(words) |-> IF i = 0 THEN <<>> ELSE D(h[i - 1], i)]
  BY <1>2, Zenon DEF FiniteNatInductiveDefConclusion
<1>4. Shifting(words) = [i \in 0 .. Len(words) |-> IF i = 0 THEN <<>> ELSE D(Shifting(words)[i - 1], i)]
  BY <1>3, Zenon DEF Shifting, Halved
<1>5. ShiftRightWords(words) = Shifting(words)[Len(words)]
  BY Zenon DEF ShiftRightWords, Shifting
<1>6. 0 \in 0 .. Len(words) /\ \A i \in 1 .. Len(words) : i \in 0 .. Len(words) /\ i # 0
  OBVIOUS
<1>. HIDE DEF h, D
<1>7. Shifting(words)[0] = <<>>
  BY <1>4, <1>6, Zenon
<1>8. \A i \in 1 .. Len(words) : Shifting(words)[i] = D(Shifting(words)[i - 1], i)
  BY <1>4, <1>6, Zenon
<1>. QED  BY <1>5, <1>7, <1>8 DEF D

(* Half a word and the low bit from above.                                     *)
LEMMA HalveDigit ==
  ASSUME NEW x \in Digit, NEW c \in {0, 1}
  PROVE  LET h == x \div 2 + c * (WordBase \div 2)
         IN  h \in Digit /\ x % 2 \in {0, 1} /\ 2 * h + (x % 2) = x + c * WordBase
<1>. DEFINE q == x \div 2
            r == x % 2
            m == WordBase \div 2
<1>1. x \in Nat /\ x <= WordBase - 1 /\ WordBase \in Nat /\ WordBase % 2 = 0
  BY WordsNumbers DEF Digit
<1>2. q \in Int /\ r \in 0 .. 1 /\ x = q * 2 + r
  BY <1>1, Division
<1>3. m \in Int /\ WordBase = m * 2 + (WordBase % 2)
  BY <1>1, Division
<1>. HIDE DEF q, r, m
<1>4. WordBase = 2 * m /\ q \in Nat /\ q <= m - 1
  BY <1>1, <1>2, <1>3
<1>5. CASE c = 0
  <2>1. c * m = 0 /\ c * WordBase = 0
    BY <1>1, <1>3, <1>5
  <2>. QED  BY <1>1, <1>2, <1>4, <2>1 DEF q, r, m, Digit
<1>6. CASE c = 1
  <2>1. c * m = m /\ c * WordBase = WordBase
    BY <1>1, <1>3, <1>6
  <2>. QED  BY <1>1, <1>2, <1>3, <1>4, <2>1 DEF q, r, m, Digit
<1>. QED  BY <1>5, <1>6

(* uECC_vli_rshift1: half of the number, without the bit that falls out.       *)
THEOREM ShiftRightWordsIsHalf ==
  ASSUME NEW k \in 1 .. (2 * NumWords), NEW words \in Words(k)
  PROVE  ShiftRightWords(words) \in Words(k) /\ ValueOf(ShiftRightWords(words)) = ValueOf(words) \div 2
<1>. DEFINE f == Shifting(words)
            v == PartValue(words)
            low(i) == IF i = k + 1 THEN 0 ELSE words[i] % 2
            bit == low(1)
            Good(s, i) == s \in Words(i) /\ 2 * ValueOf(s) + bit = v[i] + low(i + 1) * Weight(i + 1)
            T == {i \in 0 .. k : Good(f[i], i)}
<1>1. k \in Nat /\ k >= 1 /\ k <= 2 * NumWords /\ Len(words) = k /\ \A i \in 1 .. k : words[i] \in Digit
      /\ k \in 0 .. (2 * NumWords)
  BY WordsNumbers DEF Words
<1>2. f[0] = <<>> /\ ShiftRightWords(words) = f[k] /\ \A i \in 1 .. k : f[i] = Append(f[i - 1], Halved(words, i))
  BY <1>1, ShiftingRecursion
<1>3. v[0] = 0 /\ ValueOf(words) = v[k] /\ \A i \in 1 .. k : v[i] = v[i - 1] + words[i] * Weight(i)
  BY <1>1, PartValueRecursion
<1>4. \A i \in 0 .. k : v[i] \in Nat /\ Weight(i + 1) \in Nat
  <2>1. \A i \in 0 .. k : i + 1 \in 1 .. (2 * NumWords + 1)
    BY <1>1, WordsNumbers
  <2>. QED  BY <1>1, <2>1, PartValueRange, Weights
<1>5. \A i \in 1 .. (k + 1) : low(i) \in {0, 1}
  <2>. SUFFICES ASSUME NEW i \in 1 .. (k + 1), i # k + 1 PROVE words[i] % 2 \in {0, 1}
    OBVIOUS
  <2>1. i \in 1 .. k
    BY <1>1
  <2>. QED  BY <1>1, <2>1, HalveDigit
<1>6. \A i \in 1 .. k : low(i) = words[i] % 2 /\ Halved(words, i) = words[i] \div 2 + low(i + 1) * (WordBase \div 2)
  <2>. SUFFICES ASSUME NEW i \in 1 .. k
                PROVE  low(i) = words[i] % 2
                       /\ Halved(words, i) = words[i] \div 2 + low(i + 1) * (WordBase \div 2)
    OBVIOUS
  <2>1. i # k + 1 /\ (i = k <=> i + 1 = k + 1)
    BY <1>1
  <2>2. CASE i = k
    <3>1. WordBase \div 2 \in Int
      BY WordsNumbers
    <3>2. 0 * (WordBase \div 2) = 0
      BY <3>1
    <3>. QED  BY <1>1, <2>1, <2>2, <3>2 DEF Halved
  <2>3. CASE i # k
    BY <1>1, <2>1, <2>3 DEF Halved
  <2>. QED  BY <2>2, <2>3
<1>7. bit \in {0, 1}
  BY <1>1, <1>5
<1>. HIDE DEF f, v, low, bit
<1>8. 0 \in T
  <2>1. <<>> \in Words(0) /\ ValueOf(<<>>) = 0
    <3>1. <<>> \in Words(0) /\ Len(<<>>) = 0
      BY DEF Words
    <3>. QED  BY <3>1, PartValueRecursion
  <2>2. 2 * 0 + bit = 0 + bit * 1 /\ bit = low(0 + 1)
    BY <1>7 DEF bit
  <2>. QED  BY <1>1, <1>2, <1>3, <2>1, <2>2, Weights
<1>9. ASSUME NEW i \in 0 .. (k - 1), i \in T PROVE i + 1 \in T
  <2>. DEFINE s == f[i]
              w == Weight(i + 1)
              x == words[i + 1]
              c == low(i + 2)
              d == x \div 2 + c * (WordBase \div 2)
              e == low(i + 1)
  <2>1. i \in 0 .. (2 * NumWords - 1) /\ i + 1 \in 1 .. k /\ (i + 1) - 1 = i /\ i + 1 \in 0 .. k
        /\ i \in 0 .. k /\ (i + 1) + 1 = i + 2 /\ i + 1 \in 1 .. (2 * NumWords) /\ i + 2 \in 1 .. (k + 1)
        /\ i + 1 \in 1 .. (k + 1) /\ i \in 0 .. (2 * NumWords)
    BY <1>1, WordsNumbers
  <2>2. Good(s, i)
    BY <1>9
  <2>3. x \in Digit /\ c \in {0, 1} /\ e = x % 2 /\ d \in Digit /\ 2 * d + e = x + c * WordBase /\ e \in {0, 1}
    <3>1. x \in Digit /\ c \in {0, 1} /\ e = x % 2 /\ e \in {0, 1}
      BY <1>1, <1>5, <1>6, <2>1
    <3>. QED  BY <3>1, HalveDigit
  <2>4. f[i + 1] = Append(s, d)
    BY <1>2, <1>6, <2>1
  <2>5. w \in Nat /\ Weight(i + 2) = WordBase * w /\ v[i + 1] = v[i] + x * w /\ v[i] \in Nat
    BY <1>3, <1>4, <2>1, Weights
  <2>. HIDE DEF s, w, x, c, d, e
  <2>6. Append(s, d) \in Words(i + 1) /\ ValueOf(Append(s, d)) = ValueOf(s) + d * w
    BY <2>1, <2>2, <2>3, ValueAppend DEF w
  <2>7. ValueOf(s) \in Int
    BY <2>1, <2>2, <2>5, ValueRange DEF w
  <2>8. 2 * (ValueOf(s) + d * w) + bit = v[i + 1] + c * Weight(i + 2)
    <3>1. x \in Int /\ c \in Int /\ d \in Int /\ e \in Int /\ WordBase \in Int /\ bit \in Int /\ 2 * d \in Int
      BY <1>7, <2>3, WordsNumbers DEF Digit
    <3>2. 2 * ValueOf(s) + bit = v[i] + e * w
      BY <2>2 DEF w, e
    <3>3. (2 * d + e) * w = (x + c * WordBase) * w
      BY <2>3
    <3>4. (2 * d + e) * w = 2 * (d * w) + e * w
      BY <2>5, <3>1
    <3>5. (x + c * WordBase) * w = x * w + c * (WordBase * w)
      <4>1. (x + c * WordBase) * w = x * w + (c * WordBase) * w
        BY <2>5, <3>1
      <4>2. (c * WordBase) * w = c * (WordBase * w)
        BY <2>5, <3>1
      <4>. QED  BY <4>1, <4>2
    <3>6. d * w \in Int /\ e * w \in Int /\ x * w \in Int /\ c * (WordBase * w) \in Int
      BY <2>5, <3>1
    <3>7. 2 * (ValueOf(s) + d * w) = 2 * ValueOf(s) + 2 * (d * w) /\ v[i] + x * w \in Int
      BY <2>5, <2>7, <3>6
    <3>8. v[i + 1] + c * Weight(i + 2) = v[i] + x * w + c * (WordBase * w)
      BY <2>5
    <3>9. 2 * (d * w) + e * w = x * w + c * (WordBase * w)
      BY <3>3, <3>4, <3>5
    <3>. DEFINE dw == d * w
                ew == e * w
                xw == x * w
                cw == c * (WordBase * w)
                z == ValueOf(s)
    <3>10. /\ z \in Int /\ dw \in Int /\ ew \in Int /\ xw \in Int /\ cw \in Int /\ bit \in Int /\ v[i] \in Int
           /\ 2 * z + bit = v[i] + ew /\ 2 * dw + ew = xw + cw
      BY <2>5, <2>7, <3>1, <3>2, <3>6, <3>9
    <3>. HIDE DEF dw, ew, xw, cw, z
    <3>11. 2 * z + 2 * dw + bit = v[i] + xw + cw
      BY <3>10
    <3>12. 2 * z + 2 * dw + bit = v[i + 1] + c * Weight(i + 2)
      BY <3>8, <3>11 DEF xw, cw
    <3>. QED  BY <3>7, <3>12 DEF dw, z
  <2>9. Good(Append(s, d), i + 1)
    BY <2>1, <2>6, <2>8 DEF c
  <2>. HIDE DEF Good
  <2>. QED  BY <2>1, <2>4, <2>9
<1>. HIDE DEF T
<1>10. 0 .. k \subseteq T
  BY <1>1, <1>8, <1>9, IntervalInductive
<1>11. Good(f[k], k) /\ low(k + 1) = 0 /\ Weight(k + 1) \in Nat
  BY <1>1, <1>4, <1>10 DEF T, low
<1>12. ValueOf(f[k]) \in Nat
  BY <1>1, <1>11, ValueRange
<1>13. v[k] \in Nat /\ k \in 0 .. k
  BY <1>1, <1>4
<1>14. v[k] = ValueOf(f[k]) * 2 + bit
  <2>1. 0 * Weight(k + 1) = 0
    BY <1>11
  <2>. QED  BY <1>7, <1>11, <1>12, <1>13, <2>1
<1>15. v[k] \div 2 = ValueOf(f[k])
  BY <1>7, <1>12, <1>13, <1>14, DivisionIs
<1>. QED  BY <1>2, <1>3, <1>11, <1>15

-------------------------------------------------------------------------------
(* Products                                                                    *)

(* The sums of the first values of a function on 1 .. last.                    *)
Sums(f, last) ==
  CHOOSE g : g = [i \in 0 .. last |-> IF i = 0 THEN 0 ELSE g[i - 1] + f[i]]

LEMMA SumsRecursion ==
  ASSUME NEW f, NEW last \in Nat
  PROVE  Sums(f, last)[0] = 0 /\ \A i \in 1 .. last : Sums(f, last)[i] = Sums(f, last)[i - 1] + f[i]
<1>. DEFINE D(before, i) == before + f[i]
            h == CHOOSE g : g = [i \in 0 .. last |-> IF i = 0 THEN 0 ELSE g[i - 1] + f[i]]
<1>1. FiniteNatInductiveDefHypothesis(h, 0, D, 0, last)
  BY Zenon DEF FiniteNatInductiveDefHypothesis
<1>2. FiniteNatInductiveDefConclusion(h, 0, D, 0, last)
  BY <1>1, FiniteNatInductiveDef
<1>3. h = [i \in 0 .. last |-> IF i = 0 THEN 0 ELSE h[i - 1] + f[i]]
  BY <1>2, Zenon DEF FiniteNatInductiveDefConclusion
<1>4. Sums(f, last) = [i \in 0 .. last |-> IF i = 0 THEN 0 ELSE Sums(f, last)[i - 1] + f[i]]
  BY <1>3, Zenon DEF Sums
<1>5. 0 \in 0 .. last /\ \A i \in 1 .. last : i \in 0 .. last /\ i # 0
  OBVIOUS
<1>. HIDE DEF h, D
<1>6. Sums(f, last)[0] = 0
  BY <1>4, <1>5, Zenon
<1>7. \A i \in 1 .. last : Sums(f, last)[i] = Sums(f, last)[i - 1] + f[i]
  BY <1>4, <1>5, Zenon
<1>. QED  BY <1>6, <1>7

(* What the three words of a column's sum stand for.                           *)
Three(s) == s.r0 + s.r1 * WordBase + s.r2 * (WordBase * WordBase)
ThreeWords == [r0 : Digit, r1 : Digit, r2 : Digit]

LEMMA Squares ==
  LET BB == WordBase * WordBase
  IN  /\ BB \in Nat /\ BB >= WordBase /\ WordBase * BB \in Nat
      /\ \A x, y \in Digit : x * y \in 0 .. (BB - 1) /\ x * y <= (WordBase - 1) * (WordBase - 1)
      /\ (WordBase - 1) * (WordBase - 1) \in Nat
      /\ (WordBase - 1) * (WordBase - 1) = BB - 2 * WordBase + 1
      /\ \A x, y \in Digit : x + y * WordBase \in 0 .. (BB - 1)
<1>. DEFINE BB == WordBase * WordBase
            m == WordBase - 1
<1>1. WordBase \in Nat /\ WordBase >= 2
  BY WordsNumbers
<1>2. BB \in Nat /\ BB >= WordBase /\ m \in Nat
  BY <1>1
<1>3. m * m \in Nat /\ m * m = BB - 2 * WordBase + 1
  BY <1>1
<1>4. ASSUME NEW x \in Digit, NEW y \in Digit
      PROVE  x * y \in Nat /\ x * y <= m * m
  <2>1. x \in Nat /\ y \in Nat /\ x <= m /\ y <= m
    BY <1>1 DEF Digit
  <2>. HIDE DEF m
  <2>2. x * y <= x * m /\ x * m <= m * m /\ x * y \in Nat /\ x * m \in Nat
    BY <1>2, <2>1
  <2>. QED  BY <1>2, <2>1, <2>2
<1>5. ASSUME NEW x \in Digit, NEW y \in Digit
      PROVE  x + y * WordBase \in 0 .. (BB - 1)
  <2>1. x \in Nat /\ y \in Nat /\ x <= m /\ y <= m
    BY <1>1 DEF Digit
  <2>2. m * WordBase = BB - WordBase
    BY <1>1
  <2>3. y * WordBase \in Nat /\ y * WordBase <= m * WordBase
    BY <1>1, <2>1
  <2>4. m = WordBase - 1
    OBVIOUS
  <2>. HIDE DEF BB, m
  <2>. QED  BY <1>1, <1>2, <2>1, <2>2, <2>3, <2>4
<1>6. WordBase * BB \in Nat
  BY <1>1, <1>2
<1>7. BB - 2 * WordBase + 1 <= BB - 1
  BY <1>1, <1>2
<1>. HIDE DEF BB, m
<1>8. \A x, y \in Digit : x * y \in 0 .. (BB - 1)
  BY <1>1, <1>2, <1>3, <1>4, <1>7
<1>. QED  BY <1>2, <1>3, <1>4, <1>5, <1>6, <1>8 DEF BB, m

(* muladd: the three words take the product as long as it fits.                *)
LEMMA MulAddIsSum ==
  ASSUME NEW s \in ThreeWords, NEW x \in Digit, NEW y \in Digit,
         Three(s) + x * y < WordBase * (WordBase * WordBase)
  PROVE  MulAdd(s, x, y) \in ThreeWords /\ Three(MulAdd(s, x, y)) = Three(s) + x * y
<1>. DEFINE BB == WordBase * WordBase
            product == x * y
            old == s.r0 + s.r1 * WordBase
            r01 == (s.r1 * WordBase + s.r0 + product) % (WordBase * WordBase)
            c == IF r01 < product THEN 1 ELSE 0
            r0 == r01 % WordBase
            r1 == r01 \div WordBase
            r2 == (s.r2 + c) % WordBase
            m == MulAdd(s, x, y)
<1>1. WordBase \in Nat /\ WordBase >= 2 /\ s.r0 \in Digit /\ s.r1 \in Digit /\ s.r2 \in Digit
  BY WordsNumbers DEF ThreeWords
<1>2. BB \in Nat /\ BB >= WordBase /\ product \in 0 .. (BB - 1) /\ old \in 0 .. (BB - 1) /\ WordBase * BB \in Nat
  BY <1>1, Squares
<1>3. s.r1 * WordBase + s.r0 + product = old + product
  <2>1. s.r1 * WordBase \in Int /\ s.r0 \in Int /\ product \in Int
    BY <1>1, <1>2 DEF Digit
  <2>. HIDE DEF product
  <2>. QED  BY <2>1
<1>4. MulAdd(s, x, y) = [r0 |-> r0, r1 |-> r1, r2 |-> r2]
  BY DEF MulAdd
<1>5. r01 = (old + product) % BB
  BY <1>3
<1>. HIDE DEF BB, product, old, r01
<1>6. c \in {0, 1} /\ r01 \in 0 .. (BB - 1) /\ old + product = r01 + c * BB
  <2>1. CASE old + product < BB
    <3>1. old + product = 0 * BB + (old + product)
      BY <1>2
    <3>2. r01 = old + product
      BY <1>2, <1>5, <2>1, <3>1, DivisionIs
    <3>. QED  BY <1>2, <2>1, <3>2
  <2>2. CASE old + product >= BB
    <3>1. old + product = 1 * BB + (old + product - BB) /\ old + product - BB \in 0 .. (BB - 1)
      BY <1>2, <2>2
    <3>2. r01 = old + product - BB
      BY <1>2, <1>5, <3>1, DivisionIs
    <3>. QED  BY <1>2, <2>2, <3>1, <3>2
  <2>. QED  BY <1>2, <2>1, <2>2
<1>. HIDE DEF c
<1>7. r0 \in Digit /\ r1 \in Digit /\ r01 = r0 + r1 * WordBase
  <2>1. r1 \in Int /\ r0 \in 0 .. (WordBase - 1) /\ r01 = r1 * WordBase + r0
    BY <1>1, <1>6, Division
  <2>. HIDE DEF r0, r1
  <2>2. r01 \in Nat /\ r1 * WordBase <= BB - 1 /\ r1 * WordBase \in Int
    BY <1>1, <1>2, <1>6, <2>1
  <2>3. r1 < WordBase
    <3>1. SUFFICES ASSUME r1 >= WordBase PROVE FALSE
      BY <1>1, <2>1
    <3>2. r1 * WordBase >= BB
      BY <1>1, <2>1, <3>1 DEF BB
    <3>. QED  BY <1>2, <2>2, <3>2
  <2>4. r1 >= 0
    <3>1. SUFFICES ASSUME r1 <= -1 PROVE FALSE
      BY <2>1
    <3>2. r1 * WordBase <= (-1) * WordBase
      BY <1>1, <2>1, <3>1
    <3>. QED  BY <1>1, <2>1, <2>2, <3>2
  <2>. QED  BY <1>1, <2>1, <2>2, <2>3, <2>4 DEF Digit
<1>. HIDE DEF r0, r1
<1>8. Three(s) = old + s.r2 * BB
  BY <1>1 DEF Three, old, BB
<1>9. old + product + s.r2 * BB < WordBase * BB
  <2>1. s.r2 * BB \in Int /\ s.r2 \in Int
    BY <1>1, <1>2 DEF Digit
  <2>2. Three(s) + product < WordBase * BB
    BY DEF product, BB
  <2>. QED  BY <1>2, <1>8, <2>1, <2>2
<1>10. s.r2 + c < WordBase
  <2>1. SUFFICES ASSUME s.r2 + c >= WordBase PROVE FALSE
    BY <1>1, <1>6 DEF Digit
  <2>2. (s.r2 + c) * BB >= WordBase * BB
    BY <1>1, <1>2, <1>6, <2>1 DEF Digit
  <2>3. (s.r2 + c) * BB = s.r2 * BB + c * BB /\ s.r2 * BB \in Int /\ c * BB \in Int
    BY <1>1, <1>2, <1>6 DEF Digit
  <2>. QED  BY <1>2, <1>6, <1>9, <2>2, <2>3
<1>11. r2 = s.r2 + c /\ r2 \in Digit
  BY <1>1, <1>6, <1>10 DEF Digit
<1>. HIDE DEF r2
<1>12. Three(m) = r01 + (s.r2 + c) * BB
  BY <1>1, <1>4, <1>7, <1>11 DEF Three, BB
<1>13. r01 + (s.r2 + c) * BB = old + product + s.r2 * BB
  <2>1. (s.r2 + c) * BB = s.r2 * BB + c * BB /\ s.r2 * BB \in Int /\ c * BB \in Int
    BY <1>1, <1>2, <1>6 DEF Digit
  <2>. QED  BY <1>2, <1>6, <2>1
<1>14. Three(m) = Three(s) + product
  <2>1. s.r2 * BB \in Int
    BY <1>1, <1>2 DEF Digit
  <2>. QED  BY <1>2, <1>8, <1>12, <1>13, <2>1
<1>15. m \in ThreeWords
  BY <1>4, <1>7, <1>11 DEF ThreeWords
<1>. QED  BY <1>14, <1>15 DEF product, m

(* The weights of two words multiply to that of the word of their product.     *)
LEMMA WeightProduct ==
  ASSUME NEW i \in 1 .. (2 * NumWords + 1), NEW j \in 1 .. (2 * NumWords + 1), i + j - 1 <= 2 * NumWords + 1
  PROVE  Weight(i) * Weight(j) = Weight(i + j - 1)
<1>. DEFINE T == {k \in 1 .. j : Weight(i) * Weight(k) = Weight(i + k - 1)}
<1>1. i \in Nat /\ j \in Nat /\ i >= 1 /\ j >= 1 /\ 2 * NumWords \in Nat
  BY WordsNumbers
<1>2. 1 \in T
  <2>1. i + 1 - 1 = i /\ Weight(1) = 1 /\ Weight(i) \in Nat
    BY <1>1, Weights
  <2>. QED  BY <1>1, <2>1
<1>3. ASSUME NEW k \in 1 .. (j - 1), k \in T PROVE k + 1 \in T
  <2>. DEFINE x == Weight(i)
              y == Weight(k)
  <2>1. k \in 1 .. (2 * NumWords) /\ i + k - 1 \in 1 .. (2 * NumWords) /\ (i + k - 1) + 1 = i + (k + 1) - 1
        /\ k + 1 \in 1 .. j /\ k \in 1 .. (2 * NumWords + 1)
    BY <1>1
  <2>2. Weight(k + 1) = WordBase * y /\ Weight(i + (k + 1) - 1) = WordBase * Weight(i + k - 1)
    BY <2>1, Weights
  <2>3. x \in Nat /\ y \in Nat /\ WordBase \in Nat
    BY <2>1, Weights, WordsNumbers
  <2>4. x * y = Weight(i + k - 1)
    BY <1>3
  <2>. HIDE DEF x, y
  <2>5. x * (WordBase * y) = WordBase * (x * y)
    BY <2>3
  <2>. QED  BY <2>1, <2>2, <2>4, <2>5 DEF x
<1>. HIDE DEF T
<1>4. 1 .. j \subseteq T
  BY <1>1, <1>2, <1>3, IntervalInductive
<1>. QED  BY <1>1, <1>4 DEF T

(* The function in ColumnSum, product by product.                              *)
First(k) == IF k <= NumWords THEN 1 ELSE k + 1 - NumWords
Last(k) == IF k <= NumWords THEN k ELSE NumWords

Summing(left, right, k, start) ==
  CHOOSE g : g =
    [i \in (First(k) - 1) .. Last(k) |->
        IF i = First(k) - 1 THEN start ELSE MulAdd(g[i - 1], left[i], right[k + 1 - i])]

LEMMA SummingRecursion ==
  ASSUME NEW k \in 1 .. (2 * NumWords - 1), NEW left, NEW right, NEW start
  PROVE  /\ First(k) \in 1 .. NumWords /\ Last(k) \in First(k) .. NumWords
         /\ \A i \in 1 .. NumWords : i \in First(k) .. Last(k) <=> k + 1 - i \in 1 .. NumWords
         /\ ColumnSum(left, right, k, start) = Summing(left, right, k, start)[Last(k)]
         /\ Summing(left, right, k, start)[First(k) - 1] = start
         /\ \A i \in First(k) .. Last(k) :
              Summing(left, right, k, start)[i] =
                MulAdd(Summing(left, right, k, start)[i - 1], left[i], right[k + 1 - i])
<1>1. First(k) \in 1 .. NumWords /\ Last(k) \in First(k) .. NumWords
      /\ \A i \in 1 .. NumWords : i \in First(k) .. Last(k) <=> k + 1 - i \in 1 .. NumWords
  BY WordsNumbers DEF First, Last
<1>. DEFINE D(before, i) == MulAdd(before, left[i], right[k + 1 - i])
            m == First(k) - 1
            last == Last(k)
            h == CHOOSE g : g = [i \in m .. last |-> IF i = m THEN start ELSE D(g[i - 1], i)]
<1>2. m \in Nat /\ last \in Nat /\ m + 1 = First(k)
  BY <1>1, WordsNumbers
<1>3. FiniteNatInductiveDefHypothesis(h, start, D, m, last)
  BY Zenon DEF FiniteNatInductiveDefHypothesis
<1>4. FiniteNatInductiveDefConclusion(h, start, D, m, last)
  <2>. HIDE DEF m, last, h, D
  <2>. QED  BY <1>2, <1>3, FiniteNatInductiveDef
<1>5. h = [i \in m .. last |-> IF i = m THEN start ELSE D(h[i - 1], i)]
  BY <1>4, Zenon DEF FiniteNatInductiveDefConclusion
<1>6. Summing(left, right, k, start) =
        [i \in m .. last |-> IF i = m THEN start ELSE D(Summing(left, right, k, start)[i - 1], i)]
  BY <1>5, Zenon DEF Summing
<1>7. ColumnSum(left, right, k, start) = Summing(left, right, k, start)[last]
  BY Zenon DEF ColumnSum, Summing, First, Last
<1>8. m \in m .. last /\ \A i \in First(k) .. last : i \in m .. last /\ i # m
  BY <1>1, <1>2
<1>. HIDE DEF h, D, m
<1>9. Summing(left, right, k, start)[m] = start
  BY <1>6, <1>8, Zenon
<1>10. \A i \in First(k) .. last : Summing(left, right, k, start)[i] = D(Summing(left, right, k, start)[i - 1], i)
  BY <1>6, <1>8, Zenon
<1>. QED  BY <1>1, <1>7, <1>9, <1>10 DEF D, m

(* The products of a column; those outside the words are none.                 *)
Products(left, right, k) ==
  [i \in 1 .. NumWords |-> IF k + 1 - i \in 1 .. NumWords THEN left[i] * right[k + 1 - i] ELSE 0]

LEMMA ColumnSumIsSum ==
  ASSUME NEW k \in 1 .. (2 * NumWords - 1), NEW left \in Words(NumWords), NEW right \in Words(NumWords),
         NEW start \in ThreeWords, start.r2 = 0
  PROVE  /\ ColumnSum(left, right, k, start) \in ThreeWords
         /\ Sums(Products(left, right, k), NumWords)[NumWords] \in Nat
         /\ Three(ColumnSum(left, right, k, start)) =
              Three(start) + Sums(Products(left, right, k), NumWords)[NumWords]
<1>. DEFINE q == Products(left, right, k)
            P == Sums(q, NumWords)
            f == Summing(left, right, k, start)
            first == First(k)
            last == Last(k)
            BB == WordBase * WordBase
            mm == (WordBase - 1) * (WordBase - 1)
<1>1. /\ first \in 1 .. NumWords /\ last \in first .. NumWords
      /\ \A i \in 1 .. NumWords : i \in first .. last <=> k + 1 - i \in 1 .. NumWords
      /\ ColumnSum(left, right, k, start) = f[last]
      /\ f[first - 1] = start
      /\ \A i \in first .. last : f[i] = MulAdd(f[i - 1], left[i], right[k + 1 - i])
  BY SummingRecursion
<1>2. NumWords \in Nat /\ NumWords >= 1 /\ NumWords <= WordBase /\ WordBase \in Nat /\ WordBase >= 2
  BY WordsNumbers
<1>3. \A i \in 1 .. NumWords : left[i] \in Digit /\ right[i] \in Digit
  BY <1>2 DEF Words
<1>4. BB \in Nat /\ BB >= WordBase /\ mm \in Nat /\ mm = BB - 2 * WordBase + 1 /\ WordBase * BB \in Nat
      /\ \A x, y \in Digit : x * y \in Nat /\ x * y <= mm
  BY Squares
<1>5. P[0] = 0 /\ \A i \in 1 .. NumWords : P[i] = P[i - 1] + q[i]
  BY <1>2, SumsRecursion
<1>6. \A i \in 1 .. NumWords : q[i] = IF i \in first .. last THEN left[i] * right[k + 1 - i] ELSE 0
  BY <1>1 DEF Products
<1>. HIDE DEF q, P, f, first, last, BB, mm
<1>7. \A i \in 1 .. NumWords : q[i] \in Nat /\ q[i] <= mm
  BY <1>1, <1>3, <1>4, <1>6
<1>8. \A i \in 0 .. NumWords : P[i] \in Nat /\ P[i] <= i * mm
  <2>. DEFINE T == {i \in 0 .. NumWords : P[i] \in Nat /\ P[i] <= i * mm}
  <2>1. 0 \in T
    <3>1. 0 * mm = 0
      BY <1>4
    <3>. QED  BY <1>2, <1>5, <3>1
  <2>2. ASSUME NEW i \in 0 .. (NumWords - 1), i \in T PROVE i + 1 \in T
    <3>1. i + 1 \in 1 .. NumWords /\ (i + 1) - 1 = i /\ i + 1 \in 0 .. NumWords
      BY <1>2
    <3>2. P[i + 1] = P[i] + q[i + 1] /\ q[i + 1] \in Nat /\ q[i + 1] <= mm /\ P[i] \in Nat /\ P[i] <= i * mm
      BY <1>5, <1>7, <2>2, <3>1
    <3>3. (i + 1) * mm = i * mm + mm /\ i * mm \in Int
      BY <1>4
    <3>. QED  BY <1>4, <3>1, <3>2, <3>3
  <2>. HIDE DEF T
  <2>3. 0 .. NumWords \subseteq T
    BY <1>2, <2>1, <2>2, IntervalInductive
  <2>. QED  BY <2>3 DEF T
<1>9. P[first - 1] = 0
  <2>. DEFINE T == {i \in 0 .. (first - 1) : P[i] = 0}
  <2>1. 0 \in T
    BY <1>1, <1>5
  <2>2. ASSUME NEW i \in 0 .. ((first - 1) - 1), i \in T PROVE i + 1 \in T
    <3>1. i + 1 \in 1 .. NumWords /\ (i + 1) - 1 = i /\ i + 1 \in 0 .. (first - 1) /\ i + 1 \notin first .. last
      BY <1>1, <1>2
    <3>2. P[i + 1] = P[i] + q[i + 1] /\ q[i + 1] = 0
      BY <1>5, <1>6, <3>1
    <3>. QED  BY <2>2, <3>1, <3>2
  <2>. HIDE DEF T
  <2>3. 0 .. (first - 1) \subseteq T
    BY <1>1, <2>1, <2>2, IntervalInductive
  <2>. QED  BY <1>1, <2>3 DEF T
<1>10. P[NumWords] = P[last]
  <2>. DEFINE T == {i \in last .. NumWords : P[i] = P[last]}
  <2>1. last \in T
    BY <1>1, <1>2
  <2>2. ASSUME NEW i \in last .. (NumWords - 1), i \in T PROVE i + 1 \in T
    <3>1. i + 1 \in 1 .. NumWords /\ (i + 1) - 1 = i /\ i + 1 \in last .. NumWords /\ i + 1 \notin first .. last
          /\ i \in 0 .. NumWords
      BY <1>1, <1>2
    <3>2. P[i + 1] = P[i] + q[i + 1] /\ q[i + 1] = 0 /\ P[i] \in Nat
      BY <1>5, <1>6, <1>8, <3>1
    <3>. QED  BY <2>2, <3>1, <3>2
  <2>. HIDE DEF T
  <2>3. last .. NumWords \subseteq T
    BY <1>1, <1>2, <2>1, <2>2, IntervalInductive
  <2>. QED  BY <1>1, <1>2, <2>3 DEF T
<1>11. Three(start) \in 0 .. (BB - 1)
  <2>1. start.r0 \in Digit /\ start.r1 \in Digit /\ 0 * BB = 0
    BY <1>4 DEF ThreeWords
  <2>2. start.r0 + start.r1 * WordBase \in 0 .. (BB - 1)
    BY <2>1, Squares DEF BB
  <2>3. Three(start) = start.r0 + start.r1 * WordBase
    BY <2>1, <2>2 DEF Three, BB
  <2>. QED  BY <2>2, <2>3
<1>12. \A i \in 0 .. NumWords : Three(start) + P[i] < WordBase * BB
  <2>. SUFFICES ASSUME NEW i \in 0 .. NumWords PROVE Three(start) + P[i] < WordBase * BB
    OBVIOUS
  <2>1. i * mm <= WordBase * mm /\ i * mm \in Int
    BY <1>2, <1>4
  <2>2. WordBase * mm = WordBase * BB - 2 * BB + WordBase
    <3>1. WordBase * mm = WordBase * (BB - 2 * WordBase + 1)
      BY <1>4
    <3>2. WordBase * (BB - 2 * WordBase + 1) = WordBase * BB - 2 * (WordBase * WordBase) + WordBase
      BY <1>2, <1>4
    <3>. QED  BY <3>1, <3>2 DEF BB
  <2>. QED  BY <1>2, <1>4, <1>8, <1>11, <2>1, <2>2
<1>. DEFINE G == {i \in (first - 1) .. last : f[i] \in ThreeWords /\ Three(f[i]) = Three(start) + P[i]}
<1>13. first - 1 \in G
  BY <1>1, <1>9, <1>11
<1>14. ASSUME NEW i \in (first - 1) .. (last - 1), i \in G PROVE i + 1 \in G
  <2>. DEFINE s == f[i]
              x == left[i + 1]
              y == right[k + 1 - (i + 1)]
  <2>1. i + 1 \in first .. last /\ i + 1 \in 1 .. NumWords /\ (i + 1) - 1 = i /\ i + 1 \in 0 .. NumWords
        /\ i + 1 \in (first - 1) .. last /\ i \in 0 .. NumWords
    BY <1>1, <1>2
  <2>2. f[i + 1] = MulAdd(s, x, y) /\ x \in Digit /\ y \in Digit
    <3>1. k + 1 - (i + 1) \in 1 .. NumWords
      BY <1>1, <2>1
    <3>. QED  BY <1>1, <1>3, <2>1, <3>1
  <2>3. P[i + 1] = P[i] + x * y /\ P[i] \in Nat
    BY <1>5, <1>6, <1>8, <2>1
  <2>4. s \in ThreeWords /\ Three(s) = Three(start) + P[i]
    BY <1>14
  <2>5. x * y \in Nat /\ Three(start) + P[i + 1] < WordBase * BB
    BY <1>4, <1>12, <2>1, <2>2
  <2>. HIDE DEF s, x, y
  <2>6. Three(s) + x * y < WordBase * (WordBase * WordBase)
    BY <1>11, <2>3, <2>4, <2>5 DEF BB
  <2>7. MulAdd(s, x, y) \in ThreeWords /\ Three(MulAdd(s, x, y)) = Three(s) + x * y
    BY <2>2, <2>4, <2>6, MulAddIsSum
  <2>8. Three(s) + x * y = Three(start) + P[i + 1]
    BY <1>11, <2>3, <2>4, <2>5
  <2>. QED  BY <2>1, <2>2, <2>7, <2>8
<1>. HIDE DEF G
<1>15. (first - 1) .. last \subseteq G
  BY <1>1, <1>13, <1>14, IntervalInductive
<1>16. last \in G /\ P[NumWords] \in Nat
  BY <1>1, <1>2, <1>8, <1>15
<1>. QED  BY <1>1, <1>10, <1>16 DEF G, P, q

(* The products of the first k columns, by the words of left: each word with   *)
(* the words of right that it meets in these columns.                          *)
Cap(j) == IF j < 0 THEN 0 ELSE IF j > NumWords THEN NumWords ELSE j

Rows(left, right, k) ==
  [i \in 1 .. NumWords |-> (left[i] * Weight(i)) * PartValue(right)[Cap(k + 1 - i)]]

LEMMA RowsByColumn ==
  ASSUME NEW k \in 1 .. (2 * NumWords - 1), NEW left \in Words(NumWords), NEW right \in Words(NumWords)
  PROVE  LET before == Sums(Rows(left, right, k - 1), NumWords)[NumWords]
             column == Sums(Products(left, right, k), NumWords)[NumWords]
             after == Sums(Rows(left, right, k), NumWords)[NumWords]
         IN  before \in Nat /\ column \in Nat /\ after = before + column * Weight(k)
<1>. DEFINE q0 == Rows(left, right, k - 1)
            q1 == Rows(left, right, k)
            qc == Products(left, right, k)
            P0 == Sums(q0, NumWords)
            P1 == Sums(q1, NumWords)
            PC == Sums(qc, NumWords)
            v == PartValue(right)
            wk == Weight(k)
            T == {i \in 0 .. NumWords : P0[i] \in Nat /\ PC[i] \in Nat /\ P1[i] = P0[i] + PC[i] * wk}
<1>1. NumWords \in Nat /\ NumWords >= 1 /\ k \in 1 .. (2 * NumWords + 1) /\ NumWords \in 0 .. (2 * NumWords)
  BY WordsNumbers
<1>2. \A i \in 1 .. NumWords : left[i] \in Nat /\ right[i] \in Nat
  BY <1>1, WordsNumbers DEF Words, Digit
<1>3. /\ P0[0] = 0 /\ \A i \in 1 .. NumWords : P0[i] = P0[i - 1] + q0[i]
      /\ P1[0] = 0 /\ \A i \in 1 .. NumWords : P1[i] = P1[i - 1] + q1[i]
      /\ PC[0] = 0 /\ \A i \in 1 .. NumWords : PC[i] = PC[i - 1] + qc[i]
  BY <1>1, SumsRecursion
<1>4. \A i \in 1 .. (2 * NumWords + 1) : Weight(i) \in Nat
  BY Weights
<1>5. \A i \in 0 .. NumWords : v[i] \in Nat
  <2>1. \A i \in 0 .. NumWords : i + 1 \in 1 .. (2 * NumWords + 1)
    BY <1>1
  <2>. QED  BY <1>1, <1>4, <2>1, PartValueRange
<1>6. \A i \in 1 .. NumWords : v[i] = v[i - 1] + right[i] * Weight(i)
  BY <1>1, PartValueRecursion DEF Words
<1>7. \A i \in 1 .. NumWords : /\ q0[i] = (left[i] * Weight(i)) * v[Cap(k - i)]
                               /\ q1[i] = (left[i] * Weight(i)) * v[Cap(k + 1 - i)]
                               /\ qc[i] = IF k + 1 - i \in 1 .. NumWords THEN left[i] * right[k + 1 - i] ELSE 0
  <2>1. \A i \in 1 .. NumWords : (k - 1) + 1 - i = k - i
    BY <1>1
  <2>. QED  BY <2>1 DEF Rows, Products
<1>. HIDE DEF q0, q1, qc, P0, P1, PC, v
<1>8. ASSUME NEW i \in 1 .. NumWords
      PROVE  q0[i] \in Nat /\ qc[i] \in Nat /\ q1[i] = q0[i] + qc[i] * wk
  <2>. DEFINE x == left[i]
              w == Weight(i)
              j == k + 1 - i
  <2>1. x \in Nat /\ w \in Nat /\ j \in Int /\ wk \in Nat /\ i \in 1 .. (2 * NumWords + 1) /\ j - 1 = k - i
    BY <1>1, <1>2, <1>4
  <2>2. q0[i] = (x * w) * v[Cap(j - 1)] /\ q1[i] = (x * w) * v[Cap(j)]
        /\ qc[i] = IF j \in 1 .. NumWords THEN x * right[j] ELSE 0
    BY <1>7, <2>1
  <2>3. Cap(j - 1) \in 0 .. NumWords /\ v[Cap(j - 1)] \in Nat
    BY <1>1, <1>5, <2>1 DEF Cap
  <2>4. q0[i] \in Nat
    <3>1. x * w \in Nat
      BY <2>1
    <3>. HIDE DEF x, w, j
    <3>. QED  BY <2>2, <2>3, <3>1
  <2>5. CASE j \in 1 .. NumWords
    <3>. DEFINE y == right[j]
                z == Weight(j)
                b == v[j - 1]
    <3>1. Cap(j) = j /\ Cap(j - 1) = j - 1 /\ j - 1 \in 0 .. NumWords /\ j \in 1 .. (2 * NumWords + 1)
          /\ i + j - 1 = k /\ k <= 2 * NumWords + 1
      BY <1>1, <2>1, <2>5 DEF Cap
    <3>2. y \in Nat /\ z \in Nat /\ b \in Nat /\ v[j] = b + y * z
      BY <1>2, <1>4, <1>5, <1>6, <2>5, <3>1
    <3>3. w * z = wk
      BY <2>1, <3>1, WeightProduct
    <3>4. q0[i] = (x * w) * b /\ q1[i] = (x * w) * (b + y * z) /\ qc[i] = x * y
      BY <2>2, <2>5, <3>1, <3>2
    <3>. HIDE DEF x, w, j, y, z, b, wk
    <3>5. x * y \in Nat /\ x * w \in Nat /\ y * z \in Nat
      BY <2>1, <3>2
    <3>6. (x * w) * (b + y * z) = (x * w) * b + (x * w) * (y * z)
      BY <3>2, <3>5
    <3>7. (x * w) * (y * z) = (x * y) * (w * z)
      <4>1. (x * w) * (y * z) = x * (w * (y * z))
        BY <2>1, <3>5
      <4>2. w * (y * z) = y * (w * z)
        BY <2>1, <3>2
      <4>3. x * (y * (w * z)) = (x * y) * (w * z)
        <5>1. w * z \in Nat
          BY <2>1, <3>2
        <5>. QED  BY <2>1, <3>2, <5>1
      <4>. QED  BY <4>1, <4>2, <4>3
    <3>. QED  BY <2>4, <3>3, <3>4, <3>5, <3>6, <3>7
  <2>6. CASE j \notin 1 .. NumWords
    <3>1. Cap(j) = Cap(j - 1)
      BY <1>1, <2>1, <2>6 DEF Cap
    <3>2. qc[i] = 0 /\ q1[i] = q0[i] /\ 0 * wk = 0
      BY <2>1, <2>2, <2>6, <3>1
    <3>. QED  BY <2>4, <3>2
  <2>. QED  BY <2>5, <2>6
<1>9. wk \in Nat
  BY <1>1, <1>4
<1>. HIDE DEF wk
<1>10. 0 \in T
  <2>1. 0 * wk = 0
    BY <1>9
  <2>. QED  BY <1>1, <1>3, <2>1
<1>11. ASSUME NEW i \in 0 .. (NumWords - 1), i \in T PROVE i + 1 \in T
  <2>1. i + 1 \in 1 .. NumWords /\ (i + 1) - 1 = i /\ i + 1 \in 0 .. NumWords
    BY <1>1
  <2>2. P0[i + 1] = P0[i] + q0[i + 1] /\ P1[i + 1] = P1[i] + q1[i + 1] /\ PC[i + 1] = PC[i] + qc[i + 1]
    BY <1>3, <2>1
  <2>3. q0[i + 1] \in Nat /\ qc[i + 1] \in Nat /\ q1[i + 1] = q0[i + 1] + qc[i + 1] * wk
    BY <1>8, <2>1
  <2>4. P0[i] \in Nat /\ PC[i] \in Nat /\ P1[i] = P0[i] + PC[i] * wk
    BY <1>11
  <2>5. (PC[i] + qc[i + 1]) * wk = PC[i] * wk + qc[i + 1] * wk /\ PC[i] * wk \in Nat /\ qc[i + 1] * wk \in Nat
    BY <1>9, <2>3, <2>4
  <2>6. P0[i + 1] \in Nat /\ PC[i + 1] \in Nat
    BY <2>2, <2>3, <2>4
  <2>7. P1[i + 1] = P0[i + 1] + PC[i + 1] * wk
    BY <2>2, <2>3, <2>4, <2>5
  <2>. QED  BY <2>1, <2>6, <2>7
<1>. HIDE DEF T
<1>12. 0 .. NumWords \subseteq T
  BY <1>1, <1>10, <1>11, IntervalInductive
<1>13. NumWords \in T
  BY <1>1, <1>12
<1>. QED  BY <1>13 DEF T, P0, P1, PC, q0, q1, qc, wk

(* Before the first column there is nothing, after the last the whole product. *)
LEMMA RowsEnds ==
  ASSUME NEW left \in Words(NumWords), NEW right \in Words(NumWords)
  PROVE  /\ Sums(Rows(left, right, 0), NumWords)[NumWords] = 0
         /\ Sums(Rows(left, right, 2 * NumWords - 1), NumWords)[NumWords] = ValueOf(left) * ValueOf(right)
<1>. DEFINE q0 == Rows(left, right, 0)
            q1 == Rows(left, right, 2 * NumWords - 1)
            P0 == Sums(q0, NumWords)
            P1 == Sums(q1, NumWords)
            u == PartValue(left)
            v == PartValue(right)
            y == v[NumWords]
            T == {i \in 0 .. NumWords : P0[i] = 0 /\ P1[i] = u[i] * y}
<1>1. NumWords \in Nat /\ NumWords >= 1 /\ NumWords \in 0 .. (2 * NumWords) /\ NumWords \in 0 .. NumWords
  BY WordsNumbers
<1>2. \A i \in 1 .. NumWords : left[i] \in Nat /\ Weight(i) \in Nat
  <2>1. \A i \in 1 .. NumWords : i \in 1 .. (2 * NumWords + 1)
    BY <1>1
  <2>2. \A i \in 1 .. NumWords : left[i] \in Nat
    BY <1>1, WordsNumbers DEF Words, Digit
  <2>. QED  BY <2>1, <2>2, Weights
<1>3. /\ P0[0] = 0 /\ \A i \in 1 .. NumWords : P0[i] = P0[i - 1] + q0[i]
      /\ P1[0] = 0 /\ \A i \in 1 .. NumWords : P1[i] = P1[i - 1] + q1[i]
  BY <1>1, SumsRecursion
<1>4. /\ u[0] = 0 /\ v[0] = 0
      /\ \A i \in 1 .. NumWords : u[i] = u[i - 1] + left[i] * Weight(i)
      /\ ValueOf(left) = u[NumWords] /\ ValueOf(right) = y
  BY <1>1, PartValueRecursion DEF Words
<1>5. \A i \in 0 .. NumWords : u[i] \in Nat /\ v[i] \in Nat
  <2>1. \A i \in 0 .. NumWords : i + 1 \in 1 .. (2 * NumWords + 1)
    BY <1>1
  <2>. QED  BY <1>1, <2>1, Weights, PartValueRange
<1>6. \A i \in 1 .. NumWords : q0[i] = (left[i] * Weight(i)) * v[0] /\ q1[i] = (left[i] * Weight(i)) * y
  <2>1. \A i \in 1 .. NumWords : Cap(0 + 1 - i) = 0 /\ Cap((2 * NumWords - 1) + 1 - i) = NumWords
    BY <1>1 DEF Cap
  <2>. QED  BY <2>1 DEF Rows
<1>7. y \in Nat
  BY <1>1, <1>5
<1>. HIDE DEF q0, q1, P0, P1, u, v, y
<1>8. 0 \in T
  <2>1. 0 * y = 0
    BY <1>7
  <2>. QED  BY <1>1, <1>3, <1>4, <2>1
<1>9. ASSUME NEW i \in 0 .. (NumWords - 1), i \in T PROVE i + 1 \in T
  <2>. DEFINE z == left[i + 1] * Weight(i + 1)
  <2>1. i + 1 \in 1 .. NumWords /\ (i + 1) - 1 = i /\ i + 1 \in 0 .. NumWords /\ i \in 0 .. NumWords
    BY <1>1
  <2>2. P0[i + 1] = P0[i] + z * v[0] /\ P1[i + 1] = P1[i] + z * y /\ u[i + 1] = u[i] + z
    BY <1>3, <1>4, <1>6, <2>1
  <2>3. z \in Nat /\ u[i] \in Nat
    <3>1. left[i + 1] \in Nat /\ Weight(i + 1) \in Nat
      BY <1>2, <2>1
    <3>. QED  BY <1>5, <2>1, <3>1
  <2>. HIDE DEF z
  <2>4. z * v[0] = 0 /\ (u[i] + z) * y = u[i] * y + z * y
    BY <1>4, <1>7, <2>3
  <2>5. P0[i] = 0 /\ P1[i] = u[i] * y
    BY <1>9
  <2>. QED  BY <2>1, <2>2, <2>4, <2>5
<1>. HIDE DEF T
<1>10. 0 .. NumWords \subseteq T
  BY <1>1, <1>8, <1>9, IntervalInductive
<1>11. NumWords \in T
  BY <1>1, <1>10
<1>. QED  BY <1>4, <1>11 DEF T, P0, P1, q0, q1

(* The function in MultWords, column by column.                                *)
Multiplying(left, right) ==
  CHOOSE g : g =
    [k \in 0 .. (2 * NumWords - 1) |->
        IF k = 0 THEN [words |-> <<>>, sum |-> [r0 |-> 0, r1 |-> 0, r2 |-> 0]]
        ELSE LET before == g[k - 1]
                 sum == ColumnSum(left, right, k, before.sum)
             IN  [words |-> Append(before.words, sum.r0),
                  sum |-> [r0 |-> sum.r1, r1 |-> sum.r2, r2 |-> 0]]]

MultStep(left, right, k, before) ==
  LET sum == ColumnSum(left, right, k, before.sum)
  IN  [words |-> Append(before.words, sum.r0), sum |-> [r0 |-> sum.r1, r1 |-> sum.r2, r2 |-> 0]]

LEMMA MultiplyingRecursion ==
  ASSUME NEW left, NEW right
  PROVE  LET f == Multiplying(left, right)
         IN  /\ MultWords(left, right) = Append(f[2 * NumWords - 1].words, f[2 * NumWords - 1].sum.r0)
             /\ f[0] = [words |-> <<>>, sum |-> [r0 |-> 0, r1 |-> 0, r2 |-> 0]]
             /\ \A k \in 1 .. (2 * NumWords - 1) : f[k] = MultStep(left, right, k, f[k - 1])
<1>. DEFINE D(before, k) == MultStep(left, right, k, before)
            zero == [words |-> <<>>, sum |-> [r0 |-> 0, r1 |-> 0, r2 |-> 0]]
            last == 2 * NumWords - 1
            f == Multiplying(left, right)
            h == CHOOSE g : g = [i \in 0 .. last |-> IF i = 0 THEN zero ELSE D(g[i - 1], i)]
<1>1. last \in Nat
  BY WordsNumbers
<1>2. FiniteNatInductiveDefHypothesis(h, zero, D, 0, last)
  BY Zenon DEF FiniteNatInductiveDefHypothesis
<1>3. FiniteNatInductiveDefConclusion(h, zero, D, 0, last)
  BY <1>1, <1>2, FiniteNatInductiveDef
<1>4. h = [i \in 0 .. last |-> IF i = 0 THEN zero ELSE D(h[i - 1], i)]
  BY <1>3, Zenon DEF FiniteNatInductiveDefConclusion
<1>5. f = [i \in 0 .. last |-> IF i = 0 THEN zero ELSE D(f[i - 1], i)]
  BY <1>4, Zenon DEF Multiplying, MultStep
<1>6. MultWords(left, right) = Append(f[last].words, f[last].sum.r0)
  BY Zenon DEF MultWords, Multiplying
<1>7. 0 \in 0 .. last /\ \A i \in 1 .. last : i \in 0 .. last /\ i # 0
  BY <1>1
<1>. HIDE DEF h, D, zero, f, last
<1>8. f[0] = zero
  BY <1>5, <1>7, Zenon
<1>9. \A i \in 1 .. last : f[i] = D(f[i - 1], i)
  BY <1>5, <1>7, Zenon
<1>. QED  BY <1>6, <1>8, <1>9 DEF D, zero, f, last

(* uECC_vli_mult: the words are the product, and the last one takes all that   *)
(* the columns have left.                                                      *)
THEOREM MultWordsIsProduct ==
  ASSUME NEW left \in Words(NumWords), NEW right \in Words(NumWords)
  PROVE  /\ MultWords(left, right) \in Words(2 * NumWords)
         /\ ValueOf(MultWords(left, right)) = ValueOf(left) * ValueOf(right)
<1>. DEFINE f == Multiplying(left, right)
            last == 2 * NumWords - 1
            R(k) == Sums(Rows(left, right, k), NumWords)[NumWords]
            C(k) == Sums(Products(left, right, k), NumWords)[NumWords]
            Good(s, k) == /\ s.words \in Words(k) /\ s.sum \in ThreeWords /\ s.sum.r2 = 0
                          /\ ValueOf(s.words) + Three(s.sum) * Weight(k + 1) = R(k)
            T == {k \in 0 .. last : Good(f[k], k)}
<1>1. /\ MultWords(left, right) = Append(f[last].words, f[last].sum.r0)
      /\ f[0] = [words |-> <<>>, sum |-> [r0 |-> 0, r1 |-> 0, r2 |-> 0]]
      /\ \A k \in 1 .. last : f[k] = MultStep(left, right, k, f[k - 1])
  BY MultiplyingRecursion
<1>2. last \in Nat /\ last >= 1 /\ NumWords \in Nat /\ NumWords >= 1 /\ WordBase \in Nat /\ WordBase >= 2
      /\ last + 1 = 2 * NumWords /\ 0 \in Digit
  BY WordsNumbers DEF Digit
<1>3. R(0) = 0 /\ R(last) = ValueOf(left) * ValueOf(right)
  BY RowsEnds
<1>4. \A k \in 1 .. last : R(k - 1) \in Nat /\ C(k) \in Nat /\ R(k) = R(k - 1) + C(k) * Weight(k)
  BY RowsByColumn
<1>. HIDE DEF f, last, R, C
<1>5. 0 \in T
  <2>1. <<>> \in Words(0) /\ ValueOf(<<>>) = 0
    <3>1. <<>> \in Words(0) /\ Len(<<>>) = 0
      BY DEF Words
    <3>. QED  BY <3>1, PartValueRecursion
  <2>. DEFINE z == [r0 |-> 0, r1 |-> 0, r2 |-> 0]
  <2>2. z \in ThreeWords /\ z.r2 = 0 /\ Three(z) = 0
    <3>1. 0 * WordBase = 0 /\ 0 * (WordBase * WordBase) = 0
      BY <1>2
    <3>. QED  BY <1>2, <3>1 DEF ThreeWords, Three
  <2>3. f[0].words = <<>> /\ f[0].sum = z
    BY <1>1
  <2>. HIDE DEF z
  <2>4. 0 * Weight(0 + 1) = 0
    BY Weights
  <2>. QED  BY <1>2, <1>3, <2>1, <2>2, <2>3, <2>4
<1>6. ASSUME NEW k \in 0 .. (last - 1), k \in T PROVE k + 1 \in T
  <2>. DEFINE s == f[k]
              sum == ColumnSum(left, right, k + 1, s.sum)
              next == [r0 |-> sum.r1, r1 |-> sum.r2, r2 |-> 0]
              w == Weight(k + 1)
              V == ValueOf(s.words)
              t == Three(s.sum)
              c == C(k + 1)
  <2>1. k + 1 \in 1 .. last /\ (k + 1) - 1 = k /\ k + 1 \in 0 .. last /\ k \in 0 .. (2 * NumWords - 1)
        /\ k + 1 \in 1 .. (2 * NumWords) /\ k + 1 \in 1 .. (2 * NumWords - 1) /\ (k + 1) + 1 = k + 2
        /\ k + 1 \in 1 .. (2 * NumWords + 1) /\ k \in 0 .. (2 * NumWords)
    BY <1>2 DEF last
  <2>2. Good(s, k)
    BY <1>6
  <2>3. f[k + 1] = [words |-> Append(s.words, sum.r0), sum |-> next]
    BY <1>1, <2>1 DEF MultStep
  <2>4. sum \in ThreeWords /\ c \in Nat /\ Three(sum) = t + c
    BY <2>1, <2>2, ColumnSumIsSum DEF C
  <2>5. w \in Nat /\ Weight(k + 2) = WordBase * w /\ R(k + 1) = R(k) + c * w
    BY <1>4, <2>1, Weights
  <2>6. V \in Int /\ t \in Int /\ V + t * w = R(k)
    <3>1. V \in Int
      BY <2>1, <2>2, <2>5, ValueRange
    <3>2. t \in Int
      <4>1. s.sum.r0 \in Int /\ s.sum.r1 \in Int /\ s.sum.r2 \in Int
        BY <2>2, WordsNumbers DEF ThreeWords, Digit
      <4>. QED  BY <1>2, <4>1 DEF Three
    <3>. QED  BY <2>2, <3>1, <3>2
  <2>7. sum.r0 \in Digit /\ sum.r1 \in Digit /\ sum.r2 \in Digit
    BY <2>4 DEF ThreeWords
  <2>8. next \in ThreeWords /\ next.r2 = 0
    BY <1>2, <2>7 DEF ThreeWords
  <2>9. Three(sum) = sum.r0 + Three(next) * WordBase /\ Three(next) \in Int
    <3>. DEFINE x == sum.r0
                y == sum.r1
                z == sum.r2
    <3>1. x \in Int /\ y \in Int /\ z \in Int
      BY <2>7, WordsNumbers DEF Digit
    <3>2. Three(sum) = x + y * WordBase + z * (WordBase * WordBase)
      BY DEF Three
    <3>3. Three(next) = y + z * WordBase
      <4>1. 0 * (WordBase * WordBase) = 0 /\ y + z * WordBase + 0 = y + z * WordBase
        BY <1>2, <3>1
      <4>. QED  BY <4>1 DEF Three
    <3>. HIDE DEF x, y, z, next, sum
    <3>4. (y + z * WordBase) * WordBase = y * WordBase + z * (WordBase * WordBase)
      <4>1. (y + z * WordBase) * WordBase = y * WordBase + (z * WordBase) * WordBase
        BY <1>2, <3>1
      <4>2. (z * WordBase) * WordBase = z * (WordBase * WordBase)
        BY <1>2, <3>1
      <4>. QED  BY <4>1, <4>2
    <3>5. y * WordBase \in Int /\ z * (WordBase * WordBase) \in Int
      BY <1>2, <3>1
    <3>6. Three(next) \in Int
      BY <1>2, <3>1, <3>3
    <3>. QED  BY <3>1, <3>2, <3>3, <3>4, <3>5, <3>6 DEF x
  <2>10. Append(s.words, sum.r0) \in Words(k + 1) /\ ValueOf(Append(s.words, sum.r0)) = V + sum.r0 * w
    BY <2>1, <2>2, <2>7, ValueAppend
  <2>. HIDE DEF s, sum, next, w, V, t, c
  <2>11. V + sum.r0 * w + Three(next) * (WordBase * w) = R(k + 1)
    <3>. DEFINE x == sum.r0
                n == Three(next)
    <3>1. x \in Int /\ n \in Int /\ x + n * WordBase = t + c
      BY <2>4, <2>7, <2>9, WordsNumbers DEF Digit
    <3>. HIDE DEF x, n
    <3>2. x * w + n * (WordBase * w) = t * w + c * w
      BY <1>2, <2>4, <2>5, <2>6, <3>1, Carrying
    <3>3. x * w \in Int /\ n * (WordBase * w) \in Int /\ t * w \in Int /\ c * w \in Int
      BY <1>2, <2>4, <2>5, <2>6, <3>1
    <3>4. V + x * w + n * (WordBase * w) = R(k + 1)
      BY <2>5, <2>6, <3>2, <3>3
    <3>. QED  BY <3>4 DEF x, n
  <2>12. f[k + 1].words = Append(s.words, sum.r0) /\ f[k + 1].sum = next
    BY <2>3
  <2>. QED  BY <2>1, <2>5, <2>8, <2>10, <2>11, <2>12
<1>. HIDE DEF T
<1>7. 0 .. last \subseteq T
  BY <1>2, <1>5, <1>6, IntervalInductive
<1>. DEFINE s == f[last]
            V == ValueOf(s.words)
            t == Three(s.sum)
            w == Weight(2 * NumWords)
            top == Weight(NumWords + 1)
            x == ValueOf(left)
            y == ValueOf(right)
<1>8. s.words \in Words(last) /\ s.sum \in ThreeWords /\ V + t * w = x * y
  BY <1>2, <1>3, <1>7 DEF T
<1>9. /\ NumWords + 1 \in 1 .. (2 * NumWords + 1) /\ NumWords \in 0 .. (2 * NumWords)
      /\ 2 * NumWords \in 1 .. (2 * NumWords) /\ last \in 0 .. (2 * NumWords - 1) /\ last \in 0 .. (2 * NumWords)
      /\ 2 * NumWords \in 1 .. (2 * NumWords + 1) /\ (NumWords + 1) + (NumWords + 1) - 1 = 2 * NumWords + 1
  BY <1>2 DEF last
<1>10. /\ w \in Nat /\ w >= 1 /\ top \in Nat /\ top >= 1 /\ top * top = WordBase * w
       /\ V \in Nat /\ x \in 0 .. (top - 1) /\ y \in 0 .. (top - 1)
  <2>1. w \in Nat /\ w >= 1 /\ top \in Nat /\ top >= 1
    BY <1>9, Weights
  <2>2. top * top = Weight(2 * NumWords + 1)
    <3>1. (NumWords + 1) + (NumWords + 1) - 1 <= 2 * NumWords + 1
      BY <1>2
    <3>. QED  BY <1>9, <3>1, WeightProduct
  <2>3. Weight(2 * NumWords + 1) = WordBase * w
    BY <1>9, Weights
  <2>4. V \in Nat
    BY <1>2, <1>8, <1>9, <2>1, ValueRange
  <2>5. x \in 0 .. (top - 1) /\ y \in 0 .. (top - 1)
    BY <1>9, ValueRange
  <2>. QED  BY <2>1, <2>2, <2>3, <2>4, <2>5
<1>11. s.sum.r0 \in Nat /\ s.sum.r1 \in Nat /\ s.sum.r2 \in Nat /\ s.sum.r0 \in Digit
  BY <1>8, WordsNumbers DEF ThreeWords, Digit
<1>12. t = s.sum.r0
  <2>. DEFINE r0 == s.sum.r0
              r1 == s.sum.r1
              r2 == s.sum.r2
              BB == WordBase * WordBase
  <2>1. t = r0 + r1 * WordBase + r2 * BB /\ BB \in Nat /\ BB >= WordBase
    BY <1>2, Squares DEF Three
  <2>. HIDE DEF s, V, t, w, top, x, y, r0, r1, r2, BB
  <2>2. x * y < WordBase * w
    <3>1. x * y <= (top - 1) * (top - 1) /\ (top - 1) * (top - 1) < top * top
      <4>1. x * y <= x * (top - 1) /\ x * (top - 1) <= (top - 1) * (top - 1)
        BY <1>10
      <4>2. (top - 1) * (top - 1) = top * top - 2 * top + 1
        BY <1>10
      <4>3. x * y \in Int /\ x * (top - 1) \in Int /\ (top - 1) * (top - 1) \in Int /\ top * top \in Int
        BY <1>10
      <4>. QED  BY <1>10, <4>1, <4>2, <4>3
    <3>2. x * y \in Int /\ (top - 1) * (top - 1) \in Int /\ WordBase * w \in Int
      BY <1>2, <1>10
    <3>. QED  BY <1>10, <3>1, <3>2
  <2>3. t \in Nat
    <3>1. r1 * WordBase \in Nat /\ r2 * BB \in Nat
      BY <1>2, <1>11, <2>1 DEF r1, r2
    <3>. QED  BY <1>11, <2>1, <3>1 DEF r0
  <2>4. t < WordBase
    <3>1. SUFFICES ASSUME t >= WordBase PROVE FALSE
      BY <1>2, <2>3
    <3>2. t * w >= WordBase * w /\ t * w \in Int /\ WordBase * w \in Int /\ x * y \in Int
      BY <1>2, <1>10, <2>3, <3>1
    <3>. QED  BY <1>8, <1>10, <2>2, <3>2
  <2>5. r1 = 0
    <3>1. SUFFICES ASSUME r1 >= 1 PROVE FALSE
      BY <1>11 DEF r1
    <3>2. r1 * WordBase >= WordBase /\ r1 * WordBase \in Nat /\ r2 * BB \in Nat
      BY <1>2, <1>11, <2>1, <3>1 DEF r1, r2
    <3>. QED  BY <1>2, <1>11, <2>1, <2>3, <2>4, <3>2 DEF r0
  <2>6. r2 = 0
    <3>1. SUFFICES ASSUME r2 >= 1 PROVE FALSE
      BY <1>11 DEF r2
    <3>2. r2 * BB >= BB /\ r1 * WordBase \in Nat /\ r2 * BB \in Nat
      BY <1>2, <1>11, <2>1, <3>1 DEF r1, r2
    <3>. QED  BY <1>2, <1>11, <2>1, <2>3, <2>4, <3>2 DEF r0
  <2>7. 0 * WordBase = 0 /\ 0 * BB = 0
    BY <1>2, <2>1
  <2>. QED  BY <1>11, <2>1, <2>5, <2>6, <2>7 DEF r0
<1>13. /\ Append(s.words, s.sum.r0) \in Words(last + 1)
       /\ ValueOf(Append(s.words, s.sum.r0)) = V + s.sum.r0 * Weight(last + 1)
  BY <1>8, <1>9, <1>11, ValueAppend
<1>. QED  BY <1>1, <1>2, <1>8, <1>12, <1>13

-------------------------------------------------------------------------------
(* Numbers of bits                                                             *)

LEMMA BitLengthRecursion ==
  \A d \in Nat : BitLength[d] = IF d = 0 THEN 0 ELSE 1 + BitLength[d \div 2]
<1>. DEFINE D(g, d) == IF d = 0 THEN 0 ELSE 1 + g[d \div 2]
            R == OpToRel(<, Nat)
            h == CHOOSE g : g = [d \in Nat |-> IF d = 0 THEN 0 ELSE 1 + g[d \div 2]]
<1>1. IsWellFoundedOn(R, Nat)
  BY NatLessThanWellFounded
<1>2. WFDefOn(R, Nat, D)
  <2>1. ASSUME NEW g, NEW f, NEW d \in Nat, \A y \in SetLessThan(d, R, Nat) : g[y] = f[y]
        PROVE  D(g, d) = D(f, d)
    <3>1. CASE d = 0
      BY <3>1
    <3>2. CASE d # 0
      <4>1. d \div 2 \in Nat /\ d \div 2 < d
        BY <3>2
      <4>2. d \div 2 \in SetLessThan(d, R, Nat)
        BY <4>1 DEF SetLessThan, OpToRel
      <4>. QED  BY <2>1, <4>2
    <3>. QED  BY <3>1, <3>2
  <2>. HIDE DEF D, R
  <2>. QED  BY <2>1 DEF WFDefOn
<1>3. OpDefinesFcn(h, Nat, D)
  BY Zenon DEF OpDefinesFcn
<1>4. WFInductiveDefines(h, Nat, D)
  <2>. HIDE DEF h, R, D
  <2>. QED  BY <1>1, <1>2, <1>3, WFInductiveDef
<1>5. h = [d \in Nat |-> IF d = 0 THEN 0 ELSE 1 + h[d \div 2]]
  BY <1>4, Zenon DEF WFInductiveDefines
<1>6. BitLength = [d \in Nat |-> IF d = 0 THEN 0 ELSE 1 + BitLength[d \div 2]]
  BY <1>5, Zenon DEF BitLength
<1>. QED  BY <1>6, Zenon

(* A number from 2^(i - 1) up to 2^i has i bits.                               *)
LEMMA BitLengthOf ==
  ASSUME NEW last \in Nat, NEW i \in 1 .. last,
         NEW d \in Powers(2, last)[i] .. (Powers(2, last)[i + 1] - 1)
  PROVE  BitLength[d] = i
<1>. DEFINE s == Powers(2, last)
            T == {j \in 1 .. last : \A x \in s[j] .. (s[j + 1] - 1) : BitLength[x] = j}
<1>1. s \in Seq(Nat) /\ Len(s) = last + 1 /\ s[1] = 1 /\ \A j \in 1 .. last : s[j + 1] = 2 * s[j]
  BY PowersProperties
<1>. HIDE DEF s
<1>2. \A j \in 1 .. (last + 1) : s[j] \in Nat
  <2>. SUFFICES ASSUME NEW j \in 1 .. (last + 1) PROVE s[j] \in Nat
    OBVIOUS
  <2>1. j \in 1 .. Len(s) /\ s \in Seq(Nat)
    BY <1>1
  <2>. QED  BY <2>1
<1>3. BitLength[0] = 0 /\ BitLength[1] = 1
  BY BitLengthRecursion
<1>4. 1 \in T
  <2>1. s[1] = 1 /\ s[1 + 1] = 2
    BY <1>1
  <2>2. \A x \in s[1] .. (s[1 + 1] - 1) : x = 1
    BY <2>1
  <2>. QED  BY <1>3, <2>2
<1>5. ASSUME NEW j \in 1 .. (last - 1), j \in T PROVE j + 1 \in T
  <2>1. j \in 1 .. last /\ j + 1 \in 1 .. last /\ j \in 1 .. (last + 1) /\ j + 1 \in 1 .. (last + 1) /\ (j + 1) + 1 = j + 2
    OBVIOUS
  <2>2. s[j] \in Nat /\ s[j + 1] = 2 * s[j] /\ s[j + 2] = 2 * s[j + 1]
    BY <1>1, <1>2, <2>1
  <2>3. ASSUME NEW x \in s[j + 1] .. (s[j + 2] - 1)
        PROVE  BitLength[x] = j + 1
    <3>. DEFINE q == x \div 2
                m == s[j]
    <3>0. x \in Int /\ m \in Nat /\ x >= 2 * m /\ x <= 4 * m - 1
      BY <2>2
    <3>1. x \in Nat /\ q \in Int /\ x % 2 \in 0 .. 1 /\ x = q * 2 + (x % 2)
      BY <3>0, Division
    <3>2. q >= m /\ q <= 2 * m - 1
      <4>. HIDE DEF q
      <4>. QED  BY <3>0, <3>1
    <3>3. q \in s[j] .. (s[j + 1] - 1)
      BY <2>2, <3>1, <3>2
    <3>4. BitLength[q] = j
      BY <1>5, <3>3
    <3>5. x # 0
      <4>1. m # 0
        BY <3>0
      <4>. QED  BY <3>0, <4>1
    <3>. QED  BY <3>1, <3>4, <3>5, BitLengthRecursion
  <2>. QED  BY <2>1, <2>3
<1>. HIDE DEF T
<1>6. 1 .. last \subseteq T
  BY <1>4, <1>5, IntervalInductive
<1>. QED  BY <1>6 DEF T, s

(* Powers of a base whose power k is what a word holds, up to all the words:   *)
(* these are the weights of the words times the first powers.                  *)
PowerSeries(s, base, last) ==
  /\ s[1] = 1 /\ \A j \in 1 .. last : s[j + 1] = base * s[j]
  /\ \A j \in 1 .. (last + 1) : s[j] \in Nat

LEMMA PowersOfWords ==
  ASSUME NEW base \in Nat, NEW k \in Nat, k >= 1, NEW s, NEW t,
         PowerSeries(s, base, NumWords * k), PowerSeries(t, base, k), t[k + 1] = WordBase
  PROVE  /\ \A i \in 0 .. (NumWords - 1), j \in 0 .. k : /\ i * k + j + 1 \in 1 .. (NumWords * k + 1)
                                                      /\ s[i * k + j + 1] = Weight(i + 1) * t[j + 1]
         /\ s[NumWords * k + 1] = Weight(NumWords + 1)
<1>0. /\ s[1] = 1 /\ \A j \in 1 .. (NumWords * k) : s[j + 1] = base * s[j]
      /\ \A j \in 1 .. (NumWords * k + 1) : s[j] \in Nat
      /\ t[1] = 1 /\ \A j \in 1 .. k : t[j + 1] = base * t[j]
      /\ \A j \in 1 .. (k + 1) : t[j] \in Nat
  BY DEF PowerSeries
<1>. DEFINE last == NumWords * k
<1>1. NumWords \in Nat /\ NumWords >= 1 /\ WordBase \in Nat /\ last \in Nat
  BY WordsNumbers
<1>2. ASSUME NEW i \in 0 .. (NumWords - 1)
      PROVE  \A j \in 0 .. k : /\ i * k + j + 1 \in 1 .. (last + 1)
                               /\ s[i * k + j + 1] = s[i * k + 1] * t[j + 1]
  <2>. DEFINE b == i * k
              T == {j \in 0 .. k : s[b + j + 1] = s[b + 1] * t[j + 1]}
  <2>1. b \in Nat /\ b + k <= last
    <3>1. b + k = (i + 1) * k
      BY <1>1
    <3>2. (i + 1) * k <= NumWords * k
      BY <1>1
    <3>. QED  BY <1>1, <3>1, <3>2
  <2>. HIDE DEF b, last
  <2>2. \A j \in 0 .. k : b + j + 1 \in 1 .. (last + 1)
    BY <1>1, <2>1
  <2>3. 0 \in T
    <3>1. b + 1 \in 1 .. (last + 1) /\ b + 0 + 1 = b + 1
      BY <1>1, <2>1
    <3>2. s[b + 1] \in Nat /\ t[0 + 1] = 1
      BY <1>0, <3>1 DEF last
    <3>. QED  BY <1>1, <3>1, <3>2
  <2>4. ASSUME NEW j \in 0 .. (k - 1), j \in T PROVE j + 1 \in T
    <3>1. j + 1 \in 1 .. k /\ (j + 1) + 1 = j + 2 /\ j + 1 \in 0 .. k /\ b + j + 1 \in 1 .. last
          /\ (b + j + 1) + 1 = b + (j + 1) + 1 /\ b + 1 \in 1 .. (last + 1) /\ j + 1 \in 1 .. (k + 1)
      BY <1>1, <2>1
    <3>2. s[b + (j + 1) + 1] = base * s[b + j + 1] /\ t[j + 2] = base * t[j + 1]
      BY <1>0, <3>1 DEF last
    <3>3. s[b + 1] \in Nat /\ t[j + 1] \in Nat /\ s[b + j + 1] = s[b + 1] * t[j + 1]
      BY <1>0, <2>4, <3>1 DEF last
    <3>4. base * (s[b + 1] * t[j + 1]) = s[b + 1] * (base * t[j + 1])
      BY <3>3
    <3>5. s[b + (j + 1) + 1] = s[b + 1] * t[(j + 1) + 1]
      BY <3>1, <3>2, <3>3, <3>4
    <3>. QED  BY <3>1, <3>5
  <2>. HIDE DEF T
  <2>5. 0 .. k \subseteq T
    <3>1. 0 \in Int /\ k \in Int
      OBVIOUS
    <3>. QED  BY <2>3, <2>4, <3>1, IntervalInductive
  <2>. QED  BY <2>2, <2>5 DEF T, b
<1>3. \A i \in 0 .. NumWords : s[i * k + 1] = Weight(i + 1)
  <2>. DEFINE T == {i \in 0 .. NumWords : s[i * k + 1] = Weight(i + 1)}
  <2>1. 0 \in T
    <3>1. 0 * k + 1 = 1 /\ 0 \in 0 .. NumWords /\ 0 + 1 = 1
      BY <1>1
    <3>2. s[0 * k + 1] = Weight(0 + 1)
      BY <1>0, <3>1, Weights
    <3>. QED  BY <3>1, <3>2
  <2>2. ASSUME NEW i \in 0 .. (NumWords - 1), i \in T PROVE i + 1 \in T
    <3>1. k \in 0 .. k /\ i * k + k + 1 = (i + 1) * k + 1 /\ i + 1 \in 0 .. NumWords
          /\ i + 1 \in 1 .. (2 * NumWords) /\ (i + 1) + 1 = i + 2 /\ i + 1 \in 1 .. (2 * NumWords + 1)
      BY <1>1
    <3>2. s[i * k + k + 1] = s[i * k + 1] * t[k + 1]
      BY <1>2, <3>1
    <3>3. s[(i + 1) * k + 1] = Weight(i + 1) * WordBase
      BY <1>0, <2>2, <3>1, <3>2
    <3>4. Weight(i + 2) = WordBase * Weight(i + 1) /\ Weight(i + 1) \in Nat
      BY <3>1, Weights
    <3>5. Weight(i + 1) * WordBase = WordBase * Weight(i + 1)
      BY <1>1, <3>4
    <3>. QED  BY <3>1, <3>3, <3>4, <3>5
  <2>. HIDE DEF T
  <2>3. 0 .. NumWords \subseteq T
    BY <1>1, <2>1, <2>2, IntervalInductive
  <2>. QED  BY <2>3 DEF T
<1>4. \A i \in 0 .. (NumWords - 1) : i \in 0 .. NumWords
  BY <1>1
<1>5. NumWords \in 0 .. NumWords
  BY <1>1
<1>. QED  BY <1>2, <1>3, <1>4, <1>5

(* The powers themselves are positive.                                         *)
LEMMA PowersPositive ==
  ASSUME NEW base \in Nat, base >= 1, NEW last \in Nat
  PROVE  \A i \in 1 .. (last + 1) : Powers(base, last)[i] \in Nat /\ Powers(base, last)[i] >= 1
<1>. DEFINE s == Powers(base, last)
            T == {j \in 1 .. (last + 1) : s[j] >= 1}
<1>1. s \in Seq(Nat) /\ Len(s) = last + 1 /\ s[1] = 1 /\ \A j \in 1 .. last : s[j + 1] = base * s[j]
  BY PowersProperties
<1>. HIDE DEF s
<1>2. \A j \in 1 .. (last + 1) : s[j] \in Nat
  <2>. SUFFICES ASSUME NEW j \in 1 .. (last + 1) PROVE s[j] \in Nat
    OBVIOUS
  <2>1. j \in 1 .. Len(s) /\ s \in Seq(Nat)
    BY <1>1
  <2>. QED  BY <2>1
<1>3. 1 \in T
  BY <1>1
<1>4. ASSUME NEW j \in 1 .. ((last + 1) - 1), j \in T PROVE j + 1 \in T
  <2>1. j \in 1 .. last /\ j + 1 \in 1 .. (last + 1) /\ s[j] >= 1 /\ s[j] \in Nat
    BY <1>2, <1>4
  <2>2. s[j + 1] = base * s[j]
    BY <1>1, <2>1
  <2>3. base * s[j] >= 1
    BY <2>1
  <2>. QED  BY <2>1, <2>2, <2>3
<1>. HIDE DEF T
<1>5. 1 .. (last + 1) \subseteq T
  BY <1>3, <1>4, IntervalInductive
<1>. QED  BY <1>2, <1>5 DEF T, s

(* Bits of words are bits: each word counts for 2^WordBits of the one below.   *)
Shifts == NumWords * WordBits

LEMMA WeightIsPower ==
  /\ Shifts \in Nat /\ Shifts >= 1 /\ Total = Powers(2, Shifts)[Shifts + 1]
  /\ \A i \in 1 .. (Shifts + 1) : Powers(2, Shifts)[i] \in Nat /\ Powers(2, Shifts)[i] >= 1
<1>. DEFINE s == Powers(2, Shifts)
            t == Powers(2, WordBits)
<1>1. WordBits \in Nat /\ WordBits >= 1 /\ NumWords \in Nat /\ NumWords >= 1 /\ WordBase = t[WordBits + 1]
  BY WordsNumbers, VliWordsAssumption
<1>2. Shifts \in Nat /\ Shifts >= 1
  BY <1>1 DEF Shifts
<1>3. /\ s[1] = 1 /\ \A j \in 1 .. Shifts : s[j + 1] = 2 * s[j]
      /\ t[1] = 1 /\ \A j \in 1 .. WordBits : t[j + 1] = 2 * t[j]
  BY <1>1, <1>2, PowersProperties
<1>4. /\ \A j \in 1 .. (Shifts + 1) : s[j] \in Nat /\ s[j] >= 1
      /\ \A j \in 1 .. (WordBits + 1) : t[j] \in Nat
  BY <1>1, <1>2, PowersPositive
<1>. HIDE DEF s, t
<1>5. s[NumWords * WordBits + 1] = Weight(NumWords + 1)
  <2>1. 2 \in Nat
    OBVIOUS
  <2>2. PowerSeries(s, 2, NumWords * WordBits) /\ PowerSeries(t, 2, WordBits)
    BY <1>3, <1>4 DEF PowerSeries, Shifts
  <2>. QED  BY <1>1, <2>1, <2>2, PowersOfWords
<1>. QED  BY <1>2, <1>4, <1>5 DEF Total, Shifts, s

(* The search for the highest word in uECC_vli_numBits.                        *)
Highest(words) ==
  CHOOSE g : g = [i \in 0 .. NumWords |-> IF i = 0 \/ words[i] # 0 THEN i ELSE g[i - 1]]

LEMMA HighestRecursion ==
  ASSUME NEW words
  PROVE  \A i \in 1 .. NumWords : Highest(words)[i] = IF words[i] # 0 THEN i ELSE Highest(words)[i - 1]
<1>. DEFINE D(before, i) == IF words[i] # 0 THEN i ELSE before
            h == CHOOSE g : g = [i \in 0 .. NumWords |-> IF i = 0 THEN 0 ELSE D(g[i - 1], i)]
<1>1. FiniteNatInductiveDefHypothesis(h, 0, D, 0, NumWords)
  BY Zenon DEF FiniteNatInductiveDefHypothesis
<1>2. FiniteNatInductiveDefConclusion(h, 0, D, 0, NumWords)
  BY <1>1, WordsNumbers, FiniteNatInductiveDef
<1>3. h = [i \in 0 .. NumWords |-> IF i = 0 THEN 0 ELSE D(h[i - 1], i)]
  BY <1>2, Zenon DEF FiniteNatInductiveDefConclusion
<1>. HIDE DEF h
<1>4. h = [i \in 0 .. NumWords |-> IF i = 0 \/ words[i] # 0 THEN i ELSE h[i - 1]]
  <2>1. \A i \in 0 .. NumWords : (IF i = 0 THEN 0 ELSE D(h[i - 1], i))
                                  = (IF i = 0 \/ words[i] # 0 THEN i ELSE h[i - 1])
    OBVIOUS
  <2>. HIDE DEF D
  <2>. QED  BY <1>3, <2>1, Zenon
<1>5. Highest(words) =
        [i \in 0 .. NumWords |-> IF i = 0 \/ words[i] # 0 THEN i ELSE Highest(words)[i - 1]]
  BY <1>4, Zenon DEF Highest
<1>6. 0 \in 0 .. NumWords /\ \A i \in 1 .. NumWords : i \in 0 .. NumWords /\ i # 0
  BY WordsNumbers
<1>. QED  BY <1>5, <1>6

(* A modulus of more than half of what its words hold has its highest bit set. *)
LEMMA NumBitsOfModulus ==
  ASSUME NEW mod \in Words(NumWords), 2 * ValueOf(mod) > Total
  PROVE  NumBitsOf(mod) = NumWords * WordBits
<1>. DEFINE t == Powers(2, WordBits)
            top == mod[NumWords]
            w == Weight(NumWords)
            v == PartValue(mod)[NumWords - 1]
            m == t[WordBits]
<1>1. NumWords \in Nat /\ NumWords >= 1 /\ WordBits \in Nat /\ WordBits >= 1 /\ WordBase = t[WordBits + 1]
      /\ WordBase \in Nat /\ WordBase >= 2
  BY WordsNumbers, VliWordsAssumption
<1>2. t \in Seq(Nat) /\ Len(t) = WordBits + 1 /\ \A j \in 1 .. WordBits : t[j + 1] = 2 * t[j]
  BY <1>1, PowersProperties
<1>. HIDE DEF t
<1>3. m \in Nat /\ WordBase = 2 * m
  <2>1. WordBits \in 1 .. Len(t) /\ WordBits \in 1 .. WordBits
    BY <1>1, <1>2
  <2>. QED  BY <1>1, <1>2, <2>1
<1>4. top \in 0 .. (WordBase - 1) /\ ValueOf(mod) = v + top * w
  <2>1. Len(mod) = NumWords /\ NumWords \in 1 .. NumWords /\ top \in Digit
    BY <1>1 DEF Words
  <2>. QED  BY <1>1, <2>1, PartValueRecursion DEF Digit
<1>5. w \in Nat /\ v \in 0 .. (w - 1) /\ Total = WordBase * w
  <2>1. NumWords \in 1 .. (2 * NumWords) /\ NumWords \in 1 .. (2 * NumWords + 1) /\ (NumWords - 1) + 1 = NumWords
        /\ NumWords \in 0 .. (2 * NumWords) /\ NumWords - 1 \in 0 .. NumWords
    BY <1>1
  <2>. QED  BY <2>1, Weights, PartValueRange DEF Total
<1>. HIDE DEF top, w, v, m
<1>6. top >= m
  <2>1. SUFFICES ASSUME top <= m - 1 PROVE FALSE
    BY <1>1, <1>3, <1>4
  <2>2. top * w <= (m - 1) * w /\ (m - 1) * w = m * w - w /\ top * w \in Int /\ m * w \in Int
    BY <1>3, <1>4, <1>5, <2>1
  <2>3. Total = 2 * (m * w)
    <3>1. (2 * m) * w = 2 * (m * w)
      BY <1>3, <1>5
    <3>. QED  BY <1>3, <1>5, <3>1
  <2>4. v + top * w <= m * w - 1
    BY <1>5, <2>2
  <2>. QED  BY <1>4, <1>5, <2>2, <2>3, <2>4
<1>7. BitLength[top] = WordBits
  <2>1. WordBits \in 1 .. WordBits /\ top \in t[WordBits] .. (t[WordBits + 1] - 1)
    BY <1>1, <1>3, <1>4, <1>6 DEF m
  <2>. QED  BY <1>1, <2>1, BitLengthOf DEF t
<1>8. mod[NumWords] # 0
  BY <1>1, <1>3, <1>4, <1>6 DEF top
<1>9. Highest(mod)[NumWords] = NumWords
  BY <1>1, <1>8, HighestRecursion
<1>10. NumBitsOf(mod) = LET high == Highest(mod)[NumWords]
                        IN  IF high = 0 THEN 0 ELSE (high - 1) * WordBits + BitLength[mod[high]]
  BY Zenon DEF NumBitsOf, Highest
<1>11. NumBitsOf(mod) = (NumWords - 1) * WordBits + WordBits
  BY <1>1, <1>7, <1>9, <1>10 DEF top
<1>12. (NumWords - 1) * WordBits + WordBits = NumWords * WordBits
  BY <1>1
<1>. QED  BY <1>11, <1>12

-------------------------------------------------------------------------------
(* Remainders                                                                  *)

(* The words from word i + 1 on count for multiples of what it counts for.     *)
LEMMA ValueSplit ==
  ASSUME NEW k \in 0 .. (2 * NumWords), NEW words \in Words(k), NEW i \in 0 .. k
  PROVE  \E q \in Nat : ValueOf(words) = PartValue(words)[i] + q * Weight(i + 1)
<1>. DEFINE v == PartValue(words)
            w == Weight(i + 1)
            T == {j \in i .. k : /\ \E q \in Nat : v[j] = v[i] + q * w
                                 /\ \E e \in Nat : Weight(j + 1) = e * w}
<1>1. k \in Nat /\ k <= 2 * NumWords /\ Len(words) = k /\ \A j \in 1 .. k : words[j] \in Nat
  BY WordsNumbers DEF Words, Digit
<1>2. (\A j \in 1 .. k : v[j] = v[j - 1] + words[j] * Weight(j)) /\ ValueOf(words) = v[k]
  BY <1>1, PartValueRecursion
<1>3. w \in Nat /\ v[i] \in Nat /\ WordBase \in Nat
  <2>1. i + 1 \in 1 .. (2 * NumWords + 1) /\ k \in 0 .. (2 * NumWords)
    BY <1>1, WordsNumbers
  <2>. QED  BY <1>1, <2>1, Weights, WordsNumbers, PartValueRange, SMTT(30)
<1>. HIDE DEF v
<1>4. i \in T
  <2>1. 0 * w = 0 /\ 1 * w = w
    BY <1>3
  <2>. HIDE DEF w
  <2>2. v[i] = v[i] + 0 * w
    BY <1>3, <2>1
  <2>3. w = 1 * w
    BY <2>1
  <2>. QED  BY <1>1, <2>2, <2>3 DEF w
<1>5. ASSUME NEW j \in i .. (k - 1), j \in T PROVE j + 1 \in T
  <2>1. j + 1 \in 1 .. k /\ (j + 1) - 1 = j /\ j + 1 \in i .. k /\ j + 1 \in 1 .. (2 * NumWords)
    BY <1>1, WordsNumbers
  <2>2. PICK q \in Nat : v[j] = v[i] + q * w
    BY <1>5
  <2>3. PICK e \in Nat : Weight(j + 1) = e * w
    BY <1>5
  <2>. DEFINE d == words[j + 1]
  <2>4. v[j + 1] = v[j] + d * Weight(j + 1) /\ Weight((j + 1) + 1) = WordBase * Weight(j + 1) /\ d \in Nat
    BY <1>1, <1>2, <2>1, Weights
  <2>. HIDE DEF d, w
  <2>5. v[j + 1] = v[i] + (q + d * e) * w
    <3>1. (q + d * e) * w = q * w + (d * e) * w
      <4>1. d * e \in Nat
        BY <2>4
      <4>. QED  BY <1>3, <4>1
    <3>2. (d * e) * w = d * (e * w)
      BY <1>3, <2>4
    <3>3. q * w \in Nat /\ d * (e * w) \in Nat
      <4>1. e * w \in Nat
        BY <1>3
      <4>. QED  BY <1>3, <2>4, <4>1
    <3>. QED  BY <1>3, <2>2, <2>3, <2>4, <3>1, <3>2, <3>3
  <2>6. Weight((j + 1) + 1) = (WordBase * e) * w
    <3>1. WordBase * (e * w) = (WordBase * e) * w
      BY <1>3
    <3>. QED  BY <2>3, <2>4, <3>1
  <2>7. q + d * e \in Nat /\ WordBase * e \in Nat
    BY <1>3, <2>4
  <2>. QED  BY <2>1, <2>5, <2>6, <2>7
<1>. HIDE DEF T
<1>6. i .. k \subseteq T
  <2>1. i \in Int /\ k \in Int
    BY <1>1
  <2>. QED  BY <1>4, <1>5, <2>1, IntervalInductive
<1>7. k \in T
  BY <1>1, <1>6
<1>. QED  BY <1>2, <1>7 DEF T, v

(* A number that fits is the value of its lower words.                         *)
LEMMA ValueOfLow ==
  ASSUME NEW words \in Words(2 * NumWords), ValueOf(words) < Total
  PROVE  /\ SubSeq(words, 1, NumWords) \in Words(NumWords)
         /\ ValueOf(SubSeq(words, 1, NumWords)) = ValueOf(words)
<1>. DEFINE low == SubSeq(words, 1, NumWords)
            v == PartValue(words)[NumWords]
<1>1. NumWords \in Nat /\ NumWords >= 1 /\ words \in Seq(Digit) /\ Len(words) = 2 * NumWords
      /\ 2 * NumWords \in 0 .. (2 * NumWords) /\ NumWords \in 0 .. (2 * NumWords)
      /\ NumWords + 1 \in 1 .. (2 * NumWords + 1)
  BY WordsNumbers DEF Words
<1>2. low \in Seq(Digit) /\ Len(low) = NumWords /\ \A i \in 1 .. NumWords : low[i] = words[i]
  BY <1>1
<1>3. Total \in Nat /\ Total >= 1 /\ v \in 0 .. (Total - 1)
  BY <1>1, Weights, PartValueRange DEF Total
<1>4. PICK q \in Nat : ValueOf(words) = v + q * Total
  BY <1>1, ValueSplit DEF Total
<1>. HIDE DEF low, v
<1>5. q = 0
  <2>1. SUFFICES ASSUME q >= 1 PROVE FALSE
    OBVIOUS
  <2>2. q * Total >= 1 * Total /\ q * Total \in Nat
    BY <1>3, <2>1
  <2>. QED  BY <1>3, <1>4, <2>2
<1>6. ValueOf(words) = v
  <2>1. 0 * Total = 0
    BY <1>3
  <2>. QED  BY <1>3, <1>4, <1>5, <2>1
<1>7. ValueOf(low) = PartValue(low)[NumWords]
  BY <1>1, <1>2, PartValueRecursion
<1>8. PartValue(low)[NumWords] = v
  <2>1. Len(low) \in Nat /\ Len(words) \in Nat /\ NumWords <= Len(low) /\ NumWords <= Len(words)
    BY <1>1, <1>2
  <2>. QED  BY <1>1, <1>2, <2>1, PartValueSame DEF v
<1>9. low \in Words(NumWords)
  BY <1>2 DEF Words
<1>. QED  BY <1>6, <1>7, <1>8, <1>9 DEF low

(* The modulus in the higher words is its multiple by what these count for.    *)
LEMMA ValueOfHigh ==
  ASSUME NEW mod \in Words(NumWords)
  PROVE  LET shifted == [i \in 1 .. (2 * NumWords) |-> IF i <= NumWords THEN 0 ELSE mod[i - NumWords]]
         IN  shifted \in Words(2 * NumWords) /\ ValueOf(shifted) = ValueOf(mod) * Total
<1>. DEFINE s == [i \in 1 .. (2 * NumWords) |-> IF i <= NumWords THEN 0 ELSE mod[i - NumWords]]
            f == PartValue(s)
            g == PartValue(mod)
            Low == {i \in 0 .. NumWords : f[i] = 0}
            T == {i \in 0 .. NumWords : f[NumWords + i] = g[i] * Total}
<1>1. NumWords \in Nat /\ NumWords >= 1 /\ Len(mod) = NumWords /\ (\A i \in 1 .. NumWords : mod[i] \in Digit)
      /\ 0 \in Digit /\ WordBase \in Nat
  BY WordsNumbers DEF Words, Digit
<1>2. \A i \in 1 .. (2 * NumWords) : s[i] \in Digit
  <2>. SUFFICES ASSUME NEW i \in 1 .. (2 * NumWords) PROVE s[i] \in Digit
    OBVIOUS
  <2>1. CASE i <= NumWords
    BY <1>1, <2>1
  <2>2. CASE ~(i <= NumWords)
    <3>1. i - NumWords \in 1 .. NumWords
      BY <1>1, <2>2
    <3>. QED  BY <1>1, <2>2, <3>1
  <2>. QED  BY <2>1, <2>2
<1>3. s \in Seq(Digit) /\ Len(s) = 2 * NumWords
  BY <1>1, <1>2
<1>4. /\ \A i \in 1 .. NumWords : s[i] = 0
      /\ \A i \in 1 .. NumWords : s[NumWords + i] = mod[i]
  <2>1. \A i \in 1 .. NumWords : i \in 1 .. (2 * NumWords) /\ i <= NumWords
    BY <1>1
  <2>2. \A i \in 1 .. NumWords : NumWords + i \in 1 .. (2 * NumWords) /\ ~(NumWords + i <= NumWords)
                                 /\ (NumWords + i) - NumWords = i
    BY <1>1
  <2>. QED  BY <2>1, <2>2
<1>5. s \in Words(2 * NumWords)
  BY <1>3 DEF Words
<1>. HIDE DEF s
<1>6. /\ f[0] = 0 /\ ValueOf(s) = f[2 * NumWords] /\ \A i \in 1 .. (2 * NumWords) : f[i] = f[i - 1] + s[i] * Weight(i)
      /\ g[0] = 0 /\ ValueOf(mod) = g[NumWords] /\ \A i \in 1 .. NumWords : g[i] = g[i - 1] + mod[i] * Weight(i)
  <2>1. Len(s) \in Nat /\ Len(mod) \in Nat
    BY <1>1, <1>3
  <2>. QED  BY <1>1, <1>3, <2>1, PartValueRecursion
<1>7. \A i \in 0 .. NumWords : g[i] \in Nat
  <2>1. NumWords \in 0 .. (2 * NumWords) /\ \A i \in 0 .. NumWords : i + 1 \in 1 .. (2 * NumWords + 1)
    BY <1>1
  <2>. QED  BY <2>1, PartValueRange, Weights
<1>8. Total \in Nat /\ \A i \in 1 .. NumWords : Weight(i) \in Nat /\ Weight(NumWords + i) = Weight(i) * Total
  <2>1. NumWords + 1 \in 1 .. (2 * NumWords + 1)
    BY <1>1
  <2>2. Total \in Nat
    BY <2>1, Weights DEF Total
  <2>3. ASSUME NEW i \in 1 .. NumWords PROVE Weight(i) \in Nat /\ Weight(NumWords + i) = Weight(i) * Total
    <3>1. i \in 1 .. (2 * NumWords + 1) /\ i + (NumWords + 1) - 1 = NumWords + i
          /\ i + (NumWords + 1) - 1 <= 2 * NumWords + 1
      BY <1>1
    <3>2. Weight(i) * Weight(NumWords + 1) = Weight(i + (NumWords + 1) - 1)
      BY <2>1, <3>1, WeightProduct
    <3>. QED  BY <3>1, <3>2, Weights DEF Total
  <2>. QED  BY <2>2, <2>3
<1>. HIDE DEF f, g
<1>9. f[NumWords] = 0
  <2>1. 0 \in Low
    BY <1>1, <1>6
  <2>2. ASSUME NEW i \in 0 .. (NumWords - 1), i \in Low PROVE i + 1 \in Low
    <3>1. i + 1 \in 1 .. NumWords /\ i + 1 \in 1 .. (2 * NumWords) /\ (i + 1) - 1 = i /\ i + 1 \in 0 .. NumWords
      BY <1>1
    <3>2. f[i + 1] = 0 + 0 * Weight(i + 1) /\ Weight(i + 1) \in Nat
      BY <1>4, <1>6, <1>8, <2>2, <3>1
    <3>. QED  BY <3>1, <3>2
  <2>. HIDE DEF Low
  <2>3. 0 .. NumWords \subseteq Low
    BY <1>1, <2>1, <2>2, IntervalInductive
  <2>. QED  BY <1>1, <2>3 DEF Low
<1>10. 0 \in T
  <2>1. NumWords + 0 = NumWords /\ 0 * Total = 0
    BY <1>1, <1>8
  <2>. QED  BY <1>1, <1>6, <1>9, <2>1
<1>11. ASSUME NEW i \in 0 .. (NumWords - 1), i \in T PROVE i + 1 \in T
  <2>. DEFINE d == mod[i + 1]
              w == Weight(i + 1)
  <2>1. i + 1 \in 1 .. NumWords /\ NumWords + (i + 1) \in 1 .. (2 * NumWords) /\ (i + 1) - 1 = i
        /\ (NumWords + (i + 1)) - 1 = NumWords + i /\ i + 1 \in 0 .. NumWords /\ i \in 0 .. NumWords
    BY <1>1
  <2>2. f[NumWords + (i + 1)] = f[NumWords + i] + d * Weight(NumWords + (i + 1)) /\ g[i + 1] = g[i] + d * w
    BY <1>4, <1>6, <2>1
  <2>3. Weight(NumWords + (i + 1)) = w * Total /\ w \in Nat /\ d \in Nat /\ g[i] \in Nat
    BY <1>1, <1>7, <1>8, <2>1 DEF Digit
  <2>4. f[NumWords + i] = g[i] * Total
    BY <1>11
  <2>. HIDE DEF d, w
  <2>5. (g[i] + d * w) * Total = g[i] * Total + d * (w * Total)
    <3>1. d * w \in Nat
      BY <2>3
    <3>2. (g[i] + d * w) * Total = g[i] * Total + (d * w) * Total
      BY <1>8, <2>3, <3>1
    <3>3. (d * w) * Total = d * (w * Total)
      BY <1>8, <2>3
    <3>. QED  BY <3>2, <3>3
  <2>. QED  BY <2>1, <2>2, <2>3, <2>4, <2>5
<1>. HIDE DEF T
<1>12. 0 .. NumWords \subseteq T
  BY <1>1, <1>10, <1>11, IntervalInductive
<1>13. NumWords \in T /\ NumWords + NumWords = 2 * NumWords
  BY <1>1, <1>12
<1>14. ValueOf(s) = ValueOf(mod) * Total
  BY <1>6, <1>13 DEF T
<1>. QED  BY <1>5, <1>14 DEF s

(* The loop of uECC_vli_mmod, round by round.                                  *)
Reducing(product, mod) ==
  CHOOSE g : g =
    [k \in 0 .. ((2 * NumWords * WordBits - NumBitsOf(mod)) + 1) |->
        IF k = 0 THEN [rest |-> product,
                       multiple |-> [i \in 1 .. (2 * NumWords) |->
                                       IF i <= (2 * NumWords * WordBits - NumBitsOf(mod)) \div WordBits THEN 0
                                       ELSE mod[i - (2 * NumWords * WordBits - NumBitsOf(mod)) \div WordBits]]]
        ELSE LET before == g[k - 1]
                 difference == SubWords(before.rest, before.multiple)
             IN  [rest |-> IF difference.borrow = 0 THEN difference.words ELSE before.rest,
                  multiple |-> ShiftRightWords(before.multiple)]]

ReduceStep(before) ==
  LET difference == SubWords(before.rest, before.multiple)
  IN  [rest |-> IF difference.borrow = 0 THEN difference.words ELSE before.rest,
       multiple |-> ShiftRightWords(before.multiple)]

LEMMA ReducingRecursion ==
  ASSUME NEW product, NEW mod, NumBitsOf(mod) = NumWords * WordBits
  PROVE  LET f == Reducing(product, mod)
         IN  /\ MmodWords(product, mod) = SubSeq(f[Shifts + 1].rest, 1, NumWords)
             /\ f[0] = [rest |-> product,
                        multiple |-> [i \in 1 .. (2 * NumWords) |-> IF i <= NumWords THEN 0 ELSE mod[i - NumWords]]]
             /\ \A k \in 1 .. (Shifts + 1) : f[k] = ReduceStep(f[k - 1])
<1>. DEFINE shift == 2 * NumWords * WordBits - NumBitsOf(mod)
            D(before, k) == ReduceStep(before)
            zero == [rest |-> product,
                     multiple |-> [i \in 1 .. (2 * NumWords) |->
                                     IF i <= shift \div WordBits THEN 0 ELSE mod[i - shift \div WordBits]]]
            f == Reducing(product, mod)
            h == CHOOSE g : g = [i \in 0 .. (shift + 1) |-> IF i = 0 THEN zero ELSE D(g[i - 1], i)]
<1>1. shift = Shifts /\ shift \in Nat /\ shift \div WordBits = NumWords
  <2>1. WordBits \in Nat /\ WordBits >= 1 /\ NumWords \in Nat
    BY WordsNumbers
  <2>2. 2 * NumWords * WordBits - NumWords * WordBits = NumWords * WordBits /\ NumWords * WordBits \in Nat
    BY <2>1
  <2>3. (NumWords * WordBits) \div WordBits = NumWords
    <3>1. NumWords * WordBits = NumWords * WordBits + 0 /\ 0 \in 0 .. (WordBits - 1) /\ NumWords * WordBits \in Int
      BY <2>1
    <3>. QED  BY <2>1, <3>1, DivisionIs
  <2>. QED  BY <2>2, <2>3 DEF Shifts
<1>2. FiniteNatInductiveDefHypothesis(h, zero, D, 0, shift + 1)
  BY Zenon DEF FiniteNatInductiveDefHypothesis
<1>3. FiniteNatInductiveDefConclusion(h, zero, D, 0, shift + 1)
  <2>1. shift + 1 \in Nat
    BY <1>1
  <2>. HIDE DEF shift, h, zero, D
  <2>. QED  BY <1>2, <2>1, FiniteNatInductiveDef
<1>4. h = [i \in 0 .. (shift + 1) |-> IF i = 0 THEN zero ELSE D(h[i - 1], i)]
  BY <1>3, Zenon DEF FiniteNatInductiveDefConclusion
<1>5. f = [i \in 0 .. (shift + 1) |-> IF i = 0 THEN zero ELSE D(f[i - 1], i)]
  BY <1>4, Zenon DEF Reducing, ReduceStep
<1>6. MmodWords(product, mod) = SubSeq(f[shift + 1].rest, 1, NumWords)
  BY Zenon DEF MmodWords, Reducing
<1>7. 0 \in 0 .. (shift + 1) /\ \A i \in 1 .. (shift + 1) : i \in 0 .. (shift + 1) /\ i # 0
  BY <1>1
<1>. HIDE DEF h, D, f, shift
<1>8. f[0] = zero
  <2>. HIDE DEF zero
  <2>. QED  BY <1>5, <1>7, Zenon
<1>9. \A i \in 1 .. (shift + 1) : f[i] = D(f[i - 1], i)
  <2>. HIDE DEF zero
  <2>. QED  BY <1>5, <1>7, Zenon
<1>. QED  BY <1>1, <1>6, <1>8, <1>9 DEF D, f

(* A round takes the multiple away where it fits, and halves it.               *)
LEMMA ReduceStepKeeps ==
  ASSUME NEW s, s.rest \in Words(2 * NumWords), s.multiple \in Words(2 * NumWords),
         ValueOf(s.rest) < 2 * ValueOf(s.multiple)
  PROVE  LET t == ReduceStep(s)
         IN  /\ t.rest \in Words(2 * NumWords) /\ t.multiple \in Words(2 * NumWords)
             /\ ValueOf(t.multiple) = ValueOf(s.multiple) \div 2
             /\ ValueOf(t.rest) < ValueOf(s.multiple)
             /\ \/ ValueOf(t.rest) = ValueOf(s.rest)
                \/ ValueOf(t.rest) = ValueOf(s.rest) - ValueOf(s.multiple)
<1>. DEFINE t == ReduceStep(s)
            d == SubWords(s.rest, s.multiple)
            x == ValueOf(s.rest)
            y == ValueOf(s.multiple)
<1>1. 2 * NumWords \in 1 .. (2 * NumWords) /\ 2 * NumWords \in 0 .. (2 * NumWords)
      /\ 2 * NumWords + 1 \in 1 .. (2 * NumWords + 1)
  BY WordsNumbers
<1>2. t.rest = (IF d.borrow = 0 THEN d.words ELSE s.rest) /\ t.multiple = ShiftRightWords(s.multiple)
  BY DEF ReduceStep
<1>3. d.words \in Words(2 * NumWords)
  BY <1>1, SubWordsIsDifference
<1>4. IF x < y THEN d.borrow = 1 ELSE d.borrow = 0 /\ ValueOf(d.words) = x - y
  BY <1>1, SubWordsBorrow
<1>5. t.multiple \in Words(2 * NumWords) /\ ValueOf(t.multiple) = y \div 2
  BY <1>1, <1>2, ShiftRightWordsIsHalf
<1>6. x \in Nat /\ y \in Nat /\ x < 2 * y
  BY <1>1, Weights, ValueRange
<1>. HIDE DEF t, d, x, y
<1>7. CASE x < y
  BY <1>2, <1>4, <1>5, <1>6, <1>7 DEF t, x, y
<1>8. CASE ~(x < y)
  BY <1>2, <1>3, <1>4, <1>5, <1>6, <1>8 DEF t, x, y
<1>. QED  BY <1>7, <1>8

(* uECC_vli_mmod: the words of the remainder by a modulus that fills its words.*)
THEOREM MmodWordsIsRemainder ==
  ASSUME NEW mod \in Words(NumWords), 2 * ValueOf(mod) > Total, NEW product \in Words(2 * NumWords)
  PROVE  /\ MmodWords(product, mod) \in Words(NumWords)
         /\ ValueOf(MmodWords(product, mod)) = ValueOf(product) % ValueOf(mod)
<1>. DEFINE f == Reducing(product, mod)
            P == Powers(2, Shifts)
            M == ValueOf(mod)
            A == ValueOf(product)
            Good(s, k) == /\ s.rest \in Words(2 * NumWords) /\ s.multiple \in Words(2 * NumWords)
                          /\ ValueOf(s.multiple) = M * P[(Shifts - k) + 1]
                          /\ ValueOf(s.rest) < 2 * ValueOf(s.multiple)
                          /\ \E q \in Int : A = q * M + ValueOf(s.rest)
            T == {k \in 0 .. Shifts : Good(f[k], k)}
<1>1. /\ MmodWords(product, mod) = SubSeq(f[Shifts + 1].rest, 1, NumWords)
      /\ f[0] = [rest |-> product,
                 multiple |-> [i \in 1 .. (2 * NumWords) |-> IF i <= NumWords THEN 0 ELSE mod[i - NumWords]]]
      /\ \A k \in 1 .. (Shifts + 1) : f[k] = ReduceStep(f[k - 1])
  BY NumBitsOfModulus, ReducingRecursion
<1>2. Shifts \in Nat /\ Shifts >= 1 /\ Total = P[Shifts + 1]
      /\ \A i \in 1 .. (Shifts + 1) : P[i] \in Nat /\ P[i] >= 1
  BY WeightIsPower
<1>3. P[1] = 1 /\ \A i \in 1 .. Shifts : P[i + 1] = 2 * P[i]
  BY <1>2, PowersProperties
<1>4. /\ NumWords \in 0 .. (2 * NumWords) /\ NumWords + 1 \in 1 .. (2 * NumWords + 1)
      /\ 2 * NumWords \in 0 .. (2 * NumWords) /\ 2 * NumWords + 1 \in 1 .. (2 * NumWords + 1)
      /\ (NumWords + 1) + (NumWords + 1) - 1 = 2 * NumWords + 1
  BY WordsNumbers
<1>5. Total \in Nat /\ Total >= 1 /\ M \in 0 .. (Total - 1) /\ M >= 1
  <2>1. Total \in Nat /\ Total >= 1 /\ M \in 0 .. (Total - 1)
    BY <1>4, Weights, ValueRange DEF Total
  <2>. HIDE DEF M
  <2>2. 2 * M > Total
    BY DEF M
  <2>. QED  BY <2>1, <2>2
<1>6. A \in Nat /\ A < Total * Total
  <2>1. Weight(NumWords + 1) * Weight(NumWords + 1) = Weight(2 * NumWords + 1)
    <3>1. (NumWords + 1) + (NumWords + 1) - 1 <= 2 * NumWords + 1
      BY WordsNumbers
    <3>. QED  BY <1>4, <3>1, WeightProduct
  <2>2. A \in 0 .. (Weight(2 * NumWords + 1) - 1) /\ Weight(2 * NumWords + 1) \in Nat
    BY <1>4, Weights, ValueRange
  <2>. QED  BY <2>1, <2>2 DEF Total
<1>. HIDE DEF f, P
<1>7. 0 \in T
  <2>. DEFINE shifted == [i \in 1 .. (2 * NumWords) |-> IF i <= NumWords THEN 0 ELSE mod[i - NumWords]]
  <2>1. shifted \in Words(2 * NumWords) /\ ValueOf(shifted) = M * Total
    BY ValueOfHigh
  <2>2. f[0].rest = product /\ f[0].multiple = shifted
    BY <1>1
  <2>. HIDE DEF shifted, M, A
  <2>3. (Shifts - 0) + 1 = Shifts + 1
    BY <1>2
  <2>4. A < 2 * (M * Total)
    <3>1. (2 * M) * Total >= Total * Total /\ (2 * M) * Total = 2 * (M * Total)
      <4>1. 2 * M >= Total /\ 2 * M \in Nat
        BY <1>5 DEF M
      <4>. QED  BY <1>5, <4>1
    <3>2. M * Total \in Nat /\ Total * Total \in Nat
      BY <1>5
    <3>. QED  BY <1>6, <3>1, <3>2
  <2>5. A = 0 * M + A
    BY <1>5, <1>6
  <2>6. ValueOf(product) = A
    BY DEF A
  <2>7. \E q \in Int : A = q * M + ValueOf(product)
    BY <2>5, <2>6
  <2>8. Good(f[0], 0)
    BY <1>2, <2>1, <2>2, <2>3, <2>4, <2>6, <2>7
  <2>. HIDE DEF Good
  <2>. QED  BY <1>2, <2>8
<1>8. ASSUME NEW k \in 0 .. Shifts, k \in T
      PROVE  /\ f[k + 1].rest \in Words(2 * NumWords) /\ f[k + 1].multiple \in Words(2 * NumWords)
             /\ ValueOf(f[k + 1].multiple) = (M * P[(Shifts - k) + 1]) \div 2
             /\ ValueOf(f[k + 1].rest) < M * P[(Shifts - k) + 1]
             /\ ValueOf(f[k + 1].rest) \in Nat
             /\ \E q \in Int : A = q * M + ValueOf(f[k + 1].rest)
  <2>. DEFINE s == f[k]
              t == f[k + 1]
              p == P[(Shifts - k) + 1]
  <2>1. k + 1 \in 1 .. (Shifts + 1) /\ (k + 1) - 1 = k /\ (Shifts - k) + 1 \in 1 .. (Shifts + 1)
    BY <1>2
  <2>2. Good(s, k)
    BY <1>8
  <2>3. t = ReduceStep(s)
    BY <1>1, <2>1
  <2>4. p \in Nat /\ M \in Nat
    BY <1>2, <1>5, <2>1
  <2>. HIDE DEF s, t, M, A
  <2>5. /\ t.rest \in Words(2 * NumWords) /\ t.multiple \in Words(2 * NumWords)
        /\ ValueOf(t.multiple) = ValueOf(s.multiple) \div 2
        /\ ValueOf(t.rest) < ValueOf(s.multiple)
        /\ \/ ValueOf(t.rest) = ValueOf(s.rest)
           \/ ValueOf(t.rest) = ValueOf(s.rest) - ValueOf(s.multiple)
    BY <2>2, <2>3, ReduceStepKeeps
  <2>6. ValueOf(s.multiple) = M * p
    BY <2>2
  <2>. HIDE DEF p
  <2>7. ValueOf(t.rest) \in Nat /\ ValueOf(s.rest) \in Nat
    <3>1. Weight(2 * NumWords + 1) \in Nat
      BY <1>4, Weights
    <3>. QED  BY <1>4, <2>2, <2>5, <3>1, ValueRange
  <2>8. \E q \in Int : A = q * M + ValueOf(t.rest)
    <3>1. PICK q \in Int : A = q * M + ValueOf(s.rest)
      BY <2>2
    <3>2. CASE ValueOf(t.rest) = ValueOf(s.rest)
      BY <3>1, <3>2
    <3>3. CASE ValueOf(t.rest) = ValueOf(s.rest) - ValueOf(s.multiple)
      <4>1. (q + p) * M = q * M + M * p /\ q * M \in Int /\ M * p \in Int
        BY <2>4
      <4>2. A = (q + p) * M + ValueOf(t.rest)
        BY <2>6, <2>7, <3>1, <3>3, <4>1
      <4>3. q + p \in Int
        BY <2>4
      <4>. QED  BY <4>2, <4>3
    <3>. QED  BY <2>5, <3>2, <3>3
  <2>. QED  BY <2>5, <2>6, <2>7, <2>8 DEF t, p
<1>9. ASSUME NEW k \in 0 .. (Shifts - 1), k \in T PROVE k + 1 \in T
  <2>. DEFINE t == f[k + 1]
              p == P[(Shifts - (k + 1)) + 1]
  <2>1. k \in 0 .. Shifts /\ k + 1 \in 0 .. Shifts /\ (Shifts - (k + 1)) + 1 \in 1 .. Shifts
        /\ ((Shifts - (k + 1)) + 1) + 1 = (Shifts - k) + 1 /\ (Shifts - (k + 1)) + 1 \in 1 .. (Shifts + 1)
    BY <1>2
  <2>2. p \in Nat /\ P[(Shifts - k) + 1] = 2 * p /\ M \in Nat
    BY <1>2, <1>3, <1>5, <2>1
  <2>3. /\ t.rest \in Words(2 * NumWords) /\ t.multiple \in Words(2 * NumWords)
        /\ ValueOf(t.multiple) = (M * P[(Shifts - k) + 1]) \div 2
        /\ ValueOf(t.rest) < M * P[(Shifts - k) + 1]
        /\ \E q \in Int : A = q * M + ValueOf(t.rest)
    BY <1>8, <1>9, <2>1
  <2>. HIDE DEF t, M, A
  <2>4. M * P[(Shifts - k) + 1] = 2 * (M * p) /\ M * p \in Nat
    <3>. HIDE DEF p
    <3>1. M * (2 * p) = 2 * (M * p) /\ M * p \in Nat
      BY <2>2
    <3>. QED  BY <2>2, <3>1
  <2>5. (2 * (M * p)) \div 2 = M * p
    <3>. DEFINE z == M * p
    <3>1. z \in Int /\ 2 * z = z * 2 + 0 /\ 0 \in 0 .. 1
      BY <2>4
    <3>. HIDE DEF z
    <3>2. (2 * z) \div 2 = z
      BY <3>1
    <3>. QED  BY <3>2 DEF z
  <2>6. Good(t, k + 1)
    BY <2>3, <2>4, <2>5
  <2>. HIDE DEF Good
  <2>. QED  BY <2>1, <2>6 DEF t
<1>. HIDE DEF T
<1>10. 0 .. Shifts \subseteq T
  BY <1>2, <1>7, <1>9, IntervalInductive
<1>. DEFINE r == f[Shifts + 1].rest
<1>11. /\ r \in Words(2 * NumWords) /\ ValueOf(r) \in Nat /\ ValueOf(r) < M
       /\ \E q \in Int : A = q * M + ValueOf(r)
  <2>1. Shifts \in 0 .. Shifts /\ (Shifts - Shifts) + 1 = 1
    BY <1>2
  <2>2. M * P[(Shifts - Shifts) + 1] = M
    BY <1>3, <1>5, <2>1
  <2>3. Shifts \in T
    BY <1>10, <2>1
  <2>. HIDE DEF M, A
  <2>. QED  BY <1>8, <2>1, <2>2, <2>3
<1>. HIDE DEF r
<1>12. SubSeq(r, 1, NumWords) \in Words(NumWords) /\ ValueOf(SubSeq(r, 1, NumWords)) = ValueOf(r)
  <2>1. ValueOf(r) < Total
    BY <1>5, <1>11
  <2>. QED  BY <1>11, <2>1, ValueOfLow
<1>13. ValueOf(r) = A % M
  <2>1. PICK q \in Int : A = q * M + ValueOf(r)
    BY <1>11
  <2>2. M \in Nat /\ M > 0 /\ ValueOf(r) \in 0 .. (M - 1) /\ A \in Int
    BY <1>5, <1>6, <1>11
  <2>. HIDE DEF M, A
  <2>. QED  BY <2>1, <2>2, DivisionIs
<1>. QED  BY <1>1, <1>12, <1>13 DEF r

-------------------------------------------------------------------------------
(* Bytes                                                                       *)

LEMMA BytePowers ==
  /\ WordBytes \in Nat /\ WordBytes >= 1 /\ ByteBase \in Nat /\ ByteBase >= 1
  /\ NumBytes \in Nat /\ NumBytes >= 1 /\ NumBytes = NumWords * WordBytes
  /\ BytePower[1] = 1 /\ BytePower[WordBytes + 1] = WordBase
  /\ \A i \in 1 .. NumBytes : BytePower[i + 1] = ByteBase * BytePower[i]
  /\ \A i \in 1 .. (NumBytes + 1) : BytePower[i] \in Nat /\ BytePower[i] >= 1
  /\ \A i \in 0 .. (NumWords - 1), j \in 0 .. WordBytes :
       /\ i * WordBytes + j + 1 \in 1 .. (NumBytes + 1)
       /\ BytePower[i * WordBytes + j + 1] = Weight(i + 1) * BytePower[j + 1]
<1>. DEFINE s == BytePower
<1>1. WordBytes \in Nat /\ WordBytes >= 1 /\ ByteBase \in Nat /\ NumWords \in Nat /\ NumWords >= 1
      /\ s[WordBytes + 1] = WordBase /\ WordBase >= 2
  BY WordsNumbers, VliWordsAssumption
<1>2. NumBytes \in Nat /\ NumBytes >= 1 /\ WordBytes <= NumBytes
  <2>1. NumWords * WordBytes >= 1 * WordBytes
    BY <1>1
  <2>. QED  BY <1>1, <2>1 DEF NumBytes
<1>3. /\ s[1] = 1 /\ \A j \in 1 .. NumBytes : s[j + 1] = ByteBase * s[j]
      /\ s \in Seq(Nat) /\ Len(s) = NumBytes + 1
  BY <1>1, <1>2, PowersProperties DEF BytePower
<1>4. ByteBase >= 1
  <2>1. SUFFICES ASSUME ByteBase = 0 PROVE FALSE
    BY <1>1
  <2>. HIDE DEF s
  <2>2. WordBytes \in 1 .. NumBytes /\ WordBytes \in 1 .. Len(s)
    BY <1>1, <1>2, <1>3
  <2>3. s[WordBytes] \in Nat /\ s[WordBytes + 1] = ByteBase * s[WordBytes]
    BY <1>3, <2>2
  <2>4. 0 * s[WordBytes] = 0
    BY <2>3
  <2>. QED  BY <1>1, <2>1, <2>3, <2>4
<1>5. \A j \in 1 .. (NumBytes + 1) : s[j] \in Nat /\ s[j] >= 1
  BY <1>1, <1>2, <1>4, PowersPositive DEF BytePower
<1>. HIDE DEF s
<1>6. \A i \in 0 .. (NumWords - 1), j \in 0 .. WordBytes :
        /\ i * WordBytes + j + 1 \in 1 .. (NumWords * WordBytes + 1)
        /\ s[i * WordBytes + j + 1] = Weight(i + 1) * s[j + 1]
  <2>1. \A j \in 1 .. WordBytes : j \in 1 .. NumBytes
    BY <1>2, <1>1
  <2>2. \A j \in 1 .. (WordBytes + 1) : j \in 1 .. (NumBytes + 1)
    BY <1>2, <1>1
  <2>3. \A j \in 1 .. WordBytes : s[j + 1] = ByteBase * s[j]
    BY <1>3, <2>1
  <2>4. \A j \in 1 .. (WordBytes + 1) : s[j] \in Nat
    BY <1>5, <2>2
  <2>5. /\ \A j \in 1 .. (NumWords * WordBytes) : s[j + 1] = ByteBase * s[j]
        /\ \A j \in 1 .. (NumWords * WordBytes + 1) : s[j] \in Nat
    BY <1>3, <1>5 DEF NumBytes
  <2>6. PowerSeries(s, ByteBase, NumWords * WordBytes) /\ PowerSeries(s, ByteBase, WordBytes)
    BY <1>3, <2>3, <2>4, <2>5 DEF PowerSeries
  <2>. QED  BY <1>1, <2>6, PowersOfWords, SMTT(30)
<1>. QED  BY <1>1, <1>2, <1>3, <1>4, <1>5, <1>6 DEF s, NumBytes

(* The word and the byte in it that a position stands for.                     *)
LEMMA BytePosition ==
  ASSUME NEW i \in 1 .. NumBytes
  PROVE  LET position == NumBytes - i
             word == position \div WordBytes
             byte == position % WordBytes
         IN  /\ position \in 0 .. (NumBytes - 1) /\ word \in 0 .. (NumWords - 1) /\ byte \in 0 .. (WordBytes - 1)
             /\ position = word * WordBytes + byte
<1>. DEFINE position == NumBytes - i
            word == position \div WordBytes
            byte == position % WordBytes
<1>1. WordBytes \in Nat /\ WordBytes >= 1 /\ NumBytes \in Nat /\ NumBytes = NumWords * WordBytes
  BY BytePowers
<1>2. position \in 0 .. (NumBytes - 1)
  BY <1>1
<1>. HIDE DEF position
<1>3. word \in Int /\ byte \in 0 .. (WordBytes - 1) /\ position = word * WordBytes + byte
  BY <1>1, <1>2, Division
<1>. HIDE DEF word, byte
<1>4. word >= 0
  <2>1. SUFFICES ASSUME word <= -1 PROVE FALSE
    BY <1>3
  <2>2. word * WordBytes <= (-1) * WordBytes
    BY <1>1, <1>3, <2>1
  <2>. QED  BY <1>1, <1>2, <1>3, <2>2
<1>5. word <= NumWords - 1
  <2>1. SUFFICES ASSUME word >= NumWords PROVE FALSE
    BY <1>3, WordsNumbers
  <2>2. word * WordBytes >= NumWords * WordBytes /\ word * WordBytes \in Int
    BY <1>1, <1>3, <2>1, WordsNumbers
  <2>. QED  BY <1>1, <1>2, <1>3, <2>2
<1>. QED  BY <1>2, <1>3, <1>4, <1>5, WordsNumbers DEF position, word, byte

(* A digit of the remainder is the digit of the number.                        *)
LEMMA DigitOfRemainder ==
  ASSUME NEW y \in Int, NEW c \in Nat, c >= 1, NEW b \in Nat, b >= 1, NEW e \in Nat, e >= 1
  PROVE  ((y % ((e * b) * c)) \div c) % b = (y \div c) % b
<1>. DEFINE z == y \div c
            r == y % c
            m == e * b
            h == z % m
<1>1. z \in Int /\ r \in 0 .. (c - 1)
  BY Division
<1>2. m \in Nat /\ m >= 1
  BY DivisionTwice
<1>3. y % (m * c) = r + h * c
  <2>. HIDE DEF m
  <2>. QED  BY <1>2, DivisionTwice, Zenon
<1>4. h \in 0 .. (m - 1)
  <2>. HIDE DEF z, m
  <2>. QED  BY <1>1, <1>2, Division
<1>5. h % b = z % b
  <2>. DEFINE q == (z \div b) % e
              s == z % b
  <2>1. h = s + q * b
    <3>. HIDE DEF z
    <3>. QED  BY <1>1, DivisionTwice
  <2>2. q \in Int /\ s \in 0 .. (b - 1)
    <3>. HIDE DEF z
    <3>1. z \div b \in Int /\ s \in 0 .. (b - 1)
      BY <1>1, Division
    <3>. QED  BY <3>1, Division
  <2>. HIDE DEF q, s, h
  <2>3. h = q * b + s /\ h \in Int
    BY <2>1, <2>2
  <2>. QED  BY <2>2, <2>3, DivisionIs DEF s
<1>6. (r + h * c) \div c = h
  <2>. HIDE DEF r, h
  <2>1. r + h * c = h * c + r /\ h \in Int /\ r + h * c \in Int
    BY <1>1, <1>2, <1>4
  <2>. QED  BY <1>1, <2>1, DivisionIs
<1>. HIDE DEF z, r, h
<1>7. (y % (m * c)) \div c = h
  BY <1>3, <1>6
<1>. QED  BY <1>5, <1>7 DEF m, z

(* What is left of a word after its lowest bytes are taken away one at a time. *)
LEMMA BytesOfWord ==
  /\ \A j \in 0 .. (WordBytes - 1) : /\ j + 1 \in 1 .. (NumBytes + 1)
                                     /\ BytePower[j + 2] = ByteBase * BytePower[j + 1]
                                     /\ \E e \in Nat : e >= 1 /\ WordBase = (e * ByteBase) * BytePower[j + 1]
<1>. DEFINE s == BytePower
            T == {i \in 0 .. WordBytes : \E e \in Nat : e >= 1 /\ WordBase = e * s[(WordBytes - i) + 1]}
<1>1. /\ WordBytes \in Nat /\ WordBytes >= 1 /\ ByteBase \in Nat /\ ByteBase >= 1 /\ WordBytes <= NumBytes
      /\ NumBytes \in Nat /\ s[WordBytes + 1] = WordBase /\ \A i \in 1 .. NumBytes : s[i + 1] = ByteBase * s[i]
      /\ \A i \in 1 .. (NumBytes + 1) : s[i] \in Nat /\ s[i] >= 1
  <2>1. NumWords * WordBytes >= 1 * WordBytes
    BY BytePowers, WordsNumbers
  <2>. QED  BY <2>1, BytePowers
<1>. HIDE DEF s
<1>2. 0 \in T
  <2>1. WordBytes + 1 \in 1 .. (NumBytes + 1) /\ (WordBytes - 0) + 1 = WordBytes + 1
    BY <1>1
  <2>2. WordBase = 1 * s[(WordBytes - 0) + 1]
    BY <1>1, <2>1
  <2>. QED  BY <1>1, <2>2
<1>3. ASSUME NEW i \in 0 .. (WordBytes - 1), i \in T PROVE i + 1 \in T
  <2>1. PICK e \in Nat : e >= 1 /\ WordBase = e * s[(WordBytes - i) + 1]
    BY <1>3
  <2>. DEFINE j == (WordBytes - (i + 1)) + 1
  <2>2. j \in 1 .. NumBytes /\ j + 1 = (WordBytes - i) + 1 /\ j \in 1 .. (NumBytes + 1) /\ i + 1 \in 0 .. WordBytes
    BY <1>1
  <2>3. s[j + 1] = ByteBase * s[j] /\ s[j] \in Nat
    BY <1>1, <2>2
  <2>4. WordBase = (e * ByteBase) * s[j]
    <3>1. e * (ByteBase * s[j]) = (e * ByteBase) * s[j]
      BY <1>1, <2>3
    <3>. QED  BY <2>1, <2>2, <2>3, <3>1
  <2>5. e * ByteBase \in Nat /\ e * ByteBase >= 1
    BY <1>1, <2>1
  <2>. QED  BY <2>2, <2>4, <2>5
<1>. HIDE DEF T
<1>4. 0 .. WordBytes \subseteq T
  BY <1>1, <1>2, <1>3, IntervalInductive
<1>5. ASSUME NEW j \in 0 .. (WordBytes - 1)
      PROVE  /\ j + 1 \in 1 .. (NumBytes + 1) /\ s[j + 2] = ByteBase * s[j + 1]
             /\ \E e \in Nat : e >= 1 /\ WordBase = (e * ByteBase) * s[j + 1]
  <2>1. j + 1 \in 1 .. (NumBytes + 1) /\ j + 1 \in 1 .. NumBytes /\ (j + 1) + 1 = j + 2
        /\ WordBytes - (j + 1) \in 0 .. WordBytes /\ (WordBytes - (WordBytes - (j + 1))) + 1 = j + 2
    BY <1>1
  <2>2. s[j + 2] = ByteBase * s[j + 1] /\ s[j + 1] \in Nat
    BY <1>1, <2>1
  <2>3. PICK e \in Nat : e >= 1 /\ WordBase = e * s[j + 2]
    BY <1>4, <2>1 DEF T
  <2>4. e * (ByteBase * s[j + 1]) = (e * ByteBase) * s[j + 1]
    BY <1>1, <2>2
  <2>. QED  BY <2>1, <2>2, <2>3, <2>4
<1>. QED  BY <1>5 DEF s

(* uECC_vli_nativeToBytes: the bytes of the words are those of the number, the *)
(* highest first.                                                              *)
THEOREM NativeToBytesAreDigits ==
  ASSUME NEW x \in Nat
  PROVE  NativeToBytes(ToWords(x)) =
           [i \in 1 .. NumBytes |-> (x \div BytePower[NumBytes - i + 1]) % ByteBase]
<1>1. ASSUME NEW i \in 1 .. NumBytes
      PROVE  LET position == NumBytes - i
             IN  (ToWords(x)[position \div WordBytes + 1] \div BytePower[(position % WordBytes) + 1]) % ByteBase
                   = (x \div BytePower[NumBytes - i + 1]) % ByteBase
  <2>. DEFINE position == NumBytes - i
              word == position \div WordBytes
              byte == position % WordBytes
              w == Weight(word + 1)
              c == BytePower[byte + 1]
              y == x \div w
  <2>1. /\ position \in 0 .. (NumBytes - 1) /\ word \in 0 .. (NumWords - 1) /\ byte \in 0 .. (WordBytes - 1)
        /\ position = word * WordBytes + byte
    BY BytePosition
  <2>. HIDE DEF position, word, byte
  <2>2. ByteBase \in Nat /\ ByteBase >= 1 /\ WordBytes \in Nat /\ WordBytes >= 1
        /\ NumWords \in Nat /\ NumWords >= 1 /\ byte \in 0 .. WordBytes
    BY <2>1, BytePowers, WordsNumbers
  <2>3. w \in Nat /\ w >= 1
    <3>1. word + 1 \in 1 .. (2 * NumWords + 1)
      BY <2>1, <2>2
    <3>. QED  BY <3>1, Weights
  <2>4. c \in Nat /\ c >= 1 /\ \E e \in Nat : e >= 1 /\ WordBase = (e * ByteBase) * c
    BY <2>1, BytesOfWord, BytePowers
  <2>5. PICK e \in Nat : e >= 1 /\ WordBase = (e * ByteBase) * c
    BY <2>4
  <2>6. BytePower[position + 1] = w * c
    BY <2>1, <2>2, BytePowers
  <2>7. ToWords(x)[word + 1] = y % WordBase
    <3>1. word + 1 \in 1 .. NumWords
      BY <2>1, <2>2
    <3>. QED  BY <3>1 DEF ToWords, Index, Weight
  <2>. HIDE DEF w, c
  <2>8. y \in Int
    BY <2>3, Division
  <2>9. y \div c = x \div (w * c)
    <3>1. x \div (c * w) = y \div c
      <4>1. x \in Int /\ w \in Nat /\ w >= 1 /\ c \in Nat /\ c >= 1
        BY <2>3, <2>4
      <4>. QED  BY <4>1, DivisionTwice, ZenonT(30)
    <3>2. c * w = w * c
      BY <2>3, <2>4
    <3>. QED  BY <3>1, <3>2
  <2>. HIDE DEF y
  <2>10. ((y % WordBase) \div c) % ByteBase = (y \div c) % ByteBase
    <3>1. ((y % ((e * ByteBase) * c)) \div c) % ByteBase = (y \div c) % ByteBase
      <4>1. e \in Nat /\ e >= 1 /\ ByteBase \in Nat /\ ByteBase >= 1 /\ c \in Nat /\ c >= 1
        BY <2>2, <2>4, <2>5
      <4>. QED  BY <2>8, <4>1, DigitOfRemainder, Zenon
    <3>. QED  BY <2>5, <3>1
  <2>. QED  BY <2>6, <2>7, <2>9, <2>10 DEF position, word, byte, c
<1>. QED  BY <1>1 DEF NativeToBytes

(* The words that uECC_vli_bytesToNative has after i bytes: those whose        *)
(* position is not below NumBytes - i are in place.                            *)
Filling(bytes) ==
  CHOOSE g : g =
    [i \in 0 .. NumBytes |->
        IF i = 0 THEN [w \in Index |-> 0]
        ELSE LET position == NumBytes - i
             IN  [g[i - 1] EXCEPT ![position \div WordBytes + 1] =
                    @ + bytes[i] * BytePower[(position % WordBytes) + 1]]]

FillStep(before, bytes, i) ==
  LET position == NumBytes - i
  IN  [before EXCEPT ![position \div WordBytes + 1] = @ + bytes[i] * BytePower[(position % WordBytes) + 1]]

LEMMA FillingRecursion ==
  ASSUME NEW bytes
  PROVE  /\ BytesToNative(bytes) = Filling(bytes)[NumBytes]
         /\ Filling(bytes)[0] = [w \in Index |-> 0]
         /\ \A i \in 1 .. NumBytes : Filling(bytes)[i] = FillStep(Filling(bytes)[i - 1], bytes, i)
<1>. DEFINE D(before, i) == FillStep(before, bytes, i)
            zero == [w \in Index |-> 0]
            h == CHOOSE g : g = [i \in 0 .. NumBytes |-> IF i = 0 THEN zero ELSE D(g[i - 1], i)]
<1>0. NumBytes \in Nat
  BY BytePowers
<1>1. FiniteNatInductiveDefHypothesis(h, zero, D, 0, NumBytes)
  BY Zenon DEF FiniteNatInductiveDefHypothesis
<1>2. FiniteNatInductiveDefConclusion(h, zero, D, 0, NumBytes)
  BY <1>0, <1>1, FiniteNatInductiveDef
<1>3. h = [i \in 0 .. NumBytes |-> IF i = 0 THEN zero ELSE D(h[i - 1], i)]
  BY <1>2, Zenon DEF FiniteNatInductiveDefConclusion
<1>4. Filling(bytes) = [i \in 0 .. NumBytes |-> IF i = 0 THEN zero ELSE D(Filling(bytes)[i - 1], i)]
  BY <1>3, Zenon DEF Filling, FillStep
<1>5. BytesToNative(bytes) = Filling(bytes)[NumBytes]
  BY Zenon DEF BytesToNative, Filling
<1>6. 0 \in 0 .. NumBytes /\ \A i \in 1 .. NumBytes : i \in 0 .. NumBytes /\ i # 0
  BY <1>0
<1>. HIDE DEF h, D, zero
<1>7. Filling(bytes)[0] = zero
  BY <1>4, <1>6, Zenon
<1>8. \A i \in 1 .. NumBytes : Filling(bytes)[i] = D(Filling(bytes)[i - 1], i)
  BY <1>4, <1>6, Zenon
<1>. QED  BY <1>5, <1>7, <1>8 DEF D, zero

(* The number of the lowest bytes of word w that have not come yet.            *)
Missing(i, w) ==
  LET below == (NumBytes - i) - (w - 1) * WordBytes
  IN  IF below < 0 THEN 0 ELSE IF below > WordBytes THEN WordBytes ELSE below

LEMMA MissingProperties ==
  /\ \A w \in Index : Missing(0, w) = WordBytes /\ Missing(NumBytes, w) = 0
  /\ \A i \in 1 .. NumBytes, w \in Index :
       LET position == NumBytes - i
       IN  IF w = position \div WordBytes + 1
           THEN Missing(i - 1, w) = (position % WordBytes) + 1 /\ Missing(i, w) = position % WordBytes
           ELSE Missing(i, w) = Missing(i - 1, w)
<1>1. WordBytes \in Nat /\ WordBytes >= 1 /\ NumBytes \in Nat /\ NumBytes = NumWords * WordBytes
      /\ NumWords \in Nat /\ NumWords >= 1
  BY BytePowers, WordsNumbers
<1>2. ASSUME NEW w \in Index
      PROVE  Missing(0, w) = WordBytes /\ Missing(NumBytes, w) = 0
  <2>. DEFINE a == (w - 1) * WordBytes
  <2>1. a \in Nat /\ a + WordBytes = w * WordBytes /\ w * WordBytes <= NumWords * WordBytes
    BY <1>1 DEF Index
  <2>2. a + WordBytes <= NumBytes
    <3>. HIDE DEF a
    <3>. QED  BY <1>1, <2>1
  <2>3. Missing(0, w) = (IF (NumBytes - 0) - a < 0 THEN 0 ELSE IF (NumBytes - 0) - a > WordBytes THEN WordBytes ELSE (NumBytes - 0) - a)
    BY DEF Missing
  <2>4. Missing(NumBytes, w) = (IF (NumBytes - NumBytes) - a < 0 THEN 0
                                ELSE IF (NumBytes - NumBytes) - a > WordBytes THEN WordBytes ELSE (NumBytes - NumBytes) - a)
    BY DEF Missing
  <2>. HIDE DEF a
  <2>. QED  BY <1>1, <2>1, <2>2, <2>3, <2>4
<1>3. ASSUME NEW i \in 1 .. NumBytes, NEW w \in Index
      PROVE  LET position == NumBytes - i
             IN  IF w = position \div WordBytes + 1
                 THEN Missing(i - 1, w) = (position % WordBytes) + 1 /\ Missing(i, w) = position % WordBytes
                 ELSE Missing(i, w) = Missing(i - 1, w)
  <2>. DEFINE position == NumBytes - i
              word == position \div WordBytes
              byte == position % WordBytes
              a == (w - 1) * WordBytes
              b == word * WordBytes
  <2>1. position \in Nat /\ word \in 0 .. (NumWords - 1) /\ byte \in 0 .. (WordBytes - 1) /\ position = b + byte
    BY BytePosition, <1>1
  <2>2. NumBytes - (i - 1) = position + 1
    BY <1>1
  <2>3. Missing(i, w) = (IF position - a < 0 THEN 0 ELSE IF position - a > WordBytes THEN WordBytes ELSE position - a)
    BY DEF Missing
  <2>4. Missing(i - 1, w) = (IF (position + 1) - a < 0 THEN 0
                             ELSE IF (position + 1) - a > WordBytes THEN WordBytes ELSE (position + 1) - a)
    BY <2>2 DEF Missing
  <2>. HIDE DEF position, byte
  <2>5. w \in Nat /\ w >= 1 /\ a \in Int /\ b \in Int
    BY <1>1, <2>1 DEF Index
  <2>6. CASE w = word + 1
    <3>1. a = b
      BY <2>1, <2>6
    <3>. HIDE DEF a, b
    <3>2. Missing(i - 1, w) = byte + 1 /\ Missing(i, w) = byte
      BY <1>1, <2>1, <2>3, <2>4, <2>5, <3>1
    <3>. QED  BY <2>6, <3>2 DEF position, byte
  <2>7. CASE w < word + 1
    <3>1. w * WordBytes <= b /\ w * WordBytes = a + WordBytes /\ w * WordBytes \in Int
      BY <1>1, <2>1, <2>5, <2>7
    <3>. HIDE DEF a, b
    <3>2. a + WordBytes <= b
      BY <3>1
    <3>3. Missing(i, w) = WordBytes /\ Missing(i - 1, w) = WordBytes
      BY <1>1, <2>1, <2>3, <2>4, <2>5, <3>2
    <3>4. w # word + 1
      BY <2>1, <2>5, <2>7
    <3>. QED  BY <3>3, <3>4 DEF position
  <2>8. CASE w > word + 1
    <3>1. (word + 1) * WordBytes <= a /\ (word + 1) * WordBytes = b + WordBytes /\ (word + 1) * WordBytes \in Int
      <4>1. word + 1 <= w - 1 /\ word + 1 \in Nat /\ w - 1 \in Nat
        BY <2>1, <2>5, <2>8
      <4>. HIDE DEF word
      <4>. QED  BY <1>1, <2>1, <4>1
    <3>. HIDE DEF a, b
    <3>2. b + WordBytes <= a
      BY <3>1
    <3>3. Missing(i, w) = 0 /\ Missing(i - 1, w) = 0
      BY <1>1, <2>1, <2>3, <2>4, <2>5, <3>2
    <3>4. w # word + 1
      BY <2>1, <2>5, <2>8
    <3>. QED  BY <3>3, <3>4 DEF position
  <2>9. w = word + 1 \/ w < word + 1 \/ w > word + 1
    BY <2>1, <2>5
  <2>. QED  BY <2>6, <2>7, <2>8, <2>9
<1>. QED  BY <1>2, <1>3

(* uECC_vli_bytesToNative: the words that were made into bytes come back.      *)
THEOREM BytesToNativeIsInverse ==
  ASSUME NEW native \in Words(NumWords)
  PROVE  BytesToNative(NativeToBytes(native)) = native
<1>. DEFINE bytes == NativeToBytes(native)
            f == Filling(bytes)
            left(i, w) == native[w] - (native[w] % BytePower[Missing(i, w) + 1])
            T == {i \in 0 .. NumBytes : f[i] = [w \in Index |-> left(i, w)]}
<1>1. /\ BytesToNative(bytes) = f[NumBytes] /\ f[0] = [w \in Index |-> 0]
      /\ \A i \in 1 .. NumBytes : f[i] = FillStep(f[i - 1], bytes, i)
  BY FillingRecursion
<1>2. WordBytes \in Nat /\ WordBytes >= 1 /\ NumBytes \in Nat /\ ByteBase \in Nat /\ ByteBase >= 1
      /\ BytePower[1] = 1 /\ BytePower[WordBytes + 1] = WordBase
  BY BytePowers
<1>3. native \in Seq(Digit) /\ Len(native) = NumWords /\ NumWords \in Nat
      /\ \A w \in Index : native[w] \in Nat /\ native[w] \in 0 .. (WordBase - 1)
  BY WordsNumbers DEF Words, Index, Digit
<1>4. \A i \in 1 .. NumBytes :
        bytes[i] = (native[(NumBytes - i) \div WordBytes + 1]
                      \div BytePower[((NumBytes - i) % WordBytes) + 1]) % ByteBase
  BY DEF NativeToBytes
<1>. HIDE DEF bytes, f
<1>5. 0 \in T
  <2>1. ASSUME NEW w \in Index PROVE left(0, w) = 0
    <3>1. left(0, w) = native[w] - (native[w] % WordBase)
      BY <1>2, MissingProperties
    <3>2. native[w] % WordBase = native[w]
      BY <1>3, WordsNumbers, SMTT(30)
    <3>. QED  BY <1>3, <3>1, <3>2
  <2>. HIDE DEF left
  <2>2. [w \in Index |-> left(0, w)] = [w \in Index |-> 0]
    BY <2>1
  <2>. QED  BY <1>1, <1>2, <2>2
<1>6. ASSUME NEW i \in 0 .. (NumBytes - 1), i \in T PROVE i + 1 \in T
  <2>. DEFINE position == NumBytes - (i + 1)
              word == position \div WordBytes
              byte == position % WordBytes
              c == BytePower[byte + 1]
              x == native[word + 1]
              d == bytes[i + 1]
  <2>1. i + 1 \in 1 .. NumBytes /\ (i + 1) - 1 = i /\ i + 1 \in 0 .. NumBytes
    BY <1>2
  <2>2. word \in 0 .. (NumWords - 1) /\ byte \in 0 .. (WordBytes - 1)
    BY <2>1, BytePosition
  <2>3. word + 1 \in Index
    <3>. HIDE DEF word
    <3>. QED  BY <1>3, <2>2 DEF Index
  <2>4. \A w \in Index : IF w = word + 1
                         THEN Missing(i, w) = byte + 1 /\ Missing(i + 1, w) = byte
                         ELSE Missing(i + 1, w) = Missing(i, w)
    BY <2>1, MissingProperties
  <2>5. d = (x \div c) % ByteBase
    BY <1>4, <2>1
  <2>6. f[i + 1] = [f[i] EXCEPT ![word + 1] = @ + d * c]
    <3>1. f[i + 1] = FillStep(f[i], bytes, i + 1)
      BY <1>1, <2>1
    <3>. QED  BY <3>1 DEF FillStep
  <2>7. f[i] = [w \in Index |-> left(i, w)]
    BY <1>6
  <2>8. left(i, word + 1) + d * c = left(i + 1, word + 1)
    <3>1. left(i, word + 1) = x - (x % BytePower[(byte + 1) + 1]) /\ left(i + 1, word + 1) = x - (x % c)
      BY <2>3, <2>4
    <3>2. c \in Nat /\ c >= 1 /\ BytePower[(byte + 1) + 1] = ByteBase * c
      <4>. HIDE DEF byte
      <4>1. (byte + 1) + 1 = byte + 2
        BY <2>2
      <4>. QED  BY <2>2, <4>1, BytesOfWord, BytePowers
    <3>3. x \in Nat
      BY <1>3, <2>3
    <3>. HIDE DEF x, c, d
    <3>4. x % (ByteBase * c) = (x % c) + ((x \div c) % ByteBase) * c
      <4>1. x \in Int /\ ByteBase \in Nat /\ ByteBase >= 1
        BY <1>2, <3>3
      <4>. QED  BY <3>2, <4>1, DivisionTwice, Zenon
    <3>5. x % c \in Int /\ d * c \in Int
      <4>1. x \div c \in Int /\ x % c \in Int
        BY <3>2, <3>3, Division
      <4>2. (x \div c) % ByteBase \in Int
        BY <1>2, <4>1, Division
      <4>. QED  BY <2>5, <3>2, <4>1, <4>2
    <3>. DEFINE xb == x % (ByteBase * c)
                xc == x % c
                dc == d * c
    <3>6. xb = xc + dc /\ xc \in Int /\ dc \in Int
      BY <2>5, <3>4, <3>5
    <3>. HIDE DEF xb, xc, dc
    <3>7. x - xb + dc = x - xc
      BY <3>3, <3>6
    <3>. QED  BY <3>1, <3>2, <3>7 DEF xb, xc, dc
  <2>9. ASSUME NEW w \in Index, w # word + 1 PROVE left(i, w) = left(i + 1, w)
    BY <2>4, <2>9
  <2>. HIDE DEF left, word, byte, c, x, d
  <2>10. f[i + 1] = [w \in Index |-> left(i + 1, w)]
    <3>1. f[i + 1] = [w \in Index |-> IF w = word + 1 THEN left(i, w) + d * c ELSE left(i, w)]
      BY <2>3, <2>6, <2>7
    <3>2. \A w \in Index : (IF w = word + 1 THEN left(i, w) + d * c ELSE left(i, w)) = left(i + 1, w)
      BY <2>8, <2>9
    <3>. QED  BY <3>1, <3>2
  <2>. QED  BY <2>1, <2>10
<1>. HIDE DEF T
<1>7. 0 .. NumBytes \subseteq T
  BY <1>2, <1>5, <1>6, IntervalInductive
<1>8. f[NumBytes] = [w \in Index |-> left(NumBytes, w)]
  BY <1>2, <1>7 DEF T
<1>9. ASSUME NEW w \in Index PROVE left(NumBytes, w) = native[w]
  <2>1. left(NumBytes, w) = native[w] - (native[w] % 1)
    BY <1>2, MissingProperties
  <2>2. native[w] % 1 = 0
    BY <1>3
  <2>. QED  BY <1>3, <2>1, <2>2
<1>. HIDE DEF left
<1>10. f[NumBytes] = [w \in Index |-> native[w]]
  BY <1>8, <1>9
<1>11. [w \in Index |-> native[w]] = native
  BY <1>3 DEF Index
<1>. QED  BY <1>1, <1>10, <1>11 DEF bytes
===============================================================================
