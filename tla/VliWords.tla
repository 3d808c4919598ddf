------------------------------ MODULE VliWords ------------------------------
(***************************************************************************)
(* The loops over words of ecc.c: numbers as tuples of NumWords words, the *)
(* lowest first, with carries and borrows told by comparing a word before  *)
(* and after the operation. ModInv and Ecdh use integers in their place.   *)
(***************************************************************************)
LOCAL INSTANCE Integers
LOCAL INSTANCE Sequences

CONSTANTS WordBase,  \* one more than the largest word
          WordBits,  \* uECC_WORD_BITS
          NumWords,  \* NUM_ECC_WORDS
          WordBytes, \* uECC_WORD_SIZE
          ByteBase   \* 2^8

\* <<1, base, ..., base^last>>: what a digit counts for (the provers do not know ^)
Powers(base, last) ==
  LET upTo[i \in 0..last] ==
        IF i = 0 THEN <<1>>
        ELSE LET before == upTo[i - 1] IN Append(before, base * before[i])
  IN  upTo[last]

NumBytes == NumWords * WordBytes
WordPower == Powers(WordBase, 2 * NumWords)
BytePower == Powers(ByteBase, NumBytes)

\* The three words of uECC_vli_mult's sum hold a whole column of products
ASSUME VliWordsAssumption ==
  /\ WordBits \in Nat \ {0} /\ WordBase = Powers(2, WordBits)[WordBits + 1]
  /\ WordBytes \in Nat \ {0} /\ ByteBase \in Nat /\ WordBase = BytePower[WordBytes + 1]
  /\ NumWords \in Nat \ {0} /\ NumWords <= WordBase

Index == 1..NumWords

ToWords(x) == [i \in Index |-> (x \div WordPower[i]) % WordBase]
DoubleWords(x) == [i \in 1..(2 * NumWords) |-> (x \div WordPower[i]) % WordBase]

ValueOf(words) ==
  LET upTo[i \in 0..Len(words)] ==
        IF i = 0 THEN 0 ELSE upTo[i - 1] + words[i] * WordPower[i]
  IN  upTo[Len(words)]

\* Mutant: the carry is the comparison, without cond_set
AddWordsNoCondSet(left, right) ==
  LET upTo[i \in 0..NumWords] ==
        IF i = 0 THEN [words |-> <<>>, carry |-> 0]
        ELSE LET before == upTo[i - 1]
                 sum == (left[i] + right[i] + before.carry) % WordBase
             IN  [words |-> Append(before.words, sum),
                  carry |-> IF sum < left[i] THEN 1 ELSE 0]
  IN  upTo[NumWords]

\* If the sum is the old word, the carry was 0 or came with a full word, and stays
AddWords(left, right) ==
  LET upTo[i \in 0..NumWords] ==
        IF i = 0 THEN [words |-> <<>>, carry |-> 0]
        ELSE LET before == upTo[i - 1]
                 sum == (left[i] + right[i] + before.carry) % WordBase
             IN  [words |-> Append(before.words, sum),
                  carry |-> IF sum = left[i] THEN before.carry
                            ELSE IF sum < left[i] THEN 1 ELSE 0]
  IN  upTo[NumWords]

SubWords(left, right) ==
  LET upTo[i \in 0..Len(left)] ==
        IF i = 0 THEN [words |-> <<>>, borrow |-> 0]
        ELSE LET before == upTo[i - 1]
                 diff == (left[i] - right[i] - before.borrow) % WordBase
             IN  [words |-> Append(before.words, diff),
                  borrow |-> IF diff = left[i] THEN before.borrow
                             ELSE IF diff > left[i] THEN 1 ELSE 0]
  IN  upTo[Len(left)]

\* uECC_vli_cmp_unsafe: the highest word that differs decides
CmpUnsafe(left, right) ==
  LET from[i \in 0..NumWords] ==
        IF i = 0 \/ left[i] # right[i] THEN i ELSE from[i - 1]
      top == from[NumWords]
  IN  IF top = 0 THEN 0 ELSE IF left[top] > right[top] THEN 1 ELSE -1

\* uECC_vli_cmp: the same from the borrow of a subtraction
CmpConstantTime(left, right) ==
  LET difference == SubWords(left, right)
      nonzero == \E i \in Index : difference.words[i] # 0
  IN  (IF nonzero THEN 1 ELSE 0) - 2 * difference.borrow

\* Each word takes the low bit of the word above it
ShiftRightWords(words) ==
  LET top == Len(words)
      upTo[i \in 0..top] ==
        IF i = 0 THEN <<>>
        ELSE Append(upTo[i - 1],
                    words[i] \div 2 + IF i = top THEN 0
                                      ELSE (words[i + 1] % 2) * (WordBase \div 2))
  IN  upTo[top]

\* muladd: the overflow of two words is told by comparing with the product
MulAdd(sum, x, y) ==
  LET product == x * y
      r01 == (sum.r1 * WordBase + sum.r0 + product) % (WordBase * WordBase)
  IN  [r0 |-> r01 % WordBase,
       r1 |-> r01 \div WordBase,
       r2 |-> (sum.r2 + IF r01 < product THEN 1 ELSE 0) % WordBase]

\* Column k of the product: the sum of left[i] * right[k + 1 - i], added to what is there
ColumnSum(left, right, k, start) ==
  LET first == IF k <= NumWords THEN 1 ELSE k + 1 - NumWords
      last == IF k <= NumWords THEN k ELSE NumWords
      upTo[i \in (first - 1)..last] ==
        IF i = first - 1 THEN start ELSE MulAdd(upTo[i - 1], left[i], right[k + 1 - i])
  IN  upTo[last]

\* Each column leaves a word of the result, and two for the next column
MultWords(left, right) ==
  LET upTo[k \in 0..(2 * NumWords - 1)] ==
        IF k = 0 THEN [words |-> <<>>, sum |-> [r0 |-> 0, r1 |-> 0, r2 |-> 0]]
        ELSE LET before == upTo[k - 1]
                 sum == ColumnSum(left, right, k, before.sum)
             IN  [words |-> Append(before.words, sum.r0),
                  sum |-> [r0 |-> sum.r1, r1 |-> sum.r2, r2 |-> 0]]
      columns == upTo[2 * NumWords - 1]
  IN  Append(columns.words, columns.sum.r0)

BitLength[digit \in Nat] == IF digit = 0 THEN 0 ELSE 1 + BitLength[digit \div 2]

\* uECC_vli_numBits: the words up to the highest that is not zero, and its bits
NumBitsOf(words) ==
  LET digits[i \in 0..NumWords] ==
        IF i = 0 \/ words[i] # 0 THEN i ELSE digits[i - 1]
      top == digits[NumWords]
  IN  IF top = 0 THEN 0 ELSE (top - 1) * WordBits + BitLength[words[top]]

(***************************************************************************)
(* uECC_vli_mmod: subtract the modulus, shifted to the top of the product, *)
(* where it fits, and shift it down, until it is back in its place. The    *)
(* moduli fill their words, so that the first shift is by whole words.     *)
(***************************************************************************)
MmodWords(product, mod) ==
  LET shift == 2 * NumWords * WordBits - NumBitsOf(mod)
      wordShift == shift \div WordBits
      shifted == [i \in 1..(2 * NumWords) |-> IF i <= wordShift THEN 0 ELSE mod[i - wordShift]]
      round[k \in 0..(shift + 1)] ==
        IF k = 0 THEN [rest |-> product, multiple |-> shifted]
        ELSE LET before == round[k - 1]
                 difference == SubWords(before.rest, before.multiple)
             IN  [rest |-> IF difference.borrow = 0 THEN difference.words ELSE before.rest,
                  multiple |-> ShiftRightWords(before.multiple)]
  IN  SubSeq(round[shift + 1].rest, 1, NumWords)

-----------------------------------------------------------------------------
(* The keys and points of a caller are arrays of bytes, the highest first *)

NativeToBytes(native) ==
  [i \in 1..NumBytes |->
     LET position == NumBytes - i
     IN  (native[position \div WordBytes + 1] \div BytePower[(position % WordBytes) + 1]) % ByteBase]

BytesToNative(bytes) ==
  LET upTo[i \in 0..NumBytes] ==
        IF i = 0 THEN [w \in Index |-> 0]
        ELSE LET position == NumBytes - i
             IN  [upTo[i - 1] EXCEPT ![position \div WordBytes + 1] =
                    @ + bytes[i] * BytePower[(position % WordBytes) + 1]]
  IN  upTo[NumBytes]
=============================================================================
