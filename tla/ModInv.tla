------------------------------- MODULE ModInv -------------------------------
(***************************************************************************)
(* The numbers of ecc.c and its modular inverse. A number is an array of   *)
(* NUM_ECC_WORDS words in the code and an integer below Top here; the      *)
(* loops over words are in VliWords. uECC_vli_modInv is a state machine:   *)
(* one step per iteration of its loop, with the registers of the code.     *)
(***************************************************************************)
EXTENDS Integers

CONSTANTS Top,   \* one more than the largest number that the words hold
          p      \* the modulus, curve_p

ASSUME ModInvAssumption ==
  /\ Top \in Nat /\ Top % 2 = 0
  /\ p \in Nat /\ p % 2 = 1 /\ 2 < p /\ p < Top

VARIABLES input, a, b, u, v

registers == <<input, a, b, u, v>>

-----------------------------------------------------------------------------
(* Numbers *)

Add(left, right) == [value |-> (left + right) % Top, carry |-> (left + right) \div Top]
Sub(left, right) == [value |-> (left - right) % Top, borrow |-> IF left < right THEN 1 ELSE 0]

Even(x) == x % 2 = 0
ShiftRight(x) == x \div 2

\* The compare of the sum with the modulus is only right with the carry
ModAdd(left, right) ==
  LET sum == Add(left, right)
  IN  IF sum.carry # 0 \/ p <= sum.value THEN Sub(sum.value, p).value ELSE sum.value

\* Mutant: a negative difference is left as it is
ModSubNoAdd(left, right) == Sub(left, right).value

ModSub(left, right) ==
  LET difference == Sub(left, right)
  IN  IF difference.borrow # 0 THEN Add(difference.value, p).value ELSE difference.value

\* Mutant: HIGH_BIT_SET is forgotten
HalveNoCarry(x) ==
  IF Even(x) THEN ShiftRight(x) ELSE ShiftRight(Add(x, p).value)

\* Half of x modulo p: the carry of x + p comes back as the highest bit
Halve(x) ==
  IF Even(x) THEN ShiftRight(x)
  ELSE LET sum == Add(x, p)
       IN  ShiftRight(sum.value) + sum.carry * (Top \div 2)

\* Half of the difference of two coefficients
HalveDifference(x, y) ==
  LET minuend == IF x < y THEN Add(x, p).value ELSE x
  IN  Halve(Sub(minuend, y).value)

-----------------------------------------------------------------------------
(* uECC_vli_modInv *)

\* A zero has no inverse: the result is cleared and the loop never entered
StartInversion(x) ==
  /\ input' = x
  /\ IF x = 0 THEN a' = 0 /\ b' = 0 /\ u' = 0 /\ v' = 0
              ELSE a' = x /\ b' = p /\ u' = 1 /\ v' = 0

HalveA ==
  /\ a # b /\ Even(a)
  /\ a' = ShiftRight(a)
  /\ u' = Halve(u)
  /\ UNCHANGED <<input, b, v>>

HalveB ==
  /\ a # b /\ ~Even(a) /\ Even(b)
  /\ b' = ShiftRight(b)
  /\ v' = Halve(v)
  /\ UNCHANGED <<input, a, u>>

\* Mutant: the difference is not halved
SubtractBNoShift ==
  /\ a > b /\ ~Even(a) /\ ~Even(b)
  /\ a' = Sub(a, b).value
  /\ u' = ModSub(u, v)
  /\ UNCHANGED <<input, b, v>>

SubtractB ==
  /\ a > b /\ ~Even(a) /\ ~Even(b)
  /\ a' = ShiftRight(Sub(a, b).value)
  /\ u' = HalveDifference(u, v)
  /\ UNCHANGED <<input, b, v>>

\* Mutant: the difference of the coefficients the wrong way round
SubtractASwapped ==
  /\ a < b /\ ~Even(a) /\ ~Even(b)
  /\ b' = ShiftRight(Sub(b, a).value)
  /\ v' = HalveDifference(u, v)
  /\ UNCHANGED <<input, a, u>>

SubtractA ==
  /\ a < b /\ ~Even(a) /\ ~Even(b)
  /\ b' = ShiftRight(Sub(b, a).value)
  /\ v' = HalveDifference(v, u)
  /\ UNCHANGED <<input, a, u>>

InversionStep == HalveA \/ HalveB \/ SubtractB \/ SubtractA
InversionEnded == a = b

InversionInit ==
  /\ input \in 1..(p - 1)
  /\ a = input /\ b = p /\ u = 1 /\ v = 0

InversionSpec == InversionInit /\ [][InversionStep]_registers

-----------------------------------------------------------------------------
(* Properties *)

(***************************************************************************)
(* Every register stays a reduced number: no iteration of modInv (lines    *)
(* 424-448) overflows the words, leaves u or v at or above the modulus, or *)
(* brings a or b to zero.                                                  *)
(***************************************************************************)
RegistersReduced ==
  /\ input \in 0..(p - 1)
  /\ u \in 0..(p - 1) /\ v \in 0..(p - 1)
  /\ input # 0 => a \in 1..(p - 1) /\ b \in 1..p

(***************************************************************************)
(* The loop invariant that makes modInv an inverse: u and v are what the   *)
(* input has to be multiplied with to get a and b. It has to survive the   *)
(* four branches, each of which wraps around the words on its own.         *)
(***************************************************************************)
BezoutKept ==
  /\ (u * input) % p = a % p
  /\ (v * input) % p = b % p

(***************************************************************************)
(* When the two numbers of modInv have met (line 424), what it returns is  *)
(* the inverse of its input: for a prime modulus they can only meet at 1.  *)
(* Each branch has to keep the divisors of the two and their coefficients. *)
(***************************************************************************)
InverseFound == InversionEnded /\ input # 0 => (u * input) % p = 1

(***************************************************************************)
(* modInv ends, whatever the input: each iteration at least halves the     *)
(* product of the two numbers, so there are fewer than two per bit. A      *)
(* branch that made no progress would hang the receiver thread.            *)
(***************************************************************************)
ProductHalves == [][InversionStep => 2 * a' * b' <= a * b]_registers
=============================================================================
