-------------------------------- MODULE Ecdh --------------------------------
(***************************************************************************)
(* The elliptic curve computations of ecc.c and ecc_dh.c: one call at a    *)
(* time of uECC_shared_secret, uECC_compute_public_key or uECC_make_key.   *)
(* All multiply a point with a private key by Montgomery's ladder in co-Z  *)
(* coordinates, without a test for the point at infinity; a step is one    *)
(* iteration of the ladder or of the modular inverse. The modulus has the  *)
(* shape of secp256r1's with a small word, so that mmod_fast is the        *)
(* code's; the curve has a prime order, like secp256r1.                    *)
(***************************************************************************)
EXTENDS ModInv, VliWords

CONSTANTS Base,      \* 2^uECC_WORD_BITS
          NumBits,   \* num_n_bits
          n, B,      \* the order of the curve, and b of y^2 = x^3 - 3x + b
          Gx, Gy,    \* the generator
          PeerXs,    \* the x coordinates of the public keys of peers
          Randoms,   \* what an RNG gives: numbers of twice the words
          MaxTries   \* uECC_RNG_MAX_TRIES

BasePower == Powers(Base, 15)
BitPower == Powers(2, NumBits)

\* A number from its eight words, the lowest first
Number(words) ==
  LET from[i \in 1..9] == IF i = 9 THEN 0 ELSE words[i] + Base * from[i + 1]
  IN  from[1]

\* Base is 2^32 in the program, and p the words of curve_p
ASSUME EcdhAssumption ==
  /\ Base \in Nat \ {0, 1} /\ NumBits \in Nat \ {0}
  /\ Top = BasePower[9] /\ Top = BitPower[NumBits + 1] /\ Top = WordPower[NumWords + 1]
  /\ p = Number(<<Base - 1, Base - 1, Base - 1, 0, 0, 0, 1, Base - 1>>)
  /\ n \in 3..(Top - 2) /\ 2 * n > Top /\ B \in 0..(p - 1)
  /\ Gx \in 0..(p - 1) /\ Gy \in 0..(p - 1)
  /\ Randoms \subseteq 0..(Top * Top - 1) /\ MaxTries \in Nat \ {0}

VARIABLES pc, call, key, tries, point, initial_Z, scalar, bit, R, result, ret

locals == <<call, key, tries, point, initial_Z, scalar, bit, R>>
vars == <<pc, locals, registers, result, ret>>

Coordinates == [x : 0..(p - 1), y : 0..(p - 1)]
Zero == [x |-> 0, y |-> 0]
G == [x |-> Gx, y |-> Gy]

-----------------------------------------------------------------------------
(* Arithmetic modulo curve_p *)

\* The last loop of mmod_fast, on carry * Top + result
Reduced[t \in Int] ==
  IF t < 0 THEN Reduced[t + p] ELSE IF t >= p THEN Reduced[t - p] ELSE t

\* The low half of a product and what the words w of its high half come to
FastSum(low, w) ==
  LET s1 == Number(<<0, 0, 0, w[11], w[12], w[13], w[14], w[15]>>)
      s2 == Number(<<0, 0, 0, w[12], w[13], w[14], w[15], 0>>)
      s3 == Number(<<w[8], w[9], w[10], 0, 0, 0, w[14], w[15]>>)
      s4 == Number(<<w[9], w[10], w[11], w[13], w[14], w[15], w[13], w[8]>>)
      d1 == Number(<<w[11], w[12], w[13], 0, 0, 0, w[8], w[10]>>)
      d2 == Number(<<w[12], w[13], w[14], w[15], 0, 0, w[9], w[11]>>)
      d3 == Number(<<w[13], w[14], w[15], w[8], w[9], w[10], 0, w[12]>>)
      d4 == Number(<<w[14], w[15], 0, w[9], w[10], w[11], 0, w[13]>>)
  IN  low + 2 * s1 + 2 * s2 + s3 + s4 - d1 - d2 - d3 - d4

MmodFast(product) ==
  Reduced[FastSum(product % Top, [i \in 8..15 |-> (product \div BasePower[i + 1]) % Base])]

ModMult(left, right) == MmodFast(left * right)
ModSquare(x) == ModMult(x, x)

-----------------------------------------------------------------------------
(* Point operations, on points (x, y) with a common z that is not computed *)

XSide(x) == ModAdd(ModMult(ModSub(ModSquare(x), 3), x), B)

\* uECC_valid_point: the code returns 0 for a valid point
ValidPoint(P) ==
  /\ P # Zero
  /\ P.x < p /\ P.y < p
  /\ ModSquare(P.y) = XSide(P.x)

\* uECC_valid_public_key: the generator is no public key
ValidPublicKey(P) == P # G /\ ValidPoint(P)

\* (x, y) with z = 1 is (x z^2, y z^3) with z
ApplyZ(P, z) ==
  LET zz == ModSquare(z)
  IN  [x |-> ModMult(P.x, zz), y |-> ModMult(P.y, ModMult(zz, z))]

\* 2P, and its z in terms of the z of P, which is never 0 here
DoubleJacobian(P, z) ==
  LET yy == ModSquare(P.y)
      xyy == ModMult(P.x, yy)
      zz == ModSquare(z)
      plus == ModAdd(P.x, zz)
      m == ModMult(plus, ModSub(plus, ModAdd(zz, zz)))
      slope == Halve(ModAdd(m, ModAdd(m, m)))
      x3 == ModSub(ModSub(ModSquare(slope), xyy), xyy)
  IN  [point |-> [x |-> x3,
                  y |-> ModSub(ModMult(slope, ModSub(xyy, x3)), ModSquare(yy))],
       z |-> ModMult(P.y, z)]

\* <<P, 2P>> with a common z, from an initial z
InitialDouble(P, z) ==
  LET one == ApplyZ(P, z)
      double == DoubleJacobian(one, z)
  IN  <<ApplyZ(P, double.z), double.point>>

\* <<P, P + Q>> with a new common z
XYcZAdd(P, Q) ==
  LET A == ModSquare(ModSub(Q.x, P.x))
      b1 == ModMult(P.x, A)
      c1 == ModMult(Q.x, A)
      dy == ModSub(Q.y, P.y)
      x3 == ModSub(ModSub(ModSquare(dy), b1), c1)
      y1 == ModMult(P.y, ModSub(c1, b1))
  IN  << [x |-> b1, y |-> y1],
         [x |-> x3, y |-> ModSub(ModMult(dy, ModSub(b1, x3)), y1)] >>

\* <<P - Q, P + Q>> with a new common z
XYcZAddC(P, Q) ==
  LET A == ModSquare(ModSub(Q.x, P.x))
      b1 == ModMult(P.x, A)
      c1 == ModMult(Q.x, A)
      sy == ModAdd(Q.y, P.y)
      dy == ModSub(Q.y, P.y)
      e1 == ModMult(P.y, ModSub(c1, b1))
      bc == ModAdd(b1, c1)
      x3 == ModSub(ModSquare(dy), bc)
      xd == ModSub(ModSquare(sy), bc)
  IN  << [x |-> xd, y |-> ModSub(ModMult(ModSub(xd, b1), sy), e1)],
         [x |-> x3, y |-> ModSub(ModMult(dy, ModSub(b1, x3)), e1)] >>

-----------------------------------------------------------------------------
(* The calls *)

Curve == {P \in Coordinates : (P.y * P.y) % p = (P.x * P.x * P.x - 3 * P.x + B) % p}
Peers == {P \in Curve : P.x \in PeerXs}

\* Mutant: the carry chooses the other sum
RegularizeSwapped(k) ==
  LET k0 == Add(k, n)
      k1 == Add(k0.value, n)
  IN  IF k0.carry = 0 THEN k0.value ELSE k1.value

\* regularize_k: k + n or k + 2n, whichever has NumBits + 1 bits; the highest is implicit
Regularize(k) ==
  LET k0 == Add(k, n)
      k1 == Add(k0.value, n)
  IN  IF k0.carry # 0 THEN k0.value ELSE k1.value

BitOf(k, i) == (k \div BitPower[i + 1]) % 2

\* uECC_compute_public_key refuses keys that are not in 1..n-1
PublicKeyInRange(k) == k # 0 /\ Sub(k, n).borrow # 0

\* Nothing is computed: the variables have no meaning yet
Init ==
  /\ pc = "idle" /\ call = "none" /\ key = 0 /\ tries = 0
  /\ point = Zero /\ initial_Z = 0 /\ scalar = 0 /\ bit = 0
  /\ R = [i \in {0, 1} |-> Zero]
  /\ input = 0 /\ a = 0 /\ b = 0 /\ u = 0 /\ v = 0
  /\ result = Zero /\ ret = 0

Idle == pc = "idle"

\* A call of EccPoint_mult, with the z to start from
StartMult(name, k, P, z) ==
  /\ pc' = "double"
  /\ call' = name /\ key' = k /\ point' = P /\ initial_Z' = z
  /\ scalar' = Regularize(k)
  /\ bit' = NumBits - 1
  /\ UNCHANGED <<R, registers, result, ret>>

\* A call returns 0 before it has computed anything
Refuse(at, name, k, P) ==
  /\ pc' = at /\ call' = name /\ key' = k /\ point' = P
  /\ ret' = 0
  /\ UNCHANGED <<tries, initial_Z, scalar, bit, R, registers, result>>

\* Mutant: the roles are swapped
nbSwapped == BitOf(scalar, bit)

\* The two points trade roles with each bit of the scalar
nb == 1 - BitOf(scalar, bit)

AddC == XYcZAddC(R[1 - nb], R[nb])

\* uECC_generate_random_int: of the tries, the first that is in 1..p-1
RandomInts == {r % Top : r \in Randoms} \intersect 1..(p - 1)

\* Without an RNG z starts as 1; one that fails ends the call
SharedSecret ==
  /\ Idle
  /\ \E P \in Peers, k \in 1..(n - 1) :
       \/ /\ \E z \in {1} \union RandomInts : StartMult("secret", k, P, z)
          /\ tries' = 0
       \/ Refuse("norandom", "secret", k, P)

ComputePublicKey ==
  /\ Idle
  /\ \E k \in 0..(Top - 1) :
       \/ /\ PublicKeyInRange(k)
          /\ StartMult("public", k, G, 1)
          /\ tries' = 0
       \/ /\ ~PublicKeyInRange(k)
          /\ Refuse("done", "public", k, G)

\* uECC_vli_mmod takes twice the words to a number below n
Mmod(product) ==
  ValueOf(MmodWords(DoubleWords(product), ToWords(n)))

\* A try of uECC_make_key: a random private key, or no RNG or one that fails
TryKey ==
  \/ \E r \in Randoms : StartMult("make", Mmod(r), G, 1) /\ tries' = tries + 1
  \/ Refuse("norandom", "make", 0, G)

MakeKey == Idle /\ TryKey

\* The public key was 0: the next try
RetryKey == pc = "retry" /\ TryKey

\* EccPoint_mult up to its loop
FirstDouble ==
  /\ pc = "double"
  /\ pc' = "ladder"
  /\ LET first == InitialDouble(point, initial_Z)
     IN  R' = [i \in {0, 1} |-> first[i + 1]]
  /\ UNCHANGED <<call, key, tries, point, initial_Z, scalar, bit, registers, result, ret>>

LadderStep ==
  /\ pc = "ladder" /\ bit > 0
  /\ LET sums == XYcZAdd(AddC[2], AddC[1])
     IN  R' = [i \in {0, 1} |-> IF i = nb THEN sums[1] ELSE sums[2]]
  /\ bit' = bit - 1
  /\ UNCHANGED <<pc, call, key, tries, point, initial_Z, scalar, registers, result, ret>>

\* The last bit, and the number whose inverse gives the final z
LastAddC ==
  /\ pc = "ladder" /\ bit = 0
  /\ R' = [i \in {0, 1} |-> IF i = nb THEN AddC[2] ELSE AddC[1]]
  /\ LET yz == ModMult(ModSub(R'[1].x, R'[0].x), R'[1 - nb].y)
     IN  StartInversion(ModMult(yz, point.x))
  /\ pc' = "invert"
  /\ UNCHANGED <<call, key, tries, point, initial_Z, scalar, bit, result, ret>>

Invert ==
  /\ pc = "invert"
  /\ InversionStep
  /\ UNCHANGED <<pc, locals, result, ret>>

FinalAdd ==
  /\ pc = "invert" /\ InversionEnded
  /\ LET z == ModMult(ModMult(u, point.y), R[1 - nb].x)
         sums == XYcZAdd(R[nb], R[1 - nb])
         last == IF nb = 0 THEN sums[1] ELSE sums[2]
     IN  /\ result' = ApplyZ(last, z)
         /\ ret' = IF result' = Zero THEN 0 ELSE 1
  /\ pc' = IF call = "make" /\ ret' = 0 /\ tries < MaxTries THEN "retry" ELSE "done"
  /\ UNCHANGED <<locals, registers>>

\* The call returns and its variables are gone
Return ==
  /\ pc \in {"done", "norandom"}
  /\ pc' = "idle" /\ call' = "none" /\ key' = 0 /\ tries' = 0
  /\ point' = Zero /\ initial_Z' = 0 /\ scalar' = 0 /\ bit' = 0
  /\ R' = [i \in {0, 1} |-> Zero]
  /\ input' = 0 /\ a' = 0 /\ b' = 0 /\ u' = 0 /\ v' = 0
  /\ result' = Zero /\ ret' = 0

-----------------------------------------------------------------------------

Next ==
  \/ SharedSecret \/ ComputePublicKey \/ MakeKey \/ RetryKey
  \/ FirstDouble \/ LadderStep \/ LastAddC \/ Invert \/ FinalAdd \/ Return

Spec == Init /\ [][Next]_vars

-----------------------------------------------------------------------------
(* The group of the curve, by its textbook definition *)

Infinity == [x |-> -1, y |-> -1]

InverseOf == [x \in 1..(p - 1) |-> CHOOSE y \in 1..(p - 1) : (x * y) % p = 1]

\* The sum of two points: on the line through them, or on the tangent
Plus(P, Q) ==
  LET slope == IF P = Q THEN (3 * (P.x * P.x - 1) * InverseOf[(2 * P.y) % p]) % p
                        ELSE ((Q.y - P.y) * InverseOf[(Q.x - P.x) % p]) % p
      x == (slope * slope - P.x - Q.x) % p
  IN  CASE P = Infinity -> Q
        [] Q = Infinity -> P
        [] P # Infinity /\ Q # Infinity ->
             IF P.x = Q.x /\ (P.y + Q.y) % p = 0 THEN Infinity
             ELSE [x |-> x, y |-> (slope * (P.x - x) - P.y) % p]

\* m P by repeated addition
Multiple ==
  [P \in Peers \union {G} |->
     LET times[m \in 0..(n - 1)] == IF m = 0 THEN Infinity ELSE Plus(times[m - 1], P)
     IN  times]

\* p is prime, and the addition is that of a group in which the points to multiply have the odd order n
ASSUME CurveAssumption ==
  /\ n % 2 = 1 /\ \A d \in 2..(p - 1) : p % d # 0
  /\ LET Group == Curve \union {Infinity}
     IN  \A P \in Peers \union {G} :
           /\ \A Q \in Group :
                /\ Plus(Q, P) \in Group
                /\ \A T \in Group : Plus(Plus(Q, T), P) = Plus(Q, Plus(T, P))
           /\ \A m \in 1..(n - 1) : Multiple[P][m] # Infinity
           /\ Plus(Multiple[P][n - 1], P) = Infinity

\* The coordinates that stand for P with the given z
Scaled(P, z) == [x |-> (P.x * z * z) % p, y |-> (P.y * z * z * z) % p]

\* The bits of the scalar that the ladder has read
Prefix == (Top + scalar) \div BitPower[bit + 2]

\* The multiples next to the point at infinity, where the ladder's sums break down
Exceptional == {0, 1, n - 2, n - 1}

-----------------------------------------------------------------------------
(* Properties *)

(***************************************************************************)
(* Every coordinate is reduced modulo p at every step, although each       *)
(* operation of the code only subtracts or adds the modulus once (ecc.c    *)
(* 293-315) and mmod_fast sums nine numbers (520-619).                     *)
(***************************************************************************)
TypeOK ==
  /\ pc \in {"idle", "double", "ladder", "invert", "retry", "norandom", "done"}
  /\ call \in {"none", "secret", "public", "make"}
  /\ tries \in 0..MaxTries /\ initial_Z \in 0..(p - 1)
  /\ key \in 0..(Top - 1) /\ scalar \in 0..(Top - 1) /\ bit \in 0..(NumBits - 1)
  /\ point \in Coordinates /\ result \in Coordinates
  /\ R \in [{0, 1} -> Coordinates]
  /\ ret \in {0, 1}
  /\ RegistersReduced

(***************************************************************************)
(* The ladder of EccPoint_mult (ecc.c 746-750): after each bit R[0] and    *)
(* R[1] are m P and (m + 1) P for the m that has been read, and both have  *)
(* the same z, which the code never stores. The point at infinity, which   *)
(* these coordinates cannot express, is met before the last bit only and   *)
(* only for the exceptional keys.                                          *)
(***************************************************************************)
LadderHoldsMultiples ==
  pc = "ladder" =>
    LET low == Multiple[point][Prefix % n]
        high == Multiple[point][(Prefix + 1) % n]
    IN  IF low = Infinity \/ high = Infinity
        THEN bit = 0 /\ key \in Exceptional
        ELSE \E z \in 1..(p - 1) : R[0] = Scaled(low, z) /\ R[1] = Scaled(high, z)

(***************************************************************************)
(* A call that reports success (ecc_dh.c 95 and 148, ecc.c 806) has        *)
(* computed the multiple of the point by the key, whose multiplication has *)
(* gone through k + n or k + 2n and a z that is only found at the end. It  *)
(* fails for the exceptional keys, for a point with x = 0 and for keys out *)
(* of range, and for nothing else: it never answers with a wrong point,    *)
(* and uECC_make_key, which draws 0 and key 1 as any other, never with a   *)
(* public key that uECC_valid_public_key refuses.                          *)
(***************************************************************************)
ResultIsMultiple ==
  pc = "done" =>
    IF key \in (0..(n - 1)) \ Exceptional /\ point.x # 0
    THEN /\ ret = 1 /\ result = Multiple[point][key] /\ ValidPoint(result)
         /\ call # "secret" => ValidPublicKey(result)
    ELSE ret = 0

(***************************************************************************)
(* The loops over words (ecc.c 154-291) compute what the integers of this  *)
(* model do, on every pair of numbers that a call meets: the carry that is *)
(* told from a comparison, the borrow, both compares, the shift and the    *)
(* sum of products. mmod_fast (520-619) is the product's remainder by p,   *)
(* uECC_vli_mmod (319-363) the one by n, and the bytes of a key are its    *)
(* words (812-834).                                                        *)
(***************************************************************************)
WordsAgree ==
  \A pair \in {<<R[0].x, R[1].x>>, <<R[1].y, R[0].y>>, <<a, b>>, <<v, u>>} :
    LET x == pair[1]  y == pair[2]
        xw == ToWords(x)  yw == ToWords(y)
        sum == AddWords(xw, yw)
        difference == SubWords(xw, yw)
        order == IF x < y THEN -1 ELSE IF x = y THEN 0 ELSE 1
    IN  /\ [value |-> ValueOf(sum.words), carry |-> sum.carry] = Add(x, y)
        /\ [value |-> ValueOf(difference.words), borrow |-> difference.borrow] = Sub(x, y)
        /\ CmpUnsafe(xw, yw) = order /\ CmpConstantTime(xw, yw) = order
        /\ ValueOf(ShiftRightWords(xw)) = ShiftRight(x)
        /\ ValueOf(MultWords(xw, yw)) = x * y
        /\ MmodFast(x * y) = (x * y) % p
        /\ Mmod(x * y) = (x * y) % n
        /\ NativeToBytes(xw) = [i \in 1..NumBytes |-> (x \div BytePower[NumBytes - i + 1]) % ByteBase]
        /\ BytesToNative(NativeToBytes(xw)) = xw
=============================================================================
