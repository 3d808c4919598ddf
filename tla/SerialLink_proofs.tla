--------------------------- MODULE SerialLink_proofs --------------------------
(* Proofs about modules SerialLink and Startup, for every stream of frames,    *)
(* every way the reads cut it, every size of the buffer and every place where  *)
(* a restart of the dongle puts its zero byte.                                 *)
EXTENDS Startup, Naturals_proofs, SequenceTheorems

-------------------------------------------------------------------------------
(* What flattening a sequence of sequences gives                               *)

(* The recursive function inside FlattenSeq.                                   *)
Joined(seqs) ==
  CHOOSE g : g = [i \in 1 .. Len(seqs) |-> IF i = 1 THEN seqs[i] ELSE g[i - 1] \o seqs[i]]

(* There is such a function: each of its values is made from the one before.   *)
LEMMA JoinedDef ==
  ASSUME NEW S, NEW seqs \in Seq(S), seqs # <<>>
  PROVE  /\ FlattenSeq(seqs) = Joined(seqs)[Len(seqs)]
         /\ \A i \in 1 .. Len(seqs) :
              Joined(seqs)[i] = IF i = 1 THEN seqs[i] ELSE Joined(seqs)[i - 1] \o seqs[i]
<1>. DEFINE n == Len(seqs)
            D(before, i) == before \o seqs[i]
            h == CHOOSE g : g = [i \in 1 .. n |-> IF i = 1 THEN seqs[1] ELSE g[i - 1] \o seqs[i]]
<1>1. n \in Nat /\ n # 0 /\ 1 \in Nat
  OBVIOUS
<1>2. FiniteNatInductiveDefHypothesis(h, seqs[1], D, 1, n)
  BY Zenon DEF FiniteNatInductiveDefHypothesis
<1>3. FiniteNatInductiveDefConclusion(h, seqs[1], D, 1, n)
  BY <1>1, <1>2, FiniteNatInductiveDef
<1>4. h = [i \in 1 .. n |-> IF i = 1 THEN seqs[1] ELSE h[i - 1] \o seqs[i]]
  BY <1>3, Zenon DEF FiniteNatInductiveDefConclusion
<1>. HIDE DEF h
<1>5. h = [i \in 1 .. n |-> IF i = 1 THEN seqs[i] ELSE h[i - 1] \o seqs[i]]
  BY <1>4
<1>6. Joined(seqs) = [i \in 1 .. Len(seqs) |->
                        IF i = 1 THEN seqs[i] ELSE Joined(seqs)[i - 1] \o seqs[i]]
  BY <1>5, Zenon DEF Joined
<1>7. FlattenSeq(seqs) = Joined(seqs)[Len(seqs)]
  BY <1>1 DEF FlattenSeq, Joined
<1>. QED  BY <1>6, <1>7

LEMMA FlattenEmpty == FlattenSeq(<<>>) = <<>>
BY DEF FlattenSeq

(* Its value is again a sequence over the same elements.                       *)
LEMMA FlattenType ==
  ASSUME NEW S, NEW seqs \in Seq(Seq(S))
  PROVE  FlattenSeq(seqs) \in Seq(S)
<1>1. CASE seqs = <<>>
  BY <1>1, FlattenEmpty, EmptySeq, Zenon
<1>2. CASE seqs # <<>>
  <2>. DEFINE T == {i \in 1 .. Len(seqs) : Joined(seqs)[i] \in Seq(S)}
  <2>0. Len(seqs) \in Nat /\ 1 <= Len(seqs) /\ \A i \in 1 .. Len(seqs) : seqs[i] \in Seq(S)
    BY <1>2
  <2>1. 1 \in T
    BY <1>2, <2>0, JoinedDef
  <2>2. ASSUME NEW i \in 1 .. (Len(seqs) - 1), i \in T  PROVE i + 1 \in T
    <3>1. i + 1 \in 1 .. Len(seqs) /\ i + 1 # 1 /\ (i + 1) - 1 = i
      BY <2>0
    <3>2. Joined(seqs)[i + 1] = Joined(seqs)[i] \o seqs[i + 1]
      BY <1>2, <3>1, JoinedDef
    <3>3. Joined(seqs)[i] \in Seq(S) /\ seqs[i + 1] \in Seq(S)
      BY <2>0, <2>2, <3>1
    <3>4. Joined(seqs)[i + 1] \in Seq(S)
      BY <3>2, <3>3, ConcatProperties, Zenon
    <3>. QED  BY <3>1, <3>4
  <2>. HIDE DEF T
  <2>3. 1 .. Len(seqs) \subseteq T
    <3>1. 1 \in Int /\ Len(seqs) \in Int
      BY <2>0
    <3>. QED  BY <2>1, <2>2, <3>1, IntervalInductive, Zenon
  <2>4. Joined(seqs)[Len(seqs)] \in Seq(S)
    BY <2>0, <2>3 DEF T
  <2>. QED  BY <1>2, <2>4, JoinedDef
<1>. QED  BY <1>1, <1>2

(* One more sequence is joined at the end.                                     *)
LEMMA FlattenAppend ==
  ASSUME NEW S, NEW seqs \in Seq(Seq(S)), NEW s \in Seq(S)
  PROVE  FlattenSeq(Append(seqs, s)) = FlattenSeq(seqs) \o s
<1>. DEFINE more == Append(seqs, s)
            n == Len(seqs)
<1>1. /\ n \in Nat /\ more \in Seq(Seq(S)) /\ more # <<>> /\ Len(more) = n + 1
      /\ \A i \in 1 .. n : more[i] = seqs[i]
      /\ more[n + 1] = s
  <2>1. n \in Nat
    BY LenProperties
  <2>. QED  BY <2>1, AppendProperties
<1>2. FlattenSeq(more) = Joined(more)[n + 1]
  BY <1>1, JoinedDef
<1>3. \A i \in 1 .. (n + 1) : Joined(more)[i] = IF i = 1 THEN more[i] ELSE Joined(more)[i - 1] \o more[i]
  BY <1>1, JoinedDef
<1>. HIDE DEF more
<1>4. CASE seqs = <<>>
  <2>1. n = 0 /\ Joined(more)[1] = s
    BY <1>1, <1>3, <1>4
  <2>. QED  BY <1>2, <1>4, <2>1, FlattenEmpty DEF more
<1>5. CASE seqs # <<>>
  <2>. DEFINE T == {i \in 1 .. n : Joined(more)[i] = Joined(seqs)[i]}
  <2>0. 1 <= n /\ \A i \in 1 .. n : Joined(seqs)[i] = IF i = 1 THEN seqs[i] ELSE Joined(seqs)[i - 1] \o seqs[i]
    BY <1>1, <1>5, JoinedDef
  <2>1. 1 \in T
    BY <1>1, <1>3, <2>0
  <2>2. ASSUME NEW i \in 1 .. (n - 1), i \in T  PROVE i + 1 \in T
    <3>1. i + 1 \in 1 .. n /\ i + 1 \in 1 .. (n + 1) /\ i + 1 # 1 /\ (i + 1) - 1 = i
      BY <1>1
    <3>2. Joined(more)[i + 1] = Joined(more)[i] \o more[i + 1]
      BY <1>3, <3>1
    <3>3. Joined(seqs)[i + 1] = Joined(seqs)[i] \o seqs[i + 1]
      BY <2>0, <3>1
    <3>. QED  BY <1>1, <2>2, <3>1, <3>2, <3>3
  <2>. HIDE DEF T
  <2>3. 1 .. n \subseteq T
    <3>1. 1 \in Int /\ n \in Int
      BY <1>1
    <3>. QED  BY <2>1, <2>2, <3>1, IntervalInductive, Zenon
  <2>4. Joined(more)[n] = FlattenSeq(seqs)
    <3>1. n \in 1 .. n
      BY <1>1, <2>0
    <3>2. n \in T
      BY <2>3, <3>1, Zenon
    <3>. QED  BY <1>5, <3>2, JoinedDef DEF T
  <2>5. Joined(more)[n + 1] = Joined(more)[n] \o s
    <3>1. n + 1 \in 1 .. (n + 1) /\ n + 1 # 1 /\ (n + 1) - 1 = n
      BY <1>1, <2>0
    <3>. QED  BY <1>1, <1>3, <3>1
  <2>. QED  BY <1>2, <2>4, <2>5 DEF more
<1>. QED  BY <1>4, <1>5

Regrouped(s, t, u) == s \o (t \o u) = (s \o t) \o u

LEMMA Regroup ==
  ASSUME NEW S
  PROVE  \A s, t, u \in Seq(S) : Regrouped(s, t, u)
BY ConcatAssociative, SMTT(30) DEF Regrouped

(* Flattening the one sequence after the other, or both together.              *)
LEMMA FlattenConcat ==
  ASSUME NEW S, NEW s \in Seq(Seq(S)), NEW t \in Seq(Seq(S))
  PROVE  FlattenSeq(s \o t) = FlattenSeq(s) \o FlattenSeq(t)
<1>. DEFINE F(k) == SubSeq(t, 1, k)
            T == {k \in 0 .. Len(t) : FlattenSeq(s \o F(k)) = FlattenSeq(s) \o FlattenSeq(F(k))}
<1>1. Len(t) \in Nat /\ \A i \in 1 .. Len(t) : t[i] \in Seq(S)
  BY LenProperties, ElementOfSeq
<1>2. \A k \in 0 .. Len(t) : F(k) \in Seq(Seq(S))
  BY <1>1, SubSeqProperties
<1>3. 0 \in T
  <2>1. F(0) = <<>>
    BY SubSeqEmpty
  <2>2. s \o <<>> = s /\ FlattenSeq(s) \o <<>> = FlattenSeq(s)
    BY ConcatEmptySeq, FlattenType
  <2>3. 0 \in 0 .. Len(t)
    BY <1>1
  <2>. HIDE DEF F
  <2>. QED  BY <2>1, <2>2, <2>3, FlattenEmpty
<1>4. ASSUME NEW k \in 0 .. (Len(t) - 1), k \in T  PROVE k + 1 \in T
  <2>1. k + 1 \in 1 .. Len(t) /\ 1 \in 1 .. Len(t) /\ (k + 1) - 1 = k /\ k \in 0 .. Len(t)
    BY <1>1
  <2>2. F(k) \in Seq(Seq(S)) /\ t[k + 1] \in Seq(S)
    BY <1>1, <1>2, <2>1
  <2>3. F(k + 1) = Append(F(k), t[k + 1])
    <3>1. F(k + 1) = F(k) \o <<t[k + 1]>>
      BY <1>1, <2>1, SubSeqRecursiveSecond
    <3>. QED  BY <2>2, <3>1, AppendIsConcat
  <2>. HIDE DEF F
  <2>4. s \o F(k) \in Seq(Seq(S)) /\ s \o Append(F(k), t[k + 1]) = Append(s \o F(k), t[k + 1])
    <3>1. <<t[k + 1]>> \in Seq(Seq(S)) /\ s \o F(k) \in Seq(Seq(S))
      BY <2>2, ConcatProperties
    <3>2. s \o (F(k) \o <<t[k + 1]>>) = (s \o F(k)) \o <<t[k + 1]>>
      <4>1. Regrouped(s, F(k), <<t[k + 1]>>)
        BY <2>2, <3>1, Regroup, Zenon
      <4>. QED  BY <4>1, Zenon DEF Regrouped
    <3>. QED  BY <2>2, <3>1, <3>2, AppendIsConcat
  <2>5. FlattenSeq(s \o F(k + 1)) = FlattenSeq(s \o F(k)) \o t[k + 1]
    BY <2>2, <2>3, <2>4, FlattenAppend
  <2>6. FlattenSeq(F(k + 1)) = FlattenSeq(F(k)) \o t[k + 1]
    BY <2>2, <2>3, FlattenAppend
  <2>7. FlattenSeq(s) \in Seq(S) /\ FlattenSeq(F(k)) \in Seq(S)
    BY <2>2, FlattenType
  <2>8. FlattenSeq(s) \o (FlattenSeq(F(k)) \o t[k + 1]) = (FlattenSeq(s) \o FlattenSeq(F(k))) \o t[k + 1]
    <3>1. Regrouped(FlattenSeq(s), FlattenSeq(F(k)), t[k + 1])
      BY <2>2, <2>7, Regroup, Zenon
    <3>. QED  BY <3>1, Zenon DEF Regrouped
  <2>9. FlattenSeq(s \o F(k)) = FlattenSeq(s) \o FlattenSeq(F(k))
    BY <1>4
  <2>10. FlattenSeq(s \o F(k + 1)) = FlattenSeq(s) \o FlattenSeq(F(k + 1))
    BY <2>5, <2>6, <2>8, <2>9, Zenon
  <2>. QED  BY <2>1, <2>10
<1>5. Len(t) \in T
  <2>. HIDE DEF T
  <2>1. 0 \in Int /\ Len(t) \in Int /\ Len(t) \in 0 .. Len(t)
    BY <1>1
  <2>. QED  BY <1>3, <1>4, <2>1, IntervalInductive, Zenon
<1>6. F(Len(t)) = t
  BY SubSeqFull
<1>. QED  BY <1>5, <1>6

-------------------------------------------------------------------------------
(* The bytes of frames                                                         *)

Octet == 0 .. 255

(* A frame with its length byte in front is a sequence of bytes.               *)
LEMMA EncodeType ==
  ASSUME NEW f \in Frames
  PROVE  /\ f = [op |-> f.op, data |-> f.data]
         /\ f.op \in Octet /\ f.data \in Seq(Octet) /\ Len(f.data) \in 0 .. 254
         /\ Encode(f) \in Seq(Octet) /\ Len(Encode(f)) = 2 + Len(f.data)
         /\ Encode(f)[1] = 1 + Len(f.data) /\ Encode(f)[2] = f.op
         /\ \A j \in 1 .. Len(f.data) : Encode(f)[2 + j] = f.data[j]
<1>1. PICK n \in 0 .. MaxData : f \in [op : Opcodes, data : [1 .. n -> Bytes]]
  BY Zenon DEF Frames
<1>. DEFINE o == f.op
            d == f.data
<1>2. f = [op |-> o, data |-> d] /\ o \in Opcodes /\ d \in [1 .. n -> Bytes]
  BY <1>1
<1>3. n \in Nat /\ n <= 254 /\ Opcodes \subseteq Octet /\ Bytes \subseteq Octet
  BY SerialAssumption DEF SerialAssumption, Octet
<1>4. Encode(f) = <<1 + Len(d), o>> \o d
  BY DEF Encode
<1>. HIDE DEF o, d
<1>5. o \in Octet /\ d \in [1 .. n -> Octet]
  BY <1>2, <1>3
<1>6. d \in Seq(Octet) /\ Len(d) = n
  BY <1>3, <1>5
<1>7. 1 + Len(d) \in Octet
  BY <1>3, <1>6 DEF Octet
<1>8. \A l, q \in Octet : \A t \in Seq(Octet) :
        LET e == <<l, q>> \o t
        IN  /\ e \in Seq(Octet) /\ Len(e) = 2 + Len(t) /\ e[1] = l /\ e[2] = q
            /\ \A j \in 1 .. Len(t) : e[2 + j] = t[j]
  OBVIOUS
<1>9. /\ Encode(f) \in Seq(Octet) /\ Len(Encode(f)) = 2 + Len(d)
      /\ Encode(f)[1] = 1 + Len(d) /\ Encode(f)[2] = o
      /\ \A j \in 1 .. Len(d) : Encode(f)[2 + j] = d[j]
  BY <1>4, <1>5, <1>6, <1>7, <1>8
<1>10. Len(d) \in 0 .. 254
  BY <1>3, <1>6
<1>. QED  BY <1>2, <1>5, <1>6, <1>9, <1>10, Zenon DEF o, d

Encodings(fs) == [i \in DOMAIN fs |-> Encode(fs[i])]

LEMMA EncodingsType ==
  ASSUME NEW fs \in Seq(Frames)
  PROVE  Encodings(fs) \in Seq(Seq(Octet)) /\ Len(Encodings(fs)) = Len(fs)
<1>1. Len(fs) \in Nat /\ DOMAIN fs = 1 .. Len(fs) /\ \A i \in 1 .. Len(fs) : fs[i] \in Frames
  BY LenProperties, ElementOfSeq
<1>2. \A i \in 1 .. Len(fs) : Encode(fs[i]) \in Seq(Octet)
  BY <1>1, EncodeType
<1>. DEFINE B == Seq(Octet)
<1>. HIDE DEF B
<1>3. Encodings(fs) \in Seq(B)
  BY <1>1, <1>2 DEF Encodings, B
<1>4. Len(Encodings(fs)) = Len(fs)
  BY <1>1 DEF Encodings
<1>. QED  BY <1>3, <1>4 DEF B

(* The bytes of frames that follow each other follow each other.               *)
LEMMA WireConcat ==
  ASSUME NEW fs \in Seq(Frames), NEW gs \in Seq(Frames)
  PROVE  Wire(fs) \in Seq(Octet) /\ Wire(fs \o gs) = Wire(fs) \o Wire(gs)
<1>1. Encodings(fs \o gs) = Encodings(fs) \o Encodings(gs)
  <2>. DEFINE B == Seq(Octet)
              both == Encodings(fs \o gs)
              each == Encodings(fs) \o Encodings(gs)
  <2>1. /\ fs \o gs \in Seq(Frames) /\ Len(fs \o gs) = Len(fs) + Len(gs)
        /\ Len(fs) \in Nat /\ Len(gs) \in Nat
        /\ \A i \in 1 .. (Len(fs) + Len(gs)) :
             (fs \o gs)[i] = IF i <= Len(fs) THEN fs[i] ELSE gs[i - Len(fs)]
    BY ConcatProperties
  <2>2. /\ both \in Seq(B) /\ Len(both) = Len(fs) + Len(gs)
        /\ Encodings(fs) \in Seq(B) /\ Len(Encodings(fs)) = Len(fs)
        /\ Encodings(gs) \in Seq(B) /\ Len(Encodings(gs)) = Len(gs)
    BY <2>1, EncodingsType
  <2>. HIDE DEF B
  <2>3. /\ each \in Seq(B) /\ Len(each) = Len(fs) + Len(gs)
        /\ \A i \in 1 .. (Len(fs) + Len(gs)) :
             each[i] = IF i <= Len(fs) THEN Encodings(fs)[i] ELSE Encodings(gs)[i - Len(fs)]
    <3>1. \A x, y \in Seq(B) :
            /\ x \o y \in Seq(B) /\ Len(x \o y) = Len(x) + Len(y)
            /\ \A i \in 1 .. (Len(x) + Len(y)) : (x \o y)[i] = IF i <= Len(x) THEN x[i] ELSE y[i - Len(x)]
      BY ConcatProperties
    <3>. DEFINE x == Encodings(fs)
                y == Encodings(gs)
    <3>2. x \in Seq(B) /\ y \in Seq(B) /\ Len(x) = Len(fs) /\ Len(y) = Len(gs) /\ each = x \o y
      BY <2>2
    <3>. HIDE DEF x, y
    <3>3. /\ each \in Seq(B) /\ Len(each) = Len(fs) + Len(gs)
          /\ \A i \in 1 .. (Len(fs) + Len(gs)) : each[i] = IF i <= Len(fs) THEN x[i] ELSE y[i - Len(fs)]
      BY <3>1, <3>2
    <3>. QED  BY <3>3 DEF x, y
  <2>. HIDE DEF each
  <2>4. \A i \in 1 .. (Len(fs) + Len(gs)) : both[i] = each[i]
    <3>. TAKE i \in 1 .. (Len(fs) + Len(gs))
    <3>1. both[i] = Encode((fs \o gs)[i])
      BY <2>1 DEF Encodings
    <3>. HIDE DEF both
    <3>2. CASE i <= Len(fs)
      <4>1. i \in DOMAIN fs
        BY <2>1, <3>2
      <4>. QED  BY <2>1, <2>3, <3>1, <3>2, <4>1 DEF Encodings
    <3>3. CASE i > Len(fs)
      <4>1. i - Len(fs) \in DOMAIN gs
        BY <2>1, <3>3
      <4>2. ~(i <= Len(fs))
        BY <2>1, <3>3
      <4>. QED  BY <2>1, <2>3, <3>1, <4>1, <4>2 DEF Encodings
    <3>. QED  BY <2>1, <3>2, <3>3
  <2>. HIDE DEF both
  <2>. QED  BY <2>2, <2>3, <2>4, SeqEqual DEF both, each
<1>2. \A hs : Wire(hs) = FlattenSeq(Encodings(hs))
  BY DEF Wire, Encodings
<1>. QED  BY <1>1, <1>2, EncodingsType, FlattenConcat, FlattenType

LEMMA WireOne ==
  ASSUME NEW f \in Frames
  PROVE  Wire(<<f>>) = Encode(f)
<1>1. Encodings(<<f>>) = Append(<<>>, Encode(f))
  BY DEF Encodings
<1>2. Encode(f) \in Seq(Octet) /\ <<>> \in Seq(Seq(Octet)) /\ <<>> \in Seq(Octet)
  BY EncodeType, EmptySeq
<1>3. Wire(<<f>>) = FlattenSeq(<<>>) \o Encode(f)
  BY <1>1, <1>2, FlattenAppend DEF Wire, Encodings
<1>. QED  BY <1>2, <1>3, FlattenEmpty, ConcatEmptySeq

-------------------------------------------------------------------------------
(* Where a frame lies in the stream                                            *)

(* The bytes before frame k + 1.                                               *)
Offset(fs, k) == Len(Wire(SubSeq(fs, 1, k)))

(* Some first bytes of a stream are those of its first frames.                 *)
LEMMA WireSplit ==
  ASSUME NEW fs \in Seq(Frames), NEW k \in 0 .. Len(fs)
  PROVE  /\ SubSeq(fs, 1, k) \in Seq(Frames) /\ SubSeq(fs, k + 1, Len(fs)) \in Seq(Frames)
         /\ Wire(SubSeq(fs, 1, k)) \in Seq(Octet) /\ Wire(SubSeq(fs, k + 1, Len(fs))) \in Seq(Octet)
         /\ Wire(fs) = Wire(SubSeq(fs, 1, k)) \o Wire(SubSeq(fs, k + 1, Len(fs)))
<1>1. Len(fs) \in Nat /\ \A i \in 1 .. Len(fs) : fs[i] \in Frames
  BY LenProperties, ElementOfSeq
<1>2. SubSeq(fs, 1, k) \in Seq(Frames) /\ SubSeq(fs, k + 1, Len(fs)) \in Seq(Frames)
  BY <1>1, SubSeqProperties
<1>3. fs = SubSeq(fs, 1, k) \o SubSeq(fs, k + 1, Len(fs))
  <2>1. 1 \in 1 .. Len(fs) + 1 /\ k \in 1 - 1 .. Len(fs) /\ Len(fs) \in k .. Len(fs)
    BY <1>1
  <2>. QED  BY <2>1, ConcatAdjacentSubSeq, SubSeqFull
<1>. QED  BY <1>2, <1>3, WireConcat

LEMMA OffsetEnds ==
  ASSUME NEW fs \in Seq(Frames)
  PROVE  Offset(fs, 0) = 0 /\ Offset(fs, Len(fs)) = Len(Wire(fs))
<1>1. SubSeq(fs, 1, 0) = <<>> /\ SubSeq(fs, 1, Len(fs)) = fs
  BY SubSeqEmpty, SubSeqFull
<1>2. Encodings(<<>>) = <<>>
  BY DEF Encodings
<1>3. Wire(<<>>) = <<>>
  BY <1>2, FlattenEmpty DEF Wire, Encodings
<1>4. Len(Wire(<<>>)) = 0
  BY <1>3
<1>. QED  BY <1>1, <1>4, Zenon DEF Offset

(* The length, the opcode and the data of a frame follow its offset.           *)
LEMMA FramePlace ==
  ASSUME NEW fs \in Seq(Frames), NEW k \in 0 .. (Len(fs) - 1)
  PROVE  /\ fs[k + 1] \in Frames /\ Offset(fs, k) \in Nat
         /\ Offset(fs, k + 1) = Offset(fs, k) + 2 + Len(fs[k + 1].data)
         /\ Offset(fs, k + 1) <= Len(Wire(fs))
         /\ Wire(fs)[Offset(fs, k) + 1] = 1 + Len(fs[k + 1].data)
         /\ Wire(fs)[Offset(fs, k) + 2] = fs[k + 1].op
         /\ \A j \in 1 .. Len(fs[k + 1].data) : Wire(fs)[Offset(fs, k) + 2 + j] = fs[k + 1].data[j]
<1>. DEFINE f == fs[k + 1]
            first == Wire(SubSeq(fs, 1, k))
            here == Encode(f)
            rest == Wire(SubSeq(fs, k + 2, Len(fs)))
<1>1. Len(fs) \in Nat /\ k \in 0 .. Len(fs) /\ k + 1 \in 1 .. Len(fs) /\ k + 1 \in 0 .. Len(fs)
      /\ (k + 1) - 1 = k /\ (k + 1) + 1 = k + 2 /\ 1 \in 1 .. Len(fs)
  BY LenProperties
<1>2. f \in Frames
  BY <1>1, ElementOfSeq
<1>3. /\ here \in Seq(Octet) /\ Len(here) = 2 + Len(f.data) /\ Len(f.data) \in Nat
      /\ here[1] = 1 + Len(f.data) /\ here[2] = f.op
      /\ \A j \in 1 .. Len(f.data) : here[2 + j] = f.data[j]
  <2>1. f.data \in Seq(Octet)
    BY <1>2, EncodeType, Zenon
  <2>2. Len(f.data) \in Nat
    BY <2>1, LenProperties, Zenon
  <2>. QED  BY <1>2, <2>2, EncodeType, Zenon
<1>4. first \in Seq(Octet) /\ rest \in Seq(Octet) /\ SubSeq(fs, 1, k) \in Seq(Frames)
  BY <1>1, WireSplit
<1>5. Wire(SubSeq(fs, 1, k + 1)) = first \o here
  <2>1. SubSeq(fs, 1, k + 1) = SubSeq(fs, 1, k) \o <<f>>
    BY <1>1, SubSeqRecursiveSecond
  <2>2. <<f>> \in Seq(Frames)
    BY <1>2
  <2>. QED  BY <1>2, <1>4, <2>1, <2>2, WireConcat, WireOne
<1>6. Wire(fs) = (first \o here) \o rest
  BY <1>1, <1>5, WireSplit
<1>7. Offset(fs, k) = Len(first) /\ Offset(fs, k + 1) = Len(first \o here)
  BY <1>5 DEF Offset
<1>. DEFINE d == f.data
            o == f.op
<1>8. SUFFICES /\ Len(first) \in Nat
               /\ Len(first \o here) = Len(first) + 2 + Len(d)
               /\ Len(first \o here) <= Len((first \o here) \o rest)
               /\ ((first \o here) \o rest)[Len(first) + 1] = 1 + Len(d)
               /\ ((first \o here) \o rest)[Len(first) + 2] = o
               /\ \A j \in 1 .. Len(d) : ((first \o here) \o rest)[Len(first) + 2 + j] = d[j]
  BY <1>2, <1>6, <1>7
<1>9. /\ here \in Seq(Octet) /\ Len(here) = 2 + Len(d) /\ Len(d) \in Nat
      /\ here[1] = 1 + Len(d) /\ here[2] = o
      /\ \A j \in 1 .. Len(d) : here[2 + j] = d[j]
  BY <1>3
<1>. HIDE DEF f, d, o, here, first, rest
<1>10. /\ Len(first) \in Nat /\ Len(rest) \in Nat /\ first \o here \in Seq(Octet)
       /\ Len(first \o here) = Len(first) + Len(here)
       /\ \A i \in 1 .. Len(here) : (first \o here)[Len(first) + i] = here[i]
  <2>1. \A s, t \in Seq(Octet) :
          /\ Len(s) \in Nat /\ Len(t) \in Nat /\ s \o t \in Seq(Octet) /\ Len(s \o t) = Len(s) + Len(t)
          /\ \A i \in 1 .. Len(t) : (s \o t)[Len(s) + i] = t[i]
    OBVIOUS
  <2>. QED  BY <1>4, <1>9, <2>1, Zenon
<1>11. \A i \in 1 .. Len(here) : ((first \o here) \o rest)[Len(first) + i] = here[i]
  BY <1>4, <1>9, <1>10
<1>12. Len(first \o here) <= Len((first \o here) \o rest)
  BY <1>4, <1>10
<1>13. \A j \in 1 .. Len(d) : 2 + j \in 1 .. Len(here) /\ Len(first) + (2 + j) = Len(first) + 2 + j
  BY <1>9, <1>10
<1>14. \A j \in 1 .. Len(d) : ((first \o here) \o rest)[Len(first) + 2 + j] = d[j]
  BY <1>9, <1>11, <1>13
<1>15. /\ ((first \o here) \o rest)[Len(first) + 1] = 1 + Len(d)
       /\ ((first \o here) \o rest)[Len(first) + 2] = o
  <2>1. 1 \in 1 .. Len(here) /\ 2 \in 1 .. Len(here)
    BY <1>9
  <2>. QED  BY <1>9, <1>11, <2>1, Zenon
<1>16. Len(first \o here) = Len(first) + 2 + Len(d)
  BY <1>9, <1>10
<1>. QED  BY <1>10, <1>12, <1>14, <1>15, <1>16, Zenon

-------------------------------------------------------------------------------
(* The line is the stream, with at most one byte of noise                      *)

(* How many of the first t bytes of the line are noise.                        *)
Skipped(t) == IF \E z \in noise : z <= t THEN 1 ELSE 0

LineOK ==
  /\ stream \in Seq(Frames) /\ line \in Seq(Octet)
  /\ noise \subseteq 1 .. Len(line)
  /\ \A y, z \in noise : y = z
  /\ Len(line) = Len(Wire(stream)) + Skipped(Len(line))
  /\ \A i \in (1 .. Len(line)) \ noise : line[i] = Wire(stream)[i - Skipped(i)]

LEMMA InitLine == Init => LineOK
<1>. SUFFICES ASSUME Init PROVE LineOK
  OBVIOUS
<1>1. stream \in Seq(Frames)
  <2>1. PICK n \in 1 .. MaxFrames : stream \in [1 .. n -> Frames]
    BY Zenon DEF Init, Streams
  <2>2. n \in Nat
    OBVIOUS
  <2>. QED  BY <2>1, <2>2
<1>2. PICK k \in 0 .. Len(stream) - 1, zero \in {<<>>, <<0>>} : Line(k, zero)
  BY Zenon DEF Init
<1>. DEFINE w == Wire(stream)
            b == Wire(SubSeq(stream, 1, k))
            a == Wire(SubSeq(stream, k + 1, Len(stream)))
<1>3. b \in Seq(Octet) /\ a \in Seq(Octet) /\ w = b \o a
  <2>1. k \in 0 .. Len(stream)
    BY <1>1, LenProperties
  <2>. QED  BY <1>1, <2>1, WireSplit
<1>4. line = (b \o zero) \o a /\ noise = {Len(b) + i : i \in DOMAIN zero}
  BY <1>2, Zenon DEF Line
<1>. HIDE DEF w, b, a
<1>5. CASE zero = <<>>
  <2>1. noise = {}
    BY <1>4, <1>5
  <2>2. line = w
    BY <1>3, <1>4, <1>5
  <2>3. line \in Seq(Octet) /\ Len(line) \in Nat /\ \A t : Skipped(t) = 0
    BY <1>3, <2>1, <2>2 DEF Skipped
  <2>4. Len(line) = Len(w) + Skipped(Len(line))
        /\ \A i \in (1 .. Len(line)) \ noise : line[i] = w[i - Skipped(i)]
    BY <2>2, <2>3
  <2>. QED  BY <1>1, <2>1, <2>3, <2>4 DEF LineOK, w
<1>6. CASE zero = <<0>>
  <2>. DEFINE z == Len(b) + 1
  <2>1. noise = {z}
    BY <1>4, <1>6
  <2>2. line = (b \o <<0>>) \o a
    BY <1>4, <1>6
  <2>3. \A s, t \in Seq(Octet) :
          /\ Len(s) \in Nat /\ Len(t) \in Nat /\ (s \o <<0>>) \o t \in Seq(Octet)
          /\ Len((s \o <<0>>) \o t) = Len(s) + 1 + Len(t) /\ Len(s \o t) = Len(s) + Len(t)
          /\ \A i \in 1 .. Len(s) : ((s \o <<0>>) \o t)[i] = (s \o t)[i]
          /\ \A i \in (Len(s) + 2) .. (Len(s) + 1 + Len(t)) : ((s \o <<0>>) \o t)[i] = (s \o t)[i - 1]
    <3>1. <<0>> \in Seq(Octet)
      BY DEF Octet
    <3>. QED  BY <3>1
  <2>4. /\ Len(b) \in Nat /\ Len(a) \in Nat /\ line \in Seq(Octet)
        /\ Len(line) = Len(b) + 1 + Len(a) /\ Len(w) = Len(b) + Len(a)
        /\ \A i \in 1 .. Len(b) : line[i] = w[i]
        /\ \A i \in (Len(b) + 2) .. (Len(b) + 1 + Len(a)) : line[i] = w[i - 1]
    BY <1>3, <2>2, <2>3, Zenon
  <2>5. \A t : Skipped(t) = IF z <= t THEN 1 ELSE 0
    BY <2>1 DEF Skipped
  <2>6. noise \subseteq 1 .. Len(line) /\ (\A y, x \in noise : y = x) /\ Len(line) = Len(w) + Skipped(Len(line))
    BY <2>1, <2>4, <2>5
  <2>7. ASSUME NEW i \in (1 .. Len(line)) \ noise
        PROVE  line[i] = w[i - Skipped(i)]
    <3>1. CASE i < z
      <4>1. i \in 1 .. Len(b) /\ Skipped(i) = 0 /\ i - 0 = i
        BY <2>4, <2>5, <3>1
      <4>. QED  BY <2>4, <4>1
    <3>2. CASE i > z
      <4>1. i \in (Len(b) + 2) .. (Len(b) + 1 + Len(a)) /\ Skipped(i) = 1
        BY <2>4, <2>5, <3>2
      <4>. QED  BY <2>4, <4>1
    <3>. QED  BY <2>1, <2>4, <3>1, <3>2
  <2>. QED  BY <1>1, <2>4, <2>6, <2>7 DEF LineOK, w
<1>. QED  BY <1>5, <1>6

(* What is known of the bytes read does not depend on what was parsed.         *)
LEMMA LineStays == ASSUME LineOK, UNCHANGED wire PROVE LineOK'
<1>1. stream' = stream /\ line' = line /\ noise' = noise
  BY DEF wire
<1>2. \A t : Skipped(t)' = Skipped(t)
  BY <1>1 DEF Skipped
<1>. QED  BY <1>1, <1>2 DEF LineOK

LEMMA SkippedNext ==
  ASSUME LineOK
  PROVE  /\ \A t \in 0 .. Len(line) : Skipped(t) \in {0, 1} /\ Skipped(t) <= t
         /\ \A t \in 0 .. (Len(line) - 1) :
              Skipped(t + 1) = IF t + 1 \in noise THEN Skipped(t) + 1 ELSE Skipped(t)
<1>1. Len(line) \in Nat /\ noise \subseteq 1 .. Len(line)
  BY LenProperties DEF LineOK
<1>2. \A t \in 0 .. Len(line) : Skipped(t) \in {0, 1} /\ Skipped(t) <= t
  BY <1>1 DEF Skipped
<1>3. ASSUME NEW t \in 0 .. (Len(line) - 1)
      PROVE  Skipped(t + 1) = IF t + 1 \in noise THEN Skipped(t) + 1 ELSE Skipped(t)
  <2>1. CASE t + 1 \in noise
    <3>1. \A z \in noise : ~(z <= t)
      BY <1>1, <2>1 DEF LineOK
    <3>. QED  BY <1>1, <2>1, <3>1 DEF Skipped
  <2>2. CASE t + 1 \notin noise
    <3>1. \A z \in noise : z <= t + 1 <=> z <= t
      BY <1>1, <2>2
    <3>. QED  BY <2>2, <3>1 DEF Skipped
  <2>. QED  BY <2>1, <2>2
<1>. QED  BY <1>2, <1>3

(* The bytes of frames among the first t bytes of the line.                    *)
Clean(t) == t - Skipped(t)

LEMMA CleanNext ==
  ASSUME LineOK
  PROVE  /\ Len(line) \in Nat /\ Wire(stream) \in Seq(Octet)
         /\ Clean(0) = 0 /\ \A t \in 0 .. Len(line) : Clean(t) \in 0 .. Len(Wire(stream))
         /\ \A t \in 0 .. (Len(line) - 1) :
              IF t + 1 \in noise THEN Clean(t + 1) = Clean(t)
              ELSE Clean(t + 1) = Clean(t) + 1 /\ line[t + 1] = Wire(stream)[Clean(t) + 1]
<1>1. Len(line) \in Nat /\ Wire(stream) \in Seq(Octet) /\ Len(Wire(stream)) \in Nat
  BY WireConcat, LenProperties DEF LineOK
<1>2. Clean(0) = 0
  BY <1>1, SkippedNext DEF Clean
<1>3. ASSUME NEW t \in 0 .. Len(line)  PROVE Clean(t) \in 0 .. Len(Wire(stream))
  <2>1. Skipped(t) \in {0, 1} /\ Skipped(t) <= t
    BY SkippedNext
  <2>2. Len(line) = Len(Wire(stream)) + Skipped(Len(line))
    BY DEF LineOK
  <2>3. Skipped(Len(line)) # Skipped(t) => t # Len(line) /\ Skipped(Len(line)) = 1
    <3>1. \A z \in noise : z <= t => z <= Len(line)
      BY <1>1 DEF LineOK
    <3>. QED  BY <3>1 DEF Skipped
  <2>. QED  BY <1>1, <2>1, <2>2, <2>3 DEF Clean
<1>4. ASSUME NEW t \in 0 .. (Len(line) - 1)
      PROVE  IF t + 1 \in noise THEN Clean(t + 1) = Clean(t)
             ELSE Clean(t + 1) = Clean(t) + 1 /\ line[t + 1] = Wire(stream)[Clean(t) + 1]
  <2>1. t \in 0 .. Len(line) /\ t + 1 \in 1 .. Len(line) /\ Skipped(t) \in {0, 1}
    BY <1>1, SkippedNext
  <2>2. Skipped(t + 1) = IF t + 1 \in noise THEN Skipped(t) + 1 ELSE Skipped(t)
    BY SkippedNext
  <2>3. CASE t + 1 \in noise
    BY <2>1, <2>2, <2>3 DEF Clean
  <2>4. CASE t + 1 \notin noise
    <3>1. line[t + 1] = Wire(stream)[(t + 1) - Skipped(t + 1)]
      BY <2>1, <2>4, Zenon DEF LineOK
    <3>2. Clean(t + 1) = Clean(t) + 1 /\ (t + 1) - Skipped(t + 1) = Clean(t) + 1
      BY <2>1, <2>2, <2>4 DEF Clean
    <3>. QED  BY <2>4, <3>1, <3>2
  <2>. QED  BY <2>3, <2>4
<1>. QED  BY <1>1, <1>2, <1>3, <1>4

Heard(t) == [i \in 1 .. t |-> IF i \in noise THEN <<>> ELSE <<line[i]>>]

(* What was read, without the noise, is the beginning of the stream.           *)
LEMMA HeardIsSent ==
  ASSUME LineOK, NEW t \in 0 .. Len(line)
  PROVE  FlattenSeq(Heard(t)) = SubSeq(Wire(stream), 1, Clean(t))
<1>. DEFINE T == {j \in 0 .. Len(line) : FlattenSeq(Heard(j)) = SubSeq(Wire(stream), 1, Clean(j))}
            w == Wire(stream)
<1>1. Len(line) \in Nat /\ w \in Seq(Octet) /\ line \in Seq(Octet) /\ Clean(0) = 0
  BY CleanNext DEF LineOK
<1>2. ASSUME NEW j \in 0 .. Len(line)
      PROVE  Heard(j) \in Seq(Seq(Octet))
  <2>. DEFINE B == Seq(Octet)
  <2>1. \A i \in 1 .. j : <<line[i]>> \in B /\ <<>> \in B
    BY <1>1
  <2>. HIDE DEF B
  <2>2. Heard(j) \in Seq(B)
    BY <2>1 DEF Heard
  <2>. QED  BY <2>2 DEF B
<1>3. 0 \in T
  <2>1. Heard(0) = <<>>
    BY DEF Heard
  <2>2. SubSeq(w, 1, 0) = <<>>
    BY SubSeqEmpty
  <2>3. FlattenSeq(Heard(0)) = SubSeq(w, 1, Clean(0))
    BY <1>1, <2>1, <2>2, FlattenEmpty, Zenon
  <2>4. 0 \in 0 .. Len(line)
    BY <1>1
  <2>. QED  BY <2>3, <2>4
<1>4. ASSUME NEW j \in 0 .. (Len(line) - 1), j \in T  PROVE j + 1 \in T
  <2>. DEFINE e == IF j + 1 \in noise THEN <<>> ELSE <<line[j + 1]>>
  <2>1. j \in 0 .. Len(line) /\ j + 1 \in 0 .. Len(line) /\ j + 1 \in 1 .. Len(line)
    BY <1>1
  <2>2. e \in Seq(Octet)
    <3>1. line[j + 1] \in Octet
      BY <1>1, <2>1, ElementOfSeq
    <3>. QED  BY <3>1
  <2>3. Heard(j) \in Seq(Seq(Octet)) /\ Heard(j + 1) = Append(Heard(j), e)
    <3>1. Heard(j) \in Seq(Seq(Octet)) /\ Len(Heard(j)) = j
      BY <1>2, <2>1 DEF Heard
    <3>. DEFINE B == Seq(Octet)
                h == Heard(j)
                h2 == Heard(j + 1)
    <3>2. \A i \in 1 .. (j + 1) : h2[i] = IF i = j + 1 THEN e ELSE h[i]
      BY <2>1 DEF Heard
    <3>3. h2 \in Seq(B) /\ Len(h2) = j + 1
      BY <1>2, <2>1 DEF Heard
    <3>4. h \in Seq(B) /\ e \in B /\ Len(h) = j /\ j \in Nat
      BY <2>2, <3>1
    <3>. HIDE DEF B, h, h2, e
    <3>5. h2 = Append(h, e)
      BY <3>2, <3>3, <3>4
    <3>. QED  BY <3>1, <3>5 DEF h, h2
  <2>4. FlattenSeq(Heard(j + 1)) = SubSeq(w, 1, Clean(j)) \o e
    BY <1>4, <2>2, <2>3, FlattenAppend
  <2>5. Clean(j) \in 0 .. Len(w) /\ Clean(j + 1) \in 0 .. Len(w)
    BY <2>1, CleanNext
  <2>6. CASE j + 1 \in noise
    <3>1. e = <<>> /\ Clean(j + 1) = Clean(j)
      BY <2>6, CleanNext
    <3>2. SubSeq(w, 1, Clean(j)) \in Seq(Octet)
      BY <1>1, <2>5
    <3>3. SubSeq(w, 1, Clean(j)) \o <<>> = SubSeq(w, 1, Clean(j))
      BY <3>2, ConcatEmptySeq
    <3>. QED  BY <2>1, <2>4, <3>1, <3>3
  <2>7. CASE j + 1 \notin noise
    <3>1. e = <<w[Clean(j) + 1]>> /\ Clean(j + 1) = Clean(j) + 1
      BY <2>7, CleanNext
    <3>. DEFINE c == Clean(j)
    <3>2. c \in 0 .. Len(w) /\ c + 1 \in 0 .. Len(w)
      BY <2>5, <3>1
    <3>. HIDE DEF w, c
    <3>3. SubSeq(w, 1, c + 1) = SubSeq(w, 1, c) \o <<w[c + 1]>>
      <4>1. c + 1 \in 1 .. Len(w) /\ 1 \in 1 .. Len(w) /\ (c + 1) - 1 = c
        BY <1>1, <3>2
      <4>. QED  BY <1>1, <4>1, SubSeqRecursiveSecond
    <3>. QED  BY <2>1, <2>4, <3>1, <3>3 DEF c, w
  <2>. QED  BY <2>6, <2>7
<1>5. t \in T
  <2>. HIDE DEF T
  <2>1. 0 \in Int /\ Len(line) \in Int
    BY <1>1
  <2>. QED  BY <1>3, <1>4, <2>1, IntervalInductive, Zenon
<1>. QED  BY <1>5

-------------------------------------------------------------------------------
(* Types                                                                       *)

(* The types are inductive with how much of a frame can be in hand.            *)
ParserOK ==
  /\ TypeOK
  /\ pstate = "OPCODE" => data = <<>>
  /\ pstate = "DATA" => data = <<>> \/ Len(data) <= len

(* What a read takes from the line.                                            *)
LEMMA ChunkType ==
  ASSUME LineOK, TypeOK, NEW n \in 1 .. BufSize, taken + n <= Len(line)
  PROVE  /\ Chunk(n) \in Seq(Octet) /\ Len(Chunk(n)) = n
         /\ \A i \in 1 .. n : Chunk(n)[i] = line[taken + i]
         /\ taken \in Nat /\ n \in Nat /\ n <= BufSize
<1>1. line \in Seq(Octet) /\ Len(line) \in Nat /\ taken \in Nat /\ n \in Nat /\ n <= BufSize
  BY SerialAssumption, LenProperties DEF LineOK, TypeOK, SerialAssumption
<1>2. \A i \in (taken + 1) .. (taken + n) : line[i] \in Octet
  BY <1>1, ElementOfSeq
<1>3. /\ SubSeq(line, taken + 1, taken + n) \in Seq(Octet)
      /\ Len(SubSeq(line, taken + 1, taken + n)) = n
      /\ \A i \in 1 .. n : SubSeq(line, taken + 1, taken + n)[i] = line[taken + i]
  BY <1>1, SMTT(30)
<1>. QED  BY <1>1, <1>3 DEF Chunk

LEMMA InitParser == Init => ParserOK
<1>. SUFFICES ASSUME Init PROVE ParserOK
  OBVIOUS
<1>1. taken = 0 /\ taken \in 0 .. Len(line)
  BY InitLine, LenProperties DEF Init, LineOK
<1>2. <<>> \in Seq(0 .. 255) /\ Len(<<>>) <= BufSize /\ Len(<<>>) <= 254
  BY SerialAssumption DEF SerialAssumption
<1>3. /\ buf = <<>> /\ pstate = "LEN" /\ len = 0 /\ opcode = 0 /\ data = <<>>
      /\ dropped = FALSE /\ passed = FALSE /\ crashed = FALSE
  BY DEF Init
<1>4. 0 \in -1 .. 254 /\ 0 \in 0 .. 255
  OBVIOUS
<1>5. TypeOK
  BY <1>1, <1>2, <1>3, <1>4, Zenon DEF TypeOK
<1>. QED  BY <1>3, <1>5 DEF ParserOK

LEMMA ParserStep ==
  ASSUME LineOK, ParserOK, [Next]_vars
  PROVE  ParserOK'
<1>. USE DEF ParserOK
<1>0. buf \in Seq(Octet) /\ data \in Seq(Octet) /\ Len(buf) \in Nat /\ Len(data) \in Nat /\ Len(data) <= 254
      /\ Len(buf) <= BufSize /\ BufSize \in Nat
  BY SerialAssumption DEF TypeOK, Octet, SerialAssumption
<1>1. CASE Read
  <2>1. PICK n \in 1 .. BufSize :
          /\ taken + n <= Len(line)
          /\ buf' = IF LoneZero(Chunk(n)) THEN <<>> ELSE Chunk(n)
          /\ dropped' \in BOOLEAN /\ passed' \in BOOLEAN
          /\ taken' = taken + n
    BY <1>1 DEF Read
  <2>2. UNCHANGED <<wire, parser, crashed>>
    BY <1>1 DEF Read
  <2>3. buf' \in Seq(Octet) /\ Len(buf') <= BufSize
    BY <1>0, <2>1, ChunkType
  <2>4. taken' \in 0 .. Len(line')
    BY <2>1, <2>2, LenProperties DEF TypeOK, wire, LineOK
  <2>. QED  BY <2>1, <2>2, <2>3, <2>4 DEF TypeOK, wire, parser, Octet
<1>2. CASE ParseLen
  <2>1. Head(buf) \in Octet /\ Tail(buf) \in Seq(Octet) /\ Len(Tail(buf)) <= BufSize
    BY <1>0, <1>2 DEF ParseLen, Parsing
  <2>. QED  BY <1>2, <2>1 DEF ParseLen, TypeOK, wire, Octet
<1>3. CASE ParseOpcode
  <2>1. Head(buf) \in Octet /\ Tail(buf) \in Seq(Octet) /\ Len(Tail(buf)) <= BufSize
    BY <1>0, <1>3 DEF ParseOpcode, Parsing
  <2>. QED  BY <1>3, <2>1 DEF ParseOpcode, Parsing, TypeOK, wire, Octet
<1>4. CASE ParseDataComplete
  <2>1. rsize \in Nat /\ rsize <= Len(buf) /\ Len(data) + rsize <= 254
    BY <1>0, <1>4 DEF ParseDataComplete, rsize, TypeOK
  <2>. DEFINE r == rsize
              more == SubSeq(buf, 1, r)
              left == SubSeq(buf, r + 1, Len(buf))
  <2>. HIDE DEF r
  <2>2. r \in Nat /\ r <= Len(buf) /\ Len(data) + r <= 254
    BY <2>1 DEF r
  <2>3. more \in Seq(Octet) /\ Len(more) = r /\ left \in Seq(Octet) /\ Len(left) <= BufSize
    BY <1>0, <2>2
  <2>. HIDE DEF more, left
  <2>4. data \o more \in Seq(Octet) /\ Len(data \o more) <= 254
    BY <1>0, <2>2, <2>3
  <2>5. data' = data \o more /\ buf' = left /\ pstate' = "LEN"
        /\ UNCHANGED <<wire, taken, len, opcode, dropped, passed, crashed>>
    BY <1>4 DEF ParseDataComplete, r, more, left
  <2>. QED  BY <2>3, <2>4, <2>5 DEF TypeOK, wire, Octet
<1>5. CASE ParseDataPartial
  <2>1. len \in Int /\ len <= 254 /\ Len(buf) < len - Len(data)
    BY <1>5 DEF ParseDataPartial, rsize, TypeOK
  <2>2. data \o buf \in Seq(Octet) /\ Len(data \o buf) <= len /\ Len(data \o buf) <= 254
    BY <1>0, <2>1
  <2>3. data' = data \o buf /\ buf' = <<>> /\ pstate = "DATA" /\ pstate' = pstate
        /\ UNCHANGED <<wire, taken, len, opcode, dropped, passed, crashed>>
    BY <1>5 DEF ParseDataPartial, Parsing
  <2>4. Len(<<>>) <= BufSize
    BY <1>0
  <2>. QED  BY <2>2, <2>3, <2>4 DEF TypeOK, wire, Octet
<1>6. CASE ParseDataNegative
  BY <1>6 DEF ParseDataNegative, TypeOK, wire, parser
<1>7. CASE UNCHANGED vars
  BY <1>7 DEF vars, TypeOK, wire, parser
<1>. QED  BY <1>1, <1>2, <1>3, <1>4, <1>5, <1>6, <1>7 DEF Next

LEMMA WireStays == [Next]_vars => UNCHANGED wire
BY DEF Next, Read, ParseLen, ParseOpcode, ParseDataComplete, ParseDataPartial,
       ParseDataNegative, vars

-------------------------------------------------------------------------------
(* The parser keeps in step with the stream                                    *)

(* The frame that comes next, and the bytes of frames that were parsed.        *)
Current  == stream[Len(delivered) + 1]
Consumed == Offset(stream, Len(delivered)) + Len(Partial)

(* Frames are delivered as they were sent, the frame in hand is the next one,  *)
(* and the buffer has the bytes of the stream that follow.                     *)
InStep ==
  /\ ~crashed
  /\ Len(delivered) \in 0 .. Len(stream) /\ delivered = SubSeq(stream, 1, Len(delivered))
  /\ pstate # "LEN" => Len(delivered) < Len(stream) /\ len = Len(Current.data)
  /\ pstate = "DATA" => /\ opcode = Current.op
                        /\ Len(data) <= len /\ data = SubSeq(Current.data, 1, Len(data))
  /\ Consumed <= Clean(taken)
  /\ buf = SubSeq(Wire(stream), Consumed + 1, Clean(taken))

(* What the invariants say of the places that matter.                          *)
LEMMA Places ==
  ASSUME LineOK, ParserOK, InStep
  PROVE  /\ Wire(stream) \in Seq(Octet) /\ Len(Wire(stream)) \in Nat
         /\ Clean(taken) \in 0 .. Len(Wire(stream))
         /\ stream \in Seq(Frames) /\ Len(stream) \in Nat
         /\ Len(delivered) \in Nat /\ Offset(stream, Len(delivered)) \in Nat
         /\ Len(Partial) = (CASE pstate = "LEN" -> 0 [] pstate = "OPCODE" -> 1 [] pstate = "DATA" -> 2 + Len(data))
         /\ Len(data) \in Nat /\ Consumed \in Nat
         /\ Len(buf) = Clean(taken) - Consumed
         /\ \A i \in 1 .. Len(buf) : buf[i] = Wire(stream)[Consumed + i]
<1>. DEFINE w == Wire(stream)
            c == Clean(taken)
            d == Consumed
            k == Len(delivered)
<1>1. w \in Seq(Octet) /\ Len(w) \in Nat /\ c \in 0 .. Len(w)
  BY CleanNext, LenProperties DEF ParserOK, TypeOK
<1>2. stream \in Seq(Frames) /\ Len(stream) \in Nat /\ k \in 0 .. Len(stream)
  BY LenProperties DEF LineOK, InStep
<1>3. Offset(stream, k) \in Nat
  <2>1. CASE k = Len(stream)
    BY <1>1, <1>2, <2>1, OffsetEnds
  <2>2. CASE k # Len(stream)
    <3>1. k \in 0 .. (Len(stream) - 1)
      BY <1>2, <2>2
    <3>. QED  BY <1>2, <3>1, FramePlace
  <2>. QED  BY <2>1, <2>2
<1>4. /\ Len(data) \in Nat
      /\ Len(Partial) = CASE pstate = "LEN" -> 0 [] pstate = "OPCODE" -> 1 [] pstate = "DATA" -> 2 + Len(data)
  <2>1. data \in Seq(Octet) /\ opcode \in Octet /\ pstate \in {"LEN", "OPCODE", "DATA"}
        /\ len + 1 \in Octet
    BY DEF ParserOK, TypeOK, Octet
  <2>2. Len(data) \in Nat
    BY <2>1
  <2>3. \A l, o \in Octet : Len(<<l>>) = 1 /\ Len(<<l, o>> \o data) = 2 + Len(data)
    BY <2>1
  <2>4. Len(<<>>) = 0
    OBVIOUS
  <2>. QED  BY <2>1, <2>2, <2>3, <2>4 DEF Partial
<1>5. d \in Nat
  <2>1. pstate \in {"LEN", "OPCODE", "DATA"}
    BY DEF ParserOK, TypeOK
  <2>. QED  BY <1>3, <1>4, <2>1 DEF Consumed
<1>6. d <= c /\ buf = SubSeq(w, d + 1, c)
  BY Zenon DEF InStep
<1>. HIDE DEF w, c, d
<1>7. Len(buf) = c - d /\ \A i \in 1 .. Len(buf) : buf[i] = w[d + i]
  BY <1>1, <1>5, <1>6
<1>8. Len(delivered) \in Nat
  BY <1>2
<1>. QED  BY <1>1, <1>2, <1>3, <1>4, <1>5, <1>7, <1>8, Zenon DEF w, c, d

(* As long as there are bytes there is a next frame, and what comes next is    *)
(* the rest of it.                                                             *)
LEMMA NextFrame ==
  ASSUME LineOK, ParserOK, InStep, buf # <<>>
  PROVE  Len(delivered) \in 0 .. (Len(stream) - 1)
<1>. DEFINE k == Len(delivered)
<1>1. k \in 0 .. Len(stream)
  BY DEF InStep
<1>2. CASE k = Len(stream)
  <2>1. pstate = "LEN"
    BY <1>2, Places DEF InStep
  <2>2. Consumed = Len(Wire(stream))
    BY <1>2, <2>1, Places, OffsetEnds DEF Consumed
  <2>3. Len(buf) <= 0 /\ buf \in Seq(0 .. 255)
    BY <2>2, Places DEF ParserOK, TypeOK
  <2>4. buf = <<>>
    BY <2>3
  <2>. QED  BY <2>4
<1>. QED  BY <1>1, <1>2, Places

(* Bytes without noise among them continue the stream.                         *)
LEMMA CleanRun ==
  ASSUME LineOK, NEW t \in Nat, NEW n \in Nat, t + n <= Len(line),
         noise \cap (t + 1 .. t + n) = {}
  PROVE  /\ Clean(t + n) = Clean(t) + n
         /\ \A i \in 1 .. n : line[t + i] = Wire(stream)[Clean(t) + i]
<1>1. Len(line) \in Nat /\ noise \subseteq 1 .. Len(line)
  BY LenProperties DEF LineOK
<1>2. \A i \in 0 .. n : Skipped(t + i) = Skipped(t)
  <2>. TAKE i \in 0 .. n
  <2>1. \A z \in noise : z <= t + i <=> z <= t
    BY <1>1
  <2>. QED  BY <2>1 DEF Skipped
<1>3. Skipped(t) \in {0, 1}
  BY DEF Skipped
<1>4. Clean(t + n) = Clean(t) + n
  BY <1>2, <1>3 DEF Clean
<1>5. ASSUME NEW i \in 1 .. n  PROVE line[t + i] = Wire(stream)[Clean(t) + i]
  <2>1. t + i \in (1 .. Len(line)) \ noise
    BY <1>1
  <2>2. line[t + i] = Wire(stream)[(t + i) - Skipped(t + i)]
    BY <2>1, Zenon DEF LineOK
  <2>3. (t + i) - Skipped(t + i) = Clean(t) + i
    <3>1. i \in 0 .. n
      OBVIOUS
    <3>2. Skipped(t + i) = Skipped(t)
      BY <1>2, <3>1
    <3>. QED  BY <1>3, <3>2 DEF Clean
  <2>. QED  BY <2>2, <2>3
<1>. QED  BY <1>4, <1>5

(* What is left of the buffer is still what follows in the stream.             *)
LEMMA BufferRest ==
  ASSUME LineOK, ParserOK, InStep
  PROVE  /\ \A r \in 0 .. Len(buf) :
              SubSeq(buf, r + 1, Len(buf)) = SubSeq(Wire(stream), Consumed + r + 1, Clean(taken))
         /\ buf # <<>> => Tail(buf) = SubSeq(Wire(stream), Consumed + 2, Clean(taken))
<1>. DEFINE w == Wire(stream)
            c == Clean(taken)
            d == Consumed
<1>1. /\ w \in Seq(Octet) /\ Len(w) \in Nat /\ c \in 0 .. Len(w) /\ d \in Nat
      /\ buf \in Seq(Octet) /\ Len(buf) \in Nat /\ Len(buf) = c - d
      /\ \A i \in 1 .. Len(buf) : buf[i] = w[d + i]
  BY Places DEF ParserOK, TypeOK, Octet
<1>. HIDE DEF w, c, d
<1>2. ASSUME NEW r \in 0 .. Len(buf)
      PROVE  SubSeq(buf, r + 1, Len(buf)) = SubSeq(w, d + r + 1, c)
  <2>. DEFINE s == SubSeq(buf, r + 1, Len(buf))
              t == SubSeq(w, d + r + 1, c)
  <2>1. s \in Seq(Octet) /\ Len(s) = Len(buf) - r /\ \A i \in 1 .. (Len(buf) - r) : s[i] = buf[r + i]
    BY <1>1
  <2>2. t \in Seq(Octet) /\ Len(t) = c - (d + r) /\ \A i \in 1 .. (c - (d + r)) : t[i] = w[d + r + i]
    BY <1>1
  <2>. HIDE DEF s, t
  <2>3. \A i \in 1 .. Len(s) : s[i] = t[i]
    <3>. TAKE i \in 1 .. Len(s)
    <3>1. i \in 1 .. (Len(buf) - r) /\ i \in 1 .. (c - (d + r)) /\ r + i \in 1 .. Len(buf) /\ d + (r + i) = d + r + i
      BY <1>1, <2>1, <2>2
    <3>. QED  BY <1>1, <2>1, <2>2, <3>1
  <2>4. Len(s) = Len(t)
    BY <1>1, <2>1, <2>2
  <2>5. s = t
    BY <2>1, <2>2, <2>3, <2>4, SeqEqual
  <2>. QED  BY <2>5 DEF s, t
<1>3. ASSUME buf # <<>> PROVE Tail(buf) = SubSeq(w, d + 2, c)
  <2>1. Tail(buf) = SubSeq(buf, 1 + 1, Len(buf)) /\ 1 \in 0 .. Len(buf)
    <3>1. Tail(buf) = SubSeq(buf, 2, Len(buf))
      BY <1>1, <1>3, TailIsSubSeq, Zenon
    <3>2. Len(buf) # 0
      BY <1>1, <1>3
    <3>. QED  BY <1>1, <3>1, <3>2
  <2>2. d + 1 + 1 = d + 2
    BY <1>1
  <2>. QED  BY <1>2, <2>1, <2>2
<1>. QED  BY <1>2, <1>3 DEF w, c, d

(* Bytes added to the data in hand are data of the same frame.                 *)
LEMMA Gathered ==
  ASSUME LineOK, ParserOK, InStep, buf # <<>>, pstate = "DATA",
         NEW r \in 0 .. Len(buf), Len(data) + r <= len
  PROVE  data \o SubSeq(buf, 1, r) = SubSeq(Current.data, 1, Len(data) + r)
<1>. DEFINE w == Wire(stream)
            f == Current.data
            o == Offset(stream, Len(delivered))
            m == Len(data)
<1>1. /\ buf \in Seq(Octet) /\ data \in Seq(Octet) /\ m \in Nat /\ Len(buf) \in Nat
      /\ o \in Nat /\ \A i \in 1 .. Len(buf) : buf[i] = w[Consumed + i]
      /\ Consumed = o + (2 + m)
  <2>1. Len(Partial) = 2 + m
    BY Places
  <2>. QED  BY <2>1, Places DEF ParserOK, TypeOK, Octet, Consumed
<1>2. /\ f \in Seq(Octet) /\ Len(f) \in Nat /\ len = Len(f) /\ data = SubSeq(f, 1, m)
      /\ \A j \in 1 .. Len(f) : w[o + 2 + j] = f[j]
  <2>1. Len(delivered) \in 0 .. (Len(stream) - 1) /\ stream \in Seq(Frames)
    BY NextFrame, Places
  <2>2. Current \in Frames /\ \A j \in 1 .. Len(f) : w[o + 2 + j] = f[j]
    BY <2>1, FramePlace, Zenon DEF Current
  <2>3. f \in Seq(Octet)
    BY <2>2, EncodeType, Zenon
  <2>. QED  BY <2>2, <2>3, LenProperties DEF InStep
<1>. DEFINE s == data \o SubSeq(buf, 1, r)
            t == SubSeq(f, 1, m + r)
<1>. HIDE DEF w, f, o
<1>3. SubSeq(buf, 1, r) \in Seq(Octet) /\ Len(SubSeq(buf, 1, r)) = r /\ \A i \in 1 .. r : SubSeq(buf, 1, r)[i] = buf[i]
  BY <1>1
<1>4. /\ s \in Seq(Octet) /\ Len(s) = m + r
      /\ \A i \in 1 .. (m + r) : s[i] = IF i <= m THEN data[i] ELSE buf[i - m]
  BY <1>1, <1>3
<1>5. t \in Seq(Octet) /\ Len(t) = m + r /\ \A i \in 1 .. (m + r) : t[i] = f[i]
  BY <1>1, <1>2
<1>6. \A i \in 1 .. m : data[i] = f[i]
  BY <1>1, <1>2
<1>. HIDE DEF s, t
<1>7. \A i \in 1 .. (m + r) : s[i] = t[i]
  <2>. TAKE i \in 1 .. (m + r)
  <2>1. CASE i <= m
    <3>1. i \in 1 .. m
      BY <1>1, <2>1
    <3>. QED  BY <1>4, <1>5, <1>6, <2>1, <3>1
  <2>2. CASE i > m
    <3>1. i - m \in 1 .. Len(buf) /\ i \in 1 .. Len(f) /\ (o + (2 + m)) + (i - m) = o + 2 + i /\ ~(i <= m)
      BY <1>1, <1>2, <2>2
    <3>2. buf[i - m] = w[o + 2 + i]
      BY <1>1, <3>1
    <3>. QED  BY <1>2, <1>4, <1>5, <3>1, <3>2
  <2>. QED  BY <1>1, <2>1, <2>2
<1>8. s = t
  BY <1>4, <1>5, <1>7, SeqEqual
<1>. QED  BY <1>8 DEF s, t, f

LEMMA InitInStep == Init => InStep
<1>. SUFFICES ASSUME Init PROVE InStep
  OBVIOUS
<1>1. /\ taken = 0 /\ buf = <<>> /\ pstate = "LEN" /\ delivered = <<>> /\ crashed = FALSE
  BY DEF Init
<1>2. LineOK /\ stream \in Seq(Frames) /\ Len(stream) \in Nat
  BY InitLine, LenProperties DEF LineOK
<1>3. Clean(0) = 0 /\ Offset(stream, 0) = 0
  BY <1>2, CleanNext, OffsetEnds
<1>4. Len(<<>>) = 0 /\ SubSeq(stream, 1, 0) = <<>> /\ SubSeq(Wire(stream), 0 + 1, 0) = <<>>
  BY SubSeqEmpty
<1>5. Len(delivered) = 0 /\ 0 \in 0 .. Len(stream) /\ delivered = SubSeq(stream, 1, 0)
  BY <1>1, <1>2, <1>4
<1>6. Consumed = 0
  BY <1>1, <1>3, <1>4, <1>5 DEF Consumed, Partial
<1>. QED  BY <1>1, <1>3, <1>4, <1>5, <1>6 DEF InStep

(* A step that leaves the parser and the frames alone.                         *)
LEMMA ConsumedStays ==
  ASSUME UNCHANGED <<wire, parser, delivered>>
  PROVE  Consumed' = Consumed /\ Current' = Current
BY DEF wire, parser, Consumed, Current, Partial

(* The reads, whatever they are.                                               *)
LEMMA ReadInStep ==
  ASSUME LineOK, ParserOK, InStep, Read, ~Misread'
  PROVE  InStep'
<1>1. /\ buf = <<>> /\ UNCHANGED <<wire, parser, delivered, crashed>>
  BY DEF Read
<1>2. PICK n \in 1 .. BufSize :
        /\ taken + n <= Len(line)
        /\ buf' = IF LoneZero(Chunk(n)) THEN <<>> ELSE Chunk(n)
        /\ LET noisy == noise \cap (taken + 1 .. taken + n) # {} IN
           /\ dropped' = (dropped \/ (LoneZero(Chunk(n)) /\ ~noisy))
           /\ passed' = (passed \/ (~LoneZero(Chunk(n)) /\ noisy))
        /\ taken' = taken + n
  BY DEF Read
<1>3. LoneZero(Chunk(n)) <=> noise \cap (taken + 1 .. taken + n) # {}
  BY <1>2 DEF Misread
<1>4. /\ Chunk(n) \in Seq(Octet) /\ Len(Chunk(n)) = n
      /\ \A i \in 1 .. n : Chunk(n)[i] = line[taken + i]
      /\ taken \in Nat /\ n \in Nat
  BY <1>2, ChunkType DEF ParserOK
<1>5. Consumed = Clean(taken) /\ Consumed \in Nat
  <2>1. Len(buf) = 0
    BY <1>1
  <2>. QED  BY <2>1, Places
<1>6. Clean(taken') = Clean(taken)' /\ Consumed' = Consumed /\ Current' = Current
  BY <1>1, ConsumedStays DEF Clean, Skipped, wire
<1>7. CASE LoneZero(Chunk(n))
  <2>1. n = 1
    BY <1>4, <1>7 DEF LoneZero
  <2>2. taken + 1 \in noise
    BY <1>3, <1>4, <1>7, <2>1
  <2>3. Clean(taken + 1) = Clean(taken)
    <3>1. taken \in 0 .. (Len(line) - 1)
      BY <1>2, <1>4, <2>1, CleanNext
    <3>. QED  BY <2>2, <3>1, CleanNext
  <2>4. Clean(taken)' = Clean(taken) /\ buf' = buf
    BY <1>1, <1>2, <1>6, <1>7, <2>1, <2>3
  <2>. QED  BY <1>1, <1>6, <2>4 DEF InStep, wire, parser
<1>8. CASE ~LoneZero(Chunk(n))
  <2>1. /\ Clean(taken + n) = Clean(taken) + n
        /\ \A i \in 1 .. n : line[taken + i] = Wire(stream)[Clean(taken) + i]
    BY <1>2, <1>3, <1>4, <1>8, CleanRun
  <2>. DEFINE w == Wire(stream)
              c == Clean(taken)
              s == Chunk(n)
              t == SubSeq(w, c + 1, c + n)
  <2>2. /\ w \in Seq(Octet) /\ Len(w) \in Nat /\ c \in Nat /\ c + n \in 0 .. Len(w)
    <3>1. taken + n \in 0 .. Len(line)
      BY <1>2, <1>4, CleanNext
    <3>. QED  BY <1>5, <2>1, <3>1, Places, CleanNext
  <2>3. s \in Seq(Octet) /\ Len(s) = n /\ n \in Nat /\ \A i \in 1 .. n : s[i] = w[c + i]
    BY <1>4, <2>1
  <2>. HIDE DEF w, c, s
  <2>4. s = t
    BY <2>2, <2>3
  <2>5. Clean(taken)' = Clean(taken) + n /\ buf' = SubSeq(Wire(stream), Clean(taken) + 1, Clean(taken) + n)
    BY <1>2, <1>6, <1>8, <2>1, <2>4 DEF w, c, s
  <2>6. Consumed <= Clean(taken) + n
    BY <1>4, <1>5
  <2>. QED  BY <1>1, <1>5, <1>6, <2>5, <2>6 DEF InStep, wire, parser
<1>. QED  BY <1>7, <1>8

LEMMA ParseLenInStep ==
  ASSUME LineOK, ParserOK, InStep, ParseLen
  PROVE  InStep'
<1>1. /\ buf # <<>> /\ pstate = "LEN" /\ pstate' = "OPCODE"
      /\ len' = Head(buf) - 1 /\ buf' = Tail(buf)
      /\ UNCHANGED <<wire, taken, delivered, crashed>>
  BY DEF ParseLen, Parsing
<1>2. Len(delivered) \in 0 .. (Len(stream) - 1) /\ stream \in Seq(Frames)
  BY <1>1, NextFrame, Places
<1>3. Consumed = Offset(stream, Len(delivered)) /\ Consumed \in Nat
  BY <1>1, Places DEF Consumed
<1>4. Head(buf) = 1 + Len(Current.data) /\ Len(Current.data) \in Nat
  <2>1. Current \in Frames /\ Wire(stream)[Consumed + 1] = 1 + Len(Current.data)
    BY <1>2, <1>3, FramePlace, Zenon DEF Current
  <2>2. Current.data \in Seq(Octet)
    BY <2>1, EncodeType, Zenon
  <2>3. buf[1] = Wire(stream)[Consumed + 1]
    <3>1. buf \in Seq(Octet) /\ Len(buf) \in Nat /\ Len(buf) # 0
      BY <1>1 DEF ParserOK, TypeOK, Octet
    <3>2. 1 \in 1 .. Len(buf)
      BY <3>1
    <3>. QED  BY <3>2, Places
  <2>. QED  BY <1>1, <2>1, <2>2, <2>3, LenProperties
<1>5. len' = Len(Current.data)
  BY <1>1, <1>4
<1>6. Clean(taken)' = Clean(taken) /\ Current' = Current
  BY <1>1 DEF Clean, Skipped, wire, Current
<1>7. Consumed' = Consumed + 1
  <2>1. Len(Partial)' = 1
    BY <1>1 DEF Partial
  <2>. QED  BY <1>1, <1>3, <2>1 DEF Consumed, wire
<1>8. Consumed + 1 <= Clean(taken)
  <2>1. buf \in Seq(Octet) /\ Len(buf) \in Nat /\ Len(buf) # 0
    BY <1>1 DEF ParserOK, TypeOK, Octet
  <2>. QED  BY <2>1, Places
<1>9. buf' = SubSeq(Wire(stream'), Consumed' + 1, Clean(taken)')
  <2>1. buf' = SubSeq(Wire(stream), Consumed + 2, Clean(taken))
    BY <1>1, BufferRest
  <2>2. Consumed + 1 + 1 = Consumed + 2
    BY <1>3
  <2>. QED  BY <1>1, <1>6, <1>7, <2>1, <2>2 DEF wire
<1>10. Consumed' <= Clean(taken)'
  BY <1>6, <1>7, <1>8
<1>11. pstate' # "DATA" /\ len' = Len(Current'.data)
  BY <1>1, <1>5, <1>6
<1>12. Len(delivered) < Len(stream)
  BY <1>2
<1>13. /\ ~crashed /\ Len(delivered) \in 0 .. Len(stream) /\ delivered = SubSeq(stream, 1, Len(delivered))
  BY DEF InStep
<1>14. stream' = stream
  BY <1>1 DEF wire
<1>. QED  BY <1>1, <1>9, <1>10, <1>11, <1>12, <1>13, <1>14, Zenon DEF InStep

LEMMA ParseOpcodeInStep ==
  ASSUME LineOK, ParserOK, InStep, ParseOpcode
  PROVE  InStep'
<1>1. /\ buf # <<>> /\ pstate = "OPCODE" /\ pstate' = "DATA"
      /\ opcode' = Head(buf) /\ buf' = Tail(buf)
      /\ UNCHANGED <<wire, taken, len, data, delivered, crashed>>
  BY DEF ParseOpcode, Parsing
<1>2. Len(delivered) \in 0 .. (Len(stream) - 1) /\ stream \in Seq(Frames)
  BY <1>1, NextFrame, Places
<1>3. Consumed = Offset(stream, Len(delivered)) + 1 /\ Consumed \in Nat /\ Offset(stream, Len(delivered)) \in Nat
  BY <1>1, Places DEF Consumed
<1>4. Head(buf) = Current.op /\ len = Len(Current.data) /\ Len(Current.data) \in Nat
  <2>1. Current \in Frames /\ Wire(stream)[Offset(stream, Len(delivered)) + 2] = Current.op
    BY <1>2, FramePlace, Zenon DEF Current
  <2>2. Current.data \in Seq(Octet)
    BY <2>1, EncodeType, Zenon
  <2>3. buf[1] = Wire(stream)[Consumed + 1]
    <3>1. buf \in Seq(Octet) /\ Len(buf) \in Nat /\ Len(buf) # 0
      BY <1>1 DEF ParserOK, TypeOK, Octet
    <3>2. 1 \in 1 .. Len(buf)
      BY <3>1
    <3>. QED  BY <3>2, Places
  <2>4. Consumed + 1 = Offset(stream, Len(delivered)) + 2
    BY <1>3
  <2>5. len = Len(Current.data)
    BY <1>1, Zenon DEF InStep
  <2>. QED  BY <1>1, <2>1, <2>2, <2>3, <2>4, <2>5, LenProperties
<1>5. data = <<>> /\ Len(data) = 0 /\ SubSeq(Current.data, 1, 0) = <<>>
  BY <1>1, SubSeqEmpty DEF ParserOK
<1>6. Clean(taken)' = Clean(taken) /\ Current' = Current
  BY <1>1 DEF Clean, Skipped, wire, Current
<1>7. Consumed' = Consumed + 1
  <2>1. Len(Partial)' = 2
    <3>1. Partial' = <<len + 1, Head(buf)>>
      BY <1>1, <1>5 DEF Partial
    <3>. QED  BY <3>1
  <2>. QED  BY <1>1, <1>3, <2>1 DEF Consumed, wire
<1>8. Consumed + 1 <= Clean(taken)
  <2>1. buf \in Seq(Octet) /\ Len(buf) \in Nat /\ Len(buf) # 0
    BY <1>1 DEF ParserOK, TypeOK, Octet
  <2>. QED  BY <2>1, Places
<1>9. buf' = SubSeq(Wire(stream'), Consumed' + 1, Clean(taken)')
  <2>1. buf' = SubSeq(Wire(stream), Consumed + 2, Clean(taken))
    BY <1>1, BufferRest
  <2>2. Consumed + 1 + 1 = Consumed + 2
    BY <1>3
  <2>. QED  BY <1>1, <1>6, <1>7, <2>1, <2>2 DEF wire
<1>10. Consumed' <= Clean(taken)'
  BY <1>6, <1>7, <1>8
<1>11. opcode' = Current'.op /\ len' = Len(Current'.data) /\ Len(data') <= len' /\ data' = SubSeq(Current'.data, 1, Len(data'))
  BY <1>1, <1>4, <1>5, <1>6
<1>12. Len(delivered) < Len(stream)
  BY <1>2
<1>13. /\ ~crashed /\ Len(delivered) \in 0 .. Len(stream) /\ delivered = SubSeq(stream, 1, Len(delivered))
  BY DEF InStep
<1>14. stream' = stream
  BY <1>1 DEF wire
<1>. QED  BY <1>1, <1>9, <1>10, <1>11, <1>12, <1>13, <1>14, Zenon DEF InStep


(* What is true of the parser while it collects data.                          *)
LEMMA DataPlaces ==
  ASSUME LineOK, ParserOK, InStep, Parsing("DATA")
  PROVE  /\ Len(delivered) \in 0 .. (Len(stream) - 1) /\ stream \in Seq(Frames)
         /\ Consumed = Offset(stream, Len(delivered)) + 2 + Len(data)
         /\ Offset(stream, Len(delivered)) \in Nat /\ Len(data) \in Nat /\ Consumed \in Nat
         /\ Current \in Frames /\ Current.data \in Seq(Octet) /\ Len(Current.data) \in Nat
         /\ len = Len(Current.data) /\ opcode = Current.op /\ Len(data) <= len
         /\ Offset(stream, Len(delivered) + 1) = Offset(stream, Len(delivered)) + 2 + len
         /\ buf \in Seq(Octet) /\ Len(buf) \in Nat
         /\ Len(buf) = Clean(taken) - Consumed /\ Clean(taken) \in Nat
<1>1. buf # <<>> /\ pstate = "DATA"
  BY DEF Parsing
<1>2. Len(delivered) \in 0 .. (Len(stream) - 1) /\ stream \in Seq(Frames)
  BY <1>1, NextFrame, Places
<1>3. /\ Consumed = Offset(stream, Len(delivered)) + 2 + Len(data)
      /\ Offset(stream, Len(delivered)) \in Nat /\ Len(data) \in Nat /\ Consumed \in Nat
  <2>1. Len(Partial) = 2 + Len(data)
    BY <1>1, Places
  <2>. QED  BY <2>1, Places DEF Consumed
<1>4. Current \in Frames /\ Offset(stream, Len(delivered) + 1) = Offset(stream, Len(delivered)) + 2 + Len(Current.data)
  BY <1>2, FramePlace, Zenon DEF Current
<1>5. Current.data \in Seq(Octet)
  BY <1>4, EncodeType, Zenon
<1>6. len = Len(Current.data) /\ opcode = Current.op /\ Len(data) <= len
  BY <1>1, Zenon DEF InStep
<1>7. Len(buf) = Clean(taken) - Consumed /\ Clean(taken) \in Nat /\ buf \in Seq(Octet)
  BY Places DEF ParserOK, TypeOK, Octet
<1>8. Len(Current.data) \in Nat /\ Len(buf) \in Nat
  BY <1>5, <1>7, LenProperties
<1>. QED  BY <1>2, <1>3, <1>4, <1>5, <1>6, <1>7, <1>8, Zenon

(* A finished frame is the next one of the stream.                             *)
LEMMA CompleteDelivers ==
  ASSUME LineOK, ParserOK, InStep, ParseDataComplete
  PROVE  /\ delivered' = Append(delivered, Current)
         /\ delivered' = SubSeq(stream, 1, Len(delivered) + 1)
         /\ Len(delivered') = Len(delivered) + 1 /\ Len(delivered) \in 0 .. (Len(stream) - 1)
<1>1. /\ Parsing("DATA") /\ rsize >= 0 /\ Len(buf) >= rsize
      /\ data' = data \o SubSeq(buf, 1, rsize)
      /\ delivered' = Append(delivered, [op |-> opcode, data |-> data'])
  BY DEF ParseDataComplete
<1>2. rsize \in 0 .. Len(buf) /\ Len(data) + rsize = len
  BY <1>1, DataPlaces, SMTT(30) DEF rsize
<1>3. data' = SubSeq(Current.data, 1, len)
  <2>1. buf # <<>> /\ pstate = "DATA" /\ Len(data) + rsize <= len
    BY <1>1, <1>2, DataPlaces DEF Parsing
  <2>2. data \o SubSeq(buf, 1, rsize) = SubSeq(Current.data, 1, Len(data) + rsize)
    BY <1>2, <2>1, Gathered
  <2>. QED  BY <1>1, <1>2, <2>2
<1>4. data' = Current.data
  BY <1>1, <1>3, DataPlaces, SubSeqFull
<1>5. [op |-> opcode, data |-> data'] = Current
  BY <1>1, <1>4, DataPlaces, EncodeType, Zenon
<1>6. delivered' = Append(delivered, Current)
  BY <1>1, <1>5
<1>. DEFINE k == Len(delivered)
<1>7. k \in 0 .. (Len(stream) - 1) /\ stream \in Seq(Frames) /\ Len(stream) \in Nat /\ Current = stream[k + 1]
      /\ delivered = SubSeq(stream, 1, k)
  BY <1>1, DataPlaces, Places DEF Current, InStep
<1>8. \A s \in Seq(Frames), j \in Nat : j + 1 <= Len(s) =>
        /\ Append(SubSeq(s, 1, j), s[j + 1]) = SubSeq(s, 1, j + 1) /\ Len(SubSeq(s, 1, j + 1)) = j + 1
  OBVIOUS
<1>9. k \in Nat /\ k + 1 <= Len(stream)
  BY <1>7
<1>10. delivered' = SubSeq(stream, 1, k + 1) /\ Len(SubSeq(stream, 1, k + 1)) = k + 1
  <2>1. Append(SubSeq(stream, 1, k), stream[k + 1]) = SubSeq(stream, 1, k + 1) /\ Len(SubSeq(stream, 1, k + 1)) = k + 1
    BY <1>7, <1>8, <1>9, Zenon
  <2>. HIDE DEF k
  <2>. QED  BY <1>6, <1>7, <2>1, Zenon
<1>. QED  BY <1>6, <1>7, <1>10

LEMMA ParseCompleteInStep ==
  ASSUME LineOK, ParserOK, InStep, ParseDataComplete
  PROVE  InStep'
<1>1. /\ Parsing("DATA") /\ rsize >= 0 /\ Len(buf) >= rsize
      /\ buf' = SubSeq(buf, rsize + 1, Len(buf))
      /\ pstate' = "LEN"
      /\ UNCHANGED <<wire, taken, crashed>>
  BY DEF ParseDataComplete
<1>2. rsize \in 0 .. Len(buf) /\ Len(data) + rsize = len
  <2>1. Parsing("DATA") /\ rsize >= 0 /\ Len(buf) >= rsize
    BY <1>1
  <2>2. Len(data) \in Nat /\ len \in Nat /\ Len(buf) \in Nat
    BY <2>1, DataPlaces
  <2>. QED  BY <2>1, <2>2 DEF rsize
<1>3. stream' = stream /\ Clean(taken)' = Clean(taken)
  BY <1>1 DEF wire, Clean, Skipped
<1>4. Consumed' = Consumed + rsize
  <2>1. Consumed' = Offset(stream, Len(delivered) + 1)
    <3>1. Partial' = <<>>
      BY <1>1 DEF Partial
    <3>2. Consumed' = Offset(stream, Len(delivered) + 1) + Len(<<>>)
      BY <1>3, <3>1, CompleteDelivers DEF Consumed
    <3>3. Len(<<>>) = 0
      OBVIOUS
    <3>4. /\ Offset(stream, Len(delivered) + 1) = Offset(stream, Len(delivered)) + 2 + len
          /\ Offset(stream, Len(delivered)) \in Nat /\ len \in Nat
      BY <1>1, DataPlaces
    <3>5. Offset(stream, Len(delivered) + 1) \in Nat
      BY <3>4
    <3>. QED  BY <3>2, <3>3, <3>5
  <2>. QED  BY <1>1, <1>2, <2>1, DataPlaces
<1>5. Consumed' <= Clean(taken)'
  <2>1. Consumed \in Nat /\ Len(buf) \in Nat /\ Len(buf) = Clean(taken) - Consumed /\ Clean(taken) \in Nat
    BY <1>1, DataPlaces, Zenon
  <2>2. Consumed + rsize <= Clean(taken)
    BY <1>2, <2>1
  <2>. QED  BY <1>3, <1>4, <2>2, Zenon
<1>6. buf' = SubSeq(Wire(stream'), Consumed' + 1, Clean(taken)')
  BY <1>1, <1>2, <1>3, <1>4, BufferRest
<1>7. delivered' = SubSeq(stream', 1, Len(delivered')) /\ Len(delivered') \in 0 .. Len(stream')
  <2>1. Len(delivered) + 1 \in 0 .. Len(stream)
    BY CompleteDelivers, Places
  <2>. QED  BY <1>3, <2>1, CompleteDelivers
<1>8. ~crashed' /\ pstate' # "DATA"
  BY <1>1 DEF InStep
<1>. QED  BY <1>1, <1>5, <1>6, <1>7, <1>8, Zenon DEF InStep

LEMMA ParsePartialInStep ==
  ASSUME LineOK, ParserOK, InStep, ParseDataPartial
  PROVE  InStep'
<1>1. /\ Parsing("DATA") /\ Len(buf) < rsize
      /\ data' = data \o buf /\ buf' = <<>>
      /\ UNCHANGED <<wire, taken, pstate, len, opcode, delivered, crashed>>
  BY DEF ParseDataPartial
<1>2. buf # <<>> /\ pstate = "DATA" /\ pstate' = "DATA"
  BY <1>1 DEF Parsing
<1>3. stream' = stream /\ Clean(taken)' = Clean(taken) /\ Current' = Current
  BY <1>1 DEF wire, Clean, Skipped, Current
<1>4. Len(buf) \in 0 .. Len(buf) /\ Len(data) + Len(buf) <= len
  BY <1>1, DataPlaces, SMTT(30) DEF rsize
<1>5. data' = SubSeq(Current.data, 1, Len(data) + Len(buf)) /\ Len(data') = Len(data) + Len(buf)
  <2>1. data \o SubSeq(buf, 1, Len(buf)) = SubSeq(Current.data, 1, Len(data) + Len(buf))
    BY <1>2, <1>4, Gathered
  <2>2. SubSeq(buf, 1, Len(buf)) = buf
    BY <1>1, DataPlaces, SubSeqFull
  <2>3. data \in Seq(Octet) /\ buf \in Seq(Octet)
    BY DEF ParserOK, TypeOK, Octet
  <2>4. data' = data \o buf
    BY <1>1
  <2>5. Len(data \o buf) = Len(data) + Len(buf)
    BY <2>3
  <2>6. data' = SubSeq(Current.data, 1, Len(data) + Len(buf))
    BY <2>1, <2>2, <2>4, Zenon
  <2>. QED  BY <2>4, <2>5, <2>6, Zenon
<1>6. Consumed' = Consumed + Len(buf)
  <2>1. Len(Partial)' = 2 + Len(data')
    <3>1. data \in Seq(Octet) /\ buf \in Seq(Octet) /\ opcode \in Octet /\ len + 1 \in Octet
      BY DEF ParserOK, TypeOK, Octet
    <3>2. data' \in Seq(Octet) /\ opcode' \in Octet /\ len' + 1 \in Octet
      <4>1. data \o buf \in Seq(Octet)
        BY <3>1, ConcatProperties
      <4>. QED  BY <1>1, <3>1, <4>1
    <3>3. \A l, o \in Octet, d \in Seq(Octet) : Len(<<l, o>> \o d) = 2 + Len(d)
      OBVIOUS
    <3>. QED  BY <1>2, <3>2, <3>3 DEF Partial
  <2>2. Consumed' = Offset(stream, Len(delivered)) + (2 + Len(data'))
    BY <1>1, <1>3, <2>1 DEF Consumed
  <2>3. /\ Consumed = Offset(stream, Len(delivered)) + 2 + Len(data)
        /\ Offset(stream, Len(delivered)) \in Nat /\ Len(data) \in Nat /\ Len(buf) \in Nat
    BY <1>1, DataPlaces
  <2>4. Consumed' = Offset(stream, Len(delivered)) + (2 + (Len(data) + Len(buf)))
    BY <1>5, <2>2
  <2>. QED  BY <2>3, <2>4
<1>7. Consumed' <= Clean(taken)'
  BY <1>1, <1>3, <1>6, DataPlaces
<1>8. buf' = SubSeq(Wire(stream'), Consumed' + 1, Clean(taken)')
  <2>1. Clean(taken) = Consumed + Len(buf) /\ Consumed + Len(buf) \in Nat
    BY <1>1, DataPlaces, SMTT(30)
  <2>2. SubSeq(Wire(stream), (Consumed + Len(buf)) + 1, Consumed + Len(buf)) = <<>>
    BY <2>1, SubSeqEmpty
  <2>. QED  BY <1>1, <1>3, <1>6, <2>1, <2>2
<1>9. opcode' = Current'.op /\ len' = Len(Current'.data) /\ Len(data') <= len' /\ data' = SubSeq(Current'.data, 1, Len(data'))
  BY <1>1, <1>3, <1>4, <1>5, DataPlaces
<1>10. ~crashed' /\ Len(delivered') \in 0 .. Len(stream') /\ delivered' = SubSeq(stream', 1, Len(delivered'))
  BY <1>1, <1>3 DEF InStep
<1>11. Len(delivered') < Len(stream')
  BY <1>1, <1>3, DataPlaces
<1>. QED  BY <1>7, <1>8, <1>9, <1>10, <1>11, Zenon DEF InStep

(* The remaining size of a frame that is in step is never negative.            *)
LEMMA NeverNegative ==
  ASSUME LineOK, ParserOK, InStep
  PROVE  ~ParseDataNegative
<1>1. CASE Parsing("DATA")
  <2>1. Len(data) \in Nat /\ len \in Nat /\ Len(data) <= len
    BY <1>1, DataPlaces
  <2>. QED  BY <2>1 DEF ParseDataNegative, rsize
<1>. QED  BY <1>1 DEF ParseDataNegative

(* As long as noise and frames were told apart the parser stays in step.       *)
LEMMA StepInStep ==
  ASSUME LineOK, ParserOK, ~Misread => InStep, [Next]_vars, ~Misread'
  PROVE  InStep'
<1>1. ~Misread
  <2>1. CASE Read
    BY <2>1 DEF Read, Misread, ParserOK, TypeOK
  <2>2. CASE UNCHANGED <<dropped, passed>>
    BY <2>2 DEF Misread
  <2>. QED  BY <2>1, <2>2 DEF Next, ParseLen, ParseOpcode, ParseDataComplete,
                              ParseDataPartial, ParseDataNegative, vars
<1>2. InStep
  BY <1>1
<1>3. CASE UNCHANGED vars
  <2>1. UNCHANGED <<wire, parser, delivered, taken, buf, crashed>>
    BY <1>3 DEF vars
  <2>2. Consumed' = Consumed /\ Current' = Current /\ Clean(taken)' = Clean(taken)
    BY <2>1, ConsumedStays DEF wire, Clean, Skipped
  <2>. QED  BY <1>2, <2>1, <2>2 DEF InStep, wire, parser
<1>. QED  BY <1>2, <1>3, ReadInStep, ParseLenInStep, ParseOpcodeInStep, ParseCompleteInStep,
             ParsePartialInStep, NeverNegative DEF Next

-------------------------------------------------------------------------------
(* What keeping in step means: no byte is lost, invented or counted wrongly    *)

(* The frame in hand has the bytes that follow the delivered frames.           *)
LEMMA PartialPlace ==
  ASSUME LineOK, ParserOK, InStep
  PROVE  Partial \in Seq(Octet) /\ Partial = SubSeq(Wire(stream), Offset(stream, Len(delivered)) + 1, Consumed)
<1>. DEFINE w == Wire(stream)
            k == Len(delivered)
            o == Offset(stream, k)
            f == Current
<1>1. /\ w \in Seq(Octet) /\ o \in Nat /\ Len(data) \in Nat /\ k \in 0 .. Len(stream)
      /\ stream \in Seq(Frames) /\ Len(stream) \in Nat
      /\ Clean(taken) \in 0 .. Len(w) /\ Consumed <= Clean(taken) /\ Len(w) \in Nat
  BY Places DEF InStep
<1>2. data \in Seq(Octet) /\ opcode \in Octet /\ len + 1 \in Octet /\ pstate \in {"LEN", "OPCODE", "DATA"}
  BY DEF ParserOK, TypeOK, Octet
<1>3. CASE pstate = "LEN"
  <2>1. Partial = <<>> /\ Len(<<>>) = 0
    BY <1>3 DEF Partial
  <2>2. Consumed = o
    BY <1>1, <2>1 DEF Consumed
  <2>3. SubSeq(w, o + 1, o) = <<>>
    BY <1>1, SubSeqEmpty
  <2>. QED  BY <2>1, <2>2, <2>3, EmptySeq
<1>4. ASSUME pstate # "LEN"
      PROVE  /\ w[o + 1] = 1 + Len(f.data) /\ w[o + 2] = f.op /\ Len(f.data) \in Nat
             /\ \A j \in 1 .. Len(f.data) : w[o + 2 + j] = f.data[j]
             /\ len = Len(f.data) /\ f.data \in Seq(Octet)
  <2>1. k \in 0 .. (Len(stream) - 1) /\ len = Len(f.data)
    BY <1>1, <1>4 DEF InStep
  <2>2. /\ f \in Frames /\ w[o + 1] = 1 + Len(f.data) /\ w[o + 2] = f.op
        /\ \A j \in 1 .. Len(f.data) : w[o + 2 + j] = f.data[j]
    BY <1>1, <2>1, FramePlace, Zenon DEF Current
  <2>3. f.data \in Seq(Octet)
    BY <2>2, EncodeType, Zenon
  <2>. QED  BY <2>1, <2>2, <2>3, LenProperties
<1>5. CASE pstate = "OPCODE"
  <2>1. Partial = <<len + 1>>
    BY <1>5 DEF Partial
  <2>2. Consumed = o + 1
    <3>1. Len(<<len + 1>>) = 1
      OBVIOUS
    <3>. QED  BY <2>1, <3>1 DEF Consumed
  <2>3. len + 1 = w[o + 1]
    BY <1>4, <1>5
  <2>4. \A v \in Seq(Octet), i \in Nat : i + 1 <= Len(v) =>
          /\ SubSeq(v, i + 1, i + 1) \in Seq(Octet) /\ Len(SubSeq(v, i + 1, i + 1)) = 1
          /\ SubSeq(v, i + 1, i + 1)[1] = v[i + 1]
    OBVIOUS
  <2>5. o + 1 <= Len(w)
    BY <1>1, <2>2
  <2>6. /\ SubSeq(w, o + 1, o + 1) \in Seq(Octet) /\ Len(SubSeq(w, o + 1, o + 1)) = 1
        /\ SubSeq(w, o + 1, o + 1)[1] = len + 1
    BY <1>1, <2>3, <2>4, <2>5, Zenon
  <2>7. <<len + 1>> \in Seq(Octet) /\ Len(<<len + 1>>) = 1 /\ <<len + 1>>[1] = len + 1
    BY <1>2
  <2>8. \A u, v \in Seq(Octet) : Len(u) = 1 /\ Len(v) = 1 /\ u[1] = v[1] => u = v
    BY SeqEqual
  <2>9. <<len + 1>> = SubSeq(w, o + 1, o + 1)
    BY <2>6, <2>7, <2>8
  <2>. QED  BY <2>1, <2>2, <2>7, <2>9, Zenon
<1>6. CASE pstate = "DATA"
  <2>1. Partial = <<len + 1, opcode>> \o data
    BY <1>6 DEF Partial
  <2>2. /\ Len(data) <= len /\ data = SubSeq(f.data, 1, Len(data)) /\ opcode = f.op
    BY <1>6, Zenon DEF InStep
  <2>3. Consumed = o + 2 + Len(data)
    <3>1. Len(Partial) = 2 + Len(data)
      BY <1>6, Places
    <3>. QED  BY <1>1, <3>1 DEF Consumed
  <2>4. \A j \in 1 .. Len(data) : data[j] = w[o + 2 + j]
    <3>1. \A s \in Seq(Octet), m \in Nat : m <= Len(s) => \A j \in 1 .. m : SubSeq(s, 1, m)[j] = s[j] /\ j \in 1 .. Len(s)
      OBVIOUS
    <3>2. \A j \in 1 .. Len(data) : SubSeq(f.data, 1, Len(data))[j] = f.data[j] /\ j \in 1 .. Len(f.data)
      BY <1>1, <1>4, <1>6, <2>2, <3>1
    <3>. QED  BY <1>4, <1>6, <2>2, <3>2
  <2>. DEFINE s == <<len + 1, opcode>> \o data
              t == SubSeq(w, o + 1, o + 2 + Len(data))
  <2>5. s \in Seq(Octet) /\ Len(s) = 2 + Len(data) /\ s[1] = len + 1 /\ s[2] = opcode
        /\ \A j \in 1 .. Len(data) : s[2 + j] = data[j]
    <3>1. \A x, y \in Octet, v \in Seq(Octet) :
            /\ <<x, y>> \o v \in Seq(Octet) /\ Len(<<x, y>> \o v) = 2 + Len(v)
            /\ (<<x, y>> \o v)[1] = x /\ (<<x, y>> \o v)[2] = y
            /\ \A j \in 1 .. Len(v) : (<<x, y>> \o v)[2 + j] = v[j]
      OBVIOUS
    <3>2. s \in Seq(Octet) /\ Len(s) = 2 + Len(data) /\ s[1] = len + 1 /\ s[2] = opcode
      BY <1>2, <3>1
    <3>3. \A j \in 1 .. Len(data) : s[2 + j] = data[j]
      BY <1>2, <3>1
    <3>. QED  BY <3>2, <3>3
  <2>6. t \in Seq(Octet) /\ Len(t) = 2 + Len(data) /\ \A i \in 1 .. (2 + Len(data)) : t[i] = w[o + i]
    <3>1. \A v \in Seq(Octet), a, b \in Nat : a + b <= Len(v) =>
            /\ SubSeq(v, a + 1, a + b) \in Seq(Octet) /\ Len(SubSeq(v, a + 1, a + b)) = b
            /\ \A i \in 1 .. b : SubSeq(v, a + 1, a + b)[i] = v[a + i]
      OBVIOUS
    <3>2. o + (2 + Len(data)) <= Len(w) /\ 2 + Len(data) \in Nat /\ o + (2 + Len(data)) = o + 2 + Len(data)
      BY <1>1, <2>3
    <3>. HIDE DEF w, o
    <3>. QED  BY <1>1, <3>1, <3>2
  <2>. HIDE DEF s, t
  <2>7. \A i \in 1 .. Len(s) : s[i] = t[i]
    <3>. SUFFICES ASSUME NEW i \in 1 .. Len(s) PROVE s[i] = t[i]
      OBVIOUS
    <3>1. i \in Int /\ 1 <= i /\ i <= 2 + Len(data) /\ t[i] = w[o + i]
      BY <1>1, <2>5, <2>6
    <3>2. CASE i = 1
      BY <1>4, <1>6, <2>5, <3>1, <3>2
    <3>3. CASE i = 2
      BY <1>4, <1>6, <2>2, <2>5, <3>1, <3>3
    <3>4. CASE i > 2
      <4>1. i - 2 \in 1 .. Len(data) /\ 2 + (i - 2) = i /\ o + 2 + (i - 2) = o + i
        BY <1>1, <3>1, <3>4
      <4>2. s[2 + (i - 2)] = data[i - 2] /\ data[i - 2] = w[o + 2 + (i - 2)]
        BY <2>4, <2>5, <4>1
      <4>. QED  BY <3>1, <4>1, <4>2
    <3>. QED  BY <3>1, <3>2, <3>3, <3>4
  <2>8. s = t
    BY <2>5, <2>6, <2>7, SeqEqual
  <2>. QED  BY <2>1, <2>3, <2>5, <2>8 DEF s, t
<1>. QED  BY <1>2, <1>3, <1>5, <1>6

LEMMA InStepAligned ==
  ASSUME LineOK, ParserOK, InStep
  PROVE  Aligned
<1>. DEFINE w == Wire(stream)
            k == Len(delivered)
            o == Offset(stream, k)
            c == Clean(taken)
            d == Consumed
<1>1. /\ w \in Seq(Octet) /\ o \in Nat /\ d \in Nat /\ c \in 0 .. Len(w) /\ Len(w) \in Nat
      /\ stream \in Seq(Frames) /\ k \in 0 .. Len(stream)
      /\ d <= c /\ o <= d
  <2>1. Partial \in Seq(Octet)
    BY PartialPlace
  <2>. QED  BY <2>1, Places, LenProperties DEF InStep, Consumed
<1>2. Wire(delivered) = SubSeq(w, 1, o)
  <2>. DEFINE a == Wire(SubSeq(stream, 1, k))
              b == Wire(SubSeq(stream, k + 1, Len(stream)))
  <2>1. a \in Seq(Octet) /\ b \in Seq(Octet) /\ w = a \o b
    BY <1>1, WireSplit
  <2>2. Len(a) = o
    BY DEF Offset
  <2>3. Wire(delivered) = a
    BY DEF InStep
  <2>4. \A u, v \in Seq(Octet) : SubSeq(u \o v, 1, Len(u)) = u
    OBVIOUS
  <2>. HIDE DEF w, o, a, b
  <2>. QED  BY <2>1, <2>2, <2>3, <2>4
<1>3. Partial = SubSeq(w, o + 1, d)
  BY PartialPlace
<1>4. buf = SubSeq(w, d + 1, c)
  BY DEF InStep
<1>5. FrameBytes = SubSeq(w, 1, c)
  <2>1. taken \in 0 .. Len(line)
    BY DEF ParserOK, TypeOK
  <2>2. FrameBytes = FlattenSeq(Heard(taken))
    BY DEF FrameBytes, Heard
  <2>. QED  BY <2>1, <2>2, HeardIsSent
<1>. HIDE DEF w, o, c, d
<1>6. SubSeq(w, 1, o) \o SubSeq(w, o + 1, d) = SubSeq(w, 1, d)
  BY <1>1, ConcatAdjacentSubSeq
<1>7. SubSeq(w, 1, d) \o SubSeq(w, d + 1, c) = SubSeq(w, 1, c)
  BY <1>1, ConcatAdjacentSubSeq
<1>. QED  BY <1>2, <1>3, <1>4, <1>5, <1>6, <1>7 DEF Aligned

-------------------------------------------------------------------------------
(* The receiver and the start of the process                                   *)

(* The inductive invariant: the line is the stream with at most one byte of    *)
(* noise, and until the filter errs the parser is in step with the stream.     *)
ReceiverOK == LineOK /\ ParserOK /\ (~Misread => InStep)

(* Before its creation there is no thread.                                     *)
StartOK == mpc \in {"open", "reset", "create"} => fd = "no thread"

LEMMA ReceiverStep1 ==
  ASSUME ReceiverOK, [Next]_vars
  PROVE  ReceiverOK'
<1>1. LineOK'
  BY WireStays, LineStays DEF ReceiverOK
<1>2. ParserOK'
  BY ParserStep DEF ReceiverOK
<1>3. (~Misread => InStep)'
  BY StepInStep DEF ReceiverOK
<1>. QED  BY <1>1, <1>2, <1>3 DEF ReceiverOK

LEMMA ReceiverInit == Init => ReceiverOK
BY InitLine, InitParser, InitInStep DEF ReceiverOK

LEMMA ReceiverAligned == ReceiverOK => TypeOK /\ AlignedUntilDrop
<1>1. ReceiverOK => TypeOK
  BY DEF ReceiverOK, ParserOK
<1>2. ReceiverOK /\ ~Misread => Aligned /\ ~crashed
  BY InStepAligned DEF ReceiverOK, InStep
<1>. QED  BY <1>1, <1>2 DEF AlignedUntilDrop

LEMMA ReceiverAlways == Spec => []ReceiverOK
BY ReceiverInit, ReceiverStep1, PTL DEF Spec

(* The parser's fields stay in their types, even when it has lost the frames:  *)
(* its length is never below -1 and its position never beyond its buffer.      *)
THEOREM ParserTypes == Spec => []TypeOK
BY ReceiverAlways, ReceiverAligned, PTL

(* However the reads of ble_receive_handle cut the dongle's stream, no byte of *)
(* a frame is lost, invented or counted to the wrong frame, and memcpy is not  *)
(* called with a negative size, until the noise filter errs.                   *)
THEOREM ParserAligned == Spec => []AlignedUntilDrop
BY ReceiverAlways, ReceiverAligned, PTL

(* A step of the process is one of its receiver, or leaves the receiver alone. *)
LEMMA StartupStep ==
  ASSUME [SNext]_upVars
  PROVE  [Next]_vars
BY DEF SNext, MainStep, Open, RadioReset, CreateThread, Return, Reuse, ReceiverStep,
       FetchFd, Receiving, upVars

LEMMA StartStays ==
  ASSUME StartOK, [SNext]_upVars
  PROVE  StartOK'
BY DEF StartOK, SNext, MainStep, Open, RadioReset, CreateThread, Return, Reuse,
       ReceiverStep, FetchFd, Receiving, upVars, main

LEMMA StartupAlways == StartupSpec => [](ReceiverOK /\ StartOK)
<1>1. SInit => ReceiverOK /\ StartOK
  BY ReceiverInit DEF SInit, StartOK
<1>2. ReceiverOK /\ StartOK /\ [SNext]_upVars => (ReceiverOK /\ StartOK)'
  BY StartupStep, StartStays, ReceiverStep1
<1>. QED  BY <1>1, <1>2, PTL DEF StartupSpec

(* The receiver's types hold in its process too, whichever step of the start   *)
(* failed and whenever the thread first ran: the data field of the command     *)
(* holds every frame, as long as the parser has not crashed.                   *)
THEOREM ReceiverTypes == StartupSpec => []TypeOK
BY StartupAlways, ReceiverAligned, PTL

(* Within the process, too, every byte that was read and is not noise is in a  *)
(* delivered frame or in the parser, until the filter takes a byte of a frame. *)
THEOREM ReceiverStaysAligned == StartupSpec => []AlignedUntilDrop
BY StartupAlways, ReceiverAligned, PTL

-------------------------------------------------------------------------------
(* The receiver keeps the promise of FrameFifo                                 *)

(* A process without a receiver, or whose receiver reads from elsewhere, stays *)
(* so; and what the filter did is not undone.                                  *)
LEMMA NoiseStays ==
  ASSUME ReceiverOK, StartOK, SNext, Misread \/ Deaf
  PROVE  (Misread \/ Deaf)'
<1>1. dropped \in BOOLEAN /\ passed \in BOOLEAN
  BY DEF ReceiverOK, ParserOK, TypeOK
<1>2. CASE Misread
  <2>1. [Next]_vars
    BY StartupStep
  <2>. QED
    BY <1>1, <1>2, <2>1 DEF Misread, Next, Read, ParseLen, ParseOpcode, ParseDataComplete,
       ParseDataPartial, ParseDataNegative, vars
<1>3. CASE Deaf
  BY <1>3 DEF Deaf, StartOK, SNext, MainStep, Open, RadioReset, CreateThread, Return, Reuse,
              ReceiverStep, FetchFd, Receiving, main
<1>. QED  BY <1>2, <1>3

(* What a step does to the frames.                                             *)
LEMMA FifoStep ==
  ASSUME ReceiverOK, StartOK, SNext
  PROVE  [Fifo!Next]_<<stream, delivered, Misread \/ Deaf>>
<1>1. UNCHANGED stream
  BY StartupStep, WireStays DEF wire
<1>2. CASE Misread \/ Deaf
  <2>1. (Misread \/ Deaf)'
    BY <1>2, NoiseStays
  <2>2. (Misread \/ Deaf)' = (Misread \/ Deaf)
    BY <1>2, <2>1
  <2>. QED  BY <1>1, <1>2, <2>2 DEF Fifo!Next, Fifo!AfterNoise
<1>3. CASE ~(Misread \/ Deaf) /\ UNCHANGED delivered
  <2>1. CASE (Misread \/ Deaf)'
    <3>1. (Misread \/ Deaf)' = TRUE
      BY <2>1
    <3>. QED  BY <1>1, <1>3, <3>1 DEF Fifo!Next, Fifo!Noise
  <2>2. CASE ~(Misread \/ Deaf)'
    <3>1. (Misread \/ Deaf)' = (Misread \/ Deaf)
      BY <1>3, <2>2
    <3>. QED  BY <1>1, <1>3, <3>1
  <2>. QED  BY <2>1, <2>2
<1>4. CASE ~(Misread \/ Deaf) /\ Receiving /\ ParseDataComplete
  <2>1. InStep
    BY <1>4 DEF ReceiverOK
  <2>2. delivered' = Append(delivered, stream[Len(delivered) + 1]) /\ Len(delivered) < Len(stream)
    <3>1. delivered' = Append(delivered, Current) /\ Len(delivered) \in 0 .. (Len(stream) - 1)
      BY <1>4, <2>1, CompleteDelivers DEF ReceiverOK
    <3>2. Len(stream) \in Nat
      BY LenProperties DEF ReceiverOK, LineOK
    <3>. QED  BY <3>1, <3>2 DEF Current
  <2>3. (Misread \/ Deaf)' = (Misread \/ Deaf)
    BY <1>4 DEF Receiving, ParseDataComplete, Misread, Deaf, main
  <2>. QED  BY <1>1, <1>4, <2>2, <2>3 DEF Fifo!Next, Fifo!Deliver
<1>5. UNCHANGED delivered \/ (Receiving /\ ParseDataComplete)
  BY DEF SNext, MainStep, Open, RadioReset, CreateThread, Return, Reuse, ReceiverStep,
         FetchFd, Receiving, vars, Next, Read, ParseLen, ParseOpcode, ParseDataPartial,
         ParseDataNegative
<1>. QED  BY <1>2, <1>3, <1>4, <1>5

LEMMA FifoInit == SInit => Fifo!Init
<1>. SUFFICES ASSUME SInit PROVE Fifo!Init
  OBVIOUS
<1>1. stream \in Seq(Frames) /\ delivered = <<>>
  BY InitLine DEF SInit, Init, LineOK
<1>2. (Misread \/ Deaf) = FALSE
  BY DEF SInit, Init, Misread, Deaf
<1>. QED  BY <1>1, <1>2 DEF Fifo!Init

(* What reaches ble_processCommand is the dongle's frames, each once and in    *)
(* the order they were sent: every step of the process is a delivery of the    *)
(* next frame, a step that the handlers do not see, or one after which nothing *)
(* is promised.                                                                *)
THEOREM FramesInOrder ==
  StartupSpec => Fifo!Init /\ [][Fifo!Next]_<<stream, delivered, Misread \/ Deaf>>
<1>1. ReceiverOK /\ StartOK /\ [SNext]_upVars => [Fifo!Next]_<<stream, delivered, Misread \/ Deaf>>
  <2>1. ASSUME UNCHANGED upVars PROVE UNCHANGED <<stream, delivered, Misread \/ Deaf>>
    BY <2>1 DEF upVars, main, vars, wire, Misread, Deaf
  <2>. QED  BY <2>1, FifoStep
<1>. QED  BY <1>1, FifoInit, StartupAlways, PTL DEF StartupSpec
===============================================================================
