-------------------------- MODULE FrameWriterProofs --------------------------
(***************************************************************************)
(* Proofs about the native FLAC writer, whatever the samples, the limits,  *)
(* the predictors and the selections are.  A frame header says what it was *)
(* given; both validators of wasted bits agree; every subframe the writer  *)
(* chooses or accepts can be put down, with the bits counted for it, and   *)
(* decodes to the samples it was made from; and what the exact profile     *)
(* chooses is the least of what it looks among.                            *)
(*                                                                         *)
(* The facts about folds and sums come from one principle, LeastNumber: a  *)
(* set of numbers that is not empty has a least one.                       *)
(***************************************************************************)
EXTENDS FrameWriter, TLAPS, WellFoundedInduction, SequenceTheorems

\* The number of continuation bytes is one for which the number fits.
LEMMA LengthFits ==
  ASSUME NEW number \in FrameNumbers, Representable(number)
  PROVE  CodeLength(number) \in 0 .. 6 /\ Fits(number, CodeLength(number))
<1> DEFINE P(n) == n \in 0 .. 6 /\ Fits(number, n)
<1>1. \E n \in 0 .. 6 : Fits(number, n) /\ \A m \in 0 .. n - 1 : ~Fits(number, m)
  <2>1. CASE P(0)  BY <2>1
  <2>2. CASE ~P(0) /\ P(1)  BY <2>2
  <2>3. CASE ~P(0) /\ ~P(1) /\ P(2)  BY <2>3
  <2>4. CASE ~P(0) /\ ~P(1) /\ ~P(2) /\ P(3)  BY <2>4
  <2>5. CASE ~P(0) /\ ~P(1) /\ ~P(2) /\ ~P(3) /\ P(4)  BY <2>5
  <2>6. CASE ~P(0) /\ ~P(1) /\ ~P(2) /\ ~P(3) /\ ~P(4) /\ P(5)  BY <2>6
  <2>7. CASE ~P(0) /\ ~P(1) /\ ~P(2) /\ ~P(3) /\ ~P(4) /\ ~P(5) /\ P(6)  BY <2>7
  <2>8. QED  BY <2>1, <2>2, <2>3, <2>4, <2>5, <2>6, <2>7 DEF Representable
<1>2. QED  BY <1>1 DEF CodeLength

\* The two tables of the code, row by row.
LEMMA Tables ==
  /\ LeadMark(0) = 0   /\ LeadLimit(0) = 128
  /\ LeadMark(1) = 192 /\ LeadLimit(1) = 32
  /\ LeadMark(2) = 224 /\ LeadLimit(2) = 16
  /\ LeadMark(3) = 240 /\ LeadLimit(3) = 8
  /\ LeadMark(4) = 248 /\ LeadLimit(4) = 4
  /\ LeadMark(5) = 252 /\ LeadLimit(5) = 2
  /\ LeadMark(6) = 254 /\ LeadLimit(6) = 1
BY DEF LeadMark, LeadLimit

\* A lead byte gives the number of bytes after it away.
LEMMA LeadTells ==
  ASSUME NEW n \in 0 .. 6, NEW lead \in Nat,
         lead >= LeadMark(n), lead < LeadMark(n) + LeadLimit(n)
  PROVE  TailBytes(lead) = n
<1>1. CASE n = 0  BY <1>1, Tables DEF TailBytes
<1>2. CASE n # 0
  <2> DEFINE Of(m) == lead >= LeadMark(m) /\ lead < LeadMark(m) + LeadLimit(m)
  <2>1. n \in 1 .. 6 /\ Of(n)  BY <1>2
  <2>2. lead >= 128
    BY <1>2, Tables, n \in {1, 2, 3, 4, 5, 6}
  <2>3. ASSUME NEW m \in 1 .. 6, Of(m) PROVE m = n
    <3>1. m \in {1, 2, 3, 4, 5, 6} /\ n \in {1, 2, 3, 4, 5, 6}  BY <1>2
    <3>2. QED  BY <3>1, <2>3, <2>1, Tables
  <2>4. TailBytes(lead) = CHOOSE m \in 1 .. 6 : Of(m)  BY <2>2 DEF TailBytes
  <2>5. QED  BY <2>1, <2>3, <2>4
<1>3. QED  BY <1>1, <1>2

LEMMA TablesTyped ==
  ASSUME NEW n \in 0 .. 6
  PROVE  LeadMark(n) \in Nat /\ LeadLimit(n) \in Nat
BY Tables, n \in {0, 1, 2, 3, 4, 5, 6}

LEMMA LeadBounded ==
  ASSUME NEW number \in FrameNumbers, NEW n \in 0 .. 6, Fits(number, n)
  PROVE  LeadValue(number, n) \in Nat /\ LeadValue(number, n) < LeadLimit(n)
<1>1. number[1] \in Nat /\ number[2] \in Nat /\ number[n + 1] \in Nat
  BY DEF FrameNumbers
<1>2. QED  BY <1>1 DEF LeadValue, Fits

\* The bytes of a number that needs n continuation bytes.
BytesOf(number, n) ==
  [i \in 1 .. n + 1 |-> IF i = 1 THEN LeadMark(n) + LeadValue(number, n)
                                 ELSE 128 + number[n + 2 - i]]

LEMMA BytesTyped ==
  ASSUME NEW number \in FrameNumbers, NEW n \in 0 .. 6, Fits(number, n)
  PROVE  /\ BytesOf(number, n) \in [1 .. n + 1 -> Nat]
         /\ BytesOf(number, n)[1] = LeadMark(n) + LeadValue(number, n)
         /\ \A i \in 2 .. n + 1 : BytesOf(number, n)[i] = 128 + number[n + 2 - i]
         /\ TailBytes(BytesOf(number, n)[1]) = n
<1> DEFINE coded == BytesOf(number, n)
<1>1. LeadMark(n) \in Nat /\ LeadLimit(n) \in Nat  BY TablesTyped
<1>2. LeadValue(number, n) \in Nat /\ LeadValue(number, n) < LeadLimit(n)  BY LeadBounded
<1>3. coded[1] = LeadMark(n) + LeadValue(number, n)
      /\ \A i \in 2 .. n + 1 : coded[i] = 128 + number[n + 2 - i]
  BY DEF BytesOf
<1>4. \A i \in 1 .. n + 1 : coded[i] \in Nat
  <2>1. TAKE i \in 1 .. n + 1
  <2>2. CASE i = 1  BY <2>2, <1>1, <1>2, <1>3
  <2>3. CASE i # 1
    <3>1. n + 2 - i \in 1 .. 7  BY <2>3
    <3>2. number[n + 2 - i] \in 0 .. 63  BY <3>1 DEF FrameNumbers
    <3>3. coded[i] = 128 + number[n + 2 - i]  BY <2>3, <1>3
    <3>4. QED  BY <3>2, <3>3
  <2>4. QED  BY <2>2, <2>3
<1>5. coded \in [1 .. n + 1 -> Nat]  BY <1>4 DEF BytesOf
<1> HIDE DEF coded
<1>6. TailBytes(coded[1]) = n
  <2>1. coded[1] \in Nat /\ coded[1] >= LeadMark(n) /\ coded[1] < LeadMark(n) + LeadLimit(n)
    BY <1>1, <1>2, <1>3
  <2>2. QED  BY <2>1, LeadTells
<1>7. QED  BY <1>3, <1>5, <1>6 DEF coded

LEMMA DigitsOfLead ==
  ASSUME NEW x \in 0 .. 63, NEW y \in 0 .. 63
  PROVE  (x + 64 * y) % 64 = x /\ (x + 64 * y) \div 64 = y
OBVIOUS

LEMMA OneByte ==
  ASSUME NEW number \in FrameNumbers
  PROVE  /\ (LeadMark(0) + LeadValue(number, 0)) % 64 = number[1]
         /\ (LeadMark(0) + LeadValue(number, 0)) \div 64 = number[2]
<1>1. number[1] \in 0 .. 63 /\ number[2] \in 0 .. 63  BY DEF FrameNumbers
<1>2. LeadMark(0) + LeadValue(number, 0) = number[1] + 64 * number[2]
  BY <1>1, Tables, SMTT(30) DEF LeadValue
<1>3. /\ (number[1] + 64 * number[2]) % 64 = number[1]
      /\ (number[1] + 64 * number[2]) \div 64 = number[2]
  BY <1>1, DigitsOfLead
<1>4. QED  BY <1>2, <1>3, Zenon

\* Bytes that start like a coded number are read as that number.
LEMMA CodedNumberRead ==
  ASSUME NEW number \in FrameNumbers, NEW n \in 0 .. 6, Fits(number, n), NEW bytes,
         bytes[1] = LeadMark(n) + LeadValue(number, n),
         \A i \in 2 .. n + 1 : bytes[i] = 128 + number[n + 2 - i],
         TailBytes(bytes[1]) = n
  PROVE  ReadNumber(bytes) = number
<1>1. \A i \in 1 .. 7 : number[i] \in Nat /\ number[i] <= 63  BY DEF FrameNumbers
<1>2. \A i \in 1 .. 7 : ReadNumber(bytes)[i] = number[i]
  <2>1. CASE n = 0
    <3>1. bytes[1] = LeadMark(0) + LeadValue(number, 0)  BY <2>1
    <3>2. /\ (LeadMark(0) + LeadValue(number, 0)) % 64 = number[1]
          /\ (LeadMark(0) + LeadValue(number, 0)) \div 64 = number[2]
      BY OneByte
    <3>3. bytes[1] % 64 = number[1] /\ bytes[1] \div 64 = number[2]
      BY <3>1, <3>2, Zenon
    <3>4. \A i \in 3 .. 7 : number[i] = 0  BY <2>1 DEF Fits
    <3>5. ReadNumber(bytes) = <<number[1], number[2], 0, 0, 0, 0, 0>>
      BY <3>3, <2>1 DEF ReadNumber
    <3>6. TAKE i \in 1 .. 7
    <3>7. i \in {1, 2, 3, 4, 5, 6, 7}  OBVIOUS
    <3>8. QED  BY <3>4, <3>5, <3>7
  <2>2. CASE n # 0
    <3>1. ReadNumber(bytes) =
            [i \in 1 .. 7 |-> IF i <= n THEN bytes[n + 2 - i] - 128
                              ELSE IF i = n + 1 THEN bytes[1] - LeadMark(n) ELSE 0]
      BY <2>2 DEF ReadNumber
    <3>2. TAKE i \in 1 .. 7
    <3>3. number[i] \in Nat  BY <1>1
    <3>4. CASE i <= n
      <4>1. PICK k \in 2 .. n + 1 : k = n + 2 - i /\ n + 2 - k = i  BY <3>4
      <4>2. bytes[k] = 128 + number[i]  BY <4>1
      <4>3. QED  BY <3>1, <3>3, <3>4, <4>1, <4>2
    <3>5. CASE i = n + 1
      <4>1. LeadValue(number, n) = number[i]  BY <3>5, <2>2 DEF LeadValue
      <4>2. LeadMark(n) \in Nat  BY TablesTyped
      <4>3. bytes[1] - LeadMark(n) = number[i]  BY <4>1, <4>2, <3>3
      <4>4. QED  BY <3>1, <3>5, <4>3
    <3>6. CASE i > n + 1
      <4>1. number[i] = 0  BY <3>6, <2>2 DEF Fits
      <4>2. QED  BY <3>1, <3>6, <4>1
    <3>7. QED  BY <3>4, <3>5, <3>6
  <2>3. QED  BY <2>1, <2>2
<1>3. ReadNumber(bytes) = [i \in 1 .. 7 |-> ReadNumber(bytes)[i]]
  <2>1. CASE n = 0  BY <2>1 DEF ReadNumber
  <2>2. CASE n # 0  BY <2>2 DEF ReadNumber
  <2>3. QED  BY <2>1, <2>2
<1>4. number = [i \in 1 .. 7 |-> number[i]]  BY DEF FrameNumbers
<1>5. QED  BY <1>2, <1>3, <1>4

\* The start of a concatenation is its first part.
LEMMA StartOfConcatenation ==
  ASSUME NEW k \in Nat, NEW coded \in [1 .. k -> Nat], NEW rest \in Seq(Nat)
  PROVE  /\ coded \in Seq(Nat) /\ Len(coded) = k
         /\ \A i \in 1 .. k : (coded \o rest)[i] = coded[i]
OBVIOUS

\* The decoder reads the number that was coded, whatever follows (write_utf8_uint).
THEOREM NumberReadsBack ==
  ASSUME NEW number \in FrameNumbers, Representable(number)
  PROVE  \A rest \in Seq(Nat) : ReadNumber(CodedNumber(number) \o rest) = number
<1> DEFINE n == CodeLength(number)
           coded == BytesOf(number, n)
<1>1. n \in 0 .. 6 /\ Fits(number, n)  BY LengthFits
<1>2. CodedNumber(number) = coded  BY DEF CodedNumber, BytesOf
<1> HIDE DEF n
<1>3. /\ coded \in [1 .. n + 1 -> Nat]
      /\ coded[1] = LeadMark(n) + LeadValue(number, n)
      /\ \A i \in 2 .. n + 1 : coded[i] = 128 + number[n + 2 - i]
      /\ TailBytes(coded[1]) = n
  BY <1>1, BytesTyped, Zenon
<1> HIDE DEF coded
<1>4. n + 1 \in Nat  BY <1>1
<1>5. ASSUME NEW rest \in Seq(Nat)
      PROVE  ReadNumber(coded \o rest) = number
  <2> DEFINE bytes == coded \o rest
  <2>1. \A i \in 1 .. n + 1 : bytes[i] = coded[i]
    BY <1>3, <1>4, StartOfConcatenation, ZenonT(60)
  <2> HIDE DEF bytes
  <2>2. 1 \in 1 .. n + 1 /\ \A i \in 2 .. n + 1 : i \in 1 .. n + 1  BY <1>1
  <2>3. bytes[1] = coded[1]  BY <2>1, <2>2, Zenon
  <2>4. bytes[1] = LeadMark(n) + LeadValue(number, n)  BY <2>3, <1>3, Zenon
  <2>5. \A i \in 2 .. n + 1 : bytes[i] = 128 + number[n + 2 - i]
    BY <2>1, <2>2, <1>3, ZenonT(60)
  <2>6. TailBytes(bytes[1]) = n  BY <2>3, <1>3, Zenon
  <2>7. ReadNumber(bytes) = number
    BY <1>1, <2>4, <2>5, <2>6, CodedNumberRead, ZenonT(60)
  <2>8. QED  BY <2>7 DEF bytes
<1>6. QED  BY <1>2, <1>5, Zenon

-----------------------------------------------------------------------------
\* The coded number states its own length.
LEMMA CodedShape ==
  ASSUME NEW number \in FrameNumbers, Representable(number)
  PROVE  \E n \in 0 .. 6 : /\ CodedNumber(number) \in [1 .. n + 1 -> Nat]
                           /\ TailBytes(CodedNumber(number)[1]) = n
<1> DEFINE n == CodeLength(number)
           coded == BytesOf(number, n)
<1>1. n \in 0 .. 6 /\ Fits(number, n)  BY LengthFits
<1>2. CodedNumber(number) = coded  BY DEF CodedNumber, BytesOf
<1> HIDE DEF n
<1>3. coded \in [1 .. n + 1 -> Nat] /\ TailBytes(coded[1]) = n  BY <1>1, BytesTyped, Zenon
<1>4. QED  BY <1>1, <1>2, <1>3, Zenon

LEMMA DivMod ==
  ASSUME NEW B \in Nat \ {0}, NEW a \in Nat
  PROVE  a \div B \in Nat /\ a % B \in Nat /\ a % B < B /\ a = B * (a \div B) + (a % B)
OBVIOUS

LEMMA DivSmall ==
  ASSUME NEW B \in Nat \ {0}, NEW a \in Nat, a < B * B
  PROVE  a \div B \in Nat /\ a \div B < B
<1> DEFINE q == a \div B
           r == a % B
<1>1. q \in Nat /\ r \in Nat /\ a = B * q + r  BY DivMod
<1> HIDE DEF q, r
<1>2. ASSUME q >= B PROVE FALSE
  <2>1. B * q >= B * B  BY <1>1, <1>2, Z3
  <2>2. QED  BY <1>1, <2>1
<1>3. q \in Nat /\ q < B  BY <1>1, <1>2
<1>4. QED  BY <1>3 DEF q

LEMMA ModSmall ==
  ASSUME NEW B \in Nat \ {0}, NEW a \in Nat, a < B
  PROVE  a % B = a
OBVIOUS

\* What stands after the coded number in the header.
LEMMA EndOfConcatenation ==
  ASSUME NEW k \in Nat, NEW coded \in [1 .. k -> Nat], NEW rest \in Seq(Nat)
  PROVE  \A i \in 1 .. Len(rest) : (coded \o rest)[k + i] = rest[i]
BY SMTT(30)

\* The decoder reads the block size that was coded, in one byte or in two, behind
\* a frame number of any length (block_size_code and write_frame_with_body).
THEOREM SizeReadsBack ==
  ASSUME NEW number \in FrameNumbers, Representable(number),
         NEW size \in Nat, size >= 1, size <= ByteValues * ByteValues, NEW bps
  PROVE  ReadSize(HeaderOf(number, size, bps)) = size
<1> DEFINE coded == CodedNumber(number)
           coding == CodedSize(size)
           made == HeaderOf(number, size, bps)
           a == size - 1
<1>1. PICK n \in 0 .. 6 : coded \in [1 .. n + 1 -> Nat] /\ TailBytes(coded[1]) = n
  BY CodedShape
<1>2. made.blocking = BlockSizeCode(size) /\ made.bytes = coded \o coding
  BY DEF HeaderOf
<1>3. ByteValues \in Nat \ {0}  BY HeadersAssumption
<1>4. a \in Nat /\ a < ByteValues * ByteValues /\ size = a + 1
  <2>1. ByteValues * ByteValues \in Nat  BY <1>3
  <2>2. QED  BY <2>1
<1>5. a % ByteValues \in Nat  BY <1>3, <1>4, DivMod
<1> HIDE DEF coded
<1>6. CASE size <= ByteValues
  <2>1. BlockSizeCode(size) = 6  BY <1>6 DEF BlockSizeCode
  <2>2. coding = <<a % ByteValues>>  BY <2>1 DEF CodedSize
  <2>3. a % ByteValues = a  BY <1>3, <1>4, <1>6, ModSmall
  <2>4. coding \in Seq(Nat) /\ Len(coding) = 1 /\ coding[1] = a  BY <2>2, <2>3, <1>4
  <2> HIDE DEF coding, made, a
  <2>5. made.bytes[1] = coded[1] /\ made.bytes[n + 2] = a
    <3>1. (coded \o coding)[1] = coded[1]  BY <1>1, <2>4, StartOfConcatenation
    <3>2. (coded \o coding)[(n + 1) + 1] = coding[1]
      <4>1. n + 1 \in Nat /\ 1 \in 1 .. Len(coding)  BY <2>4
      <4>2. \A i \in 1 .. Len(coding) : (coded \o coding)[(n + 1) + i] = coding[i]
        BY <1>1, <2>4, <4>1, EndOfConcatenation, Zenon
      <4>3. QED  BY <4>1, <4>2, Zenon
    <3>3. (n + 1) + 1 = n + 2  OBVIOUS
    <3>4. QED  BY <1>2, <2>4, <3>1, <3>2, <3>3
  <2>6. QED  BY <1>1, <1>2, <1>4, <2>1, <2>5 DEF ReadSize, made
<1>7. CASE ~(size <= ByteValues)
  <2> DEFINE q == a \div ByteValues
  <2>1. BlockSizeCode(size) = 7  BY <1>7 DEF BlockSizeCode
  <2>2. coding = <<q % ByteValues, a % ByteValues>>  BY <2>1 DEF CodedSize
  <2>3. q \in Nat /\ q < ByteValues  BY <1>3, <1>4, DivSmall
  <2>4. q % ByteValues = q  BY <1>3, <2>3, ModSmall
  <2>5. /\ coding \in Seq(Nat) /\ Len(coding) = 2
        /\ coding[1] = q /\ coding[2] = a % ByteValues
    BY <2>2, <2>3, <2>4, <1>5
  <2>6. a = ByteValues * q + (a % ByteValues)  BY <1>3, <1>4, DivMod
  <2> HIDE DEF coding, made, a, q
  <2>7. /\ made.bytes[1] = coded[1]
        /\ made.bytes[n + 2] = q /\ made.bytes[(n + 2) + 1] = a % ByteValues
    <3>1. (coded \o coding)[1] = coded[1]  BY <1>1, <2>5, StartOfConcatenation
    <3>2. /\ (coded \o coding)[(n + 1) + 1] = coding[1]
          /\ (coded \o coding)[(n + 1) + 2] = coding[2]
      <4>1. n + 1 \in Nat /\ 1 \in 1 .. Len(coding) /\ 2 \in 1 .. Len(coding)  BY <2>5
      <4>2. \A i \in 1 .. Len(coding) : (coded \o coding)[(n + 1) + i] = coding[i]
        BY <1>1, <2>5, <4>1, EndOfConcatenation, Zenon
      <4>3. QED  BY <4>1, <4>2, Zenon
    <3>3. (n + 1) + 1 = n + 2 /\ (n + 1) + 2 = (n + 2) + 1  OBVIOUS
    <3>4. QED  BY <1>2, <2>5, <3>1, <3>2, <3>3
  <2>8. ReadSize(made) = q * ByteValues + (a % ByteValues) + 1
    <3>1. TailBytes(made.bytes[1]) + 2 = n + 2  BY <1>1, <2>7
    <3>2. made.blocking # 6  BY <1>2, <2>1
    <3>3. ReadSize(made) =
            made.bytes[n + 2] * ByteValues + made.bytes[(n + 2) + 1] + 1
      BY <3>1, <3>2, Zenon DEF ReadSize
    <3>4. QED  BY <2>7, <3>3, Zenon
  <2>9. q * ByteValues = ByteValues * q  BY <1>3, <2>3
  <2>10. QED  BY <1>3, <1>4, <1>5, <2>3, <2>6, <2>8, <2>9 DEF made
<1>8. QED  BY <1>6, <1>7
------------------------------------------------------------------------------

\* A written frame carries the header of its own block, checked before it left.
HeaderInv ==
  /\ info \in Infos
  /\ samples \in Seq(SampleValues)
  /\ outcome = "written" =>
       /\ header = HeaderOf(info.number, Len(samples), info.bps)
       /\ HeaderWritable(info.number, Len(samples), info.bps)

LEMMA EmitKeeps ==
  ASSUME HeaderInv, NEW sub, NEW returned, Emit(sub, returned)
  PROVE  HeaderInv'
<1>1. CASE /\ outcome' = "written"
           /\ HeaderWritable(info.number, Len(samples), info.bps)
           /\ header' = HeaderOf(info.number, Len(samples), info.bps)
           /\ UNCHANGED <<info, samples>>
  BY <1>1 DEF HeaderInv
<1>2. CASE Reject
  BY <1>2 DEF HeaderInv, Reject
<1>3. QED  BY <1>1, <1>2 DEF Emit, EmitWrites

LEMMA RejectKeeps ==
  ASSUME HeaderInv, Reject
  PROVE  HeaderInv'
BY DEF HeaderInv, Reject

LEMMA HeaderInvInductive ==
  ASSUME HeaderInv, [Next]_vars
  PROVE  HeaderInv'
<1>1. CASE PushSample
  <2>1. PICK x \in SampleValues : samples' = Append(samples, x)  BY <1>1 DEF PushSample
  <2>2. samples' \in Seq(SampleValues)  BY <2>1 DEF HeaderInv
  <2>3. QED  BY <1>1, <2>2 DEF HeaderInv, PushSample
<1>2. ASSUME NEW profile \in Profiles, WriteBest(profile) PROVE HeaderInv'
  <2>1. (\E found : EmitOwn(BestSubframe(profile, found)))
          \/ Reject
    BY <1>2 DEF WriteBest
  <2>2. QED  BY <2>1, EmitKeeps, RejectKeeps DEF EmitOwn
<1>3. ASSUME NEW s \in Selections, WriteSelected(s) PROVE HeaderInv'
  <2>1. EmitOwn(SelectedSubframe(s)) \/ Reject
    BY <1>3 DEF WriteSelected
  <2>2. QED  BY <2>1, EmitKeeps, RejectKeeps DEF EmitOwn
<1>4. ASSUME NEW s \in Selections, WriteSelectedWithDecision(s) PROVE HeaderInv'
  <2>1. (\E d : Emit(SelectedSubframe(s), d)) \/ Reject
    BY <1>4 DEF WriteSelectedWithDecision
  <2>2. QED  BY <2>1, EmitKeeps, RejectKeeps
<1>5. CASE NextFrame
  BY <1>5 DEF HeaderInv, NextFrame
<1>6. CASE UNCHANGED vars
  BY <1>6 DEF HeaderInv, vars
<1>7. QED  BY <1>1, <1>2, <1>3, <1>4, <1>5, <1>6 DEF Next

LEMMA BitsPerSampleReadsBack ==
  ASSUME NEW number, NEW size, NEW bps, HeaderWritable(number, size, bps)
  PROVE  ReadBitsPerSample(HeaderOf(number, size, bps)) = bps
<1>1. HeaderOf(number, size, bps).bps = BitsPerSampleCode(bps)  BY DEF HeaderOf
<1>2. bps \in {8, 12, 16, 20, 24, 32}  BY DEF HeaderWritable
<1>3. QED  BY <1>1, <1>2 DEF ReadBitsPerSample, BitsPerSampleCode

\* From any written frame's header a decoder reads the frame's number, its block
\* size and its sample width (write_frame_with_body).
THEOREM HeadersReadBack == Spec => []HeaderReadsBack
<1>1. Init => HeaderInv
  BY DEF Init, HeaderInv
<1>2. HeaderInv /\ [Next]_vars => HeaderInv'
  BY HeaderInvInductive
<1>3. HeaderInv => HeaderReadsBack
  <2> SUFFICES ASSUME HeaderInv, outcome = "written"
               PROVE  /\ ReadNumber(header.bytes) = info.number
                      /\ ReadSize(header) = Len(samples)
                      /\ ReadBitsPerSample(header) = info.bps
    BY DEF HeaderReadsBack
  <2>1. info.number \in FrameNumbers  BY WriterAssumption DEF HeaderInv
  <2>2. /\ Representable(info.number)
        /\ Len(samples) \in Nat /\ Len(samples) >= 1
        /\ Len(samples) <= ByteValues * ByteValues
    BY DEF HeaderInv, HeaderWritable
  <2>3. header = HeaderOf(info.number, Len(samples), info.bps)  BY DEF HeaderInv
  <2>4. HeaderWritable(info.number, Len(samples), info.bps)  BY DEF HeaderInv
  <2>5. ReadNumber(header.bytes) = info.number
    <3>1. CodedSize(Len(samples)) \in Seq(Nat)
      <4>1. ByteValues \in Nat \ {0}  BY HeadersAssumption
      <4>2. Len(samples) - 1 \in Nat  BY <2>2
      <4>3. (Len(samples) - 1) % ByteValues \in Nat
            /\ ((Len(samples) - 1) \div ByteValues) \in Nat
        BY <4>1, <4>2, DivMod
      <4>4. ((Len(samples) - 1) \div ByteValues) % ByteValues \in Nat
        BY <4>1, <4>3, DivMod
      <4>5. QED  BY <4>3, <4>4 DEF CodedSize
    <3>2. header.bytes = CodedNumber(info.number) \o CodedSize(Len(samples))
      BY <2>3 DEF HeaderOf
    <3>3. QED  BY <2>1, <2>2, <3>1, <3>2, NumberReadsBack, Zenon
  <2>6. ReadSize(header) = Len(samples)
    BY <2>1, <2>2, <2>3, SizeReadsBack, Zenon
  <2>7. ReadBitsPerSample(header) = info.bps
    BY <2>3, <2>4, BitsPerSampleReadsBack, Zenon
  <2>8. QED  BY <2>5, <2>6, <2>7
<1>4. QED  BY <1>1, <1>2, <1>3, PTL DEF Spec

-----------------------------------------------------------------------------
(* Induction over data: a counterexample would have a least one.           *)

\* A set of numbers that is not empty has a least one.
LEMMA LeastNumber ==
  ASSUME NEW T, T \subseteq Nat, T # {}
  PROVE  \E x \in T : \A y \in T : x <= y
<1>1. PICK x \in T : \A y \in T : ~(<<y, x>> \in OpToRel(<, Nat))
  BY NatLessThanWellFounded, WFMin, Zenon
<1>2. ASSUME NEW y \in T PROVE x <= y
  <2>1. x \in Nat /\ y \in Nat  OBVIOUS
  <2>2. ~(y < x)  BY <1>1, <2>1 DEF OpToRel
  <2>3. QED  BY <2>1, <2>2
<1>3. QED  BY <1>2

\* A set that has 1, and with a number below n the next one, has them all to n.
LEMMA NumbersTo ==
  ASSUME NEW n \in Nat, NEW T, 1 \in T, \A k \in 1 .. n - 1 : k \in T => k + 1 \in T
  PROVE  1 .. n \subseteq T
<1> DEFINE Missing == {k \in 1 .. n : k \notin T}
<1>1. CASE Missing = {}  BY <1>1
<1>2. CASE Missing # {}
  <2>1. PICK x \in Missing : \A y \in Missing : x <= y
    BY <1>2, LeastNumber, Missing \subseteq Nat
  <2>2. x # 1 /\ x \in 1 .. n  OBVIOUS
  <2>3. x - 1 \in 1 .. n - 1 /\ x - 1 \notin Missing  BY <2>1, <2>2
  <2>4. x - 1 \in T  BY <2>3
  <2>5. (x - 1) + 1 \in T  BY <2>3, <2>4
  <2>6. QED  BY <2>2, <2>5
<1>3. QED  BY <1>1, <1>2

\* A set of numbers up to n that is not empty has a largest one.
LEMMA LargestNumber ==
  ASSUME NEW n \in Nat, NEW T, T \subseteq 0 .. n, T # {}
  PROVE  Max(T) \in T /\ \A y \in T : Max(T) >= y
<1> DEFINE Below == {k \in 0 .. n : n - k \in T}
<1>1. Below \subseteq Nat /\ Below # {}
  <2>1. PICK y \in T : TRUE  OBVIOUS
  <2>2. n - y \in 0 .. n /\ n - (n - y) = y  BY <2>1
  <2>3. n - y \in Below  BY <2>1, <2>2
  <2>4. Below \subseteq Nat  OBVIOUS
  <2>5. QED  BY <2>3, <2>4, Zenon
<1>2. PICK k \in Below : \A j \in Below : k <= j  BY <1>1, LeastNumber
<1>3. ASSUME NEW y \in T PROVE n - k >= y
  <2>1. n - y \in 0 .. n /\ n - (n - y) = y  OBVIOUS
  <2>2. n - y \in Below  BY <2>1
  <2>3. k <= n - y  BY <1>2, <2>2
  <2>4. QED  BY <1>2, <2>3
<1>4. n - k \in T  BY <1>2
<1>5. QED  BY <1>3, <1>4 DEF Max

\* Conversely, what is in the set and not below any other is its maximum.
LEMMA MaxIs ==
  ASSUME NEW T, T \subseteq Int, NEW m \in T, \A y \in T : m >= y
  PROVE  Max(T) = m
<1>1. Max(T) \in T /\ \A y \in T : Max(T) >= y  BY DEF Max
<1>2. PICK z : z = Max(T)  OBVIOUS
<1>3. z \in Int /\ m \in Int /\ z >= m /\ m >= z  BY <1>1, <1>2
<1>4. z = m  BY <1>3
<1>5. QED  BY <1>2, <1>4

LEMMA MinIs ==
  ASSUME NEW T, T \subseteq Int, NEW m \in T, \A y \in T : m <= y
  PROVE  Min(T) = m
<1>1. Min(T) \in T /\ \A y \in T : Min(T) <= y  BY DEF Min
<1>2. PICK z : z = Min(T)  OBVIOUS
<1>3. z \in Int /\ m \in Int /\ z <= m /\ m <= z  BY <1>1, <1>2
<1>4. z = m  BY <1>3
<1>5. QED  BY <1>2, <1>4

LEMMA LastOfSet ==
  ASSUME NEW k \in Nat, NEW s, s \subseteq 1 .. k + 1
  PROVE  /\ k + 1 \in s => Max(s) = k + 1 /\ s \ {Max(s)} \subseteq 1 .. k
         /\ k + 1 \notin s => s \subseteq 1 .. k
         /\ s # {} => Max(s) \in s
<1>1. k + 1 \in s => Max(s) = k + 1
  <2>1. s \subseteq Int /\ k + 1 \in Int /\ \A y \in s : k + 1 >= y  OBVIOUS
  <2>2. QED  BY ONLY <2>1, MaxIs
<1>2. s # {} => Max(s) \in s
  BY LargestNumber, k + 1 \in Nat, s \subseteq 0 .. k + 1
<1>3. k + 1 \in s => s \ {k + 1} \subseteq 1 .. k  OBVIOUS
<1>4. k + 1 \notin s => s \subseteq 1 .. k  OBVIOUS
<1>5. QED  BY <1>1, <1>2, <1>3, <1>4, Zenon

-----------------------------------------------------------------------------
(* FoldLeft recurses on the sets of places that remain.                    *)

Folds(g, f, base, x, n) ==
  g = [s \in SUBSET (1 .. n) |->
         IF s = {} THEN base ELSE f[<<g[s \ {Max(s)}], x[Max(s)]>>]]

LEMMA FoldsExist ==
  ASSUME NEW f, NEW base, NEW x, NEW n \in Nat
  PROVE  \E g : Folds(g, f, base, x, n)
<1> DEFINE T == {k \in 1 .. n + 1 : \E g : Folds(g, f, base, x, k - 1)}
<1>1. 1 \in T
  <2> DEFINE g == [s \in SUBSET (1 .. 0) |-> base]
  <2>1. ASSUME NEW s \in SUBSET (1 .. 0) PROVE s = {}  OBVIOUS
  <2>2. g = [s \in SUBSET (1 .. 0) |->
               IF s = {} THEN base ELSE f[<<g[s \ {Max(s)}], x[Max(s)]>>]]
    <3> HIDE DEF g
    <3>1. g = [s \in SUBSET (1 .. 0) |-> base]  BY DEF g
    <3>2. QED  BY <2>1, <3>1
  <2>3. Folds(g, f, base, x, 0)  BY <2>2, Zenon DEF Folds
  <2>4. QED  BY <2>3
<1>2. ASSUME NEW k \in 1 .. (n + 1) - 1, k \in T PROVE k + 1 \in T
  <2>1. PICK g : Folds(g, f, base, x, k - 1)  BY <1>2
  <2>2. PICK j \in Nat : j = k - 1 /\ k = j + 1  BY k - 1 \in Nat
  <2>3. g = [s \in SUBSET (1 .. j) |->
               IF s = {} THEN base ELSE f[<<g[s \ {Max(s)}], x[Max(s)]>>]]
    BY <2>1, <2>2, Zenon DEF Folds
  <2> DEFINE h == [s \in SUBSET (1 .. j + 1) |->
                     IF j + 1 \in s THEN f[<<g[s \ {j + 1}], x[j + 1]>>] ELSE g[s]]
  <2>4. ASSUME NEW s \in SUBSET (1 .. j + 1)
        PROVE  h[s] = IF s = {} THEN base ELSE f[<<h[s \ {Max(s)}], x[Max(s)]>>]
    <3>1. CASE j + 1 \in s
      <4>1. Max(s) = j + 1 /\ s \ {Max(s)} \in SUBSET (1 .. j)  BY <3>1, LastOfSet
      <4>2. s \ {Max(s)} \in SUBSET (1 .. j + 1) /\ j + 1 \notin s \ {Max(s)}
        BY <4>1
      <4>3. h[s \ {Max(s)}] = g[s \ {j + 1}]  BY <4>1, <4>2
      <4>4. h[s] = f[<<g[s \ {j + 1}], x[j + 1]>>]  BY <3>1
      <4>5. QED  BY <3>1, <4>1, <4>3, <4>4
    <3>2. CASE j + 1 \notin s /\ s # {}
      <4>1. s \in SUBSET (1 .. j) /\ Max(s) \in s  BY <3>2, LastOfSet
      <4>2. s \ {Max(s)} \in SUBSET (1 .. j + 1) /\ j + 1 \notin s \ {Max(s)}
        BY <4>1, <3>2
      <4>3. h[s] = g[s] /\ h[s \ {Max(s)}] = g[s \ {Max(s)}]  BY <3>2, <4>2
      <4>4. g[s] = f[<<g[s \ {Max(s)}], x[Max(s)]>>]  BY <2>3, <3>2, <4>1
      <4>5. QED  BY <3>2, <4>3, <4>4
    <3>3. CASE s = {}
      <4>1. {} \in SUBSET (1 .. j) /\ j + 1 \notin {}  OBVIOUS
      <4>2. g[{}] = base  BY <2>3, <4>1
      <4>3. h[{}] = g[{}]  BY <3>3, <4>1
      <4>4. QED  BY <3>3, <4>2, <4>3
    <3>4. QED  BY <3>1, <3>2, <3>3
  <2>5. h = [s \in SUBSET (1 .. j + 1) |-> h[s]]  OBVIOUS
  <2> HIDE DEF h
  <2>6. h = [s \in SUBSET (1 .. j + 1) |->
               IF s = {} THEN base ELSE f[<<h[s \ {Max(s)}], x[Max(s)]>>]]
    BY <2>4, <2>5
  <2>7. Folds(h, f, base, x, j + 1)  BY <2>6, Zenon DEF Folds
  <2>8. j + 1 = (k + 1) - 1 /\ k + 1 \in 1 .. n + 1  BY <2>2
  <2>9. Folds(h, f, base, x, (k + 1) - 1)  BY <2>7, <2>8
  <2>10. QED  BY <2>8, <2>9
<1>3. n + 1 \in T  BY <1>1, <1>2, NumbersTo, n + 1 \in Nat, n + 1 \in 1 .. n + 1
<1>4. (n + 1) - 1 = n  OBVIOUS
<1>5. QED  BY <1>3, <1>4

\* What a step keeps from one set to the next holds of every set.
LEMMA SetsKeep ==
  ASSUME NEW n \in Nat, NEW g, NEW X, g[{}] \in X,
         \A s \in SUBSET (1 .. n) : s # {} /\ g[s \ {Max(s)}] \in X => g[s] \in X
  PROVE  \A s \in SUBSET (1 .. n) : g[s] \in X
<1> DEFINE T == {k \in 1 .. n + 1 : \A s \in SUBSET (1 .. k - 1) : g[s] \in X}
<1>1. 1 \in T
  <2>1. ASSUME NEW s \in SUBSET (1 .. 1 - 1) PROVE g[s] \in X
    <3>1. s = {}  OBVIOUS
    <3>2. QED  BY <3>1
  <2>2. 1 \in 1 .. n + 1  OBVIOUS
  <2>3. QED  BY <2>1, <2>2, Zenon
<1>2. ASSUME NEW k \in 1 .. (n + 1) - 1, k \in T PROVE k + 1 \in T
  <2>1. PICK j \in Nat : j = k - 1 /\ k = j + 1 /\ j + 1 = (k + 1) - 1 /\ j + 1 <= n
    BY k - 1 \in Nat
  <2>2. ASSUME NEW s \in SUBSET (1 .. j + 1) PROVE g[s] \in X
    <3>1. CASE j + 1 \in s
      <4>1. Max(s) = j + 1 /\ s \ {Max(s)} \in SUBSET (1 .. j)  BY <3>1, LastOfSet
      <4>2. g[s \ {Max(s)}] \in X  BY <1>2, <2>1, <4>1
      <4>3. s # {} /\ s \in SUBSET (1 .. n)  BY <2>1, <3>1
      <4>4. QED  BY <4>2, <4>3
    <3>2. CASE j + 1 \notin s
      <4>1. s \in SUBSET (1 .. j)  BY <3>2, LastOfSet
      <4>2. QED  BY <1>2, <2>1, <4>1
    <3>3. QED  BY <3>1, <3>2
  <2>3. k + 1 \in 1 .. n + 1  OBVIOUS
  <2>4. QED  BY <2>1, <2>2, <2>3
<1>3. n + 1 \in T
  <2> HIDE DEF T
  <2>1. QED  BY <1>1, <1>2, NumbersTo, n + 1 \in Nat, n + 1 \in 1 .. n + 1
<1>4. (n + 1) - 1 = n  OBVIOUS
<1>5. QED  BY <1>3, <1>4

\* A set of places that is not empty has a last one, and it is one of the places.
LEMMA LastPlace ==
  ASSUME NEW n \in Nat, NEW s \in SUBSET (1 .. n), s # {}
  PROVE  Max(s) \in 1 .. n /\ s \ {Max(s)} \in SUBSET (1 .. n)
<1>1. s \subseteq 0 .. n  OBVIOUS
<1>2. Max(s) \in s  BY <1>1, LargestNumber
<1>3. QED  BY <1>2

\* Steps stay in X; what g says of a set follows from what it says of one less.
Steps(f, x, n, X) == \A k \in 1 .. n : \A v \in X : f[<<v, x[k]>>] \in X

Follows(g, f, base, x, n, X) ==
  /\ g[{}] = base
  /\ \A s \in SUBSET (1 .. n) :
       s # {} /\ g[s \ {Max(s)}] \in X => g[s] = f[<<g[s \ {Max(s)}], x[Max(s)]>>]

Table(H, f, base, x, n) ==
  H[0] = base /\ \A k \in 1 .. n : H[k] = f[<<H[k - 1], x[k]>>]

LEMMA FoldsTyped ==
  ASSUME NEW n \in Nat, NEW f, NEW base, NEW x, NEW g, Folds(g, f, base, x, n),
         NEW X, base \in X, Steps(f, x, n, X)
  PROVE  Follows(g, f, base, x, n, X) /\ \A s \in SUBSET (1 .. n) : g[s] \in X
<1>1. g = [s \in SUBSET (1 .. n) |->
             IF s = {} THEN base ELSE f[<<g[s \ {Max(s)}], x[Max(s)]>>]]
  BY Zenon DEF Folds
<1>2. g[{}] = base  BY <1>1, {} \in SUBSET (1 .. n)
<1>3. \A s \in SUBSET (1 .. n) : s # {} => g[s] = f[<<g[s \ {Max(s)}], x[Max(s)]>>]
  BY <1>1
<1>4. ASSUME NEW s \in SUBSET (1 .. n), s # {} /\ g[s \ {Max(s)}] \in X PROVE g[s] \in X
  <2>1. Max(s) \in 1 .. n  BY <1>4, LastPlace
  <2>2. QED  BY <1>3, <1>4, <2>1 DEF Steps
<1>5. \A s \in SUBSET (1 .. n) : g[s] \in X  BY <1>2, <1>4, SetsKeep
<1>6. QED  BY <1>2, <1>3, <1>5 DEF Follows

\* The values of a fold, one place after the other.
LEMMA FoldTable ==
  ASSUME NEW n \in Nat, NEW f, NEW base, NEW x, NEW X, base \in X, Steps(f, x, n, X),
         NEW g, Follows(g, f, base, x, n, X)
  PROVE  \E H \in [0 .. n -> X] : Table(H, f, base, x, n) /\ g[1 .. n] = H[n]
<1>0. /\ g[{}] = base
      /\ \A s \in SUBSET (1 .. n) :
           s # {} /\ g[s \ {Max(s)}] \in X => g[s] = f[<<g[s \ {Max(s)}], x[Max(s)]>>]
  BY DEF Follows
<1>1. ASSUME NEW s \in SUBSET (1 .. n), s # {} /\ g[s \ {Max(s)}] \in X PROVE g[s] \in X
  <2>1. Max(s) \in 1 .. n  BY <1>1, LastPlace
  <2>2. QED  BY <1>0, <1>1, <2>1 DEF Steps
<1>2. \A s \in SUBSET (1 .. n) : g[s] \in X  BY <1>0, <1>1, SetsKeep
<1> DEFINE H == [k \in 0 .. n |-> g[1 .. k]]
<1>3. H \in [0 .. n -> X]
  <2>1. \A k \in 0 .. n : 1 .. k \in SUBSET (1 .. n)  OBVIOUS
  <2>2. QED  BY <1>2, <2>1
<1>4. H[0] = base
  <2>1. 1 .. 0 = {}  OBVIOUS
  <2>2. QED  BY <1>0, <2>1
<1>5. ASSUME NEW k \in 1 .. n PROVE H[k] = f[<<H[k - 1], x[k]>>]
  <2>1. k - 1 \in 0 .. n /\ k \in 1 .. k  OBVIOUS
  <2>2. Max(1 .. k) = k
    <3>1. 1 .. k \subseteq Int /\ k \in 1 .. k /\ \A y \in 1 .. k : k >= y  OBVIOUS
    <3>2. QED  BY ONLY <3>1, MaxIs
  <2>3. (1 .. k) \ {k} = 1 .. k - 1  OBVIOUS
  <2>4. 1 .. k - 1 \in SUBSET (1 .. n) /\ 1 .. k \in SUBSET (1 .. n)  OBVIOUS
  <2>5. g[1 .. k] = f[<<g[1 .. k - 1], x[k]>>]
    <3>1. PICK s : s = 1 .. k  OBVIOUS
    <3>2. s # {} /\ s \in SUBSET (1 .. n) /\ s \ {Max(s)} = 1 .. k - 1
      BY <2>1, <2>2, <2>3, <2>4, <3>1
    <3>3. g[s \ {Max(s)}] \in X  BY <1>2, <2>4, <3>2
    <3>4. QED  BY <1>0, <2>2, <3>1, <3>2, <3>3
  <2>6. QED  BY <2>1, <2>5
<1>6. g[1 .. n] = H[n]  OBVIOUS
<1>7. Table(H, f, base, x, n)  BY <1>4, <1>5 DEF Table
<1>8. QED  BY <1>3, <1>6, <1>7

-----------------------------------------------------------------------------
(* Sums.                                                                   *)

LEMMA SumTable ==
  ASSUME NEW n \in Nat, NEW x \in [1 .. n -> Int]
  PROVE  \E H \in [0 .. n -> Int] :
           /\ H[0] = 0 /\ SumSeq(x) = H[n]
           /\ \A k \in 1 .. n : H[k] = H[k - 1] + x[k]
<1> DEFINE f == [p \in Int \X Int |-> p[1] + p[2]]
           Adds(g) == g = [s \in SUBSET (1 .. n) |->
                             IF s = {} THEN 0 ELSE g[s \ {Max(s)}] + x[Max(s)]]
           iter == CHOOSE g : Adds(g)
<1>1. \A a, b \in Int : f[<<a, b>>] = a + b  OBVIOUS
<1> HIDE DEF f
<1>2. PICK X, zero : X = Int /\ zero = 0  OBVIOUS
<1>3. zero \in X /\ Steps(f, x, n, X)
  <2>1. ASSUME NEW k \in 1 .. n, NEW v \in X PROVE f[<<v, x[k]>>] \in X
    <3>1. x[k] \in Int /\ v \in Int  BY <1>2
    <3>2. f[<<v, x[k]>>] = v + x[k]  BY <1>1, <3>1
    <3>3. QED  BY <1>2, <3>1, <3>2
  <2>2. QED  BY <1>2, <2>1 DEF Steps
<1>4. \E g : Adds(g)
  <2>1. PICK g : Folds(g, f, zero, x, n)  BY FoldsExist
  <2>2. Follows(g, f, zero, x, n, X) /\ \A s \in SUBSET (1 .. n) : g[s] \in X
    BY <1>3, <2>1, FoldsTyped
  <2>3. ASSUME NEW s \in SUBSET (1 .. n), s # {}
        PROVE  g[s] = g[s \ {Max(s)}] + x[Max(s)]
    <3>1. Max(s) \in 1 .. n /\ s \ {Max(s)} \in SUBSET (1 .. n)  BY <2>3, LastPlace
    <3>2. x[Max(s)] \in Int /\ g[s \ {Max(s)}] \in Int  BY <1>2, <2>2, <3>1
    <3>3. g[s] = f[<<g[s \ {Max(s)}], x[Max(s)]>>]  BY <2>2, <2>3, <3>1 DEF Follows
    <3>4. QED  BY <1>1, <3>2, <3>3
  <2>4. g = [s \in SUBSET (1 .. n) |-> g[s]]  BY <2>1 DEF Folds
  <2>5. g[{}] = 0  BY <1>2, <2>2 DEF Follows
  <2>6. Adds(g)  BY <2>3, <2>4, <2>5
  <2>7. QED  BY <2>6
<1>5. Adds(iter)  BY <1>4, Zenon
<1>6. SumSeq(x) = iter[1 .. n]
  <2>1. DOMAIN x = 1 .. n  OBVIOUS
  <2>2. QED  BY <2>1, Zenon DEF SumSeq, FoldLeft, MapThenFoldSet
<1> HIDE DEF iter
<1>7. iter = [s \in SUBSET (1 .. n) |->
                IF s = {} THEN 0 ELSE iter[s \ {Max(s)}] + x[Max(s)]]
  BY <1>5
<1>8. Follows(iter, f, zero, x, n, X)
  <2>1. iter[{}] = zero  BY <1>2, <1>7, {} \in SUBSET (1 .. n)
  <2>2. ASSUME NEW s \in SUBSET (1 .. n), s # {} /\ iter[s \ {Max(s)}] \in X
        PROVE  iter[s] = f[<<iter[s \ {Max(s)}], x[Max(s)]>>]
    <3>1. Max(s) \in 1 .. n  BY <2>2, LastPlace
    <3>2. x[Max(s)] \in Int  BY <3>1
    <3>3. iter[s] = iter[s \ {Max(s)}] + x[Max(s)]  BY <1>7, <2>2
    <3>4. QED  BY <1>1, <1>2, <2>2, <3>2, <3>3
  <2>3. QED  BY <2>1, <2>2 DEF Follows
<1>9. PICK H \in [0 .. n -> X] : Table(H, f, zero, x, n) /\ iter[1 .. n] = H[n]
  BY <1>3, <1>8, FoldTable
<1>10. ASSUME NEW k \in 1 .. n PROVE H[k] = H[k - 1] + x[k]
  <2>1. k - 1 \in 0 .. n  OBVIOUS
  <2>2. H[k - 1] \in Int /\ x[k] \in Int  BY <1>2, <1>9, <2>1
  <2>3. QED  BY <1>1, <1>9, <2>2 DEF Table
<1>11. H[0] = 0  BY <1>2, <1>9 DEF Table
<1>12. QED  BY <1>2, <1>6, <1>9, <1>10, <1>11

\* Whatever is added up place by place is the sum.
LEMMA SumIs ==
  ASSUME NEW n \in Nat, NEW x \in [1 .. n -> Int], NEW G, G[0] = 0,
         \A k \in 1 .. n : G[k] = G[k - 1] + x[k]
  PROVE  SumSeq(x) = G[n]
<1>1. PICK H \in [0 .. n -> Int] :
        /\ H[0] = 0 /\ SumSeq(x) = H[n]
        /\ \A k \in 1 .. n : H[k] = H[k - 1] + x[k]
  BY SumTable
<1> DEFINE T == {k \in 1 .. n + 1 : H[k - 1] = G[k - 1]}
<1>2. 1 \in T  BY <1>1
<1>3. ASSUME NEW k \in 1 .. (n + 1) - 1, k \in T PROVE k + 1 \in T
  <2>1. k \in 1 .. n /\ (k + 1) - 1 = k  OBVIOUS
  <2>2. H[k] = G[k]  BY <1>1, <1>3, <2>1
  <2>3. QED  BY <2>1, <2>2
<1>4. n + 1 \in T
  <2> HIDE DEF T
  <2>1. QED  BY <1>2, <1>3, NumbersTo, n + 1 \in Nat, n + 1 \in 1 .. n + 1
<1>5. (n + 1) - 1 = n  OBVIOUS
<1>6. QED  BY <1>1, <1>4, <1>5

-----------------------------------------------------------------------------
(* The two ways of checking the wasted bits of a selection.                *)

LEMMA PowerTyped ==
  ASSUME NEW n \in 0 .. WordBits
  PROVE  2^n \in Nat \ {0}
BY PowersAssumption

LEMMA PowerOfZero == 2^0 = 1 /\ 2^1 = 2 /\ 2^4 = 16 /\ 2^5 = 32 /\ 2^6 = 64 /\ 2^2 = 4
OBVIOUS

\* A multiple of twice p is one of p; the bit in between tells which it is.
LEMMA Halves ==
  ASSUME NEW v \in Int, NEW p \in Nat \ {0}
  PROVE  /\ (v % (2 * p)) = 0 => (v % p) = 0
         /\ (v % p) = 0 => (((v \div p) % 2) = 1 <=> (v % (2 * p)) # 0)
<1>1. PICK q, r : q = v \div p /\ r = v % p  OBVIOUS
<1>2. q \in Int /\ r \in 0 .. p - 1 /\ v = p * q + r  BY <1>1
<1>3. PICK h, b : h = q \div 2 /\ b = q % 2  OBVIOUS
<1>4. h \in Int /\ b \in 0 .. 1 /\ q = 2 * h + b  BY <1>2, <1>3
<1>5. v = (2 * p) * h + (p * b + r)
  <2>1. p * q = p * (2 * h + b)  BY <1>4
  <2>2. p * (2 * h + b) = (2 * p) * h + p * b  BY <1>4
  <2>3. p * b \in Int /\ (2 * p) * h \in Int  BY <1>4
  <2>4. PICK e, g : e = p * b /\ g = (2 * p) * h  OBVIOUS
  <2>5. p * q = g + e /\ e \in Int /\ g \in Int  BY <2>1, <2>2, <2>3, <2>4
  <2>6. v = g + (e + r)  BY <1>2, <2>5
  <2>7. QED  BY <2>4, <2>6
<1>6. p * b = IF b = 1 THEN p ELSE 0  BY <1>4
<1>7. p * b + r \in 0 .. 2 * p - 1  BY <1>2, <1>6
<1>8. (v % (2 * p)) = p * b + r
  <2>1. PICK d, c : d = 2 * p /\ c = p * b + r  OBVIOUS
  <2>2. d \in Nat \ {0} /\ c \in 0 .. d - 1 /\ v = d * h + c  BY <1>5, <1>7, <2>1
  <2>3. v % d = c  BY <1>4, <2>2
  <2>4. QED  BY <2>1, <2>3
<1>9. QED  BY <1>1, <1>2, <1>3, <1>4, <1>6, <1>8

\* Whatever a power of two divides, the smaller ones divide.
LEMMA LowerPowersDivide ==
  ASSUME NEW v \in Int, NEW n \in 0 .. WordBits, (v % 2^n) = 0, NEW k \in 0 .. n
  PROVE  (v % 2^k) = 0
<1> DEFINE T == {m \in 1 .. n + 1 : (v % 2^(n - (m - 1))) = 0}
<1>0. WordBits \in Nat /\ n \in Nat /\ n <= WordBits  BY SubframesAssumption
<1>1. 1 \in T
  <2>1. n - (1 - 1) = n /\ 1 \in 1 .. n + 1  BY <1>0
  <2>2. QED  BY <2>1
<1>2. ASSUME NEW m \in 1 .. (n + 1) - 1, m \in T PROVE m + 1 \in T
  <2>1. PICK j : j = n - m  OBVIOUS
  <2>2. j \in 0 .. WordBits /\ n - (m - 1) = j + 1 /\ n - ((m + 1) - 1) = j  BY <1>0, <2>1
  <2>3. PICK p \in Nat \ {0} : p = 2^j  BY <2>2, PowerTyped
  <2>4. 2^(j + 1) = 2 * p  BY <2>2, <2>3, PowersAssumption
  <2>5. (v % (2 * p)) = 0  BY <1>2, <2>2, <2>4
  <2>6. (v % p) = 0  BY <2>5, Halves
  <2>7. m + 1 \in 1 .. n + 1  BY <1>0
  <2>8. QED  BY <2>2, <2>3, <2>6, <2>7
<1>3. 1 .. n + 1 \subseteq T
  <2>1. n + 1 \in Nat  BY <1>0
  <2> HIDE DEF T
  <2>2. QED  BY <1>1, <1>2, <2>1, NumbersTo
<1>4. PICK m : m = (n - k) + 1  OBVIOUS
<1>5. m \in 1 .. n + 1 /\ n - (m - 1) = k  BY <1>0, <1>4
<1>6. QED  BY <1>3, <1>5

\* The trailing zero bits are as many as the powers of two that divide the sample.
LEMMA TrailingZeros ==
  ASSUME NEW v \in Int, NEW bps \in 1 .. WordBits
  PROVE  /\ TrailingZeroBits(v, bps) \in 0 .. bps
         /\ \A w \in 0 .. bps - 1 : w <= TrailingZeroBits(v, bps) <=> (v % 2^w) = 0
<1> DEFINE Z == {z \in 0 .. bps - 1 : (v % 2^z) = 0}
<1>0. WordBits \in Nat /\ bps \in Nat /\ bps >= 1 /\ bps <= WordBits  BY SubframesAssumption
<1>1. CASE v = 0
  <2>1. TrailingZeroBits(v, bps) = bps  BY <1>1 DEF TrailingZeroBits
  <2>2. ASSUME NEW w \in 0 .. bps - 1 PROVE (v % 2^w) = 0
    <3>1. w \in 0 .. WordBits  BY <1>0
    <3>2. PICK p \in Nat \ {0} : p = 2^w  BY <3>1, PowerTyped
    <3>3. 0 % p = 0  OBVIOUS
    <3>4. QED  BY <1>1, <3>2, <3>3
  <2>3. QED  BY <1>0, <2>1, <2>2
<1>2. CASE v # 0
  <2>1. TrailingZeroBits(v, bps) = Max(Z)  BY <1>2, Zenon DEF TrailingZeroBits
  <2>2. 0 \in Z
    <3>1. 2^0 = 1
      <4>1. 2^0 \in Nat \ {0}  BY <1>0, PowerTyped
      <4>2. QED  OBVIOUS
    <3>2. v % 1 = 0  OBVIOUS
    <3>3. QED  BY <1>0, <3>1, <3>2
  <2>3. Z \subseteq 0 .. bps - 1  OBVIOUS
  <2>4. \A z \in Z : (v % 2^z) = 0  OBVIOUS
  <2>5. \A w \in 0 .. bps - 1 : (v % 2^w) = 0 => w \in Z  OBVIOUS
  <2> HIDE DEF Z
  <2>6. PICK m : m = Max(Z)  OBVIOUS
  <2>7. m \in Z /\ \A y \in Z : m >= y
    <3>1. PICK n \in Nat : n = bps - 1  BY <1>0
    <3>2. Z \subseteq 0 .. n /\ Z # {}  BY <2>2, <2>3, <3>1
    <3>3. Max(Z) \in Z /\ \A y \in Z : Max(Z) >= y  BY <3>2, LargestNumber
    <3>4. QED  BY <2>6, <3>3
  <2>8. m \in 0 .. bps - 1 /\ m \in 0 .. WordBits  BY <1>0, <2>3, <2>7
  <2>9. ASSUME NEW w \in 0 .. bps - 1 PROVE w <= m <=> (v % 2^w) = 0
    <3>1. ASSUME w <= m PROVE (v % 2^w) = 0
      <4>1. w \in 0 .. m  BY <2>8, <3>1
      <4>2. (v % 2^m) = 0  BY <2>4, <2>7
      <4>3. QED  BY <2>8, <4>1, <4>2, LowerPowersDivide
    <3>2. ASSUME (v % 2^w) = 0 PROVE w <= m
      <4>1. m >= w  BY <2>5, <2>7, <3>2
      <4>2. QED  BY <2>8, <4>1
    <3>3. QED  BY <3>1, <3>2
  <2>10. QED  BY <1>0, <2>1, <2>6, <2>8, <2>9
<1>3. QED  BY <1>1, <1>2

\* The common count is the largest one that divides every sample, below the width.
LEMMA CommonWasted ==
  ASSUME NEW x, NEW bps \in 1 .. WordBits, \A i \in DOMAIN x : x[i] \in Int
  PROVE  /\ CommonWastedBits(x, bps) \in 0 .. bps - 1
         /\ \A i \in DOMAIN x : (x[i] % 2^CommonWastedBits(x, bps)) = 0
         /\ \A w \in 0 .. bps - 1 :
              (\A i \in DOMAIN x : (x[i] % 2^w) = 0) => w <= CommonWastedBits(x, bps)
<1> DEFINE S == {TrailingZeroBits(x[i], bps) : i \in DOMAIN x} \cup {bps - 1}
<1>0. WordBits \in Nat /\ bps \in Nat /\ bps >= 1 /\ bps <= WordBits  BY SubframesAssumption
<1>1. \A i \in DOMAIN x : /\ TrailingZeroBits(x[i], bps) \in 0 .. bps
                          /\ \A w \in 0 .. bps - 1 :
                               w <= TrailingZeroBits(x[i], bps) <=> (x[i] % 2^w) = 0
  BY TrailingZeros
<1>2. S \subseteq Nat /\ bps - 1 \in S  BY <1>0, <1>1
<1>3. CommonWastedBits(x, bps) = Min(S)  BY Zenon DEF CommonWastedBits
<1>4. \A i \in DOMAIN x : TrailingZeroBits(x[i], bps) \in S  OBVIOUS
<1>5. \A m \in S : m = bps - 1 \/ \E i \in DOMAIN x : m = TrailingZeroBits(x[i], bps)
  OBVIOUS
<1> HIDE DEF S
<1>6. PICK m \in S : \A y \in S : m <= y  BY <1>2, LeastNumber
<1>7. Min(S) = m
  <2>1. S \subseteq Int  BY <1>2
  <2>2. QED  BY <1>6, <2>1, MinIs
<1>8. m \in 0 .. bps - 1  BY <1>0, <1>2, <1>6
<1>9. \A i \in DOMAIN x : (x[i] % 2^m) = 0  BY <1>1, <1>4, <1>6, <1>8
<1>10. ASSUME NEW w \in 0 .. bps - 1, \A i \in DOMAIN x : (x[i] % 2^w) = 0
       PROVE  w <= m
  <2>1. \A i \in DOMAIN x : w <= TrailingZeroBits(x[i], bps)  BY <1>1, <1>10
  <2>2. w <= bps - 1  BY <1>0, <1>10
  <2>3. QED  BY <1>5, <2>1, <2>2
<1>11. QED  BY <1>3, <1>7, <1>8, <1>9, <1>10

\* The one-pass check accepts the common count and nothing else.
LEMMA ObservedIsCommon ==
  ASSUME NEW x, NEW bps \in 1 .. WordBits, \A i \in DOMAIN x : x[i] \in Int, NEW w \in Nat
  PROVE  ObservedWastedBits(x, bps, w) <=> CommonWastedBits(x, bps) = w
<1>0. WordBits \in Nat /\ bps \in Nat /\ bps >= 1 /\ bps <= WordBits  BY SubframesAssumption
<1>1. PICK c : c = CommonWastedBits(x, bps)  OBVIOUS
<1>2. /\ c \in 0 .. bps - 1
      /\ \A i \in DOMAIN x : (x[i] % 2^c) = 0
      /\ \A v \in 0 .. bps - 1 : (\A i \in DOMAIN x : (x[i] % 2^v) = 0) => v <= c
  BY <1>1, CommonWasted
<1>3. ASSUME NEW v \in 0 .. bps - 1, \A i \in DOMAIN x : (x[i] % 2^v) = 0,
             NEW i \in DOMAIN x
      PROVE  ((x[i] \div 2^v) % 2) = 1 <=> (x[i] % 2^(v + 1)) # 0
  <2>1. v \in 0 .. WordBits  BY <1>0
  <2>2. PICK p \in Nat \ {0} : p = 2^v  BY <2>1, PowerTyped
  <2>3. 2^(v + 1) = 2 * p  BY <2>1, <2>2, PowersAssumption
  <2>4. x[i] \in Int /\ (x[i] % p) = 0  BY <1>3, <2>2
  <2>5. ((x[i] \div p) % 2) = 1 <=> (x[i] % (2 * p)) # 0  BY <2>4, Halves
  <2>6. QED  BY <2>2, <2>3, <2>5
<1>4. ASSUME ObservedWastedBits(x, bps, w) PROVE c = w
  <2>1. /\ w \in 0 .. bps - 1
        /\ \A i \in DOMAIN x : (x[i] % 2^w) = 0
        /\ w + 1 >= bps \/ \E i \in DOMAIN x : ((x[i] \div 2^w) % 2) = 1
    BY <1>0, <1>4 DEF ObservedWastedBits
  <2>2. w <= c  BY <1>2, <2>1
  <2>3. CASE w + 1 >= bps  BY <1>0, <1>2, <2>1, <2>2, <2>3
  <2>4. ASSUME NEW i \in DOMAIN x, ((x[i] \div 2^w) % 2) = 1 PROVE c = w
    <3>1. (x[i] % 2^(w + 1)) # 0  BY <1>3, <2>1, <2>4
    <3>2. ASSUME w + 1 <= c PROVE FALSE
      <4>1. c \in 0 .. WordBits /\ w + 1 \in 0 .. c  BY <1>0, <1>2, <2>1, <3>2
      <4>2. x[i] \in Int /\ (x[i] % 2^c) = 0  BY <1>2
      <4>3. (x[i] % 2^(w + 1)) = 0  BY <4>1, <4>2, LowerPowersDivide
      <4>4. QED  BY <3>1, <4>3
    <3>3. QED  BY <1>0, <1>2, <2>1, <2>2, <3>2
  <2>5. QED  BY <2>1, <2>3, <2>4
<1>5. ObservedWastedBits(x, bps, c)
  <2>1. c < bps  BY <1>0, <1>2
  <2>2. ASSUME c + 1 < bps PROVE \E i \in DOMAIN x : ((x[i] \div 2^c) % 2) = 1
    <3>1. c + 1 \in 0 .. bps - 1 /\ ~(c + 1 <= c)  BY <1>0, <1>2, <2>2
    <3>2. PICK i \in DOMAIN x : (x[i] % 2^(c + 1)) # 0  BY <1>2, <3>1
    <3>3. QED  BY <1>2, <1>3, <3>2
  <2>3. c + 1 >= bps \/ c + 1 < bps  BY <1>0, <1>2
  <2>4. QED  BY <1>2, <2>1, <2>2, <2>3 DEF ObservedWastedBits
<1>6. QED  BY <1>1, <1>4, <1>5

\* A block that passes the checks has whole samples, of a width that fits a word.
LEMMA ValidBlockTyped ==
  ASSUME HeaderInv, ValidBlock
  PROVE  /\ info.bps \in 1 .. WordBits
         /\ samples \in Seq(Int) /\ Len(samples) \in Nat \ {0}
         /\ DOMAIN samples = 1 .. Len(samples)
         /\ \A i \in DOMAIN samples : samples[i] \in Int /\ FitsBits(samples[i], info.bps)
<1>1. info \in Infos /\ samples \in Seq(SampleValues)  BY DEF HeaderInv
<1>2. info.bps \in {8, 12, 16, 20, 24, 32} /\ samples # <<>>  BY DEF ValidBlock
<1>3. SampleValues \subseteq Int /\ info.bps <= WordBits  BY <1>1, <1>2, WriterAssumption
<1>4. info.bps \in 1 .. WordBits  BY <1>2, <1>3, SubframesAssumption
<1>5. Len(samples) \in Nat /\ samples \in [1 .. Len(samples) -> SampleValues]  BY <1>1
<1>6. Len(samples) # 0
  <2>1. ASSUME Len(samples) = 0 PROVE FALSE  BY <1>1, <1>2, <2>1
  <2>2. QED  BY <2>1
<1>7. samples \in [1 .. Len(samples) -> Int] /\ samples \in Seq(Int)
  <2>1. samples \in [1 .. Len(samples) -> Int]  BY <1>3, <1>5
  <2>2. QED  BY <1>5, <2>1
<1>8. DOMAIN samples = 1 .. Len(samples) /\ \A i \in DOMAIN samples : samples[i] \in Int
  BY <1>7
<1>9. QED  BY <1>4, <1>5, <1>6, <1>7, <1>8 DEF ValidBlock

\* The one-pass validator of the trusted path (SelectedWastedBitsValidator) and the
\* two-pass one (validated_common_wasted_bits) accept the same selections.
THEOREM ValidatorsAlwaysAgree == Spec => []ValidatorsAgree
<1>1. Init => HeaderInv
  BY DEF Init, HeaderInv
<1>2. HeaderInv /\ [Next]_vars => HeaderInv'
  BY HeaderInvInductive
<1>3. HeaderInv => ValidatorsAgree
  <2> SUFFICES ASSUME HeaderInv, NEW s \in Selections
               PROVE  Accepted(s, TRUE) <=> Accepted(s, FALSE)
    BY DEF ValidatorsAgree
  <2>1. ASSUME ValidBlock PROVE WastedBitsMatch(s, TRUE) <=> WastedBitsMatch(s, FALSE)
    <3>1. s.wasted \in Nat  BY SelectionsAssumption
    <3>2. ObservedWastedBits(samples, info.bps, s.wasted)
            <=> CommonWastedBits(samples, info.bps) = s.wasted
      BY <2>1, <3>1, ValidBlockTyped, ObservedIsCommon
    <3>3. QED  BY <3>2 DEF WastedBitsMatch
  <2>2. QED  BY <2>1 DEF Accepted
<1>4. QED  BY <1>1, <1>2, <1>3, PTL DEF Spec

-----------------------------------------------------------------------------
(* More about sums, and about sequences of sequences put end to end.       *)

LEMMA SumTyped ==
  ASSUME NEW n \in Nat, NEW x \in [1 .. n -> Int]
  PROVE  SumSeq(x) \in Int /\ (n = 0 => SumSeq(x) = 0)
<1>1. PICK H \in [0 .. n -> Int] : H[0] = 0 /\ SumSeq(x) = H[n]  BY SumTable
<1>2. QED  BY <1>1

\* Place by place at most as much makes at most as much in all.
LEMMA SumAtMost ==
  ASSUME NEW n \in Nat, NEW x \in [1 .. n -> Int], NEW y \in [1 .. n -> Int],
         \A k \in 1 .. n : x[k] <= y[k]
  PROVE  SumSeq(x) <= SumSeq(y)
<1>1. PICK H \in [0 .. n -> Int] :
        /\ H[0] = 0 /\ SumSeq(x) = H[n]
        /\ \A k \in 1 .. n : H[k] = H[k - 1] + x[k]
  BY SumTable
<1>2. PICK G \in [0 .. n -> Int] :
        /\ G[0] = 0 /\ SumSeq(y) = G[n]
        /\ \A k \in 1 .. n : G[k] = G[k - 1] + y[k]
  BY SumTable
<1> DEFINE T == {k \in 1 .. n + 1 : H[k - 1] <= G[k - 1]}
<1>3. 1 \in T  BY <1>1, <1>2
<1>4. ASSUME NEW k \in 1 .. (n + 1) - 1, k \in T PROVE k + 1 \in T
  <2>1. k \in 1 .. n /\ (k + 1) - 1 = k /\ k - 1 \in 0 .. n /\ k \in 0 .. n  OBVIOUS
  <2>2. H[k - 1] \in Int /\ G[k - 1] \in Int /\ x[k] \in Int /\ y[k] \in Int /\ x[k] <= y[k]
    BY <2>1
  <2>3. H[k - 1] <= G[k - 1]  BY <1>4
  <2>4. H[k] <= G[k]  BY <1>1, <1>2, <2>1, <2>2, <2>3
  <2>5. QED  BY <2>1, <2>4
<1>5. n + 1 \in T
  <2> HIDE DEF T
  <2>1. QED  BY <1>3, <1>4, NumbersTo, n + 1 \in Nat, n + 1 \in 1 .. n + 1
<1>6. (n + 1) - 1 = n  OBVIOUS
<1>7. QED  BY <1>1, <1>2, <1>5, <1>6

LEMMA SumOfEqual ==
  ASSUME NEW n \in Nat, NEW c \in Int, NEW x \in [1 .. n -> Int], \A k \in 1 .. n : x[k] = c
  PROVE  SumSeq(x) = n * c
<1> DEFINE G == [k \in 0 .. n |-> k * c]
<1>1. G[0] = 0 /\ G[n] = n * c  OBVIOUS
<1>2. ASSUME NEW k \in 1 .. n PROVE G[k] = G[k - 1] + x[k]
  <2>1. G[k] = k * c /\ G[k - 1] = (k - 1) * c  OBVIOUS
  <2>2. k * c = (k - 1) * c + c  OBVIOUS
  <2>3. QED  BY <2>1, <2>2
<1> HIDE DEF G
<1>3. SumSeq(x) = G[n]  BY <1>1, <1>2, SumIs
<1>4. QED  BY <1>1, <1>3

LEMMA SumNat ==
  ASSUME NEW n \in Nat, NEW x \in [1 .. n -> Nat]
  PROVE  SumSeq(x) \in Nat
<1>1. PICK zeros \in [1 .. n -> Int] : \A k \in 1 .. n : zeros[k] = 0
  <2>1. [k \in 1 .. n |-> 0] \in [1 .. n -> Int]  OBVIOUS
  <2>2. QED  BY <2>1
<1>2. x \in [1 .. n -> Int] /\ \A k \in 1 .. n : zeros[k] <= x[k]  BY <1>1
<1>3. SumSeq(zeros) = n * 0  BY <1>1, SumOfEqual
<1>4. SumSeq(zeros) <= SumSeq(x)  BY <1>1, <1>2, SumAtMost
<1>5. SumSeq(x) \in Int  BY <1>2, SumTyped
<1>6. QED  BY <1>3, <1>4, <1>5

LEMMA SumOfBoth ==
  ASSUME NEW n \in Nat, NEW m \in Nat, NEW x \in [1 .. n -> Int], NEW y \in [1 .. m -> Int],
         NEW z \in [1 .. n + m -> Int],
         \A k \in 1 .. n : z[k] = x[k], \A k \in 1 .. m : z[n + k] = y[k]
  PROVE  SumSeq(z) = SumSeq(x) + SumSeq(y)
<1>1. PICK H \in [0 .. n -> Int] :
        /\ H[0] = 0 /\ SumSeq(x) = H[n]
        /\ \A k \in 1 .. n : H[k] = H[k - 1] + x[k]
  BY SumTable
<1>2. PICK J \in [0 .. m -> Int] :
        /\ J[0] = 0 /\ SumSeq(y) = J[m]
        /\ \A k \in 1 .. m : J[k] = J[k - 1] + y[k]
  BY SumTable
<1> DEFINE G == [k \in 0 .. n + m |-> IF k <= n THEN H[k] ELSE H[n] + J[k - n]]
<1>3. G[0] = 0  BY <1>1
<1>4. G[n + m] = H[n] + J[m]
  <2>1. CASE m = 0  BY <1>1, <1>2, <2>1
  <2>2. CASE m # 0
    <3>1. ~(n + m <= n) /\ (n + m) - n = m /\ n + m \in 0 .. n + m  BY <2>2
    <3>2. QED  BY <3>1
  <2>3. QED  BY <2>1, <2>2
<1>5. ASSUME NEW k \in 1 .. n + m PROVE G[k] = G[k - 1] + z[k]
  <2>1. CASE k <= n
    <3>1. k \in 1 .. n /\ k - 1 <= n /\ k - 1 \in 0 .. n + m  BY <2>1
    <3>2. QED  BY <1>1, <2>1, <3>1
  <2>2. CASE k = n + 1
    <3>1. k - 1 = n /\ k - n = 1 /\ 1 \in 1 .. m /\ 1 - 1 = 0 /\ n \in 0 .. n + m  BY <2>2
    <3>2. G[k] = H[n] + J[1] /\ G[k - 1] = H[n]  BY <2>2, <3>1
    <3>3. J[1] = J[0] + y[1] /\ y[1] \in Int /\ z[k] = y[1]  BY <1>2, <2>2, <3>1
    <3>4. H[n] \in Int  OBVIOUS
    <3>5. QED  BY <1>2, <3>2, <3>3, <3>4
  <2>3. CASE k > n + 1
    <3>1. PICK j \in 1 .. m : j = k - n  BY <2>3
    <3>2. ~(k <= n) /\ ~(k - 1 <= n) /\ (k - 1) - n = j - 1 /\ k - 1 \in 0 .. n + m
          /\ k = n + j /\ j - 1 \in 0 .. m
      BY <2>3, <3>1
    <3>3. G[k] = H[n] + J[j] /\ G[k - 1] = H[n] + J[j - 1]  BY <3>1, <3>2
    <3>4. J[j] = J[j - 1] + y[j] /\ z[k] = y[j]  BY <1>2, <3>1, <3>2
    <3>5. H[n] \in Int /\ J[j - 1] \in Int /\ y[j] \in Int  BY <3>1, <3>2
    <3> HIDE DEF G
    <3>6. H[n] + J[j] = (H[n] + J[j - 1]) + y[j]
      <4>1. PICK a, b, c : a = H[n] /\ b = J[j - 1] /\ c = y[j]  OBVIOUS
      <4>2. a + (b + c) = (a + b) + c  BY <3>5, <4>1
      <4>3. QED  BY <3>4, <4>1, <4>2
    <3>7. QED  BY <3>3, <3>4, <3>6
  <2>4. QED  BY <2>1, <2>2, <2>3
<1> HIDE DEF G
<1>6. SumSeq(z) = G[n + m]
  <2>1. n + m \in Nat  OBVIOUS
  <2>2. QED  BY <1>3, <1>5, <2>1, SumIs
<1>7. QED  BY <1>1, <1>2, <1>4, <1>6

\* What is put end to end, one sequence after the other.
EndToEnd(H, seqs, n) ==
  /\ H[0] = <<>> /\ FlattenSeq(seqs) = H[n]
  /\ \A k \in 1 .. n : H[k] = H[k - 1] \o seqs[k]

LEMMA FlatTable ==
  ASSUME NEW S, NEW n \in Nat, NEW seqs \in [1 .. n -> Seq(S)]
  PROVE  \E H \in [0 .. n -> Seq(S)] : EndToEnd(H, seqs, n)
<1> DEFINE f == [p \in Seq(S) \X Seq(S) |-> p[1] \o p[2]]
<1>1. \A a, b \in Seq(S) : f[<<a, b>>] = a \o b  OBVIOUS
<1> HIDE DEF f
<1>2. PICK X : X = Seq(S)  OBVIOUS
<1>3. PICK none : none = <<>>  OBVIOUS
<1>4. none \in X /\ Steps(f, seqs, n, X)
  <2>1. ASSUME NEW k \in 1 .. n, NEW v \in X PROVE f[<<v, seqs[k]>>] \in X
    <3>1. seqs[k] \in Seq(S) /\ v \in Seq(S)  BY <1>2
    <3>2. f[<<v, seqs[k]>>] = v \o seqs[k]  BY <1>1, <3>1
    <3>3. v \o seqs[k] \in Seq(S)  BY <3>1
    <3>4. QED  BY <1>2, <3>2, <3>3
  <2>2. QED  BY <1>2, <1>3, <2>1 DEF Steps
<1>5. PICK g : Folds(g, f, none, seqs, n)  BY FoldsExist
<1>6. Follows(g, f, none, seqs, n, X)  BY <1>4, <1>5, FoldsTyped
<1>7. PICK H \in [0 .. n -> X] : Table(H, f, none, seqs, n)  BY <1>4, <1>6, FoldTable
<1>8. ASSUME NEW k \in 1 .. n PROVE H[k] = H[k - 1] \o seqs[k]
  <2>1. k - 1 \in 0 .. n  OBVIOUS
  <2>2. H[k - 1] \in Seq(S) /\ seqs[k] \in Seq(S)  BY <1>2, <1>7, <2>1
  <2>3. QED  BY <1>1, <1>7, <2>2 DEF Table
<1>9. H[0] = <<>>  BY <1>3, <1>7 DEF Table
<1>10. H \in [0 .. n -> Seq(S)]  BY <1>2, <1>7
<1>11. FlattenSeq(seqs) = H[n]
  <2>1. Len(seqs) = n  OBVIOUS
  <2>2. CASE n = 0
    <3>1. FlattenSeq(seqs) = seqs  BY <2>1, <2>2, Zenon DEF FlattenSeq
    <3>2. seqs = <<>>  BY <2>2
    <3>3. QED  BY <1>9, <2>2, <3>1, <3>2
  <2>3. CASE n # 0
    <3> DEFINE Flat(h) == h = [i \in 1 .. n |-> IF i = 1 THEN seqs[i] ELSE h[i - 1] \o seqs[i]]
               flat == CHOOSE h : Flat(h)
    <3>1. \E h : Flat(h)
      <4> DEFINE h == [i \in 1 .. n |-> H[i]]
      <4>1. ASSUME NEW i \in 1 .. n
            PROVE  h[i] = IF i = 1 THEN seqs[i] ELSE h[i - 1] \o seqs[i]
        <5>1. CASE i = 1
          <6>1. H[i] = H[0] \o seqs[i]  BY <1>8, <5>1
          <6>2. H[0] \o seqs[i] = seqs[i]  BY <1>9
          <6>3. QED  BY <5>1, <6>1, <6>2
        <5>2. CASE i # 1
          <6>1. i - 1 \in 1 .. n  BY <5>2
          <6>2. QED  BY <1>8, <5>2, <6>1
        <5>3. QED  BY <5>1, <5>2
      <4>2. h = [i \in 1 .. n |-> h[i]]  OBVIOUS
      <4> HIDE DEF h
      <4>3. Flat(h)  BY <4>1, <4>2
      <4>4. QED  BY <4>3
    <3>2. Flat(flat)  BY <3>1, Zenon
    <3>3. FlattenSeq(seqs) = flat[n]  BY <2>1, <2>3, Zenon DEF FlattenSeq
    <3> HIDE DEF flat
    <3>4. \A i \in 1 .. n : flat[i] = IF i = 1 THEN seqs[i] ELSE flat[i - 1] \o seqs[i]
      BY <3>2
    <3> DEFINE T == {k \in 1 .. n : flat[k] = H[k]}
    <3>5. 1 \in T
      <4>1. 1 \in 1 .. n  BY <2>3
      <4>2. flat[1] = seqs[1]  BY <3>4, <4>1
      <4>3. H[1] = H[0] \o seqs[1]  BY <1>8, <4>1
      <4>4. H[0] \o seqs[1] = seqs[1]  BY <1>9, <4>1
      <4>5. QED  BY <4>1, <4>2, <4>3, <4>4
    <3>6. ASSUME NEW k \in 1 .. n - 1, k \in T PROVE k + 1 \in T
      <4>1. k + 1 \in 1 .. n /\ k + 1 # 1 /\ (k + 1) - 1 = k  OBVIOUS
      <4>2. flat[k + 1] = flat[k] \o seqs[k + 1]  BY <3>4, <4>1
      <4>3. H[k + 1] = H[k] \o seqs[k + 1]  BY <1>8, <4>1
      <4>4. QED  BY <3>6, <4>1, <4>2, <4>3
    <3>7. n \in T
      <4>1. n \in 1 .. n  BY <2>3
      <4> HIDE DEF T
      <4>2. QED  BY <3>5, <3>6, <4>1, NumbersTo
    <3>8. QED  BY <3>3, <3>7
  <2>4. QED  BY <2>2, <2>3
<1>12. EndToEnd(H, seqs, n)  BY <1>8, <1>9, <1>11, Zenon DEF EndToEnd
<1>13. QED  BY <1>10, <1>12

LEMMA FlatLength ==
  ASSUME NEW S, NEW n \in Nat, NEW seqs \in [1 .. n -> Seq(S)]
  PROVE  Len(FlattenSeq(seqs)) = SumSeq([k \in 1 .. n |-> Len(seqs[k])])
<1>1. PICK lens : lens = [k \in 1 .. n |-> Len(seqs[k])]  OBVIOUS
<1>2. lens \in [1 .. n -> Int] /\ \A k \in 1 .. n : lens[k] = Len(seqs[k])  BY <1>1
<1>0. PICK H \in [0 .. n -> Seq(S)] : EndToEnd(H, seqs, n)  BY FlatTable
<1>3. /\ H[0] = <<>> /\ FlattenSeq(seqs) = H[n]
      /\ \A k \in 1 .. n : H[k] = H[k - 1] \o seqs[k]
  BY <1>0, Zenon DEF EndToEnd
<1> DEFINE G == [k \in 0 .. n |-> Len(H[k])]
<1>4. G[0] = 0 /\ G[n] = Len(H[n])  BY <1>3
<1>5. ASSUME NEW k \in 1 .. n PROVE G[k] = G[k - 1] + lens[k]
  <2>1. k - 1 \in 0 .. n /\ k \in 0 .. n  OBVIOUS
  <2>2. H[k - 1] \in Seq(S) /\ seqs[k] \in Seq(S) /\ H[k] = H[k - 1] \o seqs[k]
    BY <1>3, <2>1
  <2>3. Len(H[k]) = Len(H[k - 1]) + Len(seqs[k])  BY <2>2
  <2>4. QED  BY <1>2, <2>1, <2>3
<1> HIDE DEF G
<1>6. SumSeq(lens) = G[n]  BY <1>4, <1>5, <1>2, SumIs
<1>7. QED  BY <1>3, <1>4, <1>6, <1>1

-----------------------------------------------------------------------------
(* Calls on the BitWriter: that it takes them, and how many bits they put. *)

Writes == {w \in [value : Int, width : Nat, run : BOOLEAN] : w.run \/ w.width <= WordBits}

Width(ws) == SumSeq([i \in DOMAIN ws |-> ws[i].width])

\* Calls the BitWriter takes, which put n bits.
Puts(ws, n) == ws \in Seq(Writes) /\ Width(ws) = n

LEMMA WidthsTyped ==
  ASSUME NEW ws \in Seq(Writes)
  PROVE  /\ Len(ws) \in Nat /\ DOMAIN ws = 1 .. Len(ws)
         /\ [i \in DOMAIN ws |-> ws[i].width] \in [1 .. Len(ws) -> Nat]
         /\ [i \in DOMAIN ws |-> ws[i].width] \in [1 .. Len(ws) -> Int]
         /\ Width(ws) \in Nat
<1>1. Len(ws) \in Nat /\ DOMAIN ws = 1 .. Len(ws)  OBVIOUS
<1>2. \A i \in 1 .. Len(ws) : ws[i] \in Writes  OBVIOUS
<1>3. \A i \in 1 .. Len(ws) : ws[i].width \in Nat  BY <1>2 DEF Writes
<1>4. [i \in DOMAIN ws |-> ws[i].width] \in [1 .. Len(ws) -> Nat]  BY <1>1, <1>3
<1>5. [i \in DOMAIN ws |-> ws[i].width] \in [1 .. Len(ws) -> Int]  BY <1>1, <1>3
<1>6. PICK x : x = [i \in DOMAIN ws |-> ws[i].width]  OBVIOUS
<1>7. x \in [1 .. Len(ws) -> Nat] /\ Width(ws) = SumSeq(x)  BY <1>4, <1>6, Zenon DEF Width
<1>8. Width(ws) \in Nat  BY <1>1, <1>7, SumNat
<1>9. QED  BY <1>1, <1>4, <1>5, <1>8

LEMMA PutsNothing == Puts(<<>>, 0)
<1>1. <<>> \in Seq(Writes)  OBVIOUS
<1>2. PICK x : x = [i \in DOMAIN <<>> |-> <<>>[i].width]  OBVIOUS
<1>3. x \in [1 .. 0 -> Int] /\ 0 \in Nat  BY <1>2
<1>4. SumSeq(x) = 0  BY <1>3, SumTyped
<1>5. QED  BY <1>1, <1>2, <1>4, Zenon DEF Puts, Width

LEMMA PutsOne ==
  ASSUME NEW w \in Writes
  PROVE  Puts(<<w>>, w.width)
<1>1. w.width \in Nat  BY DEF Writes
<1>2. <<w>> \in Seq(Writes)  OBVIOUS
<1>3. PICK x : x = [i \in DOMAIN <<w>> |-> <<w>>[i].width]  OBVIOUS
<1>4. PICK c : c = w.width  OBVIOUS
<1>5. x \in [1 .. 1 -> Int] /\ \A k \in 1 .. 1 : x[k] = c  BY <1>1, <1>3, <1>4
<1>6. SumSeq(x) = 1 * c
  <2>1. c \in Int /\ 1 \in Nat  BY <1>1, <1>4
  <2>2. QED  BY <1>5, <2>1, SumOfEqual
<1>7. Width(<<w>>) = SumSeq(x)  BY <1>3, Zenon DEF Width
<1>8. 1 * c = c  BY <1>1, <1>4
<1>9. QED  BY <1>2, <1>4, <1>6, <1>7, <1>8 DEF Puts

LEMMA PutsWrite ==
  ASSUME NEW v \in Int, NEW n \in 0 .. WordBits
  PROVE  Puts(<<Write(v, n)>>, n)
<1>1. PICK w : w = Write(v, n)  OBVIOUS
<1>2. n \in Nat /\ n <= WordBits  BY SubframesAssumption
<1>3. w \in Writes /\ w.width = n  BY <1>1, <1>2 DEF Write, Writes
<1>4. QED  BY <1>1, <1>3, PutsOne

LEMMA PutsZeros ==
  ASSUME NEW n \in Nat
  PROVE  Puts(<<ZeroRun(n)>>, n)
<1>1. PICK w : w = ZeroRun(n)  OBVIOUS
<1>2. w \in Writes /\ w.width = n  BY <1>1 DEF ZeroRun, Writes
<1>3. QED  BY <1>1, <1>2, PutsOne

LEMMA PutsBoth ==
  ASSUME NEW a, NEW m, Puts(a, m), NEW b, NEW n, Puts(b, n)
  PROVE  Puts(a \o b, m + n)
<1>1. a \in Seq(Writes) /\ b \in Seq(Writes) /\ m = Width(a) /\ n = Width(b)  BY DEF Puts
<1>2. a \o b \in Seq(Writes)  BY <1>1
<1>3. PICK x, y, z : /\ x = [i \in DOMAIN a |-> a[i].width]
                     /\ y = [i \in DOMAIN b |-> b[i].width]
                     /\ z = [i \in DOMAIN (a \o b) |-> (a \o b)[i].width]
  OBVIOUS
<1>4. PICK j, k : j = Len(a) /\ k = Len(b)  OBVIOUS
<1>5. /\ j \in Nat /\ k \in Nat /\ DOMAIN a = 1 .. j /\ DOMAIN b = 1 .. k
      /\ Len(a \o b) = j + k /\ DOMAIN (a \o b) = 1 .. j + k
  BY <1>1, <1>4
<1>6. x \in [1 .. j -> Int] /\ y \in [1 .. k -> Int]  BY <1>1, <1>3, <1>4, WidthsTyped
<1>7. z \in [1 .. j + k -> Int]  BY <1>2, <1>3, <1>5, WidthsTyped
<1>8. \A i \in 1 .. j : z[i] = x[i]
  <2>1. \A i \in 1 .. j : (a \o b)[i] = a[i]  BY <1>1, <1>4, <1>5
  <2>2. \A i \in 1 .. j : i \in 1 .. j + k  BY <1>5
  <2>3. QED  BY <1>3, <1>5, <2>1, <2>2
<1>9. \A i \in 1 .. k : z[j + i] = y[i]
  <2>1. \A i \in 1 .. k : (a \o b)[j + i] = b[i]  BY <1>1, <1>4, <1>5
  <2>2. \A i \in 1 .. k : j + i \in 1 .. j + k  BY <1>5
  <2>3. QED  BY <1>3, <1>5, <2>1, <2>2
<1>10. SumSeq(z) = SumSeq(x) + SumSeq(y)  BY <1>5, <1>6, <1>7, <1>8, <1>9, SumOfBoth
<1>11. Width(a) = SumSeq(x) /\ Width(b) = SumSeq(y) /\ Width(a \o b) = SumSeq(z)
  BY <1>3, Zenon DEF Width
<1>12. QED  BY <1>1, <1>2, <1>10, <1>11 DEF Puts

LEMMA PutsFlat ==
  ASSUME NEW n \in Nat, NEW ws, NEW lens \in [1 .. n -> Int],
         ws = [i \in 1 .. n |-> ws[i]], \A k \in 1 .. n : Puts(ws[k], lens[k])
  PROVE  Puts(FlattenSeq(ws), SumSeq(lens))
<1>1. \A k \in 1 .. n : ws[k] \in Seq(Writes) /\ lens[k] = Width(ws[k])  BY DEF Puts
<1>2. ws \in [1 .. n -> Seq(Writes)]  BY <1>1
<1>3. PICK W : W = Writes  OBVIOUS
<1>4. ws \in [1 .. n -> Seq(W)]  BY <1>2, <1>3
<1>5. PICK H \in [0 .. n -> Seq(W)] : EndToEnd(H, ws, n)  BY <1>4, FlatTable
<1>6. /\ H[0] = <<>> /\ FlattenSeq(ws) = H[n]
      /\ \A k \in 1 .. n : H[k] = H[k - 1] \o ws[k]
  BY <1>5, Zenon DEF EndToEnd
<1>7. \A k \in 0 .. n : H[k] \in Seq(Writes)  BY <1>3
<1> DEFINE G == [k \in 0 .. n |-> Width(H[k])]
<1>8. G[0] = 0
  <2>1. Width(<<>>) = 0  BY PutsNothing DEF Puts
  <2>2. QED  BY <1>6, <2>1
<1>9. ASSUME NEW k \in 1 .. n PROVE G[k] = G[k - 1] + lens[k]
  <2>1. k - 1 \in 0 .. n /\ k \in 0 .. n  OBVIOUS
  <2>2. PICK a, b : a = H[k - 1] /\ b = ws[k]  OBVIOUS
  <2>3. Puts(a, Width(a)) /\ Puts(b, Width(b))  BY <1>1, <1>7, <2>1, <2>2 DEF Puts
  <2>4. Puts(a \o b, Width(a) + Width(b))  BY <2>3, PutsBoth
  <2>5. Width(H[k]) = Width(a) + Width(b)  BY <1>6, <2>2, <2>4 DEF Puts
  <2>6. lens[k] = Width(b)  BY <1>1, <2>2
  <2>7. QED  BY <2>1, <2>2, <2>5, <2>6
<1>10. G[n] = Width(FlattenSeq(ws))  BY <1>6
<1> HIDE DEF G
<1>11. SumSeq(lens) = G[n]  BY <1>8, <1>9, SumIs
<1>12. FlattenSeq(ws) \in Seq(Writes)  BY <1>6, <1>7
<1>13. QED  BY <1>10, <1>11, <1>12 DEF Puts

LEMMA PutsPlain ==
  ASSUME NEW n \in Nat, NEW values \in [1 .. n -> Int], NEW w \in 0 .. WordBits
  PROVE  Puts(PlainWrites(values, w), n * w)
<1>0. w \in Nat /\ w <= WordBits /\ w \in Int  BY SubframesAssumption
<1>1. PICK ws : ws = PlainWrites(values, w)  OBVIOUS
<1>2. ws = [i \in 1 .. n |-> Write(values[i], w)]  BY <1>1 DEF PlainWrites
<1>3. \A i \in 1 .. n : Write(values[i], w) \in Writes /\ Write(values[i], w).width = w
  BY <1>0 DEF Write, Writes
<1>4. ws \in [1 .. n -> Writes] /\ \A i \in 1 .. n : ws[i].width = w  BY <1>2, <1>3
<1>5. ws \in Seq(Writes)  BY <1>4
<1>6. PICK x : x = [i \in DOMAIN ws |-> ws[i].width]  OBVIOUS
<1>7. x \in [1 .. n -> Int] /\ \A k \in 1 .. n : x[k] = w  BY <1>0, <1>4, <1>6
<1>8. SumSeq(x) = n * w  BY <1>0, <1>7, SumOfEqual
<1>9. Width(ws) = SumSeq(x)  BY <1>6, Zenon DEF Width
<1>10. QED  BY <1>1, <1>5, <1>8, <1>9 DEF Puts

LEMMA PutsBits ==
  ASSUME NEW ws, NEW n, Puts(ws, n)
  PROVE  Writable(ws) /\ Len(BitsOf(ws)) = n /\ n \in Nat
<1>1. ws \in Seq(Writes) /\ n = Width(ws)  BY DEF Puts
<1>2. PICK m : m = Len(ws)  OBVIOUS
<1>3. m \in Nat /\ DOMAIN ws = 1 .. m /\ n \in Nat  BY <1>1, <1>2, WidthsTyped
<1>4. \A i \in 1 .. m : ws[i] \in Writes  BY <1>1, <1>2
<1>5. Writable(ws)  BY <1>3, <1>4 DEF Writable, Writes
<1> DEFINE Bit(i, b) == IF ws[i].run THEN 0
                        ELSE (ws[i].value \div 2^(ws[i].width - b)) % 2
           bits == [i \in 1 .. m |-> [b \in 1 .. ws[i].width |-> Bit(i, b)]]
           A == {Bit(i, b) : i \in 1 .. m, b \in Nat}
<1>6. BitsOf(ws) = FlattenSeq(bits)  BY <1>3, Zenon DEF BitsOf
<1>7. ASSUME NEW i \in 1 .. m
      PROVE  bits[i] \in Seq(A) /\ Len(bits[i]) = ws[i].width
  <2>1. ws[i].width \in Nat  BY <1>4 DEF Writes
  <2>2. \A b \in 1 .. ws[i].width : Bit(i, b) \in A
    <3>1. \A b \in 1 .. ws[i].width : b \in Nat  BY <2>1
    <3> HIDE DEF Bit
    <3>2. QED  BY <3>1
  <2> HIDE DEF Bit, A
  <2>3. bits[i] = [b \in 1 .. ws[i].width |-> Bit(i, b)]  OBVIOUS
  <2>4. bits[i] \in [1 .. ws[i].width -> A]  BY <2>2, <2>3
  <2>5. QED  BY <2>1, <2>4
<1> HIDE DEF Bit
<1>8. bits = [i \in 1 .. m |-> bits[i]]  OBVIOUS
<1> HIDE DEF bits, A
<1>9. bits \in [1 .. m -> Seq(A)]  BY <1>7, <1>8
<1>10. PICK lens : lens = [i \in DOMAIN ws |-> ws[i].width]  OBVIOUS
<1>11. lens \in [1 .. m -> Int]  BY <1>1, <1>2, <1>10, WidthsTyped
<1>12. lens = [k \in 1 .. m |-> Len(bits[k])]  BY <1>3, <1>7, <1>10
<1>13. Len(FlattenSeq(bits)) = SumSeq(lens)  BY <1>3, <1>9, <1>12, FlatLength
<1>14. Width(ws) = SumSeq(lens)  BY <1>10, Zenon DEF Width
<1>15. QED  BY <1>1, <1>3, <1>5, <1>6, <1>13, <1>14

-----------------------------------------------------------------------------
(* The arithmetic of prediction and of the partitions is on whole numbers. *)

LEMMA ShiftRightTyped ==
  ASSUME NEW x \in Int, NEW s \in 0 .. WordBits
  PROVE  ArithmeticShiftRight(x, s) \in Int
<1>1. PICK d \in Nat \ {0} : d = 2^s  BY PowerTyped
<1>2. ArithmeticShiftRight(x, s) = IF x >= 0 THEN x \div d ELSE -((-x + d - 1) \div d)
  BY <1>1, Zenon DEF ArithmeticShiftRight
<1>3. x \div d \in Int /\ (-x + d - 1) \div d \in Int  OBVIOUS
<1>4. QED  BY <1>2, <1>3

IsPredictor(p) == p.coefs \in Seq(Int) /\ p.shift \in 0 .. 15

LEMMA FixedIsPredictor ==
  ASSUME NEW k \in 0 .. 4
  PROVE  IsPredictor(FixedPredictor(k)) /\ Order(FixedPredictor(k)) = k
<1>1. CASE k = 0  BY <1>1 DEF FixedPredictor, IsPredictor, Order
<1>2. CASE k = 1  BY <1>2 DEF FixedPredictor, IsPredictor, Order
<1>3. CASE k = 2  BY <1>3 DEF FixedPredictor, IsPredictor, Order
<1>4. CASE k = 3  BY <1>4 DEF FixedPredictor, IsPredictor, Order
<1>5. CASE k = 4  BY <1>5 DEF FixedPredictor, IsPredictor, Order
<1>6. QED  BY <1>1, <1>2, <1>3, <1>4, <1>5

LEMMA ResidualsTyped ==
  ASSUME NEW x \in Seq(Int), NEW p, IsPredictor(p), Order(p) <= Len(x)
  PROVE  /\ Order(p) \in Nat /\ Len(x) - Order(p) \in Nat
         /\ Residuals(x, p) \in Seq(Int) /\ Len(Residuals(x, p)) = Len(x) - Order(p)
<1>0. PICK c, s, k, l, r : /\ c = p.coefs /\ s = p.shift /\ k = Order(p) /\ l = Len(x)
                           /\ r = Residuals(x, p)
  OBVIOUS
<1>1. /\ k \in Nat /\ l \in Nat /\ DOMAIN x = 1 .. l /\ DOMAIN c = 1 .. k
      /\ l - k \in Nat /\ k <= l
      /\ \A j \in 1 .. k : c[j] \in Int
      /\ \A j \in 1 .. l : x[j] \in Int
  <2>1. c \in Seq(Int) /\ k = Len(c)  BY <1>0 DEF IsPredictor, Order
  <2>2. k \in Nat /\ l \in Nat /\ k <= l  BY <1>0, <2>1
  <2>3. QED  BY <1>0, <2>1, <2>2
<1>2. s \in 0 .. WordBits
  <2>1. 15 <= WordBits /\ WordBits \in Nat  BY WriterAssumption, SubframesAssumption
  <2>2. s \in 0 .. 15  BY <1>0 DEF IsPredictor
  <2>3. QED  BY <2>1, <2>2
<1>3. ASSUME NEW i \in k + 1 .. l PROVE Prediction(x, i, p) \in Int
  <2>1. PICK y : y = [j \in 1 .. k |-> c[j] * x[i - j]]  OBVIOUS
  <2>2. ASSUME NEW j \in 1 .. k PROVE c[j] * x[i - j] \in Int
    <3>1. i - j \in 1 .. l  BY <1>1
    <3>2. c[j] \in Int /\ x[i - j] \in Int  BY <1>1, <3>1
    <3>3. QED  BY <3>2
  <2>3. y \in [1 .. k -> Int]  BY <2>1, <2>2
  <2>4. SumSeq(y) \in Int  BY <1>1, <2>3, SumTyped
  <2>5. Prediction(x, i, p) = ArithmeticShiftRight(SumSeq(y), s)
    BY <1>0, <1>1, <2>1, Zenon DEF Prediction
  <2>6. QED  BY <1>2, <2>4, <2>5, ShiftRightTyped
<1>4. r = [i \in 1 .. l - k |-> x[i + k] - Prediction(x, i + k, p)]
  BY <1>0, Zenon DEF Residuals
<1>5. ASSUME NEW i \in 1 .. l - k PROVE x[i + k] - Prediction(x, i + k, p) \in Int
  <2>1. i + k \in k + 1 .. l /\ i + k \in 1 .. l  BY <1>1
  <2>2. x[i + k] \in Int /\ Prediction(x, i + k, p) \in Int
    BY <1>1, <1>3, <2>1
  <2>3. QED  BY <2>2
<1>6. PICK n \in Nat : n = l - k  BY <1>1
<1>7. r \in [1 .. n -> Int]  BY <1>4, <1>5, <1>6
<1>8. r \in Seq(Int) /\ Len(r) = n  BY <1>7
<1>9. QED  BY <1>0, <1>1, <1>6, <1>8

\* Partitions start one after the other, and the last ends where the residuals do.
StartsAre(size, order, porder, d, q, len) ==
  /\ d \in Nat \ {0} /\ q \in Nat /\ q > order /\ len \in Nat
  /\ \A n \in 0 .. d : PartitionStart(size, order, porder, n) \in 0 .. len
  /\ PartitionStart(size, order, porder, 0) = 0
  /\ PartitionStart(size, order, porder, d) = len
  /\ \A n \in 1 .. d : PartitionStart(size, order, porder, n)
       = PartitionStart(size, order, porder, n - 1) + (q - (IF n = 1 THEN order ELSE 0))

LEMMA PartitionStarts ==
  ASSUME NEW len, NEW size \in Nat, NEW order \in Nat, len = size - order,
         NEW porder \in 0 .. WordBits, ValidPartitionOrder(size, order, porder),
         NEW d, d = 2^porder, NEW q, q = size \div d
  PROVE  StartsAre(size, order, porder, d, q, len)
<1>1. d \in Nat \ {0}  BY PowerTyped
<1>2. size % d = 0 /\ q > order  BY DEF ValidPartitionOrder
<1>3. q \in Nat /\ size = d * q /\ len \in Nat
  <2>1. q \in Nat /\ size = d * q  BY <1>1, <1>2
  <2>2. d * q >= q
    <3>1. PICK e \in Nat : d = 1 + e  BY <1>1, d - 1 \in Nat, d = 1 + (d - 1)
    <3>2. (1 + e) * q = q + e * q /\ e * q \in Nat  BY <2>1
    <3>3. QED  BY <2>1, <3>1, <3>2
  <2>3. QED  BY <1>2, <2>1, <2>2
<1> DEFINE Start(n) == PartitionStart(size, order, porder, n)
<1>4. \A n : Start(n) = IF n = 0 THEN 0 ELSE n * q - order
  BY Zenon DEF PartitionStart
<1>5. ASSUME NEW n \in 0 .. d PROVE Start(n) \in 0 .. len
  <2>1. CASE n = 0  BY <1>3, <1>4, <2>1
  <2>2. CASE n # 0
    <3>1. PICK e \in Nat : n + e = d  BY <1>1, d - n \in Nat, n + (d - n) = d
    <3>2. n * q + e * q = d * q
      <4>1. (n + e) * q = n * q + e * q  BY <1>3
      <4>2. QED  BY <3>1, <4>1
    <3>3. n * q \in Nat /\ e * q \in Nat  BY <1>3
    <3>4. n * q >= q
      <4>1. PICK f \in Nat : n = 1 + f  BY <2>2, n - 1 \in Nat, n = 1 + (n - 1)
      <4>2. (1 + f) * q = q + f * q /\ f * q \in Nat  BY <1>3
      <4>3. QED  BY <1>3, <4>1, <4>2
    <3>5. n * q <= size  BY <1>3, <3>2, <3>3
    <3>6. Start(n) = n * q - order  BY <1>4, <2>2
    <3>7. PICK m : m = n * q  OBVIOUS
    <3>8. m \in Nat /\ m >= q /\ m <= size  BY <3>3, <3>4, <3>5, <3>7
    <3>9. m - order \in 0 .. len  BY <1>2, <1>3, <3>8
    <3>10. QED  BY <3>6, <3>7, <3>9
  <2>3. QED  BY <2>1, <2>2
<1>6. Start(0) = 0 /\ Start(d) = len
  <2>1. Start(d) = d * q - order  BY <1>1, <1>4
  <2>2. QED  BY <1>3, <1>4, <2>1
<1>7. ASSUME NEW n \in 1 .. d
      PROVE  Start(n) = Start(n - 1) + (q - (IF n = 1 THEN order ELSE 0))
  <2>1. Start(n) = n * q - order  BY <1>4
  <2>2. CASE n = 1
    <3>1. 1 * q = q  BY <1>3
    <3>2. QED  BY <1>3, <1>4, <2>1, <2>2, <3>1
  <2>3. CASE n # 1
    <3>1. PICK j \in Nat : j = n - 1 /\ n = j + 1  BY n - 1 \in Nat
    <3>2. j # 0  BY <2>3, <3>1
    <3>3. Start(j) = j * q - order  BY <1>4, <3>2
    <3>4. (j + 1) * q = j * q + q /\ j * q \in Nat  BY <1>3
    <3>5. PICK m : m = j * q  OBVIOUS
    <3>6. Start(n) = (m + q) - order /\ Start(j) = m - order /\ m \in Nat
      BY <2>1, <3>1, <3>3, <3>4, <3>5
    <3>7. Start(n) = Start(j) + q  BY <1>3, <3>6
    <3>8. QED  BY <1>3, <2>3, <3>1, <3>7
  <2>4. QED  BY <2>2, <2>3
<1>8. QED  BY <1>1, <1>2, <1>3, <1>5, <1>6, <1>7 DEF StartsAre

LEMMA PartitionsTyped ==
  ASSUME NEW rs \in Seq(Int), NEW size \in Nat, NEW order \in Nat, Len(rs) = size - order,
         NEW porder \in 0 .. WordBits, ValidPartitionOrder(size, order, porder)
  PROVE  /\ 2^porder \in Nat \ {0}
         /\ PartitionsOf(rs, size, order, porder) \in [1 .. 2^porder -> Seq(Int)]
<1>1. PICK d, q, len : d = 2^porder /\ q = size \div d /\ len = Len(rs)  OBVIOUS
<1> DEFINE Start(n) == PartitionStart(size, order, porder, n)
<1>2. len = size - order  BY <1>1
<1>3. d \in Nat \ {0} /\ \A n \in 0 .. d : Start(n) \in 0 .. len
  <2>1. StartsAre(size, order, porder, d, q, len)  BY <1>1, <1>2, PartitionStarts, Zenon
  <2>2. QED  BY <2>1 DEF StartsAre
<1>6. \A n \in 0 .. d : Start(n) \in 0 .. Len(rs)  BY <1>1, <1>3
<1> HIDE DEF Start
<1>7. ASSUME NEW p \in 1 .. d
      PROVE  SubSeq(rs, Start(p - 1) + 1, Start(p)) \in Seq(Int)
  <2>1. PICK a, b : a = Start(p - 1) + 1 /\ b = Start(p)  OBVIOUS
  <2>2. p - 1 \in 0 .. d /\ p \in 0 .. d  BY <1>3
  <2>3. a \in 1 .. Len(rs) + 1 /\ b \in 0 .. Len(rs)
    <3>1. PICK c : c = Start(p - 1)  OBVIOUS
    <3>2. c \in 0 .. Len(rs) /\ b \in 0 .. Len(rs)  BY <1>6, <2>1, <2>2, <3>1
    <3>3. Len(rs) \in Nat /\ a = c + 1  BY <2>1, <3>1
    <3>4. QED  BY <3>2, <3>3
  <2>4. SubSeq(rs, a, b) \in Seq(Int)  BY <2>3
  <2>5. QED  BY <2>1, <2>4
<1>8. PartitionsOf(rs, size, order, porder)
        = [p \in 1 .. d |-> SubSeq(rs, Start(p - 1) + 1, Start(p))]
  BY <1>1, Zenon DEF PartitionsOf, Start
<1>9. QED  BY <1>1, <1>3, <1>7, <1>8

-----------------------------------------------------------------------------
(* What a subframe puts down is what was counted for it.                   *)

LEMMA RiceTyped ==
  ASSUME NEW r \in Int, NEW k \in 0 .. MaxRiceParameter
  PROVE  /\ FoldSigned(r) \in Nat /\ FoldSigned(r) \div 2^k \in Nat
         /\ 2^k \in Nat \ {0} /\ FoldSigned(r) % 2^k \in Nat
<1>1. FoldSigned(r) \in Nat  BY DEF FoldSigned
<1>2. k \in 0 .. WordBits  BY SubframesAssumption
<1>3. PICK d \in Nat \ {0} : d = 2^k  BY <1>2, PowerTyped
<1>4. PICK f \in Nat : f = FoldSigned(r)  BY <1>1
<1>5. f \div d \in Nat /\ f % d \in Nat  OBVIOUS
<1>6. QED  BY <1>1, <1>3, <1>4, <1>5

LEMMA OneAfterOther ==
  ASSUME NEW a, NEW b
  PROVE  <<a>> \o <<b>> = <<a, b>>
<1>1. PICK S : a \in S /\ b \in S
  <2>1. a \in {a, b} /\ b \in {a, b}  OBVIOUS
  <2>2. QED  BY <2>1, Zenon
<1>2. PICK x, y, z, t : x = <<a>> /\ y = <<b>> /\ z = <<a, b>> /\ t = x \o y  OBVIOUS
<1>3. /\ x \in Seq(S) /\ Len(x) = 1 /\ x[1] = a
      /\ y \in Seq(S) /\ Len(y) = 1 /\ y[1] = b
      /\ z \in Seq(S) /\ Len(z) = 2 /\ z[1] = a /\ z[2] = b
  BY <1>1, <1>2
<1>4. t \in Seq(S) /\ Len(t) = 2 /\ t[1] = a /\ t[2] = b
  <2>1. /\ Len(t) = Len(x) + Len(y) /\ t \in Seq(S)
        /\ t[1] = x[1] /\ t[2] = y[1]
    BY <1>2, <1>3
  <2>2. QED  BY <1>3, <2>1
<1>5. t = z
  <2>1. \A i \in 1 .. 2 : t[i] = z[i]
    <3>1. \A i \in 1 .. 2 : i = 1 \/ i = 2  OBVIOUS
    <3>2. QED  BY <1>3, <1>4, <3>1
  <2>2. Len(t) = Len(z)  BY <1>3, <1>4
  <2>3. \A i \in 1 .. Len(t) : t[i] = z[i]  BY <1>4, <2>1
  <2>4. QED  BY <1>3, <1>4, <2>2, <2>3, SeqEqual
<1>6. QED  BY <1>2, <1>5

RiceBit(r, k) == (FoldSigned(r) \div 2^k) + 1 + k

LEMMA PutsRice ==
  ASSUME NEW r \in Int, NEW k \in 0 .. MaxRiceParameter
  PROVE  Puts(RiceWrites(r, k), RiceBit(r, k)) /\ RiceBit(r, k) \in Nat
<1>1. PICK q, stop : q = FoldSigned(r) \div 2^k /\ stop = 2^k + (FoldSigned(r) % 2^k)
  OBVIOUS
<1>2. q \in Nat /\ stop \in Int  BY <1>1, RiceTyped
<1>3. /\ WordBits \in Nat /\ WordBits > MaxRiceParameter /\ MaxRiceParameter \in Nat
      /\ k \in Nat /\ k + 1 \in 0 .. WordBits
  BY SubframesAssumption
<1>4. RiceWrites(r, k) = IF q <= (WordBits - 1) - k THEN <<Write(stop, q + 1 + k)>>
                         ELSE <<ZeroRun(q), Write(stop, k + 1)>>
  BY <1>1, Zenon DEF RiceWrites
<1>5. CASE q <= (WordBits - 1) - k
  <2>1. q + 1 + k \in 0 .. WordBits  BY <1>2, <1>3, <1>5
  <2>2. Puts(<<Write(stop, q + 1 + k)>>, q + 1 + k)  BY <1>2, <2>1, PutsWrite
  <2>3. QED  BY <1>1, <1>2, <1>3, <1>4, <1>5, <2>2 DEF RiceBit
<1>6. CASE ~(q <= (WordBits - 1) - k)
  <2>1. Puts(<<Write(stop, k + 1)>>, k + 1) /\ Puts(<<ZeroRun(q)>>, q)
    BY <1>2, <1>3, PutsWrite, PutsZeros
  <2>2. Puts(<<ZeroRun(q)>> \o <<Write(stop, k + 1)>>, q + (k + 1))
    BY <2>1, PutsBoth
  <2>3. PICK a, b : a = ZeroRun(q) /\ b = Write(stop, k + 1)  OBVIOUS
  <2>4. <<a>> \o <<b>> = <<a, b>>  BY OneAfterOther
  <2>5. q + (k + 1) = q + 1 + k /\ q + 1 + k \in Nat  BY <1>2, <1>3
  <2>6. RiceWrites(r, k) = <<a, b>>  BY <1>4, <1>6, <2>3
  <2>7. Puts(RiceWrites(r, k), q + 1 + k)  BY <2>2, <2>3, <2>4, <2>5, <2>6
  <2>8. QED  BY <1>1, <2>5, <2>7 DEF RiceBit
<1>7. QED  BY <1>5, <1>6

LEMMA RiceBitsTyped ==
  ASSUME NEW rs \in Seq(Int), NEW k \in 0 .. MaxRiceParameter
  PROVE  /\ [i \in 1 .. Len(rs) |-> RiceBit(rs[i], k)] \in [1 .. Len(rs) -> Nat]
         /\ RiceBits(rs, k) = SumSeq([i \in 1 .. Len(rs) |-> RiceBit(rs[i], k)])
         /\ RiceBits(rs, k) \in Nat
<1>1. Len(rs) \in Nat /\ DOMAIN rs = 1 .. Len(rs) /\ \A i \in 1 .. Len(rs) : rs[i] \in Int
  OBVIOUS
<1>2. \A i \in 1 .. Len(rs) : RiceBit(rs[i], k) \in Nat  BY <1>1, PutsRice
<1>3. PICK x : x = [i \in 1 .. Len(rs) |-> RiceBit(rs[i], k)]  OBVIOUS
<1>4. x \in [1 .. Len(rs) -> Nat]  BY <1>2, <1>3
<1>5. RiceBits(rs, k) = SumSeq(x)  BY <1>1, <1>3, Zenon DEF RiceBits, RiceBit
<1>6. SumSeq(x) \in Nat  BY <1>1, <1>4, SumNat
<1>7. QED  BY <1>3, <1>4, <1>5, <1>6

LEMMA PutsPartition ==
  ASSUME NEW rs \in Seq(Int), NEW k \in 0 .. MaxRiceParameter
  PROVE  Puts(PartitionWrites(rs, k), 4 + RiceBits(rs, k))
<1>1. PICK n \in Nat : n = Len(rs) /\ DOMAIN rs = 1 .. n /\ \A i \in 1 .. n : rs[i] \in Int
  OBVIOUS
<1>2. PICK ws : ws = [i \in 1 .. n |-> RiceWrites(rs[i], k)]  OBVIOUS
<1>3. PICK lens : lens = [i \in 1 .. n |-> RiceBit(rs[i], k)]  OBVIOUS
<1>4. lens \in [1 .. n -> Int] /\ RiceBits(rs, k) = SumSeq(lens)
  <2>1. lens = [i \in 1 .. Len(rs) |-> RiceBit(rs[i], k)]  BY <1>1, <1>3
  <2>2. lens \in [1 .. n -> Nat] /\ RiceBits(rs, k) = SumSeq(lens)
    BY <1>1, <2>1, RiceBitsTyped
  <2>3. QED  BY <2>2
<1>5. \A i \in 1 .. n : Puts(ws[i], lens[i])  BY <1>1, <1>2, <1>3, PutsRice
<1>6. ws = [i \in 1 .. n |-> ws[i]]  BY <1>2
<1>7. Puts(FlattenSeq(ws), SumSeq(lens))  BY <1>4, <1>5, <1>6, PutsFlat
<1>8. Puts(<<Write(k, 4)>>, 4)
  <2>1. k \in Int /\ 4 \in 0 .. WordBits  BY SubframesAssumption, WriterAssumption
  <2>2. QED  BY <2>1, PutsWrite
<1>9. PartitionWrites(rs, k) = <<Write(k, 4)>> \o FlattenSeq(ws)
  BY <1>1, <1>2, Zenon DEF PartitionWrites
<1>10. QED  BY <1>4, <1>7, <1>8, <1>9, PutsBoth

IsParameters(params, n) == \A p \in 1 .. n : params[p] \in 0 .. MaxRiceParameter

LEMMA CodedTyped ==
  ASSUME NEW n \in Nat, NEW parts \in [1 .. n -> Seq(Int)], NEW params, IsParameters(params, n)
  PROVE  /\ [p \in 1 .. n |-> 4 + RiceBits(parts[p], params[p])] \in [1 .. n -> Nat]
         /\ CodedBits(parts, params) = SumSeq([p \in 1 .. n |-> 4 + RiceBits(parts[p], params[p])])
         /\ CodedBits(parts, params) \in Nat
<1>1. \A p \in 1 .. n : 4 + RiceBits(parts[p], params[p]) \in Nat
  <2>1. ASSUME NEW p \in 1 .. n PROVE 4 + RiceBits(parts[p], params[p]) \in Nat
    <3>1. parts[p] \in Seq(Int) /\ params[p] \in 0 .. MaxRiceParameter  BY DEF IsParameters
    <3>2. RiceBits(parts[p], params[p]) \in Nat  BY <3>1, RiceBitsTyped
    <3>3. QED  BY <3>2
  <2>2. QED  BY <2>1
<1>2. PICK x : x = [p \in 1 .. n |-> 4 + RiceBits(parts[p], params[p])]  OBVIOUS
<1>3. x \in [1 .. n -> Nat]  BY <1>1, <1>2
<1>4. DOMAIN parts = 1 .. n  OBVIOUS
<1>5. CodedBits(parts, params) = SumSeq(x)  BY <1>2, <1>4, Zenon DEF CodedBits
<1>6. SumSeq(x) \in Nat  BY <1>3, SumNat
<1>7. QED  BY <1>2, <1>3, <1>5, <1>6

LEMMA PutsResidual ==
  ASSUME NEW n \in Nat, NEW parts \in [1 .. n -> Seq(Int)], NEW params, IsParameters(params, n),
         NEW porder \in Int
  PROVE  Puts(ResidualWrites(porder, parts, params), (2 + 4) + CodedBits(parts, params))
<1>1. DOMAIN parts = 1 .. n  OBVIOUS
<1>2. PICK ws : ws = [p \in 1 .. n |-> PartitionWrites(parts[p], params[p])]  OBVIOUS
<1>3. PICK lens : lens = [p \in 1 .. n |-> 4 + RiceBits(parts[p], params[p])]  OBVIOUS
<1>4. lens \in [1 .. n -> Nat] /\ CodedBits(parts, params) = SumSeq(lens)  BY <1>3, CodedTyped
<1>5. lens \in [1 .. n -> Int]  BY <1>4
<1>6. \A p \in 1 .. n : Puts(ws[p], lens[p])
  BY <1>2, <1>3, PutsPartition DEF IsParameters
<1>7. ws = [p \in 1 .. n |-> ws[p]]  BY <1>2
<1>8. Puts(FlattenSeq(ws), SumSeq(lens))  BY <1>5, <1>6, <1>7, PutsFlat
<1>9. Puts(<<Write(0, 2)>>, 2) /\ Puts(<<Write(porder, 4)>>, 4)
  <2>1. 0 \in Int /\ 2 \in 0 .. WordBits /\ 4 \in 0 .. WordBits
    BY SubframesAssumption, WriterAssumption
  <2>2. QED  BY <2>1, PutsWrite
<1>10. Puts(<<Write(0, 2)>> \o <<Write(porder, 4)>>, 2 + 4)
  <2>1. PICK a, b : a = <<Write(0, 2)>> /\ b = <<Write(porder, 4)>>  OBVIOUS
  <2>2. Puts(a, 2) /\ Puts(b, 4)  BY <1>9, <2>1
  <2>3. Puts(a \o b, 2 + 4)  BY <2>2, PutsBoth
  <2>4. QED  BY <2>1, <2>3
<1>11. PICK a, b : a = Write(0, 2) /\ b = Write(porder, 4)  OBVIOUS
<1>12. <<a>> \o <<b>> = <<a, b>>  BY OneAfterOther
<1>13. ResidualWrites(porder, parts, params) = <<a, b>> \o FlattenSeq(ws)
  BY <1>1, <1>2, <1>11, Zenon DEF ResidualWrites
<1>14. Puts(<<a, b>>, 2 + 4)  BY <1>10, <1>11, <1>12
<1>15. Puts(<<a, b>> \o FlattenSeq(ws), (2 + 4) + SumSeq(lens))  BY <1>8, <1>14, PutsBoth
<1>16. QED  BY <1>4, <1>13, <1>15

PredictedKinds == {"FixedRice", "LpcRice"}

\* A subframe that can be put down for samples of this width.
IsPlain(sub) == sub.kind \in {"Constant", "Verbatim"}

IsPredicted(sub) ==
  /\ sub.kind \in PredictedKinds /\ IsPredictor(sub.predictor)
  /\ Order(sub.predictor) < Len(sub.shifted)
  /\ sub.kind = "LpcRice" => sub.precision \in 1 .. 15
  /\ sub.porder \in 0 .. 8
  /\ ValidPartitionOrder(Len(sub.shifted), Order(sub.predictor), sub.porder)
  /\ IsParameters(sub.params, 2^sub.porder)

IsSubframe(sub, bps) ==
  /\ sub.wasted \in 0 .. bps - 1
  /\ sub.shifted \in Seq(Int) /\ Len(sub.shifted) >= 1
  /\ IsPlain(sub) \/ IsPredicted(sub)

PredictedBits(sub, bps) ==
  PredictorBits(sub.kind, Order(sub.predictor), sub.precision, bps, sub.wasted)
    + PartitionedBits(Residuals(sub.shifted, sub.predictor), Len(sub.shifted),
                      Order(sub.predictor), sub.porder, sub.params)

CountedBits(sub, bps) ==
  CASE sub.kind = "Constant" -> ConstantBits(bps, sub.wasted)
    [] sub.kind = "Verbatim" -> VerbatimBits(Len(sub.shifted), bps, sub.wasted)
    [] OTHER                 -> PredictedBits(sub, bps)

LEMMA PutsHeader ==
  ASSUME NEW type \in Int, NEW wasted \in Nat
  PROVE  Puts(HeaderWrites(type, wasted), 8 + wasted)
<1>1. 0 \in Int /\ 1 \in Int /\ 1 \in 0 .. WordBits /\ 6 \in 0 .. WordBits
  BY SubframesAssumption, WriterAssumption
<1>2. PICK o, i, t, z : /\ o = Write(0, 1) /\ i = Write(1, 1)
                        /\ t = Write(type, 6) /\ z = ZeroRun(wasted - 1)
  OBVIOUS
<1>3. Puts(<<o>>, 1) /\ Puts(<<i>>, 1) /\ Puts(<<t>>, 6)
  BY <1>1, <1>2, PutsWrite
<1>4. Puts(<<o, t>>, 7)
  <2>1. Puts(<<o>> \o <<t>>, 1 + 6)  BY <1>3, PutsBoth
  <2>2. 1 + 6 = 7  OBVIOUS
  <2>3. QED  BY <2>1, <2>2, OneAfterOther
<1>5. HeaderWrites(type, wasted) = <<o, t>> \o (IF wasted = 0 THEN <<o>> ELSE <<i, z, i>>)
  BY <1>2, Zenon DEF HeaderWrites
<1>6. CASE wasted = 0
  <2>1. Puts(<<o, t>> \o <<o>>, 7 + 1)  BY <1>3, <1>4, PutsBoth
  <2>2. 7 + 1 = 8 + wasted  BY <1>6
  <2>3. HeaderWrites(type, wasted) = <<o, t>> \o <<o>>  BY <1>5, <1>6
  <2>4. QED  BY <2>1, <2>2, <2>3
<1>7. CASE wasted # 0
  <2>1. PICK n \in Nat : n = wasted - 1  BY <1>7
  <2>2. Puts(<<z>>, n)  BY <1>2, <2>1, PutsZeros
  <2>3. Puts(<<i>> \o <<z>>, 1 + n)  BY <1>3, <2>2, PutsBoth
  <2>4. Puts(<<i, z>>, 1 + n)  BY <2>3, OneAfterOther
  <2>5. Puts(<<i, z>> \o <<i>>, (1 + n) + 1)  BY <1>3, <2>4, PutsBoth
  <2>6. <<i, z>> \o <<i>> = <<i, z, i>>
    <3>1. i \in Writes /\ z \in Writes  
      <4>1. <<i>> \in Seq(Writes) /\ <<z>> \in Seq(Writes)  BY <1>3, <2>2 DEF Puts
      <4>2. QED  BY <4>1
    <3>2. PICK S : S = Writes  OBVIOUS
    <3>3. i \in S /\ z \in S  BY <3>1, <3>2
    <3>4. PICK x, y, u, v : x = <<i, z>> /\ y = <<i>> /\ u = <<i, z, i>> /\ v = x \o y
      OBVIOUS
    <3>5. /\ x \in Seq(S) /\ Len(x) = 2 /\ x[1] = i /\ x[2] = z
          /\ y \in Seq(S) /\ Len(y) = 1 /\ y[1] = i
          /\ u \in Seq(S) /\ Len(u) = 3 /\ u[1] = i /\ u[2] = z /\ u[3] = i
      BY <3>3, <3>4
    <3>6. v \in Seq(S) /\ Len(v) = 3 /\ v[1] = i /\ v[2] = z /\ v[3] = i
      <4>1. v \in Seq(S) /\ Len(v) = Len(x) + Len(y)  BY <3>4, <3>5
      <4>2. v[1] = x[1] /\ v[2] = x[2] /\ v[3] = y[1]  BY <3>4, <3>5
      <4>3. QED  BY <3>5, <4>1, <4>2
    <3>7. \A j \in 1 .. Len(v) : v[j] = u[j]
      <4>1. \A j \in 1 .. 3 : j = 1 \/ j = 2 \/ j = 3  OBVIOUS
      <4>2. QED  BY <3>5, <3>6, <4>1
    <3>8. Len(u) = Len(v)  BY <3>5, <3>6
    <3>9. v = u  BY <3>5, <3>6, <3>7, <3>8, SeqEqual
    <3>10. QED  BY <3>4, <3>9
  <2>7. Puts(<<i, z, i>>, (1 + n) + 1)  BY <2>5, <2>6
  <2>8. Puts(<<o, t>> \o <<i, z, i>>, 7 + ((1 + n) + 1))  BY <1>4, <2>7, PutsBoth
  <2>9. 7 + ((1 + n) + 1) = 8 + wasted  BY <2>1
  <2>10. HeaderWrites(type, wasted) = <<o, t>> \o <<i, z, i>>  BY <1>5, <1>7
  <2>11. QED  BY <2>8, <2>9, <2>10
<1>8. QED  BY <1>6, <1>7

\* What follows the header of a predicted subframe.
LEMMA PutsPrediction ==
  ASSUME NEW sub, NEW bps \in 1 .. WordBits, IsSubframe(sub, bps), IsPredicted(sub)
  PROVE  \E n \in Nat : /\ Puts(PredictedWrites(sub, bps - sub.wasted), n)
                        /\ PredictedBits(sub, bps) = (8 + sub.wasted) + n
<1>1. PICK x, p, k, l, n, w, order, size, rs, parts, params, porder, precision, kind :
        /\ x = sub.shifted /\ p = sub.predictor /\ k = sub.wasted /\ params = sub.params
        /\ porder = sub.porder /\ precision = sub.precision /\ kind = sub.kind
        /\ order = Order(p) /\ size = Len(x) /\ w = bps - k /\ n = 2^porder
        /\ l = p.coefs /\ rs = Residuals(x, p)
        /\ parts = PartitionsOf(rs, size, order, porder)
  OBVIOUS
<1>2. /\ kind \in PredictedKinds /\ IsPredictor(p) /\ order < size
      /\ kind = "LpcRice" => precision \in 1 .. 15
      /\ porder \in 0 .. 8 /\ ValidPartitionOrder(size, order, porder) /\ IsParameters(params, n)
  BY <1>1, Zenon DEF IsPredicted
<1>3. k \in 0 .. bps - 1 /\ x \in Seq(Int) /\ size \in Nat /\ size = Len(x)
  BY <1>1, Zenon, LenProperties DEF IsSubframe
<1>4. l \in Seq(Int) /\ p.shift \in Int /\ order = Len(l) /\ order \in Nat
  <2>1. l \in Seq(Int) /\ p.shift \in 0 .. 15 /\ order = Len(l)
    BY <1>1, <1>2, Zenon DEF IsPredictor, Order
  <2>2. PICK s : s = p.shift  OBVIOUS
  <2>3. s \in 0 .. 15  BY <2>1, <2>2
  <2>4. s \in Int  BY <2>3
  <2>5. QED  BY <2>1, <2>2, <2>4
<1>5. /\ WordBits \in Nat /\ WordBits >= 15 /\ bps \in Nat /\ k \in Nat /\ porder \in Int
      /\ w \in 0 .. WordBits /\ w \in Nat
  BY <1>1, <1>2, <1>3, SubframesAssumption, WriterAssumption
<1>6. rs \in Seq(Int) /\ Len(rs) = size - order
  <2>1. order <= size  BY <1>2, <1>3, <1>4
  <2>2. QED  BY <1>1, <1>2, <1>3, <2>1, ResidualsTyped
<1>7. n \in Nat /\ parts \in [1 .. n -> Seq(Int)]
  <2>1. porder \in 0 .. WordBits  BY <1>2, <1>5
  <2>2. QED  BY <1>1, <1>2, <1>3, <1>4, <1>6, <2>1, PartitionsTyped
<1>8. Puts(ResidualWrites(porder, parts, params), (2 + 4) + CodedBits(parts, params))
  BY <1>2, <1>5, <1>7, PutsResidual
<1>10. Puts(PlainWrites(SubSeq(x, 1, order), w), order * w)
  <2>1. PICK y : y = SubSeq(x, 1, order)  OBVIOUS
  <2>2. y \in [1 .. order -> Int]
    <3>1. order <= size  BY <1>2, <1>3, <1>4
    <3>2. 1 \in 1 .. Len(x) + 1 /\ order \in 1 - 1 .. Len(x)  BY <1>3, <1>4, <3>1
    <3>3. y \in Seq(Int) /\ Len(y) = order - 1 + 1  BY <1>3, <2>1, <3>2, SubSeqProperties
    <3>4. Len(y) = order  BY <1>4, <3>3
    <3>5. QED  BY <3>3, <3>4
  <2>3. QED  BY <1>4, <1>5, <2>1, <2>2, PutsPlain
<1> DEFINE warm == PlainWrites(SubSeq(x, 1, order), w)
           middle == IF kind = "FixedRice" THEN <<>>
                     ELSE <<Write(precision - 1, 4), Write(p.shift, 5)>> \o PlainWrites(l, precision)
           rest == ResidualWrites(porder, parts, params)
           extra == IF kind = "LpcRice" THEN 4 + 5 + order * precision ELSE 0
           coded == CodedBits(parts, params)
<1>11. PredictedWrites(sub, bps - sub.wasted) = (warm \o middle) \o rest
  BY <1>1, Zenon DEF PredictedWrites
<1>12. PredictedBits(sub, bps) = (8 + k + order * w + extra) + (2 + 4 + coded)
  BY <1>1, Zenon DEF PredictedBits, PredictorBits, PartitionedBits, WastedBitsOverhead
<1>13. Puts(middle, extra) /\ extra \in Nat
  <2>1. CASE kind = "FixedRice"
    <3>1. middle = <<>> /\ extra = 0  BY <2>1
    <3>2. QED  BY <3>1, PutsNothing
  <2>2. CASE kind = "LpcRice"
    <3>1. PICK a, b : a = Write(precision - 1, 4) /\ b = Write(p.shift, 5)  OBVIOUS
    <3>2. precision \in Nat /\ precision \in 0 .. WordBits /\ precision - 1 \in Int
      BY <1>2, <1>5, <2>2
    <3>3. 4 \in 0 .. WordBits /\ 5 \in 0 .. WordBits  BY <1>5
    <3>4. Puts(<<a>>, 4) /\ Puts(<<b>>, 5)  BY <1>4, <3>1, <3>2, <3>3, PutsWrite
    <3>5. Puts(<<a>> \o <<b>>, 4 + 5)  BY <3>4, PutsBoth
    <3>6. Puts(<<a, b>>, 4 + 5)  BY <3>5, OneAfterOther
    <3>7. l \in [1 .. order -> Int]  BY <1>4
    <3>8. Puts(PlainWrites(l, precision), order * precision)  BY <1>4, <3>2, <3>7, PutsPlain
    <3>9. Puts(<<a, b>> \o PlainWrites(l, precision), (4 + 5) + order * precision)
      BY <3>6, <3>8, PutsBoth
    <3>10. middle = <<a, b>> \o PlainWrites(l, precision)  BY <2>2, <3>1
    <3>11. extra = (4 + 5) + order * precision  BY <2>2
    <3>12. order * precision \in Nat  BY <1>4, <3>2
    <3> HIDE DEF middle, extra
    <3>13. extra \in Nat  BY <3>11, <3>12
    <3>14. QED  BY <3>9, <3>10, <3>11, <3>13
  <2>3. QED  BY <1>2, <2>1, <2>2 DEF PredictedKinds
<1>14. coded \in Nat  BY <1>2, <1>7, CodedTyped
<1>15. PICK t : t = order * w  OBVIOUS
<1>16. t \in Nat  BY <1>4, <1>5, <1>15
<1> HIDE DEF warm, middle, rest, extra, coded
<1>17. Puts(warm, t) /\ Puts(middle, extra) /\ Puts(rest, (2 + 4) + coded)
  BY <1>8, <1>10, <1>13, <1>15 DEF warm, rest, coded
<1>18. Puts(warm \o middle, t + extra)  BY <1>17, PutsBoth
<1>19. PICK m : m = (t + extra) + ((2 + 4) + coded)  OBVIOUS
<1>20. Puts((warm \o middle) \o rest, m)  BY <1>17, <1>18, <1>19, PutsBoth
<1>21. m \in Nat /\ PredictedBits(sub, bps) = (8 + k) + m
  <2>1. PredictedBits(sub, bps) = (8 + k + t + extra) + (2 + 4 + coded)  BY <1>12, <1>15
  <2>2. m \in Nat  BY <1>13, <1>14, <1>16, <1>19
  <2>3. QED  BY <1>5, <1>13, <1>14, <1>16, <1>19, <2>1, <2>2
<1>22. QED  BY <1>1, <1>11, <1>20, <1>21

LEMMA PutsPredicted ==
  ASSUME NEW sub, NEW bps \in 1 .. WordBits, IsSubframe(sub, bps), IsPredicted(sub)
  PROVE  Puts(HeaderWrites(SubframeType(sub), sub.wasted) \o PredictedWrites(sub, bps - sub.wasted),
              PredictedBits(sub, bps))
<1>1. PICK n \in Nat : /\ Puts(PredictedWrites(sub, bps - sub.wasted), n)
                       /\ PredictedBits(sub, bps) = (8 + sub.wasted) + n
  BY PutsPrediction
<1>2. PICK order, type : order = Order(sub.predictor) /\ type = SubframeType(sub)  OBVIOUS
<1>3. type \in Int
  <2>1. type = IF sub.kind = "FixedRice" THEN 8 + order ELSE 32 + order - 1
    BY <1>2 DEF SubframeType, IsPredicted, PredictedKinds
  <2>2. order \in Nat  BY <1>2 DEF IsPredicted, IsPredictor, Order
  <2>3. QED  BY <2>1, <2>2
<1>4. Puts(HeaderWrites(type, sub.wasted), 8 + sub.wasted)
  <2>1. sub.wasted \in Nat  BY SubframesAssumption DEF IsSubframe
  <2>2. QED  BY <1>3, <2>1, PutsHeader
<1>5. QED  BY <1>1, <1>2, <1>4, PutsBoth

LEMMA PutsSubframe ==
  ASSUME NEW sub, NEW bps \in 1 .. WordBits, IsSubframe(sub, bps)
  PROVE  Puts(SubframeWrites(sub, bps), CountedBits(sub, bps))
<1>1. PICK x, k, w, n : x = sub.shifted /\ k = sub.wasted /\ w = bps - k /\ n = Len(x)
  OBVIOUS
<1>2. k \in 0 .. bps - 1 /\ x \in Seq(Int) /\ n \in Nat /\ n >= 1
  BY <1>1, LenProperties DEF IsSubframe
<1>3. WordBits \in Nat /\ bps \in Nat /\ k \in Nat /\ w \in 0 .. WordBits /\ w \in Nat
  BY <1>1, <1>2, SubframesAssumption
<1>4. CASE sub.kind = "Constant"
  <2>1. PICK y : y = <<x[1]>>  OBVIOUS
  <2>2. y \in [1 .. 1 -> Int] /\ 1 \in Nat
    <3>1. x[1] \in Int  BY <1>1, <1>2
    <3>2. QED  BY <2>1, <3>1
  <2>3. Puts(PlainWrites(y, w), 1 * w)  BY <1>3, <2>2, PutsPlain
  <2>4. SubframeType(sub) = 0  BY <1>4 DEF SubframeType
  <2>5. Puts(HeaderWrites(0, k), 8 + k)  BY <1>3, PutsHeader, 0 \in Int
  <2>6. Puts(HeaderWrites(0, k) \o PlainWrites(y, w), (8 + k) + 1 * w)
    BY <2>3, <2>5, PutsBoth
  <2>7. SubframeWrites(sub, bps) = HeaderWrites(0, k) \o PlainWrites(y, w)
    BY <1>1, <1>4, <2>1, <2>4 DEF SubframeWrites
  <2>8. CountedBits(sub, bps) = 8 + (bps - k) + k
    BY <1>1, <1>4 DEF CountedBits, ConstantBits, WastedBitsOverhead
  <2>9. (8 + k) + 1 * w = CountedBits(sub, bps)  BY <1>1, <1>3, <2>8
  <2>10. QED  BY <2>6, <2>7, <2>9
<1>5. CASE sub.kind = "Verbatim"
  <2>1. x \in [1 .. n -> Int]  BY <1>1, <1>2
  <2>2. Puts(PlainWrites(x, w), n * w)  BY <1>2, <1>3, <2>1, PutsPlain
  <2>3. SubframeType(sub) = 1  BY <1>5 DEF SubframeType
  <2>4. Puts(HeaderWrites(1, k), 8 + k)  BY <1>3, PutsHeader, 1 \in Int
  <2>5. Puts(HeaderWrites(1, k) \o PlainWrites(x, w), (8 + k) + n * w)
    BY <2>2, <2>4, PutsBoth
  <2>6. SubframeWrites(sub, bps) = HeaderWrites(1, k) \o PlainWrites(x, w)
    BY <1>1, <1>5, <2>3 DEF SubframeWrites
  <2>7. CountedBits(sub, bps) = 8 + n * w + k
    BY <1>1, <1>5 DEF CountedBits, VerbatimBits, WastedBitsOverhead
  <2>8. n * w \in Nat  BY <1>2, <1>3
  <2>9. (8 + k) + n * w = CountedBits(sub, bps)  BY <1>3, <2>7, <2>8
  <2>10. QED  BY <2>5, <2>6, <2>9
<1>6. CASE sub.kind \notin {"Constant", "Verbatim"}
  <2>1. IsPredicted(sub)  BY <1>6 DEF IsSubframe, IsPlain
  <2>2. SubframeWrites(sub, bps)
          = HeaderWrites(SubframeType(sub), sub.wasted) \o PredictedWrites(sub, bps - sub.wasted)
    BY <1>6 DEF SubframeWrites
  <2>3. CountedBits(sub, bps) = PredictedBits(sub, bps)
    BY <1>6 DEF CountedBits
  <2>4. QED  BY <2>1, <2>2, <2>3, PutsPredicted
<1>7. QED  BY <1>4, <1>5, <1>6

-----------------------------------------------------------------------------
(* What the searches settle on is one of the choices, and the best of them. *)

LEMMA LeastFound ==
  ASSUME NEW D, D \subseteq Nat, D # {}, NEW f \in [D -> Nat]
  PROVE  FirstLeast(f) \in D /\ \A j \in D : f[FirstLeast(f)] <= f[j]
<1> DEFINE Best(k) == \A j \in D : f[k] < f[j] \/ (f[k] = f[j] /\ k <= j)
<1>1. PICK V : V = {f[k] : k \in D}  OBVIOUS
<1>2. V \subseteq Nat /\ V # {}  BY <1>1
<1>3. PICK v \in V : \A u \in V : v <= u  BY <1>2, LeastNumber
<1>4. PICK E : E = {k \in D : f[k] = v}  OBVIOUS
<1>5. E \subseteq Nat /\ E # {}  BY <1>1, <1>3, <1>4
<1>6. PICK e \in E : \A k \in E : e <= k  BY <1>5, LeastNumber
<1>7. e \in D /\ f[e] = v  BY <1>4, <1>6
<1>8. Best(e)
  <2>1. ASSUME NEW j \in D PROVE f[e] < f[j] \/ (f[e] = f[j] /\ e <= j)
    <3>1. f[j] \in V /\ v <= f[j]  BY <1>1, <1>3
    <3>2. v \in Nat /\ f[j] \in Nat  BY <1>2, <1>3, <3>1
    <3>3. f[j] = v => e <= j  BY <1>4, <1>6
    <3>4. QED  BY <1>7, <3>1, <3>2, <3>3
  <2>2. QED  BY <2>1
<1>9. DOMAIN f = D  OBVIOUS
<1>10. FirstLeast(f) = CHOOSE k \in D : Best(k)  BY <1>9, Zenon DEF FirstLeast
<1>11. PICK c : c = FirstLeast(f)  OBVIOUS
<1>12. c \in D /\ Best(c)
  <2>1. \E k \in D : Best(k)  BY <1>7, <1>8
  <2> HIDE DEF Best
  <2>2. (CHOOSE k \in D : Best(k)) \in D /\ Best(CHOOSE k \in D : Best(k))  BY <2>1, Zenon
  <2>3. QED  BY <1>10, <1>11, <2>2, Zenon
<1>13. \A j \in D : f[c] <= f[j]
  <2>1. ASSUME NEW j \in D PROVE f[c] <= f[j]
    <3>1. f[c] \in Nat /\ f[j] \in Nat  BY <1>12
    <3>2. f[c] < f[j] \/ f[c] = f[j]  BY <1>12
    <3>3. QED  BY <3>1, <3>2
  <2>2. QED  BY <2>1
<1>14. QED  BY <1>11, <1>12, <1>13

\* The chosen Rice parameter needs the fewest bits.
LEMMA ChosenRice ==
  ASSUME NEW rs \in Seq(Int)
  PROVE  /\ ChooseRiceParameter(rs) \in 0 .. MaxRiceParameter
         /\ \A k \in 0 .. MaxRiceParameter :
              RiceBits(rs, ChooseRiceParameter(rs)) <= RiceBits(rs, k)
<1>1. PICK D : D = 0 .. MaxRiceParameter  OBVIOUS
<1>2. PICK f : f = [k \in D |-> RiceBits(rs, k)]  OBVIOUS
<1>3. f \in [D -> Nat]  BY <1>1, <1>2, RiceBitsTyped
<1>4. D \subseteq Nat /\ D # {}
  <2>1. MaxRiceParameter \in Nat  BY SubframesAssumption
  <2>2. 0 \in 0 .. MaxRiceParameter /\ 0 .. MaxRiceParameter \subseteq Nat  BY <2>1
  <2>3. QED  BY <1>1, <2>2, Zenon
<1>5. PICK c : c = FirstLeast(f)  OBVIOUS
<1>6. c \in D /\ \A j \in D : f[c] <= f[j]  BY <1>3, <1>4, <1>5, LeastFound
<1>7. ChooseRiceParameter(rs) = c  BY <1>1, <1>2, <1>5, Zenon DEF ChooseRiceParameter
<1>8. QED  BY <1>1, <1>2, <1>6, <1>7

LEMMA ExactIsParameters ==
  ASSUME NEW n \in Nat, NEW parts \in [1 .. n -> Seq(Int)]
  PROVE  /\ IsParameters(ChosenParameters(parts), n)
         /\ \A params : IsParameters(params, n) =>
              CodedBits(parts, ChosenParameters(parts)) <= CodedBits(parts, params)
<1>1. PICK ps : ps = ChosenParameters(parts)  OBVIOUS
<1>2. ps = [p \in 1 .. n |-> ChooseRiceParameter(parts[p])]
  <2>1. DOMAIN parts = 1 .. n  OBVIOUS
  <2>2. QED  BY <1>1, <2>1, Zenon DEF ChosenParameters
<1>3. IsParameters(ps, n)
  <2>1. ASSUME NEW p \in 1 .. n PROVE ps[p] \in 0 .. MaxRiceParameter
    <3>1. parts[p] \in Seq(Int)  OBVIOUS
    <3>2. QED  BY <1>2, <3>1, ChosenRice
  <2>2. QED  BY <2>1 DEF IsParameters
<1>4. ASSUME NEW params, IsParameters(params, n)
      PROVE  CodedBits(parts, ps) <= CodedBits(parts, params)
  <2>1. PICK x, y : /\ x = [p \in 1 .. n |-> 4 + RiceBits(parts[p], ps[p])]
                    /\ y = [p \in 1 .. n |-> 4 + RiceBits(parts[p], params[p])]
    OBVIOUS
  <2>2. x \in [1 .. n -> Nat] /\ CodedBits(parts, ps) = SumSeq(x)
    BY <1>3, <2>1, CodedTyped
  <2>3. y \in [1 .. n -> Nat] /\ CodedBits(parts, params) = SumSeq(y)
    BY <1>4, <2>1, CodedTyped
  <2>4. ASSUME NEW p \in 1 .. n PROVE x[p] <= y[p]
    <3>1. parts[p] \in Seq(Int) /\ params[p] \in 0 .. MaxRiceParameter
      BY <1>4 DEF IsParameters
    <3>2. ps[p] = ChooseRiceParameter(parts[p])  BY <1>2
    <3>3. RiceBits(parts[p], ps[p]) <= RiceBits(parts[p], params[p])
      BY <3>1, <3>2, ChosenRice
    <3>4. ps[p] \in 0 .. MaxRiceParameter  BY <1>3 DEF IsParameters
    <3>5. RiceBits(parts[p], ps[p]) \in Nat /\ RiceBits(parts[p], params[p]) \in Nat
      BY <3>1, <3>4, RiceBitsTyped
    <3>6. QED  BY <2>1, <3>3, <3>5
  <2>5. x \in [1 .. n -> Int] /\ y \in [1 .. n -> Int]  BY <2>2, <2>3
  <2>6. SumSeq(x) <= SumSeq(y)  BY <2>4, <2>5, SumAtMost
  <2>7. QED  BY <2>2, <2>3, <2>6
<1>5. QED  BY <1>1, <1>3, <1>4

\* The parameters estimated from the mean are ones the format has.
LEMMA AbsSumTyped ==
  ASSUME NEW rs \in Seq(Int)
  PROVE  AbsSum(rs) \in Nat
<1>1. PICK n \in Nat : n = Len(rs) /\ DOMAIN rs = 1 .. n /\ \A i \in 1 .. n : rs[i] \in Int
  OBVIOUS
<1>2. PICK x : x = [i \in 1 .. n |-> Magnitude(rs[i])]  OBVIOUS
<1>3. x \in [1 .. n -> Nat]  BY <1>1, <1>2 DEF Magnitude
<1>4. AbsSum(rs) = SumSeq(x)  BY <1>1, <1>2, Zenon DEF AbsSum
<1>5. QED  BY <1>3, <1>4, SumNat

LEMMA MeanParameterTyped ==
  ASSUME NEW absSum \in Nat, NEW count \in Nat
  PROVE  MeanRiceParameter(absSum, count) \in 0 .. MaxRiceParameter
<1>0. MaxRiceParameter \in Nat  BY SubframesAssumption
<1> DEFINE mean == ((absSum - 1) * (2^18 \div count)) \div 2^18
           powers == {e \in 0 .. 30 : 2^e <= mean}
           wanted == Max(powers) + 1
<1>1. MeanRiceParameter(absSum, count) =
        IF count = 0 \/ absSum < 2 THEN 0
        ELSE IF mean = 0 THEN 0 ELSE Min({MaxRiceParameter, wanted})
  BY Zenon DEF MeanRiceParameter
<1>2. CASE count = 0 \/ absSum < 2 \/ mean = 0  BY <1>0, <1>1, <1>2
<1>3. CASE count # 0 /\ ~(absSum < 2) /\ mean # 0
  <2>1. mean \in Nat
    <3>1. PICK d \in Nat \ {0} : d = 2^18  OBVIOUS
    <3>2. d \div count \in Nat  BY <1>3
    <3>3. (absSum - 1) * (d \div count) \in Nat
      <4>1. PICK a \in Nat : a = absSum - 1  BY <1>3
      <4>2. PICK b \in Nat : b = d \div count  BY <3>2
      <4>3. a * b \in Nat  OBVIOUS
      <4>4. QED  BY <4>1, <4>2, <4>3
    <3>4. PICK c \in Nat : c = (absSum - 1) * (d \div count)  BY <3>3
    <3>5. c \div d \in Nat  OBVIOUS
    <3>6. QED  BY <3>1, <3>4, <3>5
  <2>2. 0 \in powers
    <3>1. 2^0 = 1
      <4>1. 2^0 \in Nat \ {0}  BY PowerTyped, SubframesAssumption
      <4>2. QED  OBVIOUS
    <3> HIDE DEF mean
    <3>2. QED  BY <1>3, <2>1, <3>1
  <2>3. powers \subseteq 0 .. 30 /\ powers # {} /\ 30 \in Nat  BY <2>2
  <2> HIDE DEF powers, mean
  <2>4. PICK P : P = powers  OBVIOUS
  <2>5. Max(P) \in P  BY <2>3, <2>4, LargestNumber
  <2>6. wanted \in Nat
    <3>1. PICK e : e = Max(P)  OBVIOUS
    <3>2. e \in 0 .. 30  BY <2>3, <2>4, <2>5, <3>1
    <3>3. e + 1 \in Nat  BY <3>2
    <3>4. QED  BY <2>4, <3>1, <3>3
  <2> HIDE DEF wanted
  <2>7. PICK w, m : w = wanted /\ m = (IF MaxRiceParameter <= w THEN MaxRiceParameter ELSE w)
    OBVIOUS
  <2>8. PICK T : T = {MaxRiceParameter, w}  OBVIOUS
  <2>9. T \subseteq Int /\ m \in T /\ (\A y \in T : m <= y) /\ m \in 0 .. MaxRiceParameter
    BY <1>0, <2>6, <2>7, <2>8
  <2>10. Min(T) = m  BY <2>9, MinIs
  <2>11. QED  BY <1>1, <1>3, <2>7, <2>8, <2>9, <2>10
<1>4. QED  BY <1>2, <1>3

LEMMA MeanBitsTyped ==
  ASSUME NEW k \in 0 .. MaxRiceParameter, NEW count \in Nat, NEW absSum \in Nat
  PROVE  MeanPartitionBits(k, count, absSum) \in Nat
<1>0. /\ MaxRiceParameter \in Nat /\ WordBits \in Nat /\ WordBits > MaxRiceParameter
      /\ k \in Nat
  BY SubframesAssumption
<1>1. PICK coded : coded = IF k = 0 THEN 2 * absSum ELSE absSum \div 2^(k - 1)  OBVIOUS
<1>2. coded \in Nat
  <2>1. CASE k = 0  BY <1>1, <2>1
  <2>2. CASE k # 0
    <3>1. k - 1 \in 0 .. WordBits  BY <1>0, <2>2
    <3>2. PICK d \in Nat \ {0} : d = 2^(k - 1)  BY <3>1, PowerTyped
    <3>3. absSum \div d \in Nat  OBVIOUS
    <3>4. QED  BY <1>1, <2>2, <3>2, <3>3
  <2>3. QED  BY <2>1, <2>2
<1>3. PICK bits : bits = 4 + (1 + k) * count + coded  OBVIOUS
<1>4. bits \in Nat
  <2>1. (1 + k) * count \in Nat  BY <1>0
  <2>2. QED  BY <1>2, <1>3, <2>1
<1>5. PICK half : half = count \div 2  OBVIOUS
<1>6. half \in Nat  BY <1>5
<1>7. MeanPartitionBits(k, count, absSum) = IF bits > half THEN bits - half ELSE 0
  BY <1>1, <1>3, <1>5, Zenon DEF MeanPartitionBits
<1>8. QED  BY <1>4, <1>6, <1>7

LEMMA MeanCandidateTyped ==
  ASSUME NEW n \in Nat, NEW parts \in [1 .. n -> Seq(Int)], NEW po
  PROVE  /\ IsParameters(MeanCandidate(po, parts).params, n)
         /\ MeanCandidate(po, parts).bits \in Nat
         /\ MeanCandidate(po, parts).porder = po
<1>1. PICK ps : ps = MeanParameters(parts)  OBVIOUS
<1>2. ps = [p \in 1 .. n |-> MeanRiceParameter(AbsSum(parts[p]), Len(parts[p]))]
  <2>1. DOMAIN parts = 1 .. n  OBVIOUS
  <2>2. QED  BY <1>1, <2>1, Zenon DEF MeanParameters
<1>3. \A p \in 1 .. n : AbsSum(parts[p]) \in Nat /\ Len(parts[p]) \in Nat
  <2>1. ASSUME NEW p \in 1 .. n PROVE AbsSum(parts[p]) \in Nat /\ Len(parts[p]) \in Nat
    <3>1. parts[p] \in Seq(Int)  OBVIOUS
    <3>2. QED  BY <3>1, AbsSumTyped
  <2>2. QED  BY <2>1
<1>4. IsParameters(ps, n)
  <2>1. \A p \in 1 .. n : ps[p] \in 0 .. MaxRiceParameter
    BY <1>2, <1>3, MeanParameterTyped
  <2>2. QED  BY <2>1 DEF IsParameters
<1>5. PICK x : x = [p \in 1 .. n |-> MeanPartitionBits(ps[p], Len(parts[p]), AbsSum(parts[p]))]
  OBVIOUS
<1>6. x \in [1 .. n -> Nat]
  <2>1. \A p \in 1 .. n : MeanPartitionBits(ps[p], Len(parts[p]), AbsSum(parts[p])) \in Nat
    BY <1>3, <1>4, MeanBitsTyped DEF IsParameters
  <2>2. QED  BY <1>5, <2>1
<1>7. MeanBits(parts, ps) = 6 + SumSeq(x)
  <2>1. DOMAIN parts = 1 .. n  OBVIOUS
  <2>2. QED  BY <1>5, <2>1, Zenon DEF MeanBits
<1>8. MeanBits(parts, ps) \in Nat  BY <1>6, <1>7, SumNat
<1>9. MeanCandidate(po, parts) = [porder |-> po, params |-> ps, bits |-> MeanBits(parts, ps)]
  BY <1>1, Zenon DEF MeanCandidate
<1>10. QED  BY <1>4, <1>8, <1>9

LEMMA LargestLeastFound ==
  ASSUME NEW C, C # {}, NEW m \in Nat,
         \A c \in C : c.bits \in Nat /\ c.porder \in 0 .. m
  PROVE  LargestLeast(C) \in C
<1> DEFINE Best(c) == \A d \in C : c.bits < d.bits \/ (c.bits = d.bits /\ c.porder >= d.porder)
<1>1. PICK V : V = {c.bits : c \in C}  OBVIOUS
<1>2. V \subseteq Nat /\ V # {}  BY <1>1
<1>3. PICK v \in V : \A u \in V : v <= u  BY <1>2, LeastNumber
<1>4. PICK P : P = {n \in 0 .. m : \E c \in C : c.bits = v /\ c.porder = n}  OBVIOUS
<1>5. P \subseteq 0 .. m /\ P # {}
  <2>1. PICK c \in C : c.bits = v  BY <1>1, <1>3
  <2>2. c.porder \in P  BY <1>4, <2>1
  <2>3. QED  BY <1>4, <2>2
<1>6. PICK p : p = Max(P)  OBVIOUS
<1>7. p \in P /\ \A n \in P : p >= n  BY <1>5, <1>6, LargestNumber
<1>8. PICK c \in C : c.bits = v /\ c.porder = p  BY <1>4, <1>7
<1>9. Best(c)
  <2>1. ASSUME NEW d \in C PROVE c.bits < d.bits \/ (c.bits = d.bits /\ c.porder >= d.porder)
    <3>1. PICK b : b = d.bits  OBVIOUS
    <3>2. b \in V /\ v <= b /\ b \in Nat /\ v \in Nat  BY <1>1, <1>2, <1>3, <3>1
    <3>3. b = v => d.porder \in P  BY <1>4, <3>1
    <3>4. b = v => p >= d.porder  BY <1>7, <3>3
    <3>5. QED  BY <1>8, <3>1, <3>2, <3>4
  <2>2. QED  BY <2>1
<1>10. \E x \in C : Best(x)  BY <1>9
<1> HIDE DEF Best
<1>11. (CHOOSE x \in C : Best(x)) \in C  BY <1>10, Zenon
<1>12. QED  BY <1>11, Zenon DEF LargestLeast, Best

LEMMA FirstBestFound ==
  ASSUME NEW C, C # {},
         \A c \in C : c.bits \in Nat /\ Order(c.predictor) \in Nat /\ c.porder \in Nat
  PROVE  FirstBest(C) \in C /\ \A d \in C : FirstBest(C).bits <= d.bits
<1> DEFINE Best(c) == \A d \in C :
             \/ c.bits < d.bits
             \/ c.bits = d.bits /\ Order(c.predictor) < Order(d.predictor)
             \/ c.bits = d.bits /\ Order(c.predictor) = Order(d.predictor) /\ c.porder <= d.porder
<1>1. PICK V : V = {c.bits : c \in C}  OBVIOUS
<1>2. V \subseteq Nat /\ V # {}  BY <1>1
<1>3. PICK v \in V : \A u \in V : v <= u  BY <1>2, LeastNumber
<1>4. PICK P : P = {n \in Nat : \E c \in C : c.bits = v /\ Order(c.predictor) = n}  OBVIOUS
<1>5. P \subseteq Nat /\ P # {}
  <2>1. PICK c \in C : c.bits = v  BY <1>1, <1>3
  <2>2. Order(c.predictor) \in P  BY <1>4, <2>1
  <2>3. QED  BY <1>4, <2>2
<1>6. PICK p \in P : \A n \in P : p <= n  BY <1>5, LeastNumber
<1>7. PICK Q : Q = {n \in Nat : \E c \in C : /\ c.bits = v /\ Order(c.predictor) = p
                                             /\ c.porder = n}
  OBVIOUS
<1>8. Q \subseteq Nat /\ Q # {}
  <2>1. PICK c \in C : c.bits = v /\ Order(c.predictor) = p  BY <1>4, <1>6
  <2>2. c.porder \in Q  BY <1>7, <2>1
  <2>3. QED  BY <1>7, <2>2
<1>9. PICK q \in Q : \A n \in Q : q <= n  BY <1>8, LeastNumber
<1>10. PICK c \in C : c.bits = v /\ Order(c.predictor) = p /\ c.porder = q  BY <1>7, <1>9
<1>11. Best(c)
  <2>1. SUFFICES ASSUME NEW d \in C
        PROVE  \/ c.bits < d.bits
               \/ c.bits = d.bits /\ Order(c.predictor) < Order(d.predictor)
               \/ c.bits = d.bits /\ Order(c.predictor) = Order(d.predictor) /\ c.porder <= d.porder
    OBVIOUS
  <2>2. PICK b, o, r : b = d.bits /\ o = Order(d.predictor) /\ r = d.porder  OBVIOUS
  <2>3. b \in V /\ v <= b /\ b \in Nat /\ v \in Nat  BY <1>1, <1>2, <1>3, <2>2
  <2>4. b = v => o \in P /\ p <= o  BY <1>4, <1>6, <2>2
  <2>5. b = v /\ o = p => r \in Q /\ q <= r  BY <1>7, <1>9, <2>2
  <2>6. o \in Nat /\ p \in Nat  BY <1>5, <1>6, <2>2
  <2>7. QED  BY <1>10, <2>2, <2>3, <2>4, <2>5, <2>6
<1>12. \E x \in C : Best(x)  BY <1>11
<1>13. \A x \in C : Best(x) => \A d \in C : x.bits <= d.bits
  <2>1. ASSUME NEW x \in C, Best(x), NEW d \in C PROVE x.bits <= d.bits
    <3>1. x.bits \in Nat /\ d.bits \in Nat  OBVIOUS
    <3>2. x.bits < d.bits \/ x.bits = d.bits  BY <2>1
    <3>3. QED  BY <3>1, <3>2
  <2>2. QED  BY <2>1
<1> HIDE DEF Best
<1>14. PICK b : b = CHOOSE x \in C : Best(x)  OBVIOUS
<1>15. b \in C /\ Best(b)  BY <1>12, <1>14, Zenon
<1>16. FirstBest(C) = b  BY <1>14, Zenon DEF FirstBest, Best
<1>17. QED  BY <1>13, <1>15, <1>16

\* Any predictor shorter than the block can be used without partitioning it.
LEMMA NoPartitionIsValid ==
  ASSUME NEW size \in Nat, NEW order \in Nat, order < size
  PROVE  ValidPartitionOrder(size, order, 0)
<1>1. 2^0 = 1
  <2>1. 2^0 \in Nat \ {0}  BY PowerTyped, SubframesAssumption
  <2>2. QED  OBVIOUS
<1>2. size % 1 = 0 /\ size \div 1 = size  OBVIOUS
<1>3. QED  BY <1>1, <1>2 DEF ValidPartitionOrder

\* The inputs under which a predictor is analysed.
IsAnalysis(kind, p, precision, x, bps, wasted) ==
  /\ bps \in 1 .. WordBits /\ wasted \in 0 .. bps - 1
  /\ x \in Seq(Int) /\ Len(x) >= 1
  /\ kind \in PredictedKinds /\ IsPredictor(p) /\ Order(p) < Len(x)
  /\ kind = "LpcRice" => precision \in 1 .. 15
  /\ kind = "FixedRice" => precision \in Nat

LEMMA AnalysisTyped ==
  ASSUME NEW kind, NEW p, NEW precision, NEW x, NEW bps, NEW wasted,
         IsAnalysis(kind, p, precision, x, bps, wasted),
         NEW po \in 0 .. 8, ValidPartitionOrder(Len(x), Order(p), po)
  PROVE  /\ Order(p) \in Nat /\ Len(x) \in Nat
         /\ 2^po \in Nat
         /\ PartitionsOf(Residuals(x, p), Len(x), Order(p), po) \in [1 .. 2^po -> Seq(Int)]
<1>1. x \in Seq(Int) /\ IsPredictor(p) /\ Order(p) < Len(x)  BY DEF IsAnalysis
<1>2. PICK k, n, rs : k = Order(p) /\ n = Len(x) /\ rs = Residuals(x, p)  OBVIOUS
<1>3. k \in Nat /\ n \in Nat
  <2>1. n \in Nat  BY <1>1, <1>2, LenProperties
  <2>2. k \in Nat  BY <1>1, <1>2, LenProperties DEF Order, IsPredictor
  <2>3. QED  BY <2>1, <2>2
<1>4. k <= n  BY <1>1, <1>2, <1>3
<1>5. rs \in Seq(Int) /\ Len(rs) = n - k  BY <1>1, <1>2, <1>4, ResidualsTyped
<1>6. po \in 0 .. WordBits  BY SubframesAssumption, WriterAssumption
<1>7. 2^po \in Nat /\ PartitionsOf(rs, n, k, po) \in [1 .. 2^po -> Seq(Int)]
  BY <1>2, <1>3, <1>5, <1>6, PartitionsTyped
<1>8. QED  BY <1>2, <1>3, <1>7

IsPrediction(sub, kind, p, precision, x, bps, wasted, po, params) ==
  /\ IsSubframe(sub, bps) /\ IsPredicted(sub)
  /\ sub.kind = kind /\ sub.predictor = p /\ sub.precision = precision
  /\ sub.shifted = x /\ sub.wasted = wasted /\ sub.porder = po /\ sub.params = params
  /\ sub.bits \in Nat /\ sub.bits = CountedBits(sub, bps)
  /\ sub.bits = PredictorBits(kind, Order(p), precision, bps, wasted)
                + PartitionedBits(Residuals(x, p), Len(x), Order(p), po, params)

LEMMA PredictedIsSubframe ==
  ASSUME NEW kind, NEW p, NEW precision, NEW x, NEW bps, NEW wasted,
         IsAnalysis(kind, p, precision, x, bps, wasted),
         NEW po \in 0 .. 8, ValidPartitionOrder(Len(x), Order(p), po),
         NEW params, IsParameters(params, 2^po),
         NEW sub, sub = Predicted(kind, p, precision, po, params, x, bps, wasted)
  PROVE  IsPrediction(sub, kind, p, precision, x, bps, wasted, po, params)
<1>1. /\ sub.kind = kind /\ sub.predictor = p /\ sub.precision = precision /\ sub.porder = po
      /\ sub.params = params /\ sub.wasted = wasted /\ sub.shifted = x
      /\ sub.bits = PredictorBits(kind, Order(p), precision, bps, wasted)
                    + PartitionedBits(Residuals(x, p), Len(x), Order(p), po, params)
  BY DEF Predicted
<1>2. IsPredicted(sub)  BY <1>1, Zenon DEF IsPredicted, IsAnalysis
<1>3. IsSubframe(sub, bps)  BY <1>1, <1>2, Zenon DEF IsSubframe, IsAnalysis
<1>4. sub.bits = PredictedBits(sub, bps)  BY <1>1, Zenon DEF PredictedBits
<1>5. CountedBits(sub, bps) = PredictedBits(sub, bps)
  <2>1. kind # "Constant" /\ kind # "Verbatim"  BY DEF IsAnalysis, PredictedKinds
  <2>2. QED  BY <1>1, <2>1 DEF CountedBits
<1>6. sub.bits \in Nat
  <2>1. bps \in 1 .. WordBits  BY DEF IsAnalysis
  <2>2. Puts(SubframeWrites(sub, bps), CountedBits(sub, bps))  BY <1>3, <2>1, PutsSubframe
  <2>3. CountedBits(sub, bps) \in Nat  BY <2>2, PutsBits
  <2>4. QED  BY <1>4, <1>5, <2>3
<1>7. QED  BY <1>1, <1>2, <1>3, <1>4, <1>5, <1>6, Zenon DEF IsPrediction

\* No partition order and no parameters of this predictor need fewer bits.
IsCheapest(sub, kind, p, precision, x, bps, wasted, maxPorder) ==
  \A po \in 0 .. maxPorder : \A params :
    ValidPartitionOrder(Len(x), Order(p), po) /\ IsParameters(params, 2^po) =>
      sub.bits <= PredictorBits(kind, Order(p), precision, bps, wasted)
                  + PartitionedBits(Residuals(x, p), Len(x), Order(p), po, params)

IsAnalyzed(sub, kind, p, precision, x, bps, wasted) ==
  /\ IsSubframe(sub, bps) /\ IsPredicted(sub)
  /\ sub.kind = kind /\ sub.predictor = p /\ sub.precision = precision
  /\ sub.shifted = x /\ sub.wasted = wasted

LEMMA ExactIsCheapest ==
  ASSUME NEW kind, NEW p, NEW precision, NEW x, NEW bps, NEW wasted,
         IsAnalysis(kind, p, precision, x, bps, wasted), NEW maxPorder \in 0 .. 8,
         NEW sub,
         sub = FirstBest(ExactSubframes(kind, p, precision, x, bps, wasted, maxPorder))
  PROVE  /\ IsAnalyzed(sub, kind, p, precision, x, bps, wasted)
         /\ sub.bits \in Nat /\ sub.porder \in Nat /\ sub.bits = CountedBits(sub, bps)
         /\ IsCheapest(sub, kind, p, precision, x, bps, wasted, maxPorder)
<1>1. PICK k, n, rs : k = Order(p) /\ n = Len(x) /\ rs = Residuals(x, p)  OBVIOUS
<1>2. PICK V : V = {q \in 0 .. maxPorder : ValidPartitionOrder(n, k, q)}  OBVIOUS
<1>3. k \in Nat /\ n \in Nat /\ k < n
  <2>1. n \in Nat  BY <1>1, LenProperties DEF IsAnalysis
  <2>2. k \in Nat  BY <1>1, LenProperties DEF Order, IsPredictor, IsAnalysis
  <2>3. QED  BY <1>1, <2>1, <2>2 DEF IsAnalysis
<1>4. 0 \in V  BY <1>2, <1>3, NoPartitionIsValid
<1> DEFINE Of(po) == Predicted(kind, p, precision, po, ExactParameters(rs, n, k, po), x, bps, wasted)
           C == {Of(po) : po \in V}
           Cost(po, params) == PredictorBits(kind, k, precision, bps, wasted)
                               + PartitionedBits(rs, n, k, po, params)
<1>5. ExactSubframes(kind, p, precision, x, bps, wasted, maxPorder) = C
  BY <1>1, <1>2, Zenon DEF ExactSubframes
<1>6. ASSUME NEW po \in V
      PROVE  /\ IsAnalyzed(Of(po), kind, p, precision, x, bps, wasted)
             /\ Of(po).bits \in Nat /\ Of(po).porder \in Nat /\ Of(po).predictor = p
             /\ Of(po).bits = CountedBits(Of(po), bps)
             /\ \A params : IsParameters(params, 2^po) => Of(po).bits <= Cost(po, params)
  <2>1. po \in 0 .. 8 /\ po \in Nat /\ ValidPartitionOrder(n, k, po)  BY <1>2
  <2>2. PICK m, parts : m = 2^po /\ parts = PartitionsOf(rs, n, k, po)  OBVIOUS
  <2>3. m \in Nat /\ parts \in [1 .. m -> Seq(Int)]
    BY <1>1, <2>1, <2>2, AnalysisTyped
  <2>4. PICK ps : ps = ExactParameters(rs, n, k, po)  OBVIOUS
  <2>5. ps = ChosenParameters(parts)  BY <2>2, <2>4, Zenon DEF ExactParameters
  <2>6. IsParameters(ps, m)  BY <2>3, <2>5, ExactIsParameters
  <2>7. PICK c : c = Of(po)  OBVIOUS
  <2>8. c = Predicted(kind, p, precision, po, ps, x, bps, wasted)  BY <2>4, <2>7
  <2>9. /\ IsSubframe(c, bps) /\ IsPredicted(c) /\ c.bits = CountedBits(c, bps)
        /\ c.bits = Cost(po, ps) /\ c.bits \in Nat
        /\ c.kind = kind /\ c.predictor = p /\ c.precision = precision /\ c.porder = po
        /\ c.shifted = x /\ c.wasted = wasted
    <3>1. ValidPartitionOrder(Len(x), Order(p), po) /\ IsParameters(ps, 2^po)
      BY <1>1, <2>1, <2>2, <2>6
    <3>2. IsPrediction(c, kind, p, precision, x, bps, wasted, po, ps)
      BY <2>1, <2>8, <3>1, PredictedIsSubframe, Zenon
    <3>3. QED  BY <1>1, <3>2, Zenon DEF IsPrediction
  <2>10. ASSUME NEW params, IsParameters(params, m) PROVE c.bits <= Cost(po, params)
    <3>1. CodedBits(parts, ps) <= CodedBits(parts, params)
      BY <2>3, <2>5, <2>10, ExactIsParameters
    <3>2. PICK d : d = Predicted(kind, p, precision, po, params, x, bps, wasted)  OBVIOUS
    <3>3. d.bits = Cost(po, params) /\ d.bits \in Nat
      <4>1. ValidPartitionOrder(Len(x), Order(p), po) /\ IsParameters(params, 2^po)
        BY <1>1, <2>1, <2>2, <2>10
      <4>2. IsPrediction(d, kind, p, precision, x, bps, wasted, po, params)
        BY <2>1, <3>2, <4>1, PredictedIsSubframe, Zenon
      <4>3. QED  BY <1>1, <4>2, Zenon DEF IsPrediction
    <3>4. CodedBits(parts, ps) \in Nat /\ CodedBits(parts, params) \in Nat
      BY <2>3, <2>6, <2>10, CodedTyped
    <3>5. PICK a : a = PredictorBits(kind, k, precision, bps, wasted)  OBVIOUS
    <3>6. /\ Cost(po, ps) = a + (2 + 4 + CodedBits(parts, ps))
          /\ Cost(po, params) = a + (2 + 4 + CodedBits(parts, params))
      BY <2>2, <3>5, Zenon DEF PartitionedBits
    <3>7. a \in Int
      <4>1. bps \in Nat /\ wasted \in Nat /\ (kind = "LpcRice" => precision \in Nat)
        <5>1. /\ bps \in 1 .. WordBits /\ wasted \in 0 .. bps - 1
              /\ kind = "LpcRice" => precision \in 1 .. 15
          BY Zenon DEF IsAnalysis
        <5>2. WordBits \in Nat  BY SubframesAssumption
        <5>3. bps \in Nat  BY <5>1, <5>2
        <5>4. wasted \in Nat  BY <5>1, <5>3
        <5>5. kind = "LpcRice" => precision \in Nat  BY <5>1
        <5>6. QED  BY <5>3, <5>4, <5>5
      <4>2. a = 8 + wasted + k * (bps - wasted)
                  + (IF kind = "LpcRice" THEN 4 + 5 + k * precision ELSE 0)
        BY <3>5, Zenon DEF PredictorBits, WastedBitsOverhead
      <4>3. PICK w \in Int : w = bps - wasted  BY <4>1
      <4>4. k * w \in Int  BY <1>3
      <4>5. kind = "LpcRice" => k * precision \in Int  BY <1>3, <4>1
      <4>6. QED  BY <4>1, <4>2, <4>3, <4>4, <4>5
    <3> HIDE DEF Cost, Of, C
    <3>8. QED  BY <2>9, <3>1, <3>4, <3>6, <3>7
  <2>11. IsAnalyzed(c, kind, p, precision, x, bps, wasted)  BY <2>9 DEF IsAnalyzed
  <2> HIDE DEF Of, Cost, C
  <2>12. QED  BY <2>1, <2>2, <2>7, <2>9, <2>10, <2>11
<1> HIDE DEF Of, Cost
<1>7. C # {} /\ \A c \in C : \E po \in V : c = Of(po)  BY <1>4
<1>8. \A po \in V : Of(po) \in C  OBVIOUS
<1> HIDE DEF C
<1>9. \A c \in C : c.bits \in Nat /\ Order(c.predictor) \in Nat /\ c.porder \in Nat
  BY <1>1, <1>3, <1>6, <1>7
<1>10. sub = FirstBest(C)  BY <1>5
<1>11. sub \in C /\ \A d \in C : sub.bits <= d.bits  BY <1>7, <1>9, <1>10, FirstBestFound
<1>12. PICK po \in V : sub = Of(po)  BY <1>7, <1>11
<1>13. IsAnalyzed(sub, kind, p, precision, x, bps, wasted) /\ sub.bits \in Nat /\ sub.porder \in Nat
       /\ sub.bits = CountedBits(sub, bps)
  BY <1>6, <1>12
<1>14. ASSUME NEW q \in 0 .. maxPorder, NEW params, ValidPartitionOrder(n, k, q),
              IsParameters(params, 2^q)
       PROVE  sub.bits <= Cost(q, params)
  <2>1. q \in V  BY <1>2, <1>14
  <2>2. sub.bits <= Of(q).bits  BY <1>8, <1>11, <2>1
  <2>3. Of(q).bits <= Cost(q, params) /\ Of(q).bits \in Nat  BY <1>6, <1>14, <2>1
  <2>4. Cost(q, params) \in Int
    <3>1. q \in 0 .. 8  BY <1>14
    <3>2. PICK d : d = Predicted(kind, p, precision, q, params, x, bps, wasted)  OBVIOUS
    <3>3. d.bits = Cost(q, params) /\ d.bits \in Nat
      <4>1. ValidPartitionOrder(Len(x), Order(p), q) /\ IsParameters(params, 2^q)
        BY <1>1, <1>14
      <4>2. IsPrediction(d, kind, p, precision, x, bps, wasted, q, params)
        BY <3>1, <3>2, <4>1, PredictedIsSubframe, Zenon
      <4>3. QED  BY <1>1, <4>2, Zenon DEF IsPrediction, Cost
    <3>4. QED  BY <3>3
  <2>5. QED  BY <1>13, <2>2, <2>3, <2>4
<1>15. IsCheapest(sub, kind, p, precision, x, bps, wasted, maxPorder)
  BY <1>1, <1>14, Zenon DEF IsCheapest, Cost
<1>16. QED  BY <1>13, <1>15

LEMMA EstimatedIsSubframe ==
  ASSUME NEW kind, NEW p, NEW precision, NEW x, NEW bps, NEW wasted,
         IsAnalysis(kind, p, precision, x, bps, wasted), NEW maxPorder \in 0 .. 8,
         NEW mean, mean = MeanChoice(Residuals(x, p), Len(x), Order(p), maxPorder),
         NEW sub, sub = Predicted(kind, p, precision, mean.porder, mean.params, x, bps, wasted)
  PROVE  /\ IsAnalyzed(sub, kind, p, precision, x, bps, wasted)
         /\ sub.bits \in Nat /\ sub.bits = CountedBits(sub, bps)
<1>1. PICK k, n, rs : k = Order(p) /\ n = Len(x) /\ rs = Residuals(x, p)  OBVIOUS
<1>2. PICK V : V = {q \in 0 .. maxPorder : ValidPartitionOrder(n, k, q)}  OBVIOUS
<1>3. k \in Nat /\ n \in Nat /\ k < n
  <2>1. n \in Nat  BY <1>1, LenProperties DEF IsAnalysis
  <2>2. k \in Nat  BY <1>1, LenProperties DEF Order, IsPredictor, IsAnalysis
  <2>3. QED  BY <1>1, <2>1, <2>2 DEF IsAnalysis
<1>4. 0 \in V  BY <1>2, <1>3, NoPartitionIsValid
<1> DEFINE Of(po) == MeanCandidate(po, PartitionsOf(rs, n, k, po))
           C == {Of(po) : po \in V}
<1>5. mean = LargestLeast(C)  BY <1>1, <1>2, Zenon DEF MeanChoice
<1>6. ASSUME NEW po \in V
      PROVE  /\ IsParameters(Of(po).params, 2^po) /\ Of(po).bits \in Nat
             /\ Of(po).porder = po
  <2>1. po \in 0 .. 8 /\ ValidPartitionOrder(n, k, po)  BY <1>2
  <2>2. PICK m, parts : m = 2^po /\ parts = PartitionsOf(rs, n, k, po)  OBVIOUS
  <2>3. m \in Nat /\ parts \in [1 .. m -> Seq(Int)]
    BY <1>1, <2>1, <2>2, AnalysisTyped
  <2>4. QED  BY <2>2, <2>3, MeanCandidateTyped
<1> HIDE DEF Of
<1>7. C # {} /\ \A c \in C : \E po \in V : c = Of(po)  BY <1>4
<1> HIDE DEF C
<1>8. \A c \in C : c.bits \in Nat /\ c.porder \in 0 .. 8
  <2>1. \A po \in V : po \in 0 .. 8  BY <1>2
  <2>2. QED  BY <1>6, <1>7, <2>1
<1>9. 8 \in Nat  OBVIOUS
<1>10. LargestLeast(C) \in C  BY ONLY <1>7, <1>8, <1>9, LargestLeastFound
<1>11. PICK po \in V : mean = Of(po)  BY <1>5, <1>7, <1>10
<1>12. IsParameters(mean.params, 2^po) /\ mean.porder = po  BY <1>6, <1>11
<1>13. po \in 0 .. 8 /\ ValidPartitionOrder(Len(x), Order(p), po)  BY <1>1, <1>2
<1>14. sub = Predicted(kind, p, precision, po, mean.params, x, bps, wasted)  BY <1>12
<1>15. /\ IsSubframe(sub, bps) /\ IsPredicted(sub) /\ sub.bits = CountedBits(sub, bps)
       /\ sub.bits \in Nat
       /\ sub.kind = kind /\ sub.predictor = p /\ sub.precision = precision
       /\ sub.shifted = x /\ sub.wasted = wasted
  <2>1. IsPrediction(sub, kind, p, precision, x, bps, wasted, po, mean.params)
    BY <1>12, <1>13, <1>14, PredictedIsSubframe, Zenon
  <2>2. QED  BY <2>1, Zenon DEF IsPrediction
<1>16. QED  BY <1>15 DEF IsAnalyzed

RiceModes == {"Exact", "MeanEstimate", "MeanEstimateOnly"}

\* What an analysis gives, under each way to choose the partitions.
IsResult(sub, kind, p, precision, x, bps, wasted, maxPorder, rice) ==
  /\ IsAnalyzed(sub, kind, p, precision, x, bps, wasted)
  /\ rice # "MeanEstimateOnly" => sub.bits \in Nat /\ sub.bits = CountedBits(sub, bps)
  /\ rice = "Exact" =>
       /\ sub.porder \in Nat
       /\ IsCheapest(sub, kind, p, precision, x, bps, wasted, maxPorder)

LEMMA AnalyzedIsSubframe ==
  ASSUME NEW kind, NEW p, NEW precision, NEW x, NEW bps, NEW wasted,
         IsAnalysis(kind, p, precision, x, bps, wasted), NEW maxPorder \in 0 .. 8,
         NEW rice \in RiceModes,
         NEW sub, sub = AnalyzePredictor(kind, p, precision, x, bps, wasted, maxPorder, rice)
  PROVE  IsResult(sub, kind, p, precision, x, bps, wasted, maxPorder, rice)
<1>1. CASE rice = "Exact"
  <2>1. sub = FirstBest(ExactSubframes(kind, p, precision, x, bps, wasted, maxPorder))
    BY <1>1 DEF AnalyzePredictor
  <2>2. QED  BY <1>1, <2>1, ExactIsCheapest DEF IsResult
<1>2. PICK mean : mean = MeanChoice(Residuals(x, p), Len(x), Order(p), maxPorder)  OBVIOUS
<1>3. PICK est : est = Predicted(kind, p, precision, mean.porder, mean.params, x, bps, wasted)
  OBVIOUS
<1>4. /\ IsAnalyzed(est, kind, p, precision, x, bps, wasted)
      /\ est.bits \in Nat /\ est.bits = CountedBits(est, bps)
  BY <1>2, <1>3, EstimatedIsSubframe
<1>5. CASE rice = "MeanEstimate"
  <2>1. sub = est  BY <1>2, <1>3, <1>5 DEF AnalyzePredictor
  <2>2. QED  BY <1>4, <1>5, <2>1 DEF IsResult
<1>6. CASE rice = "MeanEstimateOnly"
  <2>1. PICK e : e = PredictorBits(kind, Order(p), precision, bps, wasted) + mean.bits  OBVIOUS
  <2>2. sub = [est EXCEPT !.bits = e]
    BY <1>2, <1>3, <1>6, <2>1 DEF AnalyzePredictor
  <2>3. /\ sub.kind = est.kind /\ sub.predictor = est.predictor /\ sub.precision = est.precision
        /\ sub.porder = est.porder /\ sub.params = est.params /\ sub.wasted = est.wasted
        /\ sub.shifted = est.shifted
    BY <1>3, <2>2 DEF Predicted
  <2>4. IsPredicted(sub)  BY <1>4, <2>3, Zenon DEF IsPredicted, IsAnalyzed
  <2>5. IsSubframe(sub, bps)  BY <1>4, <2>3, <2>4, Zenon DEF IsSubframe, IsAnalyzed
  <2>6. IsAnalyzed(sub, kind, p, precision, x, bps, wasted)  BY <1>4, <2>3, <2>4, <2>5 DEF IsAnalyzed
  <2>7. QED  BY <1>6, <2>6 DEF IsResult
<1>7. QED  BY <1>1, <1>5, <1>6 DEF RiceModes

-----------------------------------------------------------------------------
(* The subframes a block is written as.                                    *)

IsBlock(x, bps, wasted) ==
  /\ bps \in 1 .. WordBits /\ wasted \in 0 .. bps - 1
  /\ x \in Seq(Int) /\ Len(x) >= 1

LEMMA ShiftedIsBlock ==
  ASSUME NEW y \in Seq(Int), Len(y) >= 1, NEW bps \in 1 .. WordBits, NEW wasted \in 0 .. bps - 1
  PROVE  IsBlock(ShiftSamples(y, wasted), bps, wasted) /\ Len(ShiftSamples(y, wasted)) = Len(y)
<1>0. WordBits \in Nat /\ bps \in Nat /\ wasted \in 0 .. WordBits  BY SubframesAssumption
<1>1. PICK d \in Nat \ {0} : d = 2^wasted  BY <1>0, PowerTyped
<1>2. PICK n \in Nat : n = Len(y) /\ DOMAIN y = 1 .. n /\ \A i \in 1 .. n : y[i] \in Int
  OBVIOUS
<1>3. PICK x : x = ShiftSamples(y, wasted)  OBVIOUS
<1>4. x = [i \in 1 .. n |-> IF y[i] < 0 THEN -((-y[i]) \div d) ELSE y[i] \div d]
  BY <1>1, <1>2, <1>3, Zenon DEF ShiftSamples
<1>5. ASSUME NEW i \in 1 .. n
      PROVE  (IF y[i] < 0 THEN -((-y[i]) \div d) ELSE y[i] \div d) \in Int
  <2>1. PICK v \in Int : v = y[i]  BY <1>2
  <2>2. (-v) \div d \in Int /\ v \div d \in Int  OBVIOUS
  <2>3. (IF v < 0 THEN -((-v) \div d) ELSE v \div d) \in Int  BY <2>2
  <2>4. QED  BY <2>1, <2>3
<1>6. x \in [1 .. n -> Int]  BY <1>4, <1>5
<1>7. x \in Seq(Int) /\ Len(x) = n  BY <1>6
<1>8. QED  BY <1>2, <1>3, <1>7 DEF IsBlock

LEMMA PlainIsSubframe ==
  ASSUME NEW x, NEW bps, NEW wasted, IsBlock(x, bps, wasted)
  PROVE  /\ IsSubframe(Plain("Constant", x, wasted, ConstantBits(bps, wasted)), bps)
         /\ Plain("Constant", x, wasted, ConstantBits(bps, wasted)).bits
              = CountedBits(Plain("Constant", x, wasted, ConstantBits(bps, wasted)), bps)
         /\ IsSubframe(Plain("Verbatim", x, wasted, VerbatimBits(Len(x), bps, wasted)), bps)
         /\ Plain("Verbatim", x, wasted, VerbatimBits(Len(x), bps, wasted)).bits
              = CountedBits(Plain("Verbatim", x, wasted, VerbatimBits(Len(x), bps, wasted)), bps)
<1>1. PICK c, v : /\ c = Plain("Constant", x, wasted, ConstantBits(bps, wasted))
                  /\ v = Plain("Verbatim", x, wasted, VerbatimBits(Len(x), bps, wasted))
  OBVIOUS
<1>2. /\ c.kind = "Constant" /\ c.shifted = x /\ c.wasted = wasted
      /\ c.bits = ConstantBits(bps, wasted)
      /\ v.kind = "Verbatim" /\ v.shifted = x /\ v.wasted = wasted
      /\ v.bits = VerbatimBits(Len(x), bps, wasted)
  BY <1>1 DEF Plain
<1>3. IsPlain(c) /\ IsPlain(v)  BY <1>2 DEF IsPlain
<1>4. IsSubframe(c, bps) /\ IsSubframe(v, bps)  BY <1>2, <1>3, Zenon DEF IsSubframe, IsBlock
<1>5. CountedBits(c, bps) = c.bits /\ CountedBits(v, bps) = v.bits
  BY <1>2 DEF CountedBits
<1>6. QED  BY <1>1, <1>4, <1>5

LEMMA PlainSizes ==
  ASSUME NEW x, NEW bps, NEW wasted, IsBlock(x, bps, wasted)
  PROVE  /\ ConstantBits(bps, wasted) \in Nat /\ VerbatimBits(Len(x), bps, wasted) \in Nat
         /\ ConstantBits(bps, wasted) <= VerbatimBits(Len(x), bps, wasted)
<1>0. WordBits \in Nat /\ bps \in 1 .. WordBits /\ wasted \in 0 .. bps - 1
  BY SubframesAssumption DEF IsBlock
<1>1. PICK w : w = bps - wasted  OBVIOUS
<1>2. w \in Nat /\ wasted \in Nat  BY <1>0, <1>1
<1>3. PICK n \in Nat : n = Len(x) /\ n >= 1  BY LenProperties DEF IsBlock
<1>4. n * w \in Nat /\ w <= n * w
  <2>1. PICK m \in Nat : n = 1 + m  BY <1>3, n - 1 \in Nat, n = 1 + (n - 1)
  <2>2. (1 + m) * w = w + m * w /\ m * w \in Nat  BY <1>2
  <2>3. QED  BY <1>2, <2>1, <2>2
<1>5. ConstantBits(bps, wasted) = 8 + w + wasted  BY <1>1 DEF ConstantBits, WastedBitsOverhead
<1>6. VerbatimBits(Len(x), bps, wasted) = 8 + n * w + wasted
  BY <1>1, <1>3 DEF VerbatimBits, WastedBitsOverhead
<1>7. PICK t : t = n * w  OBVIOUS
<1>8. QED  BY <1>2, <1>4, <1>5, <1>6, <1>7

LEMMA FixedOrders ==
  ASSUME NEW x \in Seq(Int), Len(x) >= 1
  PROVE  /\ MaxFixedOrder(x) \in 0 .. 4 /\ MaxFixedOrder(x) < Len(x)
<1>1. PICK n \in Nat : n = Len(x)  OBVIOUS
<1>2. CASE n > 1
  <2>1. PICK m, T : m = (IF 4 <= n - 1 THEN 4 ELSE n - 1) /\ T = {4, n - 1}  OBVIOUS
  <2>2. T \subseteq Int /\ m \in T /\ \A y \in T : m <= y  BY <1>2, <2>1
  <2>3. Min(T) = m  BY <2>2, MinIs
  <2>4. MaxFixedOrder(x) = m  BY <1>1, <1>2, <2>1, <2>3 DEF MaxFixedOrder
  <2>5. m \in 0 .. 4 /\ m < n  BY <1>2, <2>1
  <2>6. QED  BY <1>1, <2>4, <2>5
<1>3. CASE ~(n > 1)
  <2>1. MaxFixedOrder(x) = 0  BY <1>1, <1>3 DEF MaxFixedOrder
  <2>2. QED  BY <1>1, <2>1
<1>4. QED  BY <1>2, <1>3

LEMMA FixedIsAnalysis ==
  ASSUME NEW x, NEW bps, NEW wasted, IsBlock(x, bps, wasted), NEW o \in 0 .. MaxFixedOrder(x)
  PROVE  IsAnalysis("FixedRice", FixedPredictor(o), 0, x, bps, wasted)
<1>1. x \in Seq(Int) /\ Len(x) >= 1 /\ Len(x) \in Nat  BY LenProperties DEF IsBlock
<1>2. MaxFixedOrder(x) \in 0 .. 4 /\ MaxFixedOrder(x) < Len(x)  BY <1>1, FixedOrders
<1>3. o \in 0 .. 4 /\ o < Len(x)  BY <1>1, <1>2
<1>4. IsPredictor(FixedPredictor(o)) /\ Order(FixedPredictor(o)) = o  BY <1>3, FixedIsPredictor
<1>5. Order(FixedPredictor(o)) < Len(x)  BY <1>3, <1>4
<1>6. "FixedRice" \in PredictedKinds /\ "FixedRice" # "LpcRice" /\ 0 \in Nat  BY DEF PredictedKinds
<1>7. QED  BY <1>4, <1>5, <1>6, Zenon DEF IsAnalysis, IsBlock

LEMMA CheaperStill ==
  ASSUME NEW kind, NEW p, NEW precision, NEW x, NEW bps, NEW wasted,
         IsAnalysis(kind, p, precision, x, bps, wasted), NEW maxPorder \in 0 .. 8,
         NEW c, IsCheapest(c, kind, p, precision, x, bps, wasted, maxPorder), c.bits \in Nat,
         NEW d, d.bits \in Nat, d.bits <= c.bits
  PROVE  IsCheapest(d, kind, p, precision, x, bps, wasted, maxPorder)
<1>1. SUFFICES ASSUME NEW po \in 0 .. maxPorder, NEW params,
                      ValidPartitionOrder(Len(x), Order(p), po), IsParameters(params, 2^po)
               PROVE  d.bits <= PredictorBits(kind, Order(p), precision, bps, wasted)
                        + PartitionedBits(Residuals(x, p), Len(x), Order(p), po, params)
  BY Zenon DEF IsCheapest
<1>2. PICK cost : cost = PredictorBits(kind, Order(p), precision, bps, wasted)
                         + PartitionedBits(Residuals(x, p), Len(x), Order(p), po, params)
  OBVIOUS
<1>3. c.bits <= cost  BY <1>1, <1>2, Zenon DEF IsCheapest
<1>4. cost \in Nat
  <2>1. po \in 0 .. 8  OBVIOUS
  <2>2. PICK e : e = Predicted(kind, p, precision, po, params, x, bps, wasted)  OBVIOUS
  <2>3. IsPrediction(e, kind, p, precision, x, bps, wasted, po, params)
    BY <1>1, <2>1, <2>2, PredictedIsSubframe, Zenon
  <2>4. e.bits \in Nat /\ e.bits = cost  BY <1>2, <2>3, Zenon DEF IsPrediction
  <2>5. QED  BY <2>4
<1>5. d.bits <= cost  BY <1>3, <1>4
<1>6. QED  BY <1>2, <1>5

LEMMA ChosenFixed ==
  ASSUME NEW x, NEW bps, NEW wasted, IsBlock(x, bps, wasted), NEW maxPorder \in 0 .. 8,
         NEW sub, sub = ChooseFixed(x, bps, wasted, maxPorder)
  PROVE  /\ IsSubframe(sub, bps) /\ sub.bits \in Nat /\ sub.bits = CountedBits(sub, bps)
         /\ sub.shifted = x /\ sub.wasted = wasted /\ sub.kind = "FixedRice"
         /\ \E o \in 0 .. 4 : sub.predictor = FixedPredictor(o)
         /\ \A o \in 0 .. MaxFixedOrder(x) :
              IsCheapest(sub, "FixedRice", FixedPredictor(o), 0, x, bps, wasted, maxPorder)
<1> DEFINE Of(o) == AnalyzePredictor("FixedRice", FixedPredictor(o), 0, x, bps, wasted,
                                     maxPorder, "Exact")
           C == {Of(o) : o \in 0 .. MaxFixedOrder(x)}
<1>1. sub = FirstBest(C)  BY Zenon DEF ChooseFixed
<1>2. MaxFixedOrder(x) \in 0 .. 4
  <2>1. x \in Seq(Int) /\ Len(x) >= 1  BY DEF IsBlock
  <2>2. QED  BY <2>1, FixedOrders
<1>3. ASSUME NEW o \in 0 .. MaxFixedOrder(x)
      PROVE  /\ IsAnalyzed(Of(o), "FixedRice", FixedPredictor(o), 0, x, bps, wasted)
             /\ Of(o).bits \in Nat /\ Of(o).bits = CountedBits(Of(o), bps) /\ Of(o).porder \in Nat
             /\ IsCheapest(Of(o), "FixedRice", FixedPredictor(o), 0, x, bps, wasted, maxPorder)
             /\ Order(Of(o).predictor) \in Nat
  <2>1. PICK p, rice : p = FixedPredictor(o) /\ rice = "Exact"  OBVIOUS
  <2>2. IsAnalysis("FixedRice", p, 0, x, bps, wasted)  BY <2>1, FixedIsAnalysis
  <2>3. PICK c : c = Of(o)  OBVIOUS
  <2>4. c = AnalyzePredictor("FixedRice", p, 0, x, bps, wasted, maxPorder, rice)
    BY <2>1, <2>3
  <2>5. rice \in RiceModes /\ rice # "MeanEstimateOnly"  BY <2>1 DEF RiceModes
  <2>6. /\ IsAnalyzed(c, "FixedRice", p, 0, x, bps, wasted)
        /\ c.bits \in Nat /\ c.bits = CountedBits(c, bps) /\ c.porder \in Nat
        /\ IsCheapest(c, "FixedRice", p, 0, x, bps, wasted, maxPorder)
    <3>1. IsResult(c, "FixedRice", p, 0, x, bps, wasted, maxPorder, rice)
      BY <2>2, <2>4, <2>5, AnalyzedIsSubframe, Zenon
    <3>2. QED  BY <2>1, <3>1, Zenon DEF IsResult
  <2>7. c.predictor = p  BY <2>6 DEF IsAnalyzed
  <2>8. Order(p) \in Nat
    <3>1. o \in 0 .. 4  BY <1>2
    <3>2. QED  BY <2>1, <3>1, FixedIsPredictor
  <2> HIDE DEF Of
  <2>9. QED  BY <2>1, <2>3, <2>6, <2>7, <2>8
<1> HIDE DEF Of
<1>4. C # {} /\ \A c \in C : \E o \in 0 .. MaxFixedOrder(x) : c = Of(o)
  <2>1. 0 \in 0 .. MaxFixedOrder(x)  BY <1>2
  <2>2. QED  BY <2>1
<1>5. \A o \in 0 .. MaxFixedOrder(x) : Of(o) \in C  OBVIOUS
<1> HIDE DEF C
<1>6. \A c \in C : c.bits \in Nat /\ Order(c.predictor) \in Nat /\ c.porder \in Nat
  BY <1>3, <1>4
<1>7. sub \in C /\ \A d \in C : sub.bits <= d.bits  BY <1>1, <1>4, <1>6, FirstBestFound
<1>8. PICK best \in 0 .. MaxFixedOrder(x) : sub = Of(best)  BY <1>4, <1>7
<1>9. /\ IsSubframe(sub, bps) /\ sub.bits \in Nat /\ sub.bits = CountedBits(sub, bps)
      /\ sub.shifted = x /\ sub.wasted = wasted
      /\ sub.kind = "FixedRice" /\ sub.predictor = FixedPredictor(best)
  BY <1>3, <1>8, Zenon DEF IsAnalyzed
<1>10. ASSUME NEW o \in 0 .. MaxFixedOrder(x)
       PROVE  IsCheapest(sub, "FixedRice", FixedPredictor(o), 0, x, bps, wasted, maxPorder)
  <2>1. PICK c : c = Of(o)  OBVIOUS
  <2>2. sub.bits <= c.bits /\ sub.bits \in Nat  BY <1>5, <1>7, <1>9, <2>1
  <2>3. IsCheapest(c, "FixedRice", FixedPredictor(o), 0, x, bps, wasted, maxPorder)
        /\ c.bits \in Nat
    BY <1>3, <2>1
  <2>4. IsAnalysis("FixedRice", FixedPredictor(o), 0, x, bps, wasted)  BY FixedIsAnalysis
  <2>5. QED  BY <2>2, <2>3, <2>4, CheaperStill, Zenon
<1>11. best \in 0 .. 4  BY <1>2
<1>12. QED  BY <1>9, <1>10, <1>11

LEMMA GuessTyped ==
  ASSUME NEW x, NEW bps, NEW wasted, IsBlock(x, bps, wasted)
  PROVE  GuessFixedOrder(x) \in 0 .. MaxFixedOrder(x)
<1>1. x \in Seq(Int) /\ Len(x) >= 1  BY DEF IsBlock
<1>2. MaxFixedOrder(x) \in 0 .. 4 /\ MaxFixedOrder(x) < Len(x)  BY <1>1, FixedOrders
<1>3. PICK D : D = 0 .. MaxFixedOrder(x)  OBVIOUS
<1>4. D \subseteq Nat /\ D # {}
  <2>1. 0 \in 0 .. MaxFixedOrder(x)  BY <1>2
  <2>2. QED  BY <1>2, <1>3, <2>1
<1>5. PICK f : f = [o \in D |-> AbsSum(Residuals(x, FixedPredictor(o)))]  OBVIOUS
<1>6. ASSUME NEW o \in D PROVE AbsSum(Residuals(x, FixedPredictor(o))) \in Nat
  <2>1. o \in 0 .. 4 /\ o <= Len(x)
    <3>1. Len(x) \in Nat  BY <1>1
    <3>2. QED  BY <1>2, <1>3, <3>1
  <2>2. PICK p : p = FixedPredictor(o)  OBVIOUS
  <2>3. IsPredictor(p) /\ Order(p) = o  BY <2>1, <2>2, FixedIsPredictor
  <2>4. Residuals(x, p) \in Seq(Int)  BY <1>1, <2>1, <2>3, ResidualsTyped
  <2>5. QED  BY <2>2, <2>4, AbsSumTyped
<1>7. f \in [D -> Nat]  BY <1>5, <1>6
<1>8. FirstLeast(f) \in D  BY <1>4, <1>7, LeastFound
<1>9. GuessFixedOrder(x) = FirstLeast(f)  BY <1>3, <1>5, Zenon DEF GuessFixedOrder
<1>10. QED  BY <1>3, <1>8, <1>9

AllFit(values, w) == \A i \in DOMAIN values : FitsBits(values[i], w)

\* What a subframe must be, beside writable, to be read back.
IsReadable(sub, w) ==
  /\ AllFit(sub.shifted, w)
  /\ sub.kind = "Constant" => \A i \in DOMAIN sub.shifted : sub.shifted[i] = sub.shifted[1]
  /\ sub.kind = "FixedRice" => \E o \in 0 .. 4 : sub.predictor = FixedPredictor(o)
  /\ sub.kind = "LpcRice" => /\ Order(sub.predictor) \in 1 .. 32
                             /\ AllFit(sub.predictor.coefs, sub.precision)

\* What is read back from it is this block.
IsOwn(sub, x, wasted) ==
  sub.shifted = x /\ sub.wasted = wasted /\ IsReadable(sub, info.bps - wasted)

\* What a search of the writer's ends in, under each profile.
IsFound(sub, profile) ==
  /\ IsSubframe(sub, info.bps)
  /\ profile # "OrderGuessMeanEstimateRice" =>
       sub.bits \in Nat /\ sub.bits = CountedBits(sub, info.bps)

\* No fixed predictor needs fewer bits, however its residuals are partitioned.
IsOptimal(sub, x, wasted) ==
  \A o \in 0 .. MaxFixedOrder(x) :
    IsCheapest(sub, "FixedRice", FixedPredictor(o), 0, x, info.bps, wasted, info.maxPorder)

LEMMA RiceOfProfile ==
  ASSUME NEW profile \in Profiles
  PROVE  /\ RiceOf(profile) \in RiceModes
         /\ profile # "OrderGuessMeanEstimateRice" => RiceOf(profile) # "MeanEstimateOnly"
BY DEF Profiles, RiceOf, RiceModes

LEMMA FixedFound ==
  ASSUME NEW profile \in Profiles, NEW x, NEW wasted, IsBlock(x, info.bps, wasted),
         AllFit(x, info.bps - wasted),
         info.maxPorder \in 0 .. 8, NEW sub, sub = FixedSubframe(profile, x, wasted)
  PROVE  /\ IsFound(sub, profile) /\ IsOwn(sub, x, wasted)
         /\ profile = "Exact" => IsOptimal(sub, x, wasted)
<1>1. CASE profile = "Exact"
  <2>1. sub = ChooseFixed(x, info.bps, wasted, info.maxPorder)  BY <1>1 DEF FixedSubframe
  <2>2. PICK bps, maxPorder : bps = info.bps /\ maxPorder = info.maxPorder  OBVIOUS
  <2>3. IsBlock(x, bps, wasted) /\ maxPorder \in 0 .. 8
        /\ sub = ChooseFixed(x, bps, wasted, maxPorder)
    BY <2>1, <2>2
  <2>4. /\ IsSubframe(sub, bps) /\ sub.bits \in Nat /\ sub.bits = CountedBits(sub, bps)
        /\ sub.shifted = x /\ sub.wasted = wasted /\ sub.kind = "FixedRice"
        /\ \E o \in 0 .. 4 : sub.predictor = FixedPredictor(o)
        /\ \A o \in 0 .. MaxFixedOrder(x) :
             IsCheapest(sub, "FixedRice", FixedPredictor(o), 0, x, bps, wasted, maxPorder)
    BY <2>3, ChosenFixed
  <2>5. IsFound(sub, profile)  BY <2>2, <2>4 DEF IsFound
  <2>6. IsOptimal(sub, x, wasted)  BY <2>2, <2>4 DEF IsOptimal
  <2>7. IsOwn(sub, x, wasted)  BY <2>4 DEF IsOwn, IsReadable
  <2>8. QED  BY <2>5, <2>6, <2>7
<1>2. CASE profile # "Exact"
  <2>1. PICK o, p, rice, bps, maxPorder :
          /\ o = GuessFixedOrder(x) /\ p = FixedPredictor(o) /\ rice = RiceOf(profile)
          /\ bps = info.bps /\ maxPorder = info.maxPorder
    OBVIOUS
  <2>2. sub = AnalyzePredictor("FixedRice", p, 0, x, bps, wasted, maxPorder, rice)
    BY <1>2, <2>1, Zenon DEF FixedSubframe
  <2>3. o \in 0 .. MaxFixedOrder(x)  BY <2>1, GuessTyped
  <2>4. IsAnalysis("FixedRice", p, 0, x, bps, wasted)  BY <2>1, <2>3, FixedIsAnalysis
  <2>5. rice \in RiceModes /\ maxPorder \in 0 .. 8  BY <2>1, RiceOfProfile
  <2>6. IsResult(sub, "FixedRice", p, 0, x, bps, wasted, maxPorder, rice)
    BY <2>2, <2>4, <2>5, AnalyzedIsSubframe, Zenon
  <2>7. IsSubframe(sub, info.bps)  BY <2>1, <2>6, Zenon DEF IsResult, IsAnalyzed
  <2>8. profile # "OrderGuessMeanEstimateRice" =>
          sub.bits \in Nat /\ sub.bits = CountedBits(sub, info.bps)
    BY <2>1, <2>6, RiceOfProfile, Zenon DEF IsResult
  <2>9. IsFound(sub, profile)  BY <2>7, <2>8 DEF IsFound
  <2>10. IsOwn(sub, x, wasted)
    <3>1. o \in 0 .. 4
      <4>1. x \in Seq(Int) /\ Len(x) >= 1  BY DEF IsBlock
      <4>2. MaxFixedOrder(x) \in 0 .. 4  BY <4>1, FixedOrders
      <4>3. QED  BY <2>3, <4>2
    <3>2. /\ sub.shifted = x /\ sub.wasted = wasted /\ sub.kind = "FixedRice"
          /\ sub.predictor = FixedPredictor(o)
      BY <2>1, <2>6, Zenon DEF IsResult, IsAnalyzed
    <3>3. QED  BY <3>1, <3>2 DEF IsOwn, IsReadable
  <2>11. QED  BY <1>2, <2>9, <2>10
<1>3. QED  BY <1>1, <1>2

LEMMA LpcFound ==
  ASSUME HeaderInv, ValidBlock, NEW profile \in Profiles, NEW q \in LpcCandidates,
         NEW x, NEW wasted, IsBlock(x, info.bps, wasted), Len(x) = Len(samples),
         AllFit(x, info.bps - wasted), NEW sub, sub = LpcSubframe(profile, q, x, wasted)
  PROVE  IsFound(sub, profile) /\ IsOwn(sub, x, wasted)
<1>1. q \in Quantized /\ Order(q) \in LpcOrders /\ AllFit(q.coefs, info.precision)
  BY Zenon DEF LpcCandidates, AllFit
<1>2. IsPredictor(q)  BY <1>1, SelectionsAssumption DEF IsPredictor
<1>3. PICK n, l : n = Len(samples) /\ l = info.maxLpcOrder  OBVIOUS
<1>4. n \in Nat /\ info \in Infos  BY <1>3, ValidBlockTyped DEF HeaderInv
<1>5. /\ l \in Nat /\ info.maxPorder \in 0 .. 8 /\ info.precision \in 1 .. 15
  BY <1>3, <1>4, WriterAssumption
<1>6. Order(q) < Len(x) /\ Order(q) \in 1 .. 32
  <2>1. PICK T : T = {l, MaxLpcOrder, n - 1}  OBVIOUS
  <2>2. Order(q) \in 1 .. Min(T)
    BY <1>1, <1>3, <2>1, Zenon DEF LpcOrders
  <2>3. T \subseteq Int /\ T # {}  BY <1>4, <1>5, <2>1, SubframesAssumption
  <2>4. \E m \in T : \A y \in T : m <= y
    BY <1>4, <1>5, <2>1, SubframesAssumption
  <2>5. PICK m \in T : \A y \in T : m <= y  BY <2>4
  <2>6. Min(T) = m  BY <2>3, <2>5, MinIs
  <2>7. m \in Int /\ m <= n - 1 /\ m <= 32  BY <2>1, <2>3, <2>5, SubframesAssumption
  <2>8. PICK k : k = Order(q)  OBVIOUS
  <2>9. k \in 1 .. m  BY <2>2, <2>6, <2>8
  <2>10. k < n /\ k \in 1 .. 32  BY <1>4, <2>7, <2>9
  <2>11. QED  BY <1>3, <2>8, <2>10
<1>7. PICK bps, precision, maxPorder, rice :
        /\ bps = info.bps /\ precision = info.precision /\ maxPorder = info.maxPorder
        /\ rice = RiceOf(profile)
  OBVIOUS
<1>8. sub = AnalyzePredictor("LpcRice", q, precision, x, bps, wasted, maxPorder, rice)
  BY <1>7, Zenon DEF LpcSubframe
<1>9. IsAnalysis("LpcRice", q, precision, x, bps, wasted)
  <2>1. "LpcRice" \in PredictedKinds /\ "LpcRice" # "FixedRice"  BY DEF PredictedKinds
  <2>2. precision \in 1 .. 15 /\ IsBlock(x, bps, wasted)  BY <1>5, <1>7
  <2>3. QED  BY <1>2, <1>6, <2>1, <2>2, Zenon DEF IsAnalysis, IsBlock
<1>10. rice \in RiceModes /\ maxPorder \in 0 .. 8  BY <1>5, <1>7, RiceOfProfile
<1>11. IsResult(sub, "LpcRice", q, precision, x, bps, wasted, maxPorder, rice)
  BY <1>8, <1>9, <1>10, AnalyzedIsSubframe, Zenon
<1>12. IsSubframe(sub, info.bps)  BY <1>7, <1>11, Zenon DEF IsResult, IsAnalyzed
<1>13. profile # "OrderGuessMeanEstimateRice" =>
         sub.bits \in Nat /\ sub.bits = CountedBits(sub, info.bps)
  BY <1>7, <1>11, RiceOfProfile, Zenon DEF IsResult
<1>14. /\ sub.shifted = x /\ sub.wasted = wasted /\ sub.kind = "LpcRice"
       /\ sub.predictor = q /\ sub.precision = precision
  BY <1>11, Zenon DEF IsResult, IsAnalyzed
<1>15. IsOwn(sub, x, wasted)  BY <1>1, <1>6, <1>7, <1>14 DEF IsOwn, IsReadable
<1>16. QED  BY <1>12, <1>13, <1>15 DEF IsFound

\* The comparison keeps the smallest; a tie goes to the later of the three.
LEMMA ChooseFound ==
  ASSUME NEW fixed, NEW lpcs, NEW verbatim, NEW c, c = ChooseSubframe(fixed, lpcs, verbatim)
  PROVE  \/ c \in lpcs /\ c.bits < fixed.bits /\ c.bits < verbatim.bits
         \/ c = fixed /\ fixed.bits < verbatim.bits
         \/ c = verbatim /\ ~(fixed.bits < verbatim.bits)
<1> DEFINE better == {l \in lpcs : l.bits < fixed.bits /\ l.bits < verbatim.bits}
<1>1. CASE better # {}
  <2>1. c = CHOOSE l \in better : TRUE  BY <1>1, Zenon DEF ChooseSubframe
  <2>2. c \in better  BY <1>1, <2>1, Zenon
  <2>3. QED  BY <2>2
<1>2. CASE better = {}
  <2>1. c = IF fixed.bits < verbatim.bits THEN fixed ELSE verbatim
    BY <1>2, Zenon DEF ChooseSubframe
  <2>2. QED  BY <2>1
<1>3. QED  BY <1>1, <1>2

\* The wasted bits and the shifted samples of BestSubframe, and the size it may not pass.
Wasted == CommonWastedBits(samples, info.bps)
Shifted == ShiftSamples(samples, Wasted)
LargestSize == VerbatimBits(Len(samples), info.bps, Wasted)

LEMMA ShiftedBlock ==
  ASSUME HeaderInv, ValidBlock
  PROVE  /\ info.maxPorder \in 0 .. 8 /\ info.bps \in 1 .. WordBits
         /\ IsBlock(Shifted, info.bps, Wasted) /\ Len(Shifted) = Len(samples)
         /\ Len(samples) \in Nat
<1>1. PICK bps, w, y : bps = info.bps /\ w = Wasted /\ y = samples  OBVIOUS
<1>2. /\ bps \in 1 .. WordBits /\ y \in Seq(Int) /\ Len(y) \in Nat \ {0}
      /\ \A i \in DOMAIN y : y[i] \in Int
  BY <1>1, ValidBlockTyped
<1>3. w = CommonWastedBits(y, bps)  BY <1>1 DEF Wasted
<1>4. w \in 0 .. bps - 1  BY <1>2, <1>3, CommonWasted
<1>5. Len(y) >= 1 /\ Len(y) \in Nat  BY <1>2
<1>6. IsBlock(ShiftSamples(y, w), bps, w) /\ Len(ShiftSamples(y, w)) = Len(y)
  BY <1>2, <1>4, <1>5, ShiftedIsBlock
<1>7. info.maxPorder \in 0 .. 8  BY WriterAssumption DEF HeaderInv
<1>8. QED  BY <1>1, <1>2, <1>5, <1>6, <1>7 DEF Shifted

LEMMA PowerSum ==
  ASSUME NEW k \in Nat, NEW w \in Nat, k + w <= WordBits
  PROVE  2^(k + w) = 2^k * 2^w
<1> DEFINE T == {m \in 1 .. w + 1 : 2^(k + (m - 1)) = 2^k * 2^(m - 1)}
<1>0. WordBits \in Nat /\ k \in 0 .. WordBits  BY SubframesAssumption
<1>1. 1 \in T
  <2>1. 1 \in 1 .. w + 1 /\ 1 - 1 = 0 /\ k + (1 - 1) = k  OBVIOUS
  <2>2. 2^0 = 1  BY PowerOfZero
  <2>3. 2^k \in Nat  BY <1>0, PowerTyped
  <2>4. QED  BY <2>1, <2>2, <2>3
<1>2. ASSUME NEW m \in 1 .. (w + 1) - 1, m \in T PROVE m + 1 \in T
  <2>1. PICK j : j = m - 1  OBVIOUS
  <2>2. /\ j \in 0 .. WordBits /\ k + j \in 0 .. WordBits /\ (m + 1) - 1 = j + 1
        /\ k + ((m + 1) - 1) = (k + j) + 1 /\ m + 1 \in 1 .. w + 1
    BY <1>0, <2>1
  <2>3. 2^(j + 1) = 2 * 2^j /\ 2^((k + j) + 1) = 2 * 2^(k + j)  BY <2>2, PowersAssumption
  <2>4. 2^(k + j) = 2^k * 2^j  BY <1>2, <2>1
  <2>5. PICK a, b \in Nat : a = 2^k /\ b = 2^j  BY <1>0, <2>2, PowerTyped
  <2>6. 2 * (a * b) = a * (2 * b)  BY <2>5
  <2>7. QED  BY <2>2, <2>3, <2>4, <2>5, <2>6
<1> HIDE DEF T
<1>3. 1 .. w + 1 \subseteq T
  <2>1. w + 1 \in Nat  OBVIOUS
  <2>2. QED  BY <1>1, <1>2, <2>1, NumbersTo
<1>4. w + 1 \in T /\ (w + 1) - 1 = w
  <2>1. w + 1 \in 1 .. w + 1  OBVIOUS
  <2>2. QED  BY <1>3, <2>1
<1>5. QED  BY <1>4 DEF T

\* Shifting out a multiple of a power of two divides it, whatever its sign.
ShiftOf(v, d) == IF v < 0 THEN -((-v) \div d) ELSE v \div d

LEMMA ShiftUndone ==
  ASSUME NEW d \in Nat \ {0}, NEW v \in Int, (v % d) = 0
  PROVE  ShiftOf(v, d) \in Int /\ v = d * ShiftOf(v, d)
<1>1. PICK q \in Int : q = v \div d  OBVIOUS
<1>2. v = d * q  BY <1>1
<1>3. v < 0 => (-v) \div d = -q
  <2>1. -v = d * (-q)  BY <1>2
  <2>2. PICK u, m : u = -v /\ m = -q  OBVIOUS
  <2>3. m \in Int /\ u \in Int /\ u = d * m  BY <2>1, <2>2
  <2>4. PICK r, e : r = u \div d /\ e = u % d  OBVIOUS
  <2>5. r \in Int /\ e \in 0 .. d - 1 /\ u = d * r + e  BY <2>3, <2>4
  <2>6. r = m
    <3>1. PICK f : f = m - r  OBVIOUS
    <3>2. f \in Int /\ m = r + f  BY <2>3, <2>5, <3>1
    <3>3. d * (r + f) = d * r + d * f  BY <2>5, <3>2
    <3>4. d * f = e  BY <2>3, <2>5, <3>2, <3>3
    <3>5. f >= 1 => d * f >= d  BY <3>2
    <3>6. f <= -1 => d * f <= -d  BY <3>2
    <3>7. f = 0  BY <2>5, <3>2, <3>4, <3>5, <3>6
    <3>8. QED  BY <2>5, <3>2, <3>7
  <2>7. QED  BY <2>2, <2>4, <2>6
<1>4. ShiftOf(v, d) = q
  <2>1. PICK t : t = (-v) \div d  OBVIOUS
  <2>2. v < 0 => t = -q  BY <1>3, <2>1
  <2>3. ShiftOf(v, d) = IF v < 0 THEN -t ELSE q  BY <1>1, <2>1 DEF ShiftOf
  <2>4. QED  BY <1>1, <2>2, <2>3
<1>5. QED  BY <1>1, <1>2, <1>4

\* The samples are the shifted ones times the power of two.
LEMMA ShiftedUndone ==
  ASSUME HeaderInv, ValidBlock, NEW i \in DOMAIN samples
  PROVE  Shifted[i] \in Int /\ samples[i] = 2^Wasted * Shifted[i]
<1>1. PICK bps, w, d : bps = info.bps /\ w = Wasted /\ d = 2^w  OBVIOUS
<1>2. /\ bps \in 1 .. WordBits /\ WordBits \in Nat
      /\ \A j \in DOMAIN samples : samples[j] \in Int
  BY <1>1, ValidBlockTyped, SubframesAssumption
<1>3. w \in 0 .. bps - 1 /\ (samples[i] % 2^w) = 0
  BY <1>1, <1>2, CommonWasted DEF Wasted
<1>4. d \in Nat \ {0}
  <2>1. w \in 0 .. WordBits  BY <1>2, <1>3
  <2>2. QED  BY <1>1, <2>1, PowerTyped
<1>5. Shifted[i] = ShiftOf(samples[i], d)
  BY <1>1, Zenon DEF Shifted, ShiftSamples, ShiftOf
<1>6. PICK v \in Int : v = samples[i]  BY <1>2
<1>7. (v % d) = 0  BY <1>1, <1>3, <1>6
<1>8. ShiftOf(v, d) \in Int /\ v = d * ShiftOf(v, d)  BY <1>4, <1>7, ShiftUndone
<1>9. QED  BY <1>1, <1>5, <1>6, <1>8

\* Shifted by as many bits, what fitted the width fits the width left.
LEMMA QuotientFits ==
  ASSUME NEW bps \in 1 .. WordBits, NEW w \in 0 .. bps - 1, NEW v \in Int, NEW q \in Int,
         v = 2^w * q, FitsBits(v, bps)
  PROVE  FitsBits(q, bps - w)
<1>1. PICK k, d, h, t : /\ k = bps - w - 1 /\ d = 2^w /\ h = 2^k /\ t = 2^(bps - 1)  OBVIOUS
<1>2. WordBits \in Nat /\ k \in 0 .. WordBits /\ w \in 0 .. WordBits
      /\ k + w = bps - 1 /\ bps - 1 \in 0 .. WordBits
  BY <1>1, SubframesAssumption
<1>3. d \in Nat \ {0} /\ h \in Nat \ {0} /\ t \in Nat \ {0}  BY <1>1, <1>2, PowerTyped
<1>4. t = h * d  BY <1>1, <1>2, PowerSum
<1>5. v >= -t /\ v <= t - 1  BY <1>1 DEF FitsBits
<1>6. v = d * q  BY <1>1
<1>7. q >= -h
  <2>1. SUFFICES ASSUME ~(q >= -h) PROVE FALSE  OBVIOUS
  <2>2. PICK e \in Nat : -h = q + e /\ e >= 1
    <3>1. -h - q \in Nat /\ -h - q >= 1 /\ -h = q + (-h - q)  BY <1>3, <2>1
    <3>2. QED  BY <3>1
  <2>3. d * (q + e) = d * q + d * e /\ d * e >= d  BY <1>3, <2>2
  <2>4. d * (-h) = -(h * d)  BY <1>3
  <2>5. -t = v + d * e  BY <1>4, <1>6, <2>2, <2>3, <2>4
  <2>6. PICK g \in Int : g = d * e  BY <1>3, <2>2
  <2>7. g >= d  BY <2>3, <2>6
  <2>8. QED  BY <1>3, <1>5, <2>5, <2>6, <2>7
<1>8. q <= h - 1
  <2>1. SUFFICES ASSUME ~(q <= h - 1) PROVE FALSE  OBVIOUS
  <2>2. PICK e \in Nat : q = h + e
    <3>1. q - h \in Nat /\ q = h + (q - h)  BY <1>3, <2>1
    <3>2. QED  BY <3>1
  <2>3. d * (h + e) = h * d + d * e /\ d * e \in Nat  BY <1>3, <2>2
  <2>4. PICK g \in Nat : g = d * e  BY <2>3
  <2>5. v = t + g  BY <1>4, <1>6, <2>2, <2>3, <2>4
  <2>6. QED  BY <1>3, <1>5, <2>4, <2>5
<1>9. 2^((bps - w) - 1) = h
  <2>1. (bps - w) - 1 = k  BY <1>1
  <2>2. QED  BY <1>1, <2>1
<1>10. QED  BY <1>7, <1>8, <1>9 DEF FitsBits

LEMMA ShiftedFits ==
  ASSUME HeaderInv, ValidBlock
  PROVE  AllFit(Shifted, info.bps - Wasted)
<1>1. PICK bps, w, x : bps = info.bps /\ w = Wasted /\ x = Shifted  OBVIOUS
<1>2. bps \in 1 .. WordBits /\ w \in 0 .. bps - 1
  BY <1>1, ShiftedBlock DEF IsBlock
<1>3. ASSUME NEW i \in DOMAIN x PROVE FitsBits(x[i], bps - w)
  <2>1. i \in DOMAIN samples
    <3>1. DOMAIN ShiftSamples(samples, Wasted) = DOMAIN samples  BY Zenon DEF ShiftSamples
    <3>2. QED  BY <1>1, <3>1 DEF Shifted
  <2>2. PICK q, v : q = x[i] /\ v = samples[i]  OBVIOUS
  <2>3. q \in Int /\ v = 2^w * q  BY <1>1, <2>1, <2>2, ShiftedUndone
  <2>4. v \in Int /\ FitsBits(v, bps)  BY <1>1, <2>1, <2>2, ValidBlockTyped
  <2>5. QED  BY <1>2, <2>2, <2>3, <2>4, QuotientFits
<1>4. QED  BY <1>1, <1>3 DEF AllFit

LEMMA PlainIsOwn ==
  ASSUME HeaderInv, ValidBlock,
         NEW x, NEW w, x = Shifted, w = Wasted, AllFit(x, info.bps - w)
  PROVE  /\ \A b : IsOwn(Plain("Verbatim", x, w, b), x, w)
         /\ AllEqual => \A b : IsOwn(Plain("Constant", x, w, b), x, w)
<1>1. ASSUME NEW b PROVE IsOwn(Plain("Verbatim", x, w, b), x, w)
  <2>1. PICK sub : sub = Plain("Verbatim", x, w, b)  OBVIOUS
  <2>2. sub.kind = "Verbatim" /\ sub.shifted = x /\ sub.wasted = w  BY <2>1 DEF Plain
  <2>3. IsOwn(sub, x, w)  BY <2>2 DEF IsOwn, IsReadable
  <2>4. QED  BY <2>1, <2>3
<1>2. ASSUME AllEqual, NEW b PROVE IsOwn(Plain("Constant", x, w, b), x, w)
  <2>1. PICK sub : sub = Plain("Constant", x, w, b)  OBVIOUS
  <2>2. sub.kind = "Constant" /\ sub.shifted = x /\ sub.wasted = w  BY <2>1 DEF Plain
  <2>3. \A i \in DOMAIN x : x[i] = x[1]
    <3>1. SUFFICES ASSUME NEW i \in DOMAIN x PROVE x[i] = x[1]  OBVIOUS
    <3>2. x = [j \in DOMAIN samples |-> ShiftOf(samples[j], 2^w)]
      BY Zenon DEF Shifted, ShiftSamples, ShiftOf
    <3>3. i \in DOMAIN samples /\ samples[i] = samples[1]  BY <1>2, <3>2 DEF AllEqual
    <3>4. 1 \in DOMAIN samples
      <4>1. samples \in Seq(Int)  BY ValidBlockTyped
      <4>2. QED  BY <3>3, <4>1
    <3>5. x[i] = ShiftOf(samples[i], 2^w) /\ x[1] = ShiftOf(samples[1], 2^w)
      BY <3>2, <3>3, <3>4, Zenon
    <3>6. QED  BY <3>3, <3>5
  <2>4. IsOwn(sub, x, w)  BY <2>2, <2>3 DEF IsOwn, IsReadable
  <2>5. QED  BY <2>1, <2>4
<1>3. QED  BY <1>1, <1>2

\* What write_mono_best_frame picks.
LEMMA BestFound ==
  ASSUME HeaderInv, ValidBlock, NEW profile \in Profiles,
         NEW found \in {{}} \cup {{q} : q \in LpcCandidates},
         NEW sub, sub = BestSubframe(profile, found)
  PROVE  /\ IsFound(sub, profile) /\ IsOwn(sub, Shifted, Wasted)
         /\ profile # "OrderGuessMeanEstimateRice" => sub.bits <= LargestSize
         /\ profile = "Exact" /\ ~AllEqual => IsOptimal(sub, Shifted, Wasted)
<1>1. PICK bps, w, x : bps = info.bps /\ w = Wasted /\ x = Shifted  OBVIOUS
<1>2. /\ info.maxPorder \in 0 .. 8 /\ IsBlock(x, bps, w) /\ Len(x) = Len(samples)
      /\ bps \in 1 .. WordBits /\ AllFit(x, bps - w)
  BY <1>1, ShiftedBlock, ShiftedFits
<1>3. PICK constant, verbatim :
        /\ constant = Plain("Constant", x, w, ConstantBits(bps, w))
        /\ verbatim = Plain("Verbatim", x, w, VerbatimBits(Len(x), bps, w))
  OBVIOUS
<1>4. /\ IsSubframe(constant, bps) /\ constant.bits = CountedBits(constant, bps)
      /\ IsSubframe(verbatim, bps) /\ verbatim.bits = CountedBits(verbatim, bps)
  BY <1>2, <1>3, PlainIsSubframe
<1>5. constant.bits = ConstantBits(bps, w) /\ verbatim.bits = VerbatimBits(Len(x), bps, w)
  BY <1>3 DEF Plain
<1>6. constant.bits \in Nat /\ verbatim.bits \in Nat /\ constant.bits <= verbatim.bits
  BY <1>2, <1>5, PlainSizes
<1>7. verbatim.bits = LargestSize  BY <1>1, <1>2, <1>5 DEF LargestSize
<1>8. IsFound(constant, profile) /\ IsFound(verbatim, profile)
  BY <1>1, <1>4, <1>6 DEF IsFound
<1>9. IsOwn(verbatim, x, w) /\ (AllEqual => IsOwn(constant, x, w))
  BY <1>1, <1>2, <1>3, PlainIsOwn
<1>10. CASE AllEqual
  <2>1. sub = constant  BY <1>1, <1>3, <1>10, Zenon DEF BestSubframe, Wasted, Shifted
  <2>2. QED  BY <1>1, <1>6, <1>7, <1>8, <1>10, <1>9, <2>1
<1>11. CASE ~AllEqual
  <2>1. PICK fixed, lpcs : /\ fixed = FixedSubframe(profile, x, w)
                           /\ lpcs = {LpcSubframe(profile, q, x, w) : q \in found}
    OBVIOUS
  <2>2. sub = ChooseSubframe(fixed, lpcs, verbatim)
    BY <1>1, <1>3, <1>11, <2>1, Zenon DEF BestSubframe, Wasted, Shifted
  <2>3. /\ IsFound(fixed, profile) /\ IsOwn(fixed, x, w)
        /\ profile = "Exact" => IsOptimal(fixed, x, w)
    BY <1>1, <1>2, <2>1, FixedFound
  <2>4. ASSUME NEW l \in lpcs PROVE IsFound(l, profile) /\ IsOwn(l, x, w)
    <3>1. PICK q \in found : l = LpcSubframe(profile, q, x, w)  BY <2>1
    <3>2. q \in LpcCandidates  OBVIOUS
    <3>3. QED  BY <1>1, <1>2, <3>1, <3>2, LpcFound
  <2>5. /\ \/ sub \in lpcs /\ sub.bits < fixed.bits /\ sub.bits < verbatim.bits
           \/ sub = fixed /\ fixed.bits < verbatim.bits
           \/ sub = verbatim /\ ~(fixed.bits < verbatim.bits)
    BY <2>2, ChooseFound
  <2>6. IsFound(sub, profile) /\ IsOwn(sub, x, w)  BY <1>8, <1>9, <2>3, <2>4, <2>5
  <2>7. ASSUME profile # "OrderGuessMeanEstimateRice"
        PROVE  /\ sub.bits \in Nat /\ fixed.bits \in Nat
               /\ sub.bits <= verbatim.bits /\ sub.bits <= fixed.bits
    <3>1. sub.bits \in Nat /\ fixed.bits \in Nat  BY <2>3, <2>6, <2>7 DEF IsFound
    <3>2. QED  BY <1>6, <2>5, <3>1
  <2>8. ASSUME profile = "Exact" PROVE IsOptimal(sub, x, w)
    <3>1. SUFFICES ASSUME NEW o \in 0 .. MaxFixedOrder(x)
                   PROVE  IsCheapest(sub, "FixedRice", FixedPredictor(o), 0, x, info.bps, w,
                                     info.maxPorder)
      BY DEF IsOptimal
    <3>2. PICK p, maxPorder : p = FixedPredictor(o) /\ maxPorder = info.maxPorder  OBVIOUS
    <3>3. IsAnalysis("FixedRice", p, 0, x, bps, w)  BY <1>2, <3>2, FixedIsAnalysis
    <3>4. /\ sub.bits \in Nat /\ fixed.bits \in Nat /\ sub.bits <= fixed.bits
          /\ maxPorder \in 0 .. 8
      BY <1>2, <2>7, <2>8, <3>2
    <3>5. IsCheapest(fixed, "FixedRice", p, 0, x, bps, w, maxPorder)
      BY <1>1, <2>3, <2>8, <3>2 DEF IsOptimal
    <3>6. IsCheapest(sub, "FixedRice", p, 0, x, bps, w, maxPorder)
      BY <3>3, <3>4, <3>5, CheaperStill, Zenon
    <3>7. QED  BY <1>1, <3>2, <3>6
  <2>9. QED  BY <1>1, <1>7, <2>6, <2>7, <2>8
<1>12. QED  BY <1>10, <1>11

\* What is accepted from a device has the block's own count of wasted bits.
LEMMA AcceptedWasted ==
  ASSUME HeaderInv, NEW s \in Selections, NEW trusted \in BOOLEAN, Accepted(s, trusted)
  PROVE  ValidBlock /\ s.wasted = Wasted
<1>1. ValidBlock /\ WastedBitsMatch(s, trusted)  BY DEF Accepted
<1>2. s.wasted \in Nat  BY SelectionsAssumption
<1>3. ObservedWastedBits(samples, info.bps, s.wasted)
        <=> CommonWastedBits(samples, info.bps) = s.wasted
  BY <1>1, <1>2, ValidBlockTyped, ObservedIsCommon
<1>4. QED  BY <1>1, <1>3 DEF WastedBitsMatch, Wasted

\* The parameters of an accepted selection, its own or the ones found for it.
SelectedParameters(s, x) ==
  IF s.params # <<>> THEN s.params
  ELSE ExactParameters(Residuals(x, s.predictor), Len(x), Order(s.predictor), s.porder)

LEMMA SelectedPredicted ==
  ASSUME HeaderInv, NEW s \in Selections, NEW trusted \in BOOLEAN, Accepted(s, trusted),
         s.kind \in PredictedKinds,
         NEW x, NEW bps, NEW w, IsBlock(x, bps, w), Len(x) = Len(samples)
  PROVE  /\ IsAnalysis(s.kind, s.predictor, s.precision, x, bps, w)
         /\ s.porder \in 0 .. 8
         /\ ValidPartitionOrder(Len(x), Order(s.predictor), s.porder)
         /\ IsParameters(SelectedParameters(s, x), 2^s.porder)
<1>1. PICK kind, p, precision, po, params :
        /\ kind = s.kind /\ p = s.predictor /\ precision = s.precision /\ po = s.porder
        /\ params = s.params
  OBVIOUS
<1>2. /\ p.coefs \in Seq(Int) /\ precision \in Nat /\ po \in Nat /\ params \in Seq(Nat)
  BY <1>1, SelectionsAssumption
<1>3. ShapeValid(s) /\ ParametersValid(s)  BY DEF Accepted, PredictedKinds
<1>4. /\ Order(p) < Len(x) /\ po <= info.maxPorder
      /\ kind = "FixedRice" => \E o \in 0 .. 4 : p = FixedPredictor(o)
      /\ kind = "LpcRice" => precision \in 1 .. 15 /\ p.shift \in 0 .. 15
  BY <1>1, <1>3, Zenon DEF ShapeValid
<1>5. /\ ValidPartitionOrder(Len(x), Order(p), po)
      /\ params # <<>> => /\ Len(params) = 2^po
                          /\ \A i \in DOMAIN params : params[i] <= MaxRiceParameter
  BY <1>1, <1>3, Zenon DEF ParametersValid
<1>6. po \in 0 .. 8
  <2>1. info.maxPorder \in 0 .. 8  BY WriterAssumption DEF HeaderInv
  <2>2. po \in Nat /\ po <= info.maxPorder  BY <1>2, <1>4, Zenon
  <2>3. QED  BY ONLY <2>1, <2>2
<1>7. IsPredictor(p)
  <2>1. CASE kind = "FixedRice"  BY <1>4, <2>1, FixedIsPredictor
  <2>2. CASE kind = "LpcRice"  BY <1>2, <1>4, <2>2 DEF IsPredictor
  <2>3. QED  BY <1>1, <2>1, <2>2 DEF PredictedKinds
<1>8. IsAnalysis(kind, p, precision, x, bps, w)
  <2>1. kind \in PredictedKinds  BY <1>1
  <2>2. QED  BY <1>2, <1>4, <1>7, <2>1, Zenon DEF IsAnalysis, IsBlock
<1>9. PICK m, parts : /\ m = 2^po
                      /\ parts = PartitionsOf(Residuals(x, p), Len(x), Order(p), po)
  OBVIOUS
<1>10. m \in Nat /\ parts \in [1 .. m -> Seq(Int)]
  BY <1>5, <1>6, <1>8, <1>9, AnalysisTyped
<1>11. PICK ps : ps = SelectedParameters(s, x)  OBVIOUS
<1>12. ps = IF params # <<>> THEN params ELSE ChosenParameters(parts)
  BY <1>1, <1>9, <1>11, Zenon DEF SelectedParameters, ExactParameters
<1>13. CASE params # <<>>
  <2>1. ps = params /\ Len(ps) = m /\ \A i \in DOMAIN ps : ps[i] <= MaxRiceParameter
    BY <1>5, <1>9, <1>12, <1>13
  <2>2. \A i \in 1 .. m : ps[i] \in Nat /\ ps[i] <= MaxRiceParameter
    <3>1. DOMAIN ps = 1 .. m /\ \A i \in 1 .. m : ps[i] \in Nat
      BY <1>2, <2>1
    <3>2. QED  BY <2>1, <3>1
  <2>3. IsParameters(ps, m)  BY <2>2, SubframesAssumption DEF IsParameters
  <2>4. QED  BY <1>1, <1>5, <1>6, <1>8, <1>9, <1>11, <2>3
<1>14. CASE params = <<>>
  <2>1. ps = ChosenParameters(parts)  BY <1>12, <1>14
  <2>2. IsParameters(ps, m)  BY <1>10, <2>1, ExactIsParameters
  <2>3. QED  BY <1>1, <1>5, <1>6, <1>8, <1>9, <1>11, <2>2
<1>15. QED  BY <1>13, <1>14

LEMMA ShapeReadable ==
  ASSUME HeaderInv, NEW s \in Selections, s.kind = "LpcRice", ShapeValid(s)
  PROVE  Order(s.predictor) \in 1 .. 32 /\ AllFit(s.predictor.coefs, s.precision)
<1>1. PICK l, T, k : l = info.maxLpcOrder /\ T = {32, l} /\ k = Order(s.predictor)  OBVIOUS
<1>2. k \in 1 .. Min(T) /\ AllFit(s.predictor.coefs, s.precision)
  BY <1>1, Zenon DEF ShapeValid, AllFit
<1>3. l \in Nat  BY <1>1, WriterAssumption DEF HeaderInv
<1>4. PICK m : m = IF 32 <= l THEN 32 ELSE l  OBVIOUS
<1>5. T \subseteq Int /\ m \in T /\ \A y \in T : m <= y  BY <1>1, <1>3, <1>4
<1>6. Min(T) = m  BY <1>5, MinIs
<1>7. m \in Nat /\ m <= 32  BY <1>3, <1>4
<1>8. k \in 1 .. 32  BY <1>2, <1>6, <1>7
<1>9. QED  BY <1>1, <1>2, <1>8

\* What write_mono_selected_frame_impl lets through.
LEMMA SelectedFound ==
  ASSUME HeaderInv, NEW s \in Selections, NEW trusted \in BOOLEAN, Accepted(s, trusted),
         NEW sub, sub = SelectedSubframe(s)
  PROVE  /\ IsSubframe(sub, info.bps) /\ sub.bits = CountedBits(sub, info.bps)
         /\ IsOwn(sub, Shifted, Wasted)
<1>1. PICK bps, w, x : bps = info.bps /\ w = Wasted /\ x = Shifted  OBVIOUS
<1>2. ValidBlock /\ s.wasted = w  BY <1>1, AcceptedWasted
<1>3. IsBlock(x, bps, w) /\ Len(x) = Len(samples) /\ AllFit(x, bps - w)
  BY <1>1, <1>2, ShiftedBlock, ShiftedFits
<1>4. x = ShiftSamples(samples, s.wasted)  BY <1>1, <1>2 DEF Shifted
<1>5. PICK constant, verbatim :
        /\ constant = Plain("Constant", x, w, ConstantBits(bps, w))
        /\ verbatim = Plain("Verbatim", x, w, VerbatimBits(Len(x), bps, w))
  OBVIOUS
<1>6. /\ IsSubframe(constant, bps) /\ constant.bits = CountedBits(constant, bps)
      /\ IsSubframe(verbatim, bps) /\ verbatim.bits = CountedBits(verbatim, bps)
  BY <1>3, <1>5, PlainIsSubframe
<1>7. IsOwn(verbatim, x, w) /\ (AllEqual => IsOwn(constant, x, w))
  BY <1>1, <1>2, <1>3, <1>5, PlainIsOwn
<1>8. CASE s.kind = "Constant"
  <2>1. sub = constant
    BY <1>1, <1>2, <1>4, <1>5, <1>8 DEF SelectedSubframe
  <2>2. AllEqual  BY <1>8 DEF Accepted
  <2>3. QED  BY <1>1, <1>6, <1>7, <2>1, <2>2
<1>9. CASE s.kind = "Verbatim"
  <2>1. sub = verbatim
    BY <1>1, <1>2, <1>4, <1>5, <1>9 DEF SelectedSubframe
  <2>2. QED  BY <1>1, <1>6, <1>7, <2>1
<1>10. CASE s.kind \in PredictedKinds
  <2>1. PICK kind, p, precision, po, params :
          /\ kind = s.kind /\ p = s.predictor /\ precision = s.precision /\ po = s.porder
          /\ params = SelectedParameters(s, x)
    OBVIOUS
  <2>2. /\ IsAnalysis(kind, p, precision, x, bps, w) /\ po \in 0 .. 8
        /\ ValidPartitionOrder(Len(x), Order(p), po) /\ IsParameters(params, 2^po)
    BY <1>3, <1>10, <2>1, SelectedPredicted, Zenon
  <2>3. sub = Predicted(kind, p, precision, po, params, x, bps, w)
    <3>1. s.kind # "Constant" /\ s.kind # "Verbatim"  BY <1>10 DEF PredictedKinds
    <3>2. params = IF s.params # <<>> THEN s.params
                   ELSE ExactParameters(Residuals(x, s.predictor), Len(x),
                                        Order(s.predictor), s.porder)
      BY <2>1 DEF SelectedParameters
    <3>3. sub = Predicted(s.kind, s.predictor, s.precision, s.porder, params, x,
                          info.bps, s.wasted)
      BY <1>4, <3>1, <3>2 DEF SelectedSubframe
    <3>4. QED  BY <1>1, <1>2, <2>1, <3>3
  <2>4. IsPrediction(sub, kind, p, precision, x, bps, w, po, params)
    BY <2>2, <2>3, PredictedIsSubframe, Zenon
  <2>5. IsReadable(sub, bps - w)
    <3>1. /\ sub.kind = kind /\ sub.predictor = p /\ sub.precision = precision
          /\ sub.shifted = x
      BY <2>4, Zenon DEF IsPrediction
    <3>2. kind # "Constant"  BY <1>10, <2>1 DEF PredictedKinds
    <3>3. ShapeValid(s)  BY <1>10 DEF Accepted, PredictedKinds
    <3>4. kind = "FixedRice" => \E o \in 0 .. 4 : p = FixedPredictor(o)
      BY <2>1, <3>3, Zenon DEF ShapeValid
    <3>5. kind = "LpcRice" => Order(p) \in 1 .. 32 /\ AllFit(p.coefs, precision)
      BY <2>1, ShapeReadable, <3>3
    <3>6. QED  BY <1>3, <3>1, <3>2, <3>4, <3>5 DEF IsReadable
  <2>6. sub.shifted = x /\ sub.wasted = w  BY <2>4, Zenon DEF IsPrediction
  <2>7. IsOwn(sub, Shifted, Wasted)  BY <1>1, <2>5, <2>6 DEF IsOwn
  <2>8. QED  BY <1>1, <2>4, <2>7, Zenon DEF IsPrediction
<1>11. s.kind \in {"Constant", "Verbatim", "FixedRice", "LpcRice"}  BY SelectionsAssumption
<1>12. QED  BY <1>8, <1>9, <1>10, <1>11 DEF PredictedKinds

\* A subframe that can be put down reaches the output at the size counted for it,
\* unless the header of the frame cannot be written.
LEMMA EmitPutsCounted ==
  ASSUME NEW sub, info.bps \in 1 .. WordBits, IsSubframe(sub, info.bps),
         NEW returned, Emit(sub, returned)
  PROVE  /\ info' = info /\ samples' = samples
         /\ \/ /\ outcome' = "written" /\ Len(body') = CountedBits(sub, info.bps)
               /\ body' = BitsOf(SubframeWrites(sub, info.bps)) /\ decision' = returned
            \/ /\ outcome' = "rejected"
               /\ ~HeaderWritable(info.number, Len(samples), info.bps)
<1>1. PICK ws, n : ws = SubframeWrites(sub, info.bps) /\ n = CountedBits(sub, info.bps)
  OBVIOUS
<1>2. Puts(ws, n)  BY <1>1, PutsSubframe
<1>3. Writable(ws) /\ Len(BitsOf(ws)) = n  BY <1>2, PutsBits
<1>4. EmitWrites(ws, returned)  BY <1>1 DEF Emit
<1>5. QED  BY <1>1, <1>3, <1>4 DEF EmitWrites, Reject

-----------------------------------------------------------------------------
(* Reading back: what the bits say where a call of the writer put them.    *)

\* Two tables that step alike agree.
StepAlike(g, G, n) == g[0] = G[0] /\ \A k \in 1 .. n : g[k - 1] = G[k - 1] => g[k] = G[k]
Agree(g, G, n) == \A k \in 0 .. n : g[k] = G[k]

LEMMA SameTable ==
  ASSUME NEW n \in Nat, NEW g, NEW G, StepAlike(g, G, n)
  PROVE  Agree(g, G, n)
<1>0. g[0] = G[0] /\ \A k \in 1 .. n : g[k - 1] = G[k - 1] => g[k] = G[k]  BY DEF StepAlike
<1> DEFINE T == {m \in 1 .. n + 1 : g[m - 1] = G[m - 1]}
<1>1. 1 \in T
  <2>1. 1 \in 1 .. n + 1 /\ 1 - 1 = 0  OBVIOUS
  <2>2. QED  BY <1>0, <2>1
<1>2. ASSUME NEW m \in 1 .. (n + 1) - 1, m \in T PROVE m + 1 \in T
  <2>1. m \in 1 .. n /\ (m + 1) - 1 = m /\ m + 1 \in 1 .. n + 1  OBVIOUS
  <2>2. g[m] = G[m]  BY <1>0, <1>2, <2>1
  <2>3. QED  BY <2>1, <2>2
<1> HIDE DEF T
<1>3. 1 .. n + 1 \subseteq T
  <2>1. n + 1 \in Nat  OBVIOUS
  <2>2. QED  BY <1>1, <1>2, <2>1, NumbersTo
<1>4. ASSUME NEW k \in 0 .. n PROVE g[k] = G[k]
  <2>1. k + 1 \in 1 .. n + 1 /\ (k + 1) - 1 = k  OBVIOUS
  <2>2. QED  BY <1>3, <2>1 DEF T
<1>5. QED  BY <1>4 DEF Agree

LEMMA PowerDoubles ==
  ASSUME NEW n \in 1 .. WordBits
  PROVE  2^n = 2 * 2^(n - 1) /\ 2^(n - 1) \in Nat \ {0}
<1>1. PICK m : m = n - 1  OBVIOUS
<1>2. m \in 0 .. WordBits /\ m + 1 = n  BY <1>1, SubframesAssumption
<1>3. 2^(m + 1) = 2 * 2^m /\ 2^m \in Nat \ {0}  BY <1>2, PowersAssumption
<1>4. QED  BY <1>1, <1>2, <1>3

Composed(v, d, a, e) == v = d * a + e
Divided(v, d, a, e) == v \div d = a /\ v % d = e

LEMMA QuotientIs ==
  ASSUME NEW d \in Nat \ {0}, NEW a \in Int, NEW e \in 0 .. d - 1, NEW v, Composed(v, d, a, e)
  PROVE  Divided(v, d, a, e)
<1>0. v = d * a + e  BY DEF Composed
<1>2. PICK q, r : q = v \div d /\ r = v % d  OBVIOUS
<1>1. v \in Int
  <2>1. d * a \in Int  OBVIOUS
  <2>2. QED  BY <1>0, <2>1
<1>3. v \in Int /\ q \in Int /\ r \in 0 .. d - 1 /\ v = d * q + r  BY <1>1, <1>2
<1>4. q = a
  <2>1. PICK f : f = q - a  OBVIOUS
  <2>2. f \in Int /\ q = a + f  BY <1>3, <2>1
  <2>3. d * f = e - r
    <3>1. d * (a + f) = d * a + d * f  BY <2>2
    <3>2. PICK g, h : g = d * a /\ h = d * f  OBVIOUS
    <3>3. g \in Int /\ h \in Int  BY <2>2, <3>2
    <3>4. QED  BY <1>0, <1>3, <2>2, <3>1, <3>2, <3>3
  <2>4. e - r < d /\ e - r > -d  BY <1>3
  <2>5. f >= 1 => d * f >= d  BY <2>2
  <2>6. f <= -1 => d * f <= -d  BY <2>2
  <2>7. QED  BY <2>2, <2>3, <2>4, <2>5, <2>6
<1>5. e = r  BY <1>0, <1>3, <1>4
<1>6. QED  BY <1>2, <1>4, <1>5 DEF Divided

\* Division by twice a number, in two steps.
LEMMA DivTwice ==
  ASSUME NEW v \in Int, NEW p \in Nat \ {0}
  PROVE  /\ v \div (2 * p) = (v \div p) \div 2
         /\ v % (2 * p) = 2 * ((v \div 2) % p) + (v % 2)
<1>1. PICK q, r : q = v \div p /\ r = v % p  OBVIOUS
<1>2. q \in Int /\ r \in 0 .. p - 1 /\ v = p * q + r  BY <1>1
<1>3. PICK h, b : h = q \div 2 /\ b = q % 2  OBVIOUS
<1>4. h \in Int /\ b \in 0 .. 1 /\ q = 2 * h + b  BY <1>2, <1>3
<1>5. v = (2 * p) * h + (p * b + r)
  <2>1. p * q = p * (2 * h + b)  BY <1>4
  <2>2. p * (2 * h + b) = (2 * p) * h + p * b  BY <1>4
  <2>3. p * b \in Int /\ (2 * p) * h \in Int  BY <1>4
  <2>4. PICK e, g : e = p * b /\ g = (2 * p) * h  OBVIOUS
  <2>5. p * q = g + e /\ e \in Int /\ g \in Int  BY <2>1, <2>2, <2>3, <2>4
  <2>6. v = g + (e + r)  BY <1>2, <2>5
  <2>7. QED  BY <2>4, <2>6
<1>6. p * b + r \in 0 .. 2 * p - 1
  <2>1. p * b = IF b = 1 THEN p ELSE 0  BY <1>4
  <2>2. QED  BY <1>2, <1>4, <2>1
<1>7. PICK d, c : d = 2 * p /\ c = p * b + r  OBVIOUS
<1>8. v \div d = h
  <2>1. d \in Nat \ {0} /\ c \in 0 .. d - 1 /\ v = d * h + c  BY <1>5, <1>6, <1>7
  <2>2. QED  BY <1>4, <2>1
<1>9. PICK t, s : t = v \div 2 /\ s = v % 2  OBVIOUS
<1>10. t \in Int /\ s \in 0 .. 1 /\ v = 2 * t + s  BY <1>9
<1>11. PICK a, z : a = t \div p /\ z = t % p  OBVIOUS
<1>12. a \in Int /\ z \in 0 .. p - 1 /\ t = p * a + z  BY <1>10, <1>11
<1>13. v = d * a + (2 * z + s) /\ 2 * z + s \in 0 .. d - 1
  <2>1. 2 * (p * a + z) = (2 * p) * a + 2 * z  BY <1>12
  <2>2. PICK e, g : e = p * a /\ g = (2 * p) * a  OBVIOUS
  <2>3. e \in Int /\ g \in Int  BY <1>12, <2>2
  <2>4. v = g + 2 * z + s  BY <1>10, <1>12, <2>1, <2>2, <2>3
  <2>5. 2 * z + s \in 0 .. d - 1  BY <1>7, <1>10, <1>12
  <2>6. g = d * a  BY <1>7, <2>2
  <2>7. PICK i : i = 2 * z + s  OBVIOUS
  <2>8. i \in Int /\ v = g + i  BY <1>10, <1>12, <2>3, <2>4, <2>7
  <2>9. QED  BY <2>5, <2>6, <2>7, <2>8
<1>14. v % d = 2 * z + s
  <2>1. PICK e : e = 2 * z + s  OBVIOUS
  <2>2. d \in Nat \ {0} /\ e \in 0 .. d - 1 /\ v = d * a + e  BY <1>7, <1>13, <2>1
  <2>3. Composed(v, d, a, e)  BY <2>2 DEF Composed
  <2>4. Divided(v, d, a, e)  BY ONLY <1>12, <2>2, <2>3, QuotientIs, Zenon
  <2>5. QED  BY <2>1, <2>4 DEF Divided
<1>15. QED  BY <1>1, <1>3, <1>7, <1>8, <1>9, <1>11, <1>14

\* The bits from at on are the last n bits of v, the highest first.
Shows(bits, at, v, n) == \A b \in 1 .. n : bits[at + b - 1] = (v \div 2^(n - b)) % 2

IsReading(g, bits, at, width) ==
  g = [n \in 0 .. width |-> IF n = 0 THEN 0 ELSE 2 * g[n - 1] + bits[at + n - 1]]

LEMMA ReadUnsignedIs ==
  ASSUME NEW bits, NEW at, NEW width
  PROVE  R!ReadUnsigned(bits, at, width) = (CHOOSE g : IsReading(g, bits, at, width))[width]
BY Zenon DEF R!ReadUnsigned, IsReading

\* A number is read back modulo its width (write_bits keeps the low bits).
LEMMA NumberRead ==
  ASSUME NEW bits, NEW at \in Nat, NEW v \in Int, NEW n \in 0 .. WordBits,
         Shows(bits, at, v, n)
  PROVE  R!ReadUnsigned(bits, at, n) = v % 2^n
<1>0. n \in Nat /\ n <= WordBits /\ WordBits \in Nat  BY SubframesAssumption
<1> DEFINE G == [k \in 0 .. n |-> (v \div 2^(n - k)) % 2^k]
<1>1. G[0] = 0 /\ G[n] = v % 2^n
  <2>1. PICK d \in Nat \ {0} : d = 2^n  BY PowerTyped
  <2>2. (v \div d) % 1 = 0 /\ v \div 1 = v  OBVIOUS
  <2>3. n - 0 = n /\ n - n = 0 /\ 0 \in 0 .. n /\ n \in 0 .. n  BY <1>0
  <2>4. G[0] = (v \div d) % 1 /\ G[n] = (v \div 1) % d  BY <2>1, <2>3, PowerOfZero
  <2>5. QED  BY <2>1, <2>2, <2>4
<1>2. ASSUME NEW k \in 1 .. n PROVE G[k] = 2 * G[k - 1] + bits[at + k - 1]
  <2>1. /\ k \in 0 .. n /\ k - 1 \in 0 .. n /\ n - (k - 1) = (n - k) + 1
        /\ n - k \in 0 .. WordBits /\ k \in 1 .. WordBits
    BY <1>0
  <2>2. PICK c : c = n - k  OBVIOUS
  <2>3. PICK d \in Nat \ {0} : d = 2^c  BY <2>1, <2>2, PowerTyped
  <2>4. PICK p \in Nat \ {0} : p = 2^(k - 1) /\ 2^k = 2 * p  BY <2>1, PowerDoubles
  <2>5. 2^(c + 1) = 2 * d  BY <2>1, <2>2, <2>3, PowersAssumption
  <2>6. PICK u \in Int : u = v \div d  OBVIOUS
  <2>7. bits[at + k - 1] = u % 2  BY <2>2, <2>3, <2>6 DEF Shows
  <2>8. v \div (2 * d) = u \div 2  BY <2>6, DivTwice
  <2>9. u % (2 * p) = 2 * ((u \div 2) % p) + (u % 2)  BY DivTwice
  <2>10. G[k] = u % (2 * p)  BY <2>1, <2>2, <2>3, <2>4, <2>6
  <2>11. G[k - 1] = (u \div 2) % p  BY <2>1, <2>2, <2>4, <2>5, <2>8
  <2>12. QED  BY <2>7, <2>9, <2>10, <2>11
<1>3. IsReading(G, bits, at, n)
  <2>1. PICK H : H = [k \in 0 .. n |-> IF k = 0 THEN 0 ELSE 2 * G[k - 1] + bits[at + k - 1]]
    OBVIOUS
  <2>2. \A k \in 0 .. n : H[k] = G[k]
    <3>1. ASSUME NEW k \in 0 .. n PROVE H[k] = G[k]
      <4>1. k = 0 \/ k \in 1 .. n  BY <1>0
      <4> HIDE DEF G
      <4>2. QED  BY <1>1, <1>2, <2>1, <4>1
    <3>2. QED  BY <3>1
  <2>3. H = G  BY <2>1, <2>2
  <2> HIDE DEF G
  <2>4. QED  BY <2>1, <2>3 DEF IsReading
<1> HIDE DEF G
<1>4. PICK g : g = CHOOSE f : IsReading(f, bits, at, n)  OBVIOUS
<1>5. IsReading(g, bits, at, n)  BY <1>3, <1>4, Zenon
<1>6. \A k \in 0 .. n : g[k] = IF k = 0 THEN 0 ELSE 2 * g[k - 1] + bits[at + k - 1]
  BY <1>5 DEF IsReading
<1>7. g[0] = G[0]
  <2>1. 0 \in 0 .. n  BY <1>0
  <2>2. QED  BY <1>1, <1>6, <2>1
<1>8. ASSUME NEW k \in 1 .. n, g[k - 1] = G[k - 1] PROVE g[k] = G[k]
  <2>1. k \in 0 .. n /\ k # 0  OBVIOUS
  <2>2. QED  BY <1>2, <1>6, <1>8, <2>1
<1>9. g[n] = G[n]
  <2>1. n \in 0 .. n  BY <1>0
  <2>2. StepAlike(g, G, n)  BY <1>7, <1>8 DEF StepAlike
  <2>3. Agree(g, G, n)  BY <1>0, <2>2, SameTable
  <2>4. QED  BY <2>1, <2>3 DEF Agree
<1>10. QED  BY <1>1, <1>4, <1>9, ReadUnsignedIs

\* A number that fits its width comes back with its sign.
LEMMA SignedRead ==
  ASSUME NEW bits, NEW at \in Nat, NEW n \in 1 .. WordBits, NEW v \in Int, FitsBits(v, n),
         Shows(bits, at, v, n)
  PROVE  R!ReadSigned(bits, at, n) = v
<1>1. PICK p \in Nat \ {0} : p = 2^(n - 1) /\ 2^n = 2 * p  BY PowerDoubles
<1>2. v >= -p /\ v <= p - 1  BY <1>1 DEF FitsBits
<1>3. PICK d, r : d = 2 * p /\ r = R!ReadUnsigned(bits, at, n)  OBVIOUS
<1>4. r = v % d
  <2>1. n \in 0 .. WordBits  BY SubframesAssumption
  <2>2. R!ReadUnsigned(bits, at, n) = v % 2^n  BY <2>1, NumberRead
  <2>3. QED  BY <1>1, <1>3, <2>2
<1>5. CASE v >= 0
  <2>1. v \in 0 .. d - 1 /\ d \in Nat \ {0}  BY <1>2, <1>3, <1>5
  <2>2. r = v  BY <1>4, <2>1
  <2>3. ~(r >= p)  BY <1>2, <2>2
  <2>4. QED  BY <1>1, <1>3, <2>2, <2>3, Zenon DEF R!ReadSigned
<1>6. CASE v < 0
  <2>1. v + d \in 0 .. d - 1 /\ d \in Nat \ {0}  BY <1>2, <1>3, <1>6
  <2>2. r = v + d  BY <1>4, <2>1
  <2>3. r >= p /\ r - d = v  BY <1>2, <1>3, <2>2
  <2>4. R!ReadSigned(bits, at, n) = r - d  BY <1>1, <1>3, <2>3, Zenon DEF R!ReadSigned
  <2>5. QED  BY <2>3, <2>4
<1>7. QED  BY <1>5, <1>6

-----------------------------------------------------------------------------
(* Where each call put its bits.                                           *)

\* The sequence s is found in bits, from at on.
Stands(s, bits, at) ==
  at + Len(s) - 1 <= Len(bits) /\ \A i \in 1 .. Len(s) : bits[at + i - 1] = s[i]

LEMMA StandsBoth ==
  ASSUME NEW S, NEW x \in Seq(S), NEW y \in Seq(S), NEW bits \in Seq(S), NEW at \in Nat,
         Stands(x \o y, bits, at)
  PROVE  Stands(x, bits, at) /\ Stands(y, bits, at + Len(x))
<1>1. PICK n, m, z : n = Len(x) /\ m = Len(y) /\ z = x \o y  OBVIOUS
<1>2. n \in Nat /\ m \in Nat /\ Len(bits) \in Nat /\ Len(z) = n + m  BY <1>1
<1>3. /\ \A i \in 1 .. n : z[i] = x[i]
      /\ \A i \in 1 .. m : z[n + i] = y[i]
  BY <1>1
<1>4. at + (n + m) - 1 <= Len(bits) /\ \A i \in 1 .. n + m : bits[at + i - 1] = z[i]
  BY <1>1, <1>2 DEF Stands
<1>5. \A i \in 1 .. n : bits[at + i - 1] = x[i]
  <2>1. \A i \in 1 .. n : i \in 1 .. n + m  BY <1>2
  <2>2. QED  BY <1>3, <1>4, <2>1
<1>6. \A i \in 1 .. m : bits[(at + n) + i - 1] = y[i]
  <2>1. \A i \in 1 .. m : n + i \in 1 .. n + m /\ at + (n + i) - 1 = (at + n) + i - 1
    BY <1>2
  <2>2. QED  BY <1>3, <1>4, <2>1
<1>7. at + n - 1 <= Len(bits) /\ (at + n) + m - 1 <= Len(bits)  BY <1>2, <1>4
<1>8. QED  BY <1>1, <1>5, <1>6, <1>7 DEF Stands

LEMMA StandsFlat ==
  ASSUME NEW S, NEW n \in Nat, NEW seqs \in [1 .. n -> Seq(S)], NEW bits \in Seq(S),
         NEW P \in [0 .. n -> Nat], \A k \in 1 .. n : P[k] = P[k - 1] + Len(seqs[k]),
         Stands(FlattenSeq(seqs), bits, P[0])
  PROVE  \A k \in 1 .. n : Stands(seqs[k], bits, P[k - 1])
<1>1. PICK H \in [0 .. n -> Seq(S)] : EndToEnd(H, seqs, n)  BY FlatTable
<1>2. /\ H[0] = <<>> /\ FlattenSeq(seqs) = H[n]
      /\ \A k \in 1 .. n : H[k] = H[k - 1] \o seqs[k]
  BY <1>1, Zenon DEF EndToEnd
<1> DEFINE G == [k \in 0 .. n |-> P[0] + Len(H[k])]
<1>3. \A k \in 0 .. n : P[k] = G[k]
  <2>1. P[0] = G[0]  BY <1>2
  <2>2. ASSUME NEW k \in 1 .. n, P[k - 1] = G[k - 1] PROVE P[k] = G[k]
    <3>1. k \in 0 .. n /\ k - 1 \in 0 .. n  OBVIOUS
    <3>2. PICK x, y : x = H[k - 1] /\ y = seqs[k]  OBVIOUS
    <3>3. x \in Seq(S) /\ y \in Seq(S) /\ H[k] = x \o y  BY <1>2, <3>1, <3>2
    <3>4. PICK z, i, j, p : z = x \o y /\ i = Len(x) /\ j = Len(y) /\ p = P[0]  OBVIOUS
    <3>5. Len(z) = i + j /\ i \in Nat /\ j \in Nat  BY <3>3, <3>4
    <3>6. p \in Nat  BY <3>4
    <3>7. P[k] = (p + i) + j  BY <2>2, <3>1, <3>2, <3>4
    <3>8. G[k] = p + Len(z)  BY <3>1, <3>3, <3>4
    <3> HIDE DEF G
    <3>9. QED  BY <3>5, <3>6, <3>7, <3>8
  <2> HIDE DEF G
  <2>3. StepAlike(P, G, n)  BY <2>1, <2>2 DEF StepAlike
  <2>4. Agree(P, G, n)  BY <2>3, SameTable
  <2>5. QED  BY <2>4 DEF Agree
<1> DEFINE T == {m \in 1 .. n + 1 : Stands(H[n + 1 - m], bits, P[0])}
<1>4. 1 \in T
  <2>1. 1 \in 1 .. n + 1 /\ n + 1 - 1 = n  OBVIOUS
  <2>2. QED  BY <1>2, <2>1
<1>5. ASSUME NEW k \in 1 .. n, Stands(H[k], bits, P[0])
      PROVE  Stands(H[k - 1], bits, P[0]) /\ Stands(seqs[k], bits, P[k - 1])
  <2>1. k - 1 \in 0 .. n /\ 0 \in 0 .. n  OBVIOUS
  <2>2. PICK x, y, p : x = H[k - 1] /\ y = seqs[k] /\ p = P[0]  OBVIOUS
  <2>3. x \in Seq(S) /\ y \in Seq(S) /\ p \in Nat  BY <2>1, <2>2
  <2>4. Stands(x \o y, bits, p)  BY <1>2, <1>5, <2>2
  <2>5. Stands(x, bits, p) /\ Stands(y, bits, p + Len(x))  BY <2>3, <2>4, StandsBoth
  <2>6. P[k - 1] = p + Len(x)  BY <1>3, <2>1, <2>2
  <2>7. QED  BY <2>2, <2>5, <2>6
<1>6. ASSUME NEW m \in 1 .. (n + 1) - 1, m \in T PROVE m + 1 \in T
  <2>1. PICK k : k = n + 1 - m  OBVIOUS
  <2>2. k \in 1 .. n /\ n + 1 - (m + 1) = k - 1 /\ m + 1 \in 1 .. n + 1  BY <2>1
  <2>3. Stands(H[k], bits, P[0])  BY <1>6, <2>1
  <2>4. Stands(H[k - 1], bits, P[0])  BY <1>5, <2>2, <2>3
  <2>5. QED  BY <2>2, <2>4
<1> HIDE DEF T
<1>7. 1 .. n + 1 \subseteq T
  <2>1. n + 1 \in Nat  OBVIOUS
  <2>2. QED  BY <1>4, <1>6, <2>1, NumbersTo
<1>8. ASSUME NEW k \in 1 .. n PROVE Stands(seqs[k], bits, P[k - 1])
  <2>1. PICK m : m = n + 1 - k  OBVIOUS
  <2>2. m \in 1 .. n + 1 /\ n + 1 - m = k  BY <2>1
  <2>3. Stands(H[k], bits, P[0])  BY <1>7, <2>2 DEF T
  <2>4. QED  BY <1>5, <2>3
<1>9. QED  BY <1>8

\* The bits of one call, and the sequences of bits calls are turned into.
BitOf(w, b) == IF w.run THEN 0 ELSE (w.value \div 2^(w.width - b)) % 2
Pattern(w) == [b \in 1 .. w.width |-> BitOf(w, b)]
Patterns(ws) == [i \in 1 .. Len(ws) |-> Pattern(ws[i])]
AnyBit == {BitOf(w, b) : w \in Writes, b \in Nat}

LEMMA PatternTyped ==
  ASSUME NEW w \in Writes
  PROVE  Pattern(w) \in Seq(AnyBit) /\ Len(Pattern(w)) = w.width /\ w.width \in Nat
<1>1. w.width \in Nat  BY DEF Writes
<1>2. \A b \in 1 .. w.width : BitOf(w, b) \in AnyBit
  <2>1. \A b \in 1 .. w.width : b \in Nat  BY <1>1
  <2>2. QED  BY <2>1 DEF AnyBit
<1>3. PICK p, n : p = Pattern(w) /\ n = w.width  OBVIOUS
<1>4. p = [b \in 1 .. n |-> BitOf(w, b)]  BY <1>3 DEF Pattern
<1>5. p \in [1 .. n -> AnyBit]  BY <1>2, <1>3, <1>4
<1>6. p \in Seq(AnyBit) /\ Len(p) = n  BY <1>1, <1>3, <1>5
<1>7. QED  BY <1>1, <1>3, <1>6

LEMMA BitsArePatterns ==
  ASSUME NEW ws \in Seq(Writes)
  PROVE  /\ BitsOf(ws) = FlattenSeq(Patterns(ws))
         /\ Patterns(ws) \in [1 .. Len(ws) -> Seq(AnyBit)] /\ Len(ws) \in Nat
         /\ BitsOf(ws) \in Seq(AnyBit) /\ Len(BitsOf(ws)) = Width(ws) /\ Width(ws) \in Nat
<1>1. PICK n : n = Len(ws)  OBVIOUS
<1>2. n \in Nat /\ DOMAIN ws = 1 .. n /\ \A i \in 1 .. n : ws[i] \in Writes  BY <1>1
<1>3. BitsOf(ws) = FlattenSeq(Patterns(ws))
  BY <1>1, <1>2, Zenon DEF BitsOf, Patterns, Pattern, BitOf
<1>4. PICK q : q = Patterns(ws)  OBVIOUS
<1>5. q = [i \in 1 .. n |-> Pattern(ws[i])]  BY <1>1, <1>4 DEF Patterns
<1>6. q \in [1 .. n -> Seq(AnyBit)]  BY <1>2, <1>5, PatternTyped
<1>7. PICK B : B = AnyBit  OBVIOUS
<1>8. q \in [1 .. n -> Seq(B)]  BY <1>6, <1>7
<1>9. PICK H \in [0 .. n -> Seq(B)] : EndToEnd(H, q, n)  BY <1>2, <1>8, FlatTable
<1>10. FlattenSeq(q) = H[n]  BY <1>9, Zenon DEF EndToEnd
<1>11. n \in 0 .. n  BY <1>2
<1>12. FlattenSeq(q) \in Seq(B)  BY <1>10, <1>11
<1>13. Puts(ws, Width(ws))  BY DEF Puts
<1>14. Len(BitsOf(ws)) = Width(ws) /\ Width(ws) \in Nat  BY <1>13, PutsBits
<1>15. QED  BY <1>1, <1>2, <1>3, <1>4, <1>6, <1>7, <1>12, <1>14

Associate(x, y, z) == (x \o y) \o z = x \o (y \o z)

LEMMA Associative ==
  ASSUME NEW S, NEW x \in Seq(S), NEW y \in Seq(S), NEW z \in Seq(S)
  PROVE  Associate(x, y, z)
BY ConcatAssociative DEF Associate

\* Flattening goes along with putting end to end.
Joins(z, x, n, y, m) ==
  (\A k \in 1 .. n : z[k] = x[k]) /\ (\A k \in 1 .. m : z[n + k] = y[k])
FlattenJoins(z, x, y) == FlattenSeq(z) = FlattenSeq(x) \o FlattenSeq(y)

LEMMA FlatBoth ==
  ASSUME NEW S, NEW n \in Nat, NEW m \in Nat, NEW x \in [1 .. n -> Seq(S)],
         NEW y \in [1 .. m -> Seq(S)], NEW z \in [1 .. n + m -> Seq(S)],
         Joins(z, x, n, y, m)
  PROVE  FlattenJoins(z, x, y)
<1>. USE DEF Joins
<1>0. n + m \in Nat  OBVIOUS
<1>1. PICK H \in [0 .. n -> Seq(S)] : EndToEnd(H, x, n)  BY FlatTable
<1>2. PICK J \in [0 .. m -> Seq(S)] : EndToEnd(J, y, m)  BY FlatTable
<1>3. PICK K \in [0 .. n + m -> Seq(S)] : EndToEnd(K, z, n + m)  BY <1>0, FlatTable
<1>4. /\ H[0] = <<>> /\ FlattenSeq(x) = H[n]
      /\ \A k \in 1 .. n : H[k] = H[k - 1] \o x[k]
  BY <1>1, Zenon DEF EndToEnd
<1>5. /\ J[0] = <<>> /\ FlattenSeq(y) = J[m]
      /\ \A k \in 1 .. m : J[k] = J[k - 1] \o y[k]
  BY <1>2, Zenon DEF EndToEnd
<1>6. /\ K[0] = <<>> /\ FlattenSeq(z) = K[n + m]
      /\ \A k \in 1 .. n + m : K[k] = K[k - 1] \o z[k]
  BY <1>3, Zenon DEF EndToEnd
<1>7. Agree(K, H, n)
  <2>1. ASSUME NEW k \in 1 .. n, K[k - 1] = H[k - 1] PROVE K[k] = H[k]
    <3>1. k \in 1 .. n + m  OBVIOUS
    <3>2. K[k] = K[k - 1] \o z[k]  BY <1>6, <3>1
    <3>3. H[k] = H[k - 1] \o x[k] /\ z[k] = x[k]  BY <1>4
    <3>4. QED  BY <2>1, <3>2, <3>3
  <2>2. K[0] = H[0]  BY <1>4, <1>6
  <2>3. StepAlike(K, H, n)  BY <2>1, <2>2 DEF StepAlike
  <2>4. QED  BY <2>3, SameTable
<1>8. K[n] = H[n]
  <2>1. n \in 0 .. n  OBVIOUS
  <2>2. QED  BY <1>7, <2>1 DEF Agree
<1> DEFINE L == [k \in 0 .. m |-> K[n + k]]
           M == [k \in 0 .. m |-> H[n] \o J[k]]
<1>9. StepAlike(L, M, m)
  <2>1. L[0] = M[0]
    <3>1. 0 \in 0 .. m /\ n + 0 = n  OBVIOUS
    <3>2. PICK h : h = H[n]  OBVIOUS
    <3>3. n \in 0 .. n  OBVIOUS
    <3>4. h \in Seq(S)  BY <3>2, <3>3
    <3>5. h \o <<>> = h  BY <3>4
    <3>6. QED  BY <1>5, <1>8, <3>1, <3>2, <3>5
  <2>2. ASSUME NEW k \in 1 .. m, L[k - 1] = M[k - 1] PROVE L[k] = M[k]
    <3>1. /\ k \in 0 .. m /\ k - 1 \in 0 .. m /\ n + k \in 1 .. n + m
          /\ (n + k) - 1 = n + (k - 1) /\ n \in 0 .. n
      OBVIOUS
    <3>2. PICK h, j, w : h = H[n] /\ j = J[k - 1] /\ w = y[k]  OBVIOUS
    <3>3. h \in Seq(S) /\ j \in Seq(S) /\ w \in Seq(S)  BY <3>1, <3>2
    <3>4. (h \o j) \o w = h \o (j \o w)
      <4>1. Associate(h, j, w)  BY ONLY <3>3, Associative, Zenon
      <4>2. QED  BY ONLY <4>1 DEF Associate
    <3>5. K[n + (k - 1)] = h \o j  BY <2>2, <3>1, <3>2
    <3>6. K[n + k] = K[n + (k - 1)] \o z[n + k]  BY <1>6, <3>1
    <3>7. K[n + k] = (h \o j) \o w  BY <3>2, <3>5, <3>6
    <3>8. J[k] = j \o w  BY <1>5, <3>2
    <3>9. QED  BY <3>1, <3>2, <3>4, <3>7, <3>8
  <2> HIDE DEF L, M
  <2>3. QED  BY <2>1, <2>2 DEF StepAlike
<1>10. L[m] = M[m] /\ L[m] = K[n + m] /\ M[m] = H[n] \o J[m]
  <2>1. m \in 0 .. m  OBVIOUS
  <2>2. L[m] = K[n + m] /\ M[m] = H[n] \o J[m]  BY <2>1
  <2> HIDE DEF L, M
  <2>3. Agree(L, M, m)  BY <1>9, SameTable
  <2>4. QED  BY <2>1, <2>2, <2>3 DEF Agree
<1> HIDE DEF L, M
<1>11. QED  BY <1>4, <1>5, <1>6, <1>10 DEF FlattenJoins

LEMMA BitsBoth ==
  ASSUME NEW a \in Seq(Writes), NEW b \in Seq(Writes)
  PROVE  BitsOf(a \o b) = BitsOf(a) \o BitsOf(b) /\ a \o b \in Seq(Writes)
<1>1. PICK n, m, c : n = Len(a) /\ m = Len(b) /\ c = a \o b  OBVIOUS
<1>2. /\ n \in Nat /\ m \in Nat /\ c \in Seq(Writes) /\ Len(c) = n + m
      /\ \A i \in 1 .. n : c[i] = a[i]
      /\ \A i \in 1 .. m : c[n + i] = b[i]
  BY <1>1
<1>3. PICK x, y, z : x = Patterns(a) /\ y = Patterns(b) /\ z = Patterns(c)  OBVIOUS
<1>4. \A k \in 1 .. n : z[k] = x[k]
  <2>1. \A k \in 1 .. n : k \in 1 .. n + m  BY <1>2
  <2>2. QED  BY <1>1, <1>2, <1>3, <2>1 DEF Patterns
<1>5. \A k \in 1 .. m : z[n + k] = y[k]
  <2>1. \A k \in 1 .. m : n + k \in 1 .. n + m  BY <1>2
  <2>2. QED  BY <1>1, <1>2, <1>3, <2>1 DEF Patterns
<1>6. PICK B : B = AnyBit  OBVIOUS
<1>7. x \in [1 .. n -> Seq(B)] /\ y \in [1 .. m -> Seq(B)] /\ z \in [1 .. n + m -> Seq(B)]
  BY <1>1, <1>2, <1>3, <1>6, BitsArePatterns
<1>8. FlattenSeq(z) = FlattenSeq(x) \o FlattenSeq(y)
  <2>1. Joins(z, x, n, y, m)  BY <1>4, <1>5 DEF Joins
  <2>2. n \in Nat /\ m \in Nat  BY <1>2
  <2>3. FlattenJoins(z, x, y)  BY ONLY <1>7, <2>1, <2>2, FlatBoth, Zenon
  <2>4. QED  BY <2>3 DEF FlattenJoins
<1>9. BitsOf(a) = FlattenSeq(x) /\ BitsOf(b) = FlattenSeq(y) /\ BitsOf(c) = FlattenSeq(z)
  BY <1>2, <1>3, BitsArePatterns
<1>10. QED  BY <1>1, <1>2, <1>8, <1>9

\* The bits of the calls ws are found in bits, from at on.
Holds(bits, at, ws) == Stands(BitsOf(ws), bits, at)

Bits == Seq(AnyBit)

Concat(ab, a, b) == ab = a \o b

Splits(bits, at, a, m, b) ==
  Holds(bits, at, a) /\ Holds(bits, at + m, b) /\ at + m \in Nat

LEMMA HoldsBoth ==
  ASSUME NEW bits \in Bits, NEW at \in Nat, NEW a, NEW m, Puts(a, m), NEW b, NEW n, Puts(b, n),
         NEW ab, Concat(ab, a, b), Holds(bits, at, ab)
  PROVE  Splits(bits, at, a, m, b)
<1>1. a \in Seq(Writes) /\ b \in Seq(Writes) /\ m = Width(a)  BY DEF Puts
<1>2. PICK x, y, B : x = BitsOf(a) /\ y = BitsOf(b) /\ B = AnyBit  OBVIOUS
<1>3. x \in Seq(B) /\ y \in Seq(B) /\ Len(x) = m /\ m \in Nat
  BY <1>1, <1>2, BitsArePatterns
<1>4. BitsOf(ab) = x \o y  BY <1>1, <1>2, BitsBoth DEF Concat
<1>5. Stands(x \o y, bits, at) /\ bits \in Seq(B)  BY <1>2, <1>4 DEF Holds, Bits
<1>6. Stands(x, bits, at) /\ Stands(y, bits, at + Len(x))  BY <1>3, <1>5, StandsBoth
<1>7. QED  BY <1>2, <1>3, <1>6 DEF Holds, Splits

LEMMA HoldsOne ==
  ASSUME NEW bits, NEW at \in Nat, NEW w \in Writes, Holds(bits, at, <<w>>)
  PROVE  /\ \A b \in 1 .. w.width : bits[at + b - 1] = BitOf(w, b)
         /\ at + w.width - 1 <= Len(bits)
<1>1. PICK ws, q, B : ws = <<w>> /\ q = Patterns(ws) /\ B = AnyBit  OBVIOUS
<1>2. ws \in Seq(Writes) /\ Len(ws) = 1 /\ ws[1] = w  BY <1>1
<1>3. BitsOf(ws) = FlattenSeq(q) /\ q \in [1 .. 1 -> Seq(B)]  BY <1>1, <1>2, BitsArePatterns
<1>4. PICK H \in [0 .. 1 -> Seq(B)] : EndToEnd(H, q, 1)
  <2>1. 1 \in Nat  OBVIOUS
  <2>2. QED  BY <1>3, <2>1, FlatTable
<1>5. H[0] = <<>> /\ FlattenSeq(q) = H[1] /\ H[1] = H[0] \o q[1]
  <2>1. /\ H[0] = <<>> /\ FlattenSeq(q) = H[1]
        /\ \A k \in 1 .. 1 : H[k] = H[k - 1] \o q[k]
    BY <1>4, Zenon DEF EndToEnd
  <2>2. 1 \in 1 .. 1 /\ 1 - 1 = 0  OBVIOUS
  <2>3. QED  BY <2>1, <2>2
<1>6. PICK p : p = Pattern(w)  OBVIOUS
<1>7. q[1] = p
  <2>1. q = [i \in 1 .. 1 |-> Pattern(ws[i])]  BY <1>1, <1>2 DEF Patterns
  <2>2. QED  BY <1>2, <1>6, <2>1
<1>8. p \in Seq(B) /\ Len(p) = w.width /\ w.width \in Nat  BY <1>1, <1>6, PatternTyped
<1>9. <<>> \o p = p  BY <1>8
<1>10. Stands(p, bits, at)  BY <1>1, <1>3, <1>5, <1>7, <1>9 DEF Holds
<1>11. \A b \in 1 .. w.width : p[b] = BitOf(w, b)  BY <1>6 DEF Pattern
<1>12. QED  BY <1>8, <1>10, <1>11 DEF Stands

LEMMA HoldsWrite ==
  ASSUME NEW bits, NEW at \in Nat, NEW v \in Int, NEW n \in 0 .. WordBits,
         Holds(bits, at, <<Write(v, n)>>)
  PROVE  Shows(bits, at, v, n) /\ at + n - 1 <= Len(bits)
<1>1. PICK w : w = Write(v, n)  OBVIOUS
<1>2. n \in Nat /\ n <= WordBits  BY SubframesAssumption
<1>3. w \in Writes /\ w.width = n /\ w.value = v /\ w.run = FALSE
  BY <1>1, <1>2 DEF Write, Writes
<1>4. /\ \A b \in 1 .. n : bits[at + b - 1] = BitOf(w, b)
      /\ at + n - 1 <= Len(bits)
  BY <1>1, <1>3, HoldsOne
<1>5. \A b : BitOf(w, b) = (v \div 2^(n - b)) % 2  BY <1>3, Zenon DEF BitOf
<1>6. QED  BY <1>4, <1>5 DEF Shows

LEMMA HoldsZeros ==
  ASSUME NEW bits, NEW at \in Nat, NEW n \in Nat, Holds(bits, at, <<ZeroRun(n)>>)
  PROVE  \A b \in 1 .. n : bits[at + b - 1] = 0
<1>1. PICK w : w = ZeroRun(n)  OBVIOUS
<1>2. w \in Writes /\ w.width = n /\ w.run = TRUE  BY <1>1 DEF ZeroRun, Writes
<1>3. \A b \in 1 .. n : bits[at + b - 1] = BitOf(w, b)  BY <1>1, <1>2, HoldsOne
<1>4. QED  BY <1>2, <1>3 DEF BitOf

\* Values of one width stand at multiples of it.
LEMMA HoldsPlain ==
  ASSUME NEW bits \in Bits, NEW at \in Nat, NEW n \in Nat, NEW values \in [1 .. n -> Int],
         NEW w \in 0 .. WordBits, Holds(bits, at, PlainWrites(values, w))
  PROVE  \A i \in 1 .. n : /\ Shows(bits, at + (i - 1) * w, values[i], w)
                           /\ at + (i - 1) * w \in Nat
<1>0. w \in Nat /\ w <= WordBits  BY SubframesAssumption
<1>1. PICK ws, q, B : ws = PlainWrites(values, w) /\ q = Patterns(ws) /\ B = AnyBit  OBVIOUS
<1>2. ws = [i \in 1 .. n |-> Write(values[i], w)]  BY <1>1 DEF PlainWrites
<1>3. \A i \in 1 .. n : Write(values[i], w) \in Writes  BY <1>0 DEF Write, Writes
<1>4. ws \in Seq(Writes) /\ Len(ws) = n
  <2>1. ws \in [1 .. n -> Writes]  BY <1>2, <1>3
  <2>2. QED  BY <2>1
<1>5. BitsOf(ws) = FlattenSeq(q) /\ q \in [1 .. n -> Seq(B)]  BY <1>1, <1>4, BitsArePatterns
<1>6. \A i \in 1 .. n : q[i] = Pattern(Write(values[i], w))
  <2>1. q = [i \in 1 .. n |-> Pattern(ws[i])]  BY <1>1, <1>4 DEF Patterns
  <2>2. QED  BY <1>2, <2>1
<1>7. \A i \in 1 .. n : Len(q[i]) = w
  <2>1. ASSUME NEW i \in 1 .. n PROVE Len(q[i]) = w
    <3>1. PICK c : c = Write(values[i], w)  OBVIOUS
    <3>2. c \in Writes /\ c.width = w  BY <1>3, <3>1 DEF Write
    <3>3. QED  BY <1>6, <3>1, <3>2, PatternTyped
  <2>2. QED  BY <2>1
<1>8. \A k \in 0 .. n : k * w \in Nat /\ at + k * w \in Nat
  <2>1. ASSUME NEW k \in 0 .. n PROVE k * w \in Nat
    <3>1. k \in Nat  OBVIOUS
    <3>2. QED  BY <1>0, <3>1
  <2>2. QED  BY <2>1
<1> DEFINE P == [k \in 0 .. n |-> at + k * w]
<1>9. P \in [0 .. n -> Nat]  BY <1>8
<1>10. \A k \in 1 .. n : P[k] = P[k - 1] + w
  <2>1. ASSUME NEW k \in 1 .. n PROVE P[k] = P[k - 1] + w
    <3>1. k \in 0 .. n /\ k - 1 \in 0 .. n  OBVIOUS
    <3>2. PICK j \in Nat : j = k - 1 /\ k = j + 1  BY k - 1 \in Nat
    <3>3. (j + 1) * w = j * w + w  BY <1>0
    <3>4. j * w \in Nat  BY <1>0
    <3>5. PICK a : a = j * w  OBVIOUS
    <3>6. P[k] = at + (a + w) /\ P[k - 1] = at + a  BY <3>1, <3>2, <3>3, <3>5
    <3>7. QED  BY <1>0, <3>4, <3>5, <3>6
  <2>2. QED  BY <2>1
<1>11. P[0] = at
  <2>1. 0 \in 0 .. n /\ 0 * w = 0  BY <1>0
  <2>2. QED  BY <2>1
<1>12. \A i \in 1 .. n : P[i - 1] = at + (i - 1) * w
  <2>1. \A i \in 1 .. n : i - 1 \in 0 .. n  OBVIOUS
  <2>2. QED  BY <2>1
<1> HIDE DEF P
<1>13. \A k \in 1 .. n : P[k] = P[k - 1] + Len(q[k])  BY <1>7, <1>10
<1>14. Stands(FlattenSeq(q), bits, P[0])  BY <1>1, <1>5, <1>11 DEF Holds
<1>15. bits \in Seq(B)  BY <1>1 DEF Bits
<1>16. \A k \in 1 .. n : Stands(q[k], bits, P[k - 1])
  BY <1>5, <1>9, <1>13, <1>14, <1>15, StandsFlat
<1>17. ASSUME NEW i \in 1 .. n
       PROVE  /\ Shows(bits, at + (i - 1) * w, values[i], w)
              /\ at + (i - 1) * w \in Nat
  <2>1. PICK p, v, c : p = at + (i - 1) * w /\ v = values[i] /\ c = Write(v, w)  OBVIOUS
  <2>2. Stands(Pattern(c), bits, p)  BY <1>6, <1>12, <1>16, <2>1
  <2>3. c \in Writes /\ c.width = w /\ c.value = v /\ c.run = FALSE
    BY <1>3, <2>1 DEF Write
  <2>4. Len(Pattern(c)) = w  BY <2>3, PatternTyped
  <2>5. \A b \in 1 .. w : Pattern(c)[b] = BitOf(c, b)  BY <2>3 DEF Pattern
  <2>6. \A b : BitOf(c, b) = (v \div 2^(w - b)) % 2  BY <2>3, Zenon DEF BitOf
  <2>7. \A b \in 1 .. w : bits[p + b - 1] = BitOf(c, b)  BY <2>2, <2>4, <2>5 DEF Stands
  <2>8. Shows(bits, p, v, w)  BY <2>6, <2>7 DEF Shows
  <2>9. i - 1 \in 0 .. n  OBVIOUS
  <2>10. p \in Nat  BY <1>8, <2>1, <2>9
  <2>11. QED  BY <2>1, <2>8, <2>10
<1>18. QED  BY <1>17

LEMMA BitsFlat ==
  ASSUME NEW n \in Nat, NEW wss \in [1 .. n -> Seq(Writes)]
  PROVE  BitsOf(FlattenSeq(wss)) = FlattenSeq([k \in 1 .. n |-> BitsOf(wss[k])])
<1>1. PICK W, B, q : W = Writes /\ B = AnyBit /\ q = [k \in 1 .. n |-> BitsOf(wss[k])]  OBVIOUS
<1>2. PICK H \in [0 .. n -> Seq(W)] : EndToEnd(H, wss, n)  BY <1>1, FlatTable
<1>3. /\ H[0] = <<>> /\ FlattenSeq(wss) = H[n]
      /\ \A k \in 1 .. n : H[k] = H[k - 1] \o wss[k]
  BY <1>2, Zenon DEF EndToEnd
<1>4. q \in [1 .. n -> Seq(B)]
  <2>1. \A k \in 1 .. n : BitsOf(wss[k]) \in Seq(B)  BY <1>1, BitsArePatterns
  <2>2. QED  BY <1>1, <2>1
<1>5. PICK J \in [0 .. n -> Seq(B)] : EndToEnd(J, q, n)  BY <1>4, FlatTable
<1>6. /\ J[0] = <<>> /\ FlattenSeq(q) = J[n]
      /\ \A k \in 1 .. n : J[k] = J[k - 1] \o q[k]
  BY <1>5, Zenon DEF EndToEnd
<1> DEFINE G == [k \in 0 .. n |-> BitsOf(H[k])]
<1>7. G[0] = J[0]
  <2>1. <<>> \in Seq(Writes) /\ Width(<<>>) = 0  BY PutsNothing DEF Puts
  <2>2. PICK e : e = BitsOf(<<>>)  OBVIOUS
  <2>3. e \in Seq(B) /\ Len(e) = 0  BY <1>1, <2>1, <2>2, BitsArePatterns
  <2>4. e = <<>>  BY <2>3
  <2>5. 0 \in 0 .. n  OBVIOUS
  <2>6. QED  BY <1>3, <1>6, <2>2, <2>4, <2>5
<1>8. ASSUME NEW k \in 1 .. n, G[k - 1] = J[k - 1] PROVE G[k] = J[k]
  <2>1. k \in 0 .. n /\ k - 1 \in 0 .. n  OBVIOUS
  <2>2. PICK a, b : a = H[k - 1] /\ b = wss[k]  OBVIOUS
  <2>3. a \in Seq(Writes) /\ b \in Seq(Writes)  BY <1>1, <2>1, <2>2
  <2>4. BitsOf(a \o b) = BitsOf(a) \o BitsOf(b)  BY <2>3, BitsBoth
  <2>5. H[k] = a \o b  BY <1>3, <2>2
  <2>6. G[k] = BitsOf(a \o b) /\ G[k - 1] = BitsOf(a)  BY <2>1, <2>2, <2>5
  <2>7. q[k] = BitsOf(b)  BY <1>1, <2>2
  <2>8. J[k] = J[k - 1] \o q[k]  BY <1>6
  <2> HIDE DEF G
  <2>9. QED  BY <1>8, <2>4, <2>6, <2>7, <2>8
<1>9. G[n] = BitsOf(FlattenSeq(wss))
  <2>1. n \in 0 .. n  OBVIOUS
  <2>2. QED  BY <1>3, <2>1
<1> HIDE DEF G
<1>10. StepAlike(G, J, n)  BY <1>7, <1>8 DEF StepAlike
<1>11. Agree(G, J, n)  BY <1>10, SameTable
<1>12. n \in 0 .. n  OBVIOUS
<1>13. QED  BY <1>1, <1>6, <1>9, <1>11, <1>12 DEF Agree

LEMMA HoldsFlat ==
  ASSUME NEW bits \in Bits, NEW n \in Nat, NEW wss, wss = [k \in 1 .. n |-> wss[k]],
         NEW lens, \A k \in 1 .. n : Puts(wss[k], lens[k]),
         NEW P \in [0 .. n -> Nat], \A k \in 1 .. n : P[k] = P[k - 1] + lens[k],
         Holds(bits, P[0], FlattenSeq(wss))
  PROVE  \A k \in 1 .. n : Holds(bits, P[k - 1], wss[k])
<1>1. \A k \in 1 .. n : wss[k] \in Seq(Writes) /\ lens[k] = Width(wss[k])  BY DEF Puts
<1>2. wss \in [1 .. n -> Seq(Writes)]  BY <1>1
<1>3. PICK B, q : B = AnyBit /\ q = [k \in 1 .. n |-> BitsOf(wss[k])]  OBVIOUS
<1>4. \A k \in 1 .. n : BitsOf(wss[k]) \in Seq(B) /\ Len(BitsOf(wss[k])) = lens[k]
  BY <1>1, <1>3, BitsArePatterns
<1>5. q \in [1 .. n -> Seq(B)] /\ \A k \in 1 .. n : q[k] = BitsOf(wss[k])  BY <1>3, <1>4
<1>6. BitsOf(FlattenSeq(wss)) = FlattenSeq(q)  BY <1>2, <1>3, BitsFlat
<1>7. Stands(FlattenSeq(q), bits, P[0]) /\ bits \in Seq(B)  BY <1>3, <1>6 DEF Holds, Bits
<1>8. \A k \in 1 .. n : P[k] = P[k - 1] + Len(q[k])  BY <1>4, <1>5
<1>9. \A k \in 1 .. n : Stands(q[k], bits, P[k - 1])  BY <1>5, <1>7, <1>8, StandsFlat
<1>10. QED  BY <1>5, <1>9 DEF Holds

-----------------------------------------------------------------------------
(* A Rice code, a partition, and all the residuals read back.              *)

LEMMA PowersGrow ==
  ASSUME NEW a \in 0 .. WordBits, NEW b \in a .. WordBits
  PROVE  2^a <= 2^b
<1>0. WordBits \in Nat /\ a \in Nat /\ b \in Nat /\ a <= b  BY SubframesAssumption
<1>1. PICK n \in Nat : n = b - a  BY <1>0, b - a \in Nat
<1> DEFINE T == {m \in 1 .. n + 1 : 2^a <= 2^(a + (m - 1))}
<1>2. 1 \in T
  <2>1. 1 \in 1 .. n + 1 /\ a + (1 - 1) = a  BY <1>0
  <2>2. PICK d \in Nat : d = 2^a  BY PowerTyped
  <2>3. d <= d  OBVIOUS
  <2>4. QED  BY <2>1, <2>2, <2>3
<1>3. ASSUME NEW m \in 1 .. (n + 1) - 1, m \in T PROVE m + 1 \in T
  <2>1. PICK c : c = a + m  OBVIOUS
  <2>2. c \in 1 .. WordBits /\ a + (m - 1) = c - 1 /\ a + ((m + 1) - 1) = c
        /\ m + 1 \in 1 .. n + 1
    BY <1>0, <1>1, <2>1
  <2>3. PICK d \in Nat, p \in Nat : d = 2^a /\ p = 2^(c - 1) /\ 2^c = 2 * p
    BY <2>2, PowerDoubles, PowerTyped
  <2>4. d <= p  BY <1>3, <2>2, <2>3
  <2>5. d <= 2 * p  BY <2>4
  <2>6. QED  BY <2>2, <2>3, <2>5
<1> HIDE DEF T
<1>4. 1 .. n + 1 \subseteq T
  <2>1. n + 1 \in Nat  OBVIOUS
  <2>2. QED  BY <1>2, <1>3, <2>1, NumbersTo
<1>5. n + 1 \in T /\ a + ((n + 1) - 1) = b  BY <1>0, <1>1, <1>4
<1>6. QED  BY <1>5 DEF T

\* The last bits of a number are those of the number in fewer bits.
LEMMA ShowsTail ==
  ASSUME NEW bits, NEW at \in Nat, NEW v, NEW n \in Nat, NEW j \in Nat,
         NEW m, m = j + n, Shows(bits, at, v, m)
  PROVE  Shows(bits, at + j, v, n)
<1>1. ASSUME NEW b \in 1 .. n PROVE bits[(at + j) + b - 1] = (v \div 2^(n - b)) % 2
  <2>1. PICK c : c = j + b  OBVIOUS
  <2>2. c \in 1 .. j + n /\ (at + j) + b - 1 = at + c - 1 /\ (j + n) - c = n - b  BY <2>1
  <2>3. bits[at + c - 1] = (v \div 2^((j + n) - c)) % 2  BY <2>2 DEF Shows
  <2>4. QED  BY <2>2, <2>3
<1>2. QED  BY <1>1 DEF Shows

\* The bits of a Rice code: zeros for the quotient, a one, and the remainder.
LEMMA RiceShows ==
  ASSUME NEW bits \in Bits, NEW p \in Nat, NEW r \in Int, NEW k \in 0 .. MaxRiceParameter,
         Holds(bits, p, RiceWrites(r, k)),
         NEW q, q = FoldSigned(r) \div 2^k, NEW stop, stop = 2^k + (FoldSigned(r) % 2^k)
  PROVE  /\ \A b \in 1 .. q : bits[p + b - 1] = 0
         /\ bits[p + q] = 1 /\ Shows(bits, p + q + 1, stop, k) /\ p + q + k <= Len(bits)
<1>1. /\ WordBits \in Nat /\ WordBits > MaxRiceParameter /\ MaxRiceParameter \in Nat
      /\ k \in Nat /\ k + 1 \in 0 .. WordBits /\ k \in 0 .. WordBits /\ k + 1 \in 1 .. WordBits
  BY SubframesAssumption
<1>2. PICK d \in Nat \ {0} : d = 2^k /\ 2^(k + 1) = 2 * d  BY <1>1, PowersAssumption
<1>3. PICK f \in Nat : f = FoldSigned(r)  BY RiceTyped
<1>4. q \in Nat /\ stop \in Nat /\ stop >= d /\ stop < 2 * d
  <2>1. f % d \in 0 .. d - 1 /\ f \div d \in Nat  OBVIOUS
  <2>2. q = f \div d /\ stop = d + (f % d)  BY <1>2, <1>3
  <2>3. QED  BY <2>1, <2>2
<1>5. RiceWrites(r, k) = IF q <= (WordBits - 1) - k THEN <<Write(stop, q + 1 + k)>>
                         ELSE <<ZeroRun(q), Write(stop, k + 1)>>
  BY Zenon DEF RiceWrites
<1>6. /\ Shows(bits, p + q, stop, k + 1) /\ p + q + k <= Len(bits)
      /\ \A b \in 1 .. q : bits[p + b - 1] = 0
  <2>1. CASE q <= (WordBits - 1) - k
    <3>1. PICK n : n = q + 1 + k  OBVIOUS
    <3>2. n \in 0 .. WordBits /\ n = q + (k + 1)  BY <1>1, <1>4, <2>1, <3>1
    <3>3. Holds(bits, p, <<Write(stop, n)>>)  BY <1>5, <2>1, <3>1
    <3>4. stop \in Int  BY <1>4
    <3>5. Shows(bits, p, stop, n) /\ p + n - 1 <= Len(bits)
      BY <3>2, <3>3, <3>4, HoldsWrite
    <3>6. Shows(bits, p + q, stop, k + 1)
      <4>1. PICK c : c = k + 1  OBVIOUS
      <4>2. c \in Nat /\ q \in Nat /\ n = q + c  BY <1>1, <1>4, <3>2, <4>1
      <4>3. Shows(bits, p + q, stop, c)  BY ONLY p \in Nat, <3>5, <4>2, ShowsTail, Zenon
      <4>4. QED  BY <4>1, <4>3
    <3>7. ASSUME NEW b \in 1 .. q PROVE bits[p + b - 1] = 0
      <4>1. PICK c : c = n - b  OBVIOUS
      <4>2. c \in k + 1 .. WordBits /\ c \in 0 .. WordBits /\ b \in 1 .. n
        BY <1>1, <1>4, <3>1, <3>2, <4>1
      <4>3. 2^(k + 1) <= 2^c  BY <1>1, <4>2, PowersGrow
      <4>4. PICK e \in Nat \ {0} : e = 2^c  BY <4>2, PowerTyped
      <4>5. stop < e  BY <1>2, <1>4, <4>3, <4>4
      <4>6. stop \div e = 0  BY <1>4, <4>4, <4>5
      <4>7. bits[p + b - 1] = (stop \div e) % 2  BY <3>5, <4>1, <4>2, <4>4 DEF Shows
      <4>8. QED  BY <4>6, <4>7
    <3>8. p + q + k <= Len(bits)
      <4>1. p + n - 1 = p + q + k  BY <1>1, <1>4, <3>1
      <4>2. QED  BY <3>5, <4>1
    <3>9. QED  BY <3>6, <3>7, <3>8
  <2>2. CASE ~(q <= (WordBits - 1) - k)
    <3>1. PICK a, b : a = ZeroRun(q) /\ b = Write(stop, k + 1)  OBVIOUS
    <3>2. RiceWrites(r, k) = <<a>> \o <<b>>  BY <1>5, <2>2, <3>1, OneAfterOther
    <3>3. Puts(<<a>>, q) /\ Puts(<<b>>, k + 1)  BY <1>1, <1>4, <3>1, PutsWrite, PutsZeros
    <3>4. Holds(bits, p, <<a>>) /\ Holds(bits, p + q, <<b>>) /\ p + q \in Nat
      <4>1. PICK ws, x, y, c : ws = RiceWrites(r, k) /\ x = <<a>> /\ y = <<b>> /\ c = k + 1
        OBVIOUS
      <4>2. Concat(ws, x, y) /\ Holds(bits, p, ws)  BY <3>2, <4>1 DEF Concat
      <4>3. Puts(x, q) /\ Puts(y, c)  BY <3>3, <4>1
      <4>4. Holds(bits, p, x) /\ Holds(bits, p + q, y) /\ p + q \in Nat
        <5>1. Splits(bits, p, x, q, y)  BY <4>2, <4>3, HoldsBoth
        <5>2. QED  BY <5>1 DEF Splits
      <4>5. QED  BY <4>1, <4>4
    <3>5. \A c \in 1 .. q : bits[p + c - 1] = 0  BY <1>4, <3>1, <3>4, HoldsZeros
    <3>6. Shows(bits, p + q, stop, k + 1) /\ (p + q) + (k + 1) - 1 <= Len(bits)
      <4>1. stop \in Int  BY <1>4
      <4>2. PICK o : o = p + q  OBVIOUS
      <4>3. o \in Nat /\ Holds(bits, o, <<Write(stop, k + 1)>>)  BY <3>1, <3>4, <4>2
      <4>4. Shows(bits, o, stop, k + 1) /\ o + (k + 1) - 1 <= Len(bits)
        BY <1>1, <4>1, <4>3, HoldsWrite
      <4>5. QED  BY <4>2, <4>4
    <3>7. (p + q) + (k + 1) - 1 = p + q + k  BY <1>1, <1>4
    <3>8. QED  BY <3>5, <3>6, <3>7
  <2>3. QED  BY <2>1, <2>2
<1>7. bits[p + q] = 1
  <2>1. 1 \in 1 .. k + 1 /\ (k + 1) - 1 = k /\ (p + q) + 1 - 1 = p + q  BY <1>1, <1>4
  <2>2. bits[(p + q) + 1 - 1] = (stop \div 2^((k + 1) - 1)) % 2  BY <1>6, <2>1 DEF Shows
  <2>3. stop \div d = 1
    <3>1. PICK e : e = stop - d  OBVIOUS
    <3>2. e \in 0 .. d - 1 /\ stop = d * 1 + e /\ 1 \in Int  BY <1>4, <3>1
    <3>3. Composed(stop, d, 1, e)  BY <3>2 DEF Composed
    <3>4. Divided(stop, d, 1, e)  BY <3>2, <3>3, QuotientIs, Zenon
    <3>5. QED  BY <3>4 DEF Divided
  <2>4. bits[p + q] = (stop \div d) % 2  BY <1>2, <2>1, <2>2
  <2>5. QED  BY <2>3, <2>4
<1>8. Shows(bits, p + q + 1, stop, k)
  <2>1. PICK o : o = p + q  OBVIOUS
  <2>2. o \in Nat /\ 1 \in Nat /\ k + 1 = 1 + k  BY <1>1, <1>4, <2>1
  <2>3. Shows(bits, o, stop, 1 + k)  BY <1>6, <2>1, <2>2
  <2>4. Shows(bits, o + 1, stop, k)  BY <1>1, <2>2, <2>3, ShowsTail
  <2>5. QED  BY <2>1, <2>4
<1>9. QED  BY <1>6, <1>7, <1>8

LEMMA ZerosRead ==
  ASSUME NEW bits \in Bits, NEW p \in Nat, NEW q \in Nat,
         \A b \in 1 .. q : bits[p + b - 1] = 0, bits[p + q] = 1, p + q <= Len(bits)
  PROVE  R!ReadZeros(bits, p) = q
<1>1. PICK l : l = Len(bits)  OBVIOUS
<1>2. l \in Nat  BY <1>1 DEF Bits
<1>3. PICK T : T = {n \in 0 .. l - p : bits[p + n] = 1} \cup {l - p + 1}  OBVIOUS
<1>4. q \in T /\ T \subseteq Int  BY <1>1, <1>2, <1>3
<1>5. ASSUME NEW y \in T PROVE q <= y
  <2>1. CASE y = l - p + 1  BY <1>1, <1>2, <2>1
  <2>2. CASE y \in 0 .. l - p /\ bits[p + y] = 1
    <3>1. SUFFICES ASSUME y < q PROVE FALSE  BY <1>2, <2>2
    <3>2. PICK b : b = y + 1  OBVIOUS
    <3>3. b \in 1 .. q /\ p + b - 1 = p + y  BY <1>2, <2>2, <3>1, <3>2
    <3>4. bits[p + y] = 0  BY <3>3
    <3>5. QED  BY <2>2, <3>4
  <2>3. QED  BY <1>3, <2>1, <2>2
<1>6. Min(T) = q  BY <1>4, <1>5, MinIs
<1>7. R!ReadZeros(bits, p) = R!Min(T)  BY <1>1, <1>3, Zenon DEF R!ReadZeros
<1>8. R!Min(T) = Min(T)  BY Zenon DEF R!Min, Min
<1>9. QED  BY <1>6, <1>7, <1>8

\* A state of the reader: where it is, and what it has got.
State(at, got) == [at |-> at, got |-> got]

RiceIsRead(bits, p, got, r, k) ==
  R!ReadRice(bits, State(p, got), k) = State(p + RiceBit(r, k), Append(got, r))

\* Both shapes of a Rice code, in one write or in two, are read back to the residual.
LEMMA RiceRead ==
  ASSUME NEW bits \in Bits, NEW p \in Nat, NEW got, NEW r \in Int, NEW k \in 0 .. MaxRiceParameter,
         Holds(bits, p, RiceWrites(r, k))
  PROVE  RiceIsRead(bits, p, got, r, k)
<1>1. PICK q, stop : q = FoldSigned(r) \div 2^k /\ stop = 2^k + (FoldSigned(r) % 2^k)
  OBVIOUS
<1>2. /\ \A b \in 1 .. q : bits[p + b - 1] = 0
      /\ bits[p + q] = 1 /\ Shows(bits, p + q + 1, stop, k) /\ p + q + k <= Len(bits)
  BY <1>1, RiceShows
<1>3. k \in Nat /\ k \in 0 .. WordBits  BY SubframesAssumption
<1>4. PICK d \in Nat \ {0} : d = 2^k  BY <1>3, PowerTyped
<1>5. PICK f \in Nat : f = FoldSigned(r)  BY RiceTyped
<1>6. PICK m : m = f % d  OBVIOUS
<1>7. q \in Nat /\ m \in 0 .. d - 1 /\ f = d * q + m /\ stop = d + m
  <2>1. q = f \div d /\ stop = d + m  BY <1>1, <1>4, <1>5, <1>6
  <2>2. q \in Nat /\ m \in Nat /\ m < d /\ f = d * q + m  BY <1>6, <2>1, DivMod
  <2>3. QED  BY <2>1, <2>2
<1>8. R!ReadZeros(bits, p) = q
  <2>1. p + q <= Len(bits)
    <3>1. Len(bits) \in Nat  BY DEF Bits
    <3>2. QED  BY <1>2, <1>3, <1>7, <3>1
  <2>2. QED  BY <1>2, <1>7, <2>1, ZerosRead
<1>9. R!ReadUnsigned(bits, p + q + 1, k) = m
  <2>1. PICK o : o = p + q + 1  OBVIOUS
  <2>2. o \in Nat /\ stop \in Int  BY <1>7, <2>1
  <2>3. R!ReadUnsigned(bits, o, k) = stop % 2^k  BY <1>2, <1>3, <2>1, <2>2, NumberRead
  <2>4. stop % d = m
    <3>1. stop = d * 1 + m /\ 1 \in Int  BY <1>7
    <3>2. Composed(stop, d, 1, m)  BY <3>1 DEF Composed
    <3>3. Divided(stop, d, 1, m)  BY <1>7, <3>1, <3>2, QuotientIs, Zenon
    <3>4. QED  BY <3>3 DEF Divided
  <2>5. QED  BY <1>4, <2>1, <2>3, <2>4
<1>10. PICK v : v = q * 2^k + m  OBVIOUS
<1>11. v = f
  <2>1. v = q * d + m  BY <1>4, <1>10
  <2>2. q * d = d * q  BY <1>7
  <2>3. QED  BY <1>7, <2>1, <2>2
<1>12. (IF v % 2 = 0 THEN v \div 2 ELSE -((v + 1) \div 2)) = r
  <2>1. CASE r >= 0
    <3>1. v = 2 * r  BY <1>5, <1>11, <2>1 DEF FoldSigned
    <3>2. v % 2 = 0 /\ v \div 2 = r  BY <3>1
    <3>3. QED  BY <3>2
  <2>2. CASE r < 0
    <3>1. v = 2 * (-(r + 1)) + 1  BY <1>5, <1>11, <2>2 DEF FoldSigned
    <3>2. v % 2 = 1 /\ (v + 1) \div 2 = -r  BY <3>1
    <3>3. QED  BY <3>2
  <2>3. QED  BY <2>1, <2>2
<1>13. R!ReadRice(bits, State(p, got), k)
         = [at  |-> p + q + 1 + k,
            got |-> Append(got, IF v % 2 = 0 THEN v \div 2 ELSE -((v + 1) \div 2))]
  <2>1. PICK s : s = State(p, got)  OBVIOUS
  <2>2. s.at = p /\ s.got = got  BY <2>1 DEF State
  <2>3. QED  BY <1>8, <1>9, <1>10, <2>1, <2>2, Zenon DEF R!ReadRice
<1>14. p + q + 1 + k = p + RiceBit(r, k)
  <2>1. RiceBit(r, k) = q + 1 + k  BY <1>1 DEF RiceBit
  <2>2. QED  BY <1>3, <1>7, <2>1
<1>15. QED  BY <1>12, <1>13, <1>14 DEF State, RiceIsRead

\* A sum of whole numbers, place by place.
LEMMA SumTableNat ==
  ASSUME NEW n \in Nat, NEW x \in [1 .. n -> Nat]
  PROVE  \E H \in [0 .. n -> Nat] :
           /\ H[0] = 0 /\ SumSeq(x) = H[n]
           /\ \A k \in 1 .. n : H[k] = H[k - 1] + x[k]
<1>1. x \in [1 .. n -> Int]  OBVIOUS
<1>2. PICK H \in [0 .. n -> Int] : /\ H[0] = 0 /\ SumSeq(x) = H[n]
                                   /\ \A k \in 1 .. n : H[k] = H[k - 1] + x[k]
  BY <1>1, SumTable
<1> DEFINE T == {m \in 1 .. n + 1 : H[m - 1] \in Nat}
<1>3. 1 \in T
  <2>1. 1 \in 1 .. n + 1 /\ 1 - 1 = 0  OBVIOUS
  <2>2. QED  BY <1>2, <2>1
<1>4. ASSUME NEW m \in 1 .. (n + 1) - 1, m \in T PROVE m + 1 \in T
  <2>1. m \in 1 .. n /\ m + 1 \in 1 .. n + 1 /\ (m + 1) - 1 = m  OBVIOUS
  <2>2. H[m] = H[m - 1] + x[m] /\ H[m - 1] \in Nat /\ x[m] \in Nat  BY <1>2, <1>4, <2>1
  <2>3. QED  BY <2>1, <2>2
<1> HIDE DEF T
<1>5. 1 .. n + 1 \subseteq T
  <2>1. n + 1 \in Nat  OBVIOUS
  <2>2. QED  BY <1>3, <1>4, <2>1, NumbersTo
<1>6. ASSUME NEW k \in 0 .. n PROVE H[k] \in Nat
  <2>1. k + 1 \in 1 .. n + 1 /\ (k + 1) - 1 = k  OBVIOUS
  <2>2. QED  BY <1>5, <2>1 DEF T
<1>7. H \in [0 .. n -> Nat]  BY <1>6
<1>8. QED  BY <1>2, <1>7

\* One more element of rs behind what was got.
Grown(got, rs, i) == got \o SubSeq(rs, 1, i)

LEMMA GrowsByOne ==
  ASSUME NEW got \in Seq(Int), NEW rs \in Seq(Int), NEW i \in 1 .. Len(rs)
  PROVE  Grown(got, rs, i) = Append(Grown(got, rs, i - 1), rs[i])
<1>1. PICK s, t, e, u : /\ s = SubSeq(rs, 1, i - 1) /\ t = SubSeq(rs, 1, i) /\ e = rs[i]
                        /\ u = <<e>>
  OBVIOUS
<1>2. s \in Seq(Int) /\ e \in Int /\ u \in Seq(Int)  BY <1>1
<1>3. t = s \o u  BY <1>1, SubSeqRecursiveSecond
<1>4. PICK a : a = got \o s  OBVIOUS
<1>5. a \in Seq(Int)  BY <1>2, <1>4
<1>6. Append(a, e) = a \o u  BY <1>1, <1>2, <1>5, AppendIsConcat
<1>7. Associate(got, s, u)  BY <1>2, Associative
<1>8. got \o t = a \o u  BY <1>3, <1>4, <1>7 DEF Associate
<1>9. QED  BY <1>1, <1>4, <1>6, <1>8 DEF Grown

LEMMA GrownEnds ==
  ASSUME NEW got \in Seq(Int), NEW rs \in Seq(Int)
  PROVE  Grown(got, rs, 0) = got /\ Grown(got, rs, Len(rs)) = got \o rs
<1>1. SubSeq(rs, 1, 0) = <<>>  OBVIOUS
<1>2. SubSeq(rs, 1, Len(rs)) = rs  BY SubSeqFull
<1>3. got \o <<>> = got  OBVIOUS
<1>4. QED  BY <1>1, <1>2, <1>3 DEF Grown

IsPartitionReading(g, bits, first, count, k) ==
  g = [i \in 0 .. count |-> IF i = 0 THEN first ELSE R!ReadRice(bits, g[i - 1], k)]

LEMMA ReadPartitionIs ==
  ASSUME NEW bits, NEW state, NEW count, NEW k, k = R!ReadUnsigned(bits, state.at, 4)
  PROVE  R!ReadPartition(bits, state, count)
           = (CHOOSE g : IsPartitionReading(g, bits, [state EXCEPT !.at = @ + 4], count, k))[count]
BY Zenon DEF R!ReadPartition, IsPartitionReading

\* Four bits tell a Rice parameter, as 15 is never one.
LEMMA ParameterRead ==
  ASSUME NEW bits, NEW p \in Nat, NEW v \in 0 .. 15, Holds(bits, p, <<Write(v, 4)>>)
  PROVE  R!ReadUnsigned(bits, p, 4) = v
<1>1. v \in Int /\ 4 \in 0 .. WordBits  BY SubframesAssumption, WriterAssumption
<1>2. Shows(bits, p, v, 4)  BY <1>1, HoldsWrite
<1>3. R!ReadUnsigned(bits, p, 4) = v % 2^4  BY <1>1, <1>2, NumberRead
<1>4. v % 16 = v  OBVIOUS
<1>5. QED  BY <1>3, <1>4, PowerOfZero

LEMMA PartitionRead ==
  ASSUME NEW bits \in Bits, NEW p \in Nat, NEW got \in Seq(Int), NEW rs \in Seq(Int),
         NEW k \in 0 .. MaxRiceParameter, Holds(bits, p, PartitionWrites(rs, k))
  PROVE  R!ReadPartition(bits, State(p, got), Len(rs))
           = State(p + (4 + RiceBits(rs, k)), got \o rs)
<1>1. PICK n \in Nat : n = Len(rs) /\ DOMAIN rs = 1 .. n /\ \A i \in 1 .. n : rs[i] \in Int
  OBVIOUS
<1>2. PICK ws : ws = [i \in 1 .. n |-> RiceWrites(rs[i], k)]  OBVIOUS
<1>3. PICK lens : lens = [i \in 1 .. n |-> RiceBit(rs[i], k)]  OBVIOUS
<1>4. lens \in [1 .. n -> Nat] /\ lens \in [1 .. n -> Int] /\ RiceBits(rs, k) = SumSeq(lens)
  <2>1. lens = [i \in 1 .. Len(rs) |-> RiceBit(rs[i], k)]  BY <1>1, <1>3
  <2>2. lens \in [1 .. n -> Nat] /\ RiceBits(rs, k) = SumSeq(lens)
    BY <1>1, <2>1, RiceBitsTyped
  <2>3. QED  BY <2>2
<1>5. \A i \in 1 .. n : Puts(ws[i], lens[i])  BY <1>1, <1>2, <1>3, PutsRice
<1>6. ws = [i \in 1 .. n |-> ws[i]]  BY <1>2
<1>7. Puts(FlattenSeq(ws), SumSeq(lens))  BY <1>4, <1>5, <1>6, PutsFlat
<1>8. Puts(<<Write(k, 4)>>, 4)
  <2>1. k \in Int /\ 4 \in 0 .. WordBits  BY SubframesAssumption, WriterAssumption
  <2>2. QED  BY <2>1, PutsWrite
<1>9. PartitionWrites(rs, k) = <<Write(k, 4)>> \o FlattenSeq(ws)
  BY <1>1, <1>2, Zenon DEF PartitionWrites
<1>10. /\ Holds(bits, p, <<Write(k, 4)>>) /\ Holds(bits, p + 4, FlattenSeq(ws))
       /\ p + 4 \in Nat
  <2>1. PICK a, b, c, m : /\ a = <<Write(k, 4)>> /\ b = FlattenSeq(ws)
                          /\ c = PartitionWrites(rs, k) /\ m = SumSeq(lens)
    OBVIOUS
  <2>2. Concat(c, a, b) /\ Holds(bits, p, c) /\ Puts(a, 4) /\ Puts(b, m)
    BY <1>7, <1>8, <1>9, <2>1 DEF Concat
  <2>3. Holds(bits, p, a) /\ Holds(bits, p + 4, b) /\ p + 4 \in Nat
    <3>1. Splits(bits, p, a, 4, b)  BY <2>2, HoldsBoth
    <3>2. QED  BY <3>1 DEF Splits
  <2>4. QED  BY <2>1, <2>3
<1>11. PICK H \in [0 .. n -> Nat] : /\ H[0] = 0 /\ SumSeq(lens) = H[n]
                                    /\ \A i \in 1 .. n : H[i] = H[i - 1] + lens[i]
  BY <1>4, SumTableNat
<1> DEFINE P == [i \in 0 .. n |-> (p + 4) + H[i]]
<1>12. P \in [0 .. n -> Nat]  OBVIOUS
<1>13. P[0] = p + 4 /\ P[n] = p + (4 + RiceBits(rs, k))
  <2>1. 0 \in 0 .. n /\ n \in 0 .. n  OBVIOUS
  <2>2. PICK h \in Nat : h = H[n]  BY <2>1
  <2>3. P[0] = p + 4 /\ P[n] = (p + 4) + h /\ RiceBits(rs, k) = h
    BY <1>4, <1>11, <2>1, <2>2
  <2>4. QED  BY <2>3
<1>14. \A i \in 1 .. n : P[i] = P[i - 1] + lens[i]
  <2>1. ASSUME NEW i \in 1 .. n PROVE P[i] = P[i - 1] + lens[i]
    <3>1. i \in 0 .. n /\ i - 1 \in 0 .. n  OBVIOUS
    <3>2. PICK h \in Nat, l \in Nat : h = H[i - 1] /\ l = lens[i]  BY <1>4, <3>1
    <3>3. P[i] = (p + 4) + (h + l) /\ P[i - 1] = (p + 4) + h  BY <1>11, <3>1, <3>2
    <3>4. (p + 4) + (h + l) = ((p + 4) + h) + l  OBVIOUS
    <3> HIDE DEF P
    <3>5. QED  BY <3>2, <3>3, <3>4
  <2>2. QED  BY <2>1
<1> HIDE DEF P
<1>15. \A i \in 1 .. n : Holds(bits, P[i - 1], ws[i])
  <2>1. Holds(bits, P[0], FlattenSeq(ws))  BY <1>10, <1>13
  <2>2. QED  BY <1>5, <1>6, <1>12, <1>14, <2>1, HoldsFlat
<1>16. R!ReadUnsigned(bits, p, 4) = k
  <2>1. k \in 0 .. 15  BY SubframesAssumption
  <2>2. QED  BY <1>10, <2>1, ParameterRead
<1> DEFINE G == [i \in 0 .. n |-> State(P[i], Grown(got, rs, i))]
<1>17. G[0] = State(p + 4, got) /\ G[n] = State(p + (4 + RiceBits(rs, k)), got \o rs)
  <2>1. 0 \in 0 .. n /\ n \in 0 .. n  OBVIOUS
  <2>2. Grown(got, rs, 0) = got /\ Grown(got, rs, n) = got \o rs  BY <1>1, GrownEnds
  <2>3. QED  BY <1>13, <2>1, <2>2
<1>18. ASSUME NEW i \in 1 .. n PROVE G[i] = R!ReadRice(bits, G[i - 1], k)
  <2>1. i \in 0 .. n /\ i - 1 \in 0 .. n /\ i \in 1 .. Len(rs)  BY <1>1
  <2>2. PICK o, t, r : o = P[i - 1] /\ t = Grown(got, rs, i - 1) /\ r = rs[i]  OBVIOUS
  <2>3. o \in Nat /\ r \in Int  BY <1>1, <1>12, <2>1, <2>2
  <2>4. Holds(bits, o, RiceWrites(r, k))  BY <1>2, <1>15, <2>2
  <2>5. R!ReadRice(bits, State(o, t), k) = State(o + RiceBit(r, k), Append(t, r))
    <3>1. RiceIsRead(bits, o, t, r, k)  BY <2>3, <2>4, RiceRead
    <3>2. QED  BY <3>1 DEF RiceIsRead
  <2>6. P[i] = o + RiceBit(r, k)  BY <1>3, <1>14, <2>2
  <2>7. Grown(got, rs, i) = Append(t, r)  BY <2>1, <2>2, GrowsByOne
  <2>8. G[i] = State(P[i], Grown(got, rs, i)) /\ G[i - 1] = State(o, t)  BY <2>1, <2>2
  <2> HIDE DEF G
  <2>9. QED  BY <2>5, <2>6, <2>7, <2>8
<1>19. PICK first : first = State(p + 4, got)  OBVIOUS
<1>20. IsPartitionReading(G, bits, first, n, k)
  <2>1. PICK E : E = [i \in 0 .. n |-> IF i = 0 THEN first ELSE R!ReadRice(bits, G[i - 1], k)]
    OBVIOUS
  <2>2. \A i \in 0 .. n : E[i] = G[i]
    <3>1. ASSUME NEW i \in 0 .. n PROVE E[i] = G[i]
      <4>1. i = 0 \/ i \in 1 .. n  OBVIOUS
      <4> HIDE DEF G
      <4>2. QED  BY <1>17, <1>18, <1>19, <2>1, <4>1
    <3>2. QED  BY <3>1
  <2>3. E = G  BY <2>1, <2>2
  <2> HIDE DEF G
  <2>4. QED  BY <2>1, <2>3 DEF IsPartitionReading
<1> HIDE DEF G
<1>21. PICK g : g = CHOOSE f : IsPartitionReading(f, bits, first, n, k)  OBVIOUS
<1>22. IsPartitionReading(g, bits, first, n, k)  BY <1>20, <1>21, Zenon
<1>23. \A i \in 0 .. n : g[i] = IF i = 0 THEN first ELSE R!ReadRice(bits, g[i - 1], k)
  BY <1>22 DEF IsPartitionReading
<1>24. StepAlike(g, G, n)
  <2>1. g[0] = G[0]
    <3>1. 0 \in 0 .. n  OBVIOUS
    <3>2. QED  BY <1>17, <1>19, <1>23, <3>1
  <2>2. ASSUME NEW i \in 1 .. n, g[i - 1] = G[i - 1] PROVE g[i] = G[i]
    <3>1. i \in 0 .. n /\ i # 0  OBVIOUS
    <3>2. QED  BY <1>18, <1>23, <2>2, <3>1
  <2>3. QED  BY <2>1, <2>2 DEF StepAlike
<1>25. g[n] = G[n]
  <2>1. n \in 0 .. n  OBVIOUS
  <2>2. Agree(g, G, n)  BY <1>24, SameTable
  <2>3. QED  BY <2>1, <2>2 DEF Agree
<1>26. R!ReadPartition(bits, State(p, got), n) = g[n]
  <2>1. PICK s : s = State(p, got)  OBVIOUS
  <2>2. s.at = p /\ [s EXCEPT !.at = @ + 4] = first  BY <1>19, <2>1 DEF State
  <2>3. k = R!ReadUnsigned(bits, s.at, 4)  BY <1>16, <2>2
  <2>4. R!ReadPartition(bits, s, n)
          = (CHOOSE f : IsPartitionReading(f, bits, [s EXCEPT !.at = @ + 4], n, k))[n]
    BY <2>3, ReadPartitionIs
  <2>5. QED  BY <1>21, <2>1, <2>2, <2>4, Zenon
<1>27. QED  BY <1>1, <1>17, <1>25, <1>26

IsResidualReading(g, bits, first, d, q, order) ==
  g = [part \in 0 .. d |->
         IF part = 0 THEN first
         ELSE R!ReadPartition(bits, g[part - 1], q - (IF part = 1 THEN order ELSE 0))]

\* d partitions of q residuals each, as the head of the section tells.
Announced(bits, at, size, d, q) ==
  d = 2^R!ReadUnsigned(bits, at + 2, 4) /\ q = size \div d

ResidualsAre(bits, at, size, order, d, q) ==
  R!ReadResiduals(bits, at, size, order)
    = (CHOOSE g : IsResidualReading(g, bits, [at |-> at + 6, got |-> <<>>], d, q, order))[d]

LEMMA ReadResidualsIs ==
  ASSUME NEW bits, NEW at, NEW size, NEW order, NEW d, NEW q, Announced(bits, at, size, d, q)
  PROVE  ResidualsAre(bits, at, size, order, d, q)
BY Zenon DEF R!ReadResiduals, IsResidualReading, Announced, ResidualsAre

PartitionIsRead(bits, p, got, rs, k) ==
  R!ReadPartition(bits, State(p, got), Len(rs)) = State(p + (4 + RiceBits(rs, k)), got \o rs)

LEMMA PartitionComesBack ==
  ASSUME NEW bits \in Bits, NEW p \in Nat, NEW got \in Seq(Int), NEW rs \in Seq(Int),
         NEW k \in 0 .. MaxRiceParameter, Holds(bits, p, PartitionWrites(rs, k))
  PROVE  PartitionIsRead(bits, p, got, rs, k)
BY PartitionRead DEF PartitionIsRead

\* The first a residuals and the partition that starts there.
PartsJoined(rs, a, b) ==
  /\ SubSeq(rs, 1, a) \o SubSeq(rs, a + 1, b) = SubSeq(rs, 1, b)
  /\ SubSeq(rs, 1, a) \in Seq(Int) /\ SubSeq(rs, a + 1, b) \in Seq(Int)
  /\ Len(SubSeq(rs, a + 1, b)) = b - a

LEMMA PartsJoin ==
  ASSUME NEW rs \in Seq(Int), NEW a \in 0 .. Len(rs), NEW b \in a .. Len(rs)
  PROVE  PartsJoined(rs, a, b)
<1>1. 1 \in 1 .. Len(rs) + 1 /\ a \in 1 - 1 .. Len(rs) /\ Len(rs) \in Nat  OBVIOUS
<1>2. SubSeq(rs, 1, a) \o SubSeq(rs, a + 1, b) = SubSeq(rs, 1, b)
  BY <1>1, ConcatAdjacentSubSeq
<1>3. SubSeq(rs, 1, a) \in Seq(Int) /\ SubSeq(rs, a + 1, b) \in Seq(Int)
  OBVIOUS
<1>4. Len(SubSeq(rs, a + 1, b)) = b - a  BY <1>1
<1>5. QED  BY <1>2, <1>3, <1>4 DEF PartsJoined

\* The residuals rs of a block, parted and with a parameter for each part.
IsParted(rs, size, order, po, params, parts) ==
  /\ Len(rs) = size - order /\ ValidPartitionOrder(size, order, po)
  /\ IsParameters(params, 2^po) /\ parts = PartitionsOf(rs, size, order, po)

ResidualsComeBack(bits, at, size, order, rs, parts, params) ==
  R!ReadResiduals(bits, at, size, order) = State(at + (6 + CodedBits(parts, params)), rs)

\* All residuals come back, with the place after the last partition.
LEMMA ResidualRead ==
  ASSUME NEW bits \in Bits, NEW at \in Nat, NEW rs \in Seq(Int), NEW size \in Nat,
         NEW order \in Nat, NEW po \in 0 .. 8, NEW params, NEW parts,
         IsParted(rs, size, order, po, params, parts),
         Holds(bits, at, ResidualWrites(po, parts, params))
  PROVE  ResidualsComeBack(bits, at, size, order, rs, parts, params)
<1>0. /\ Len(rs) = size - order /\ ValidPartitionOrder(size, order, po)
      /\ IsParameters(params, 2^po) /\ parts = PartitionsOf(rs, size, order, po)
  BY DEF IsParted
<1> USE <1>0
<1>1. po \in 0 .. WordBits /\ 2 \in 0 .. WordBits /\ 4 \in 0 .. WordBits
  BY SubframesAssumption, WriterAssumption
<1>2. PICK d, q, len : d = 2^po /\ q = size \div d /\ len = Len(rs)  OBVIOUS
<1> DEFINE Start(n) == PartitionStart(size, order, po, n)
<1>3. /\ d \in Nat \ {0} /\ q \in Nat /\ q > order /\ len \in Nat
      /\ \A n \in 0 .. d : Start(n) \in 0 .. len
      /\ Start(0) = 0 /\ Start(d) = len
      /\ \A n \in 1 .. d : Start(n) = Start(n - 1) + (q - (IF n = 1 THEN order ELSE 0))
  <2>1. len = size - order  BY <1>2
  <2>2. StartsAre(size, order, po, d, q, len)  BY <1>1, <1>2, <2>1, PartitionStarts, Zenon
  <2>3. QED  BY <2>2 DEF StartsAre
<1>4. parts = [p \in 1 .. d |-> SubSeq(rs, Start(p - 1) + 1, Start(p))]
  BY <1>2, Zenon DEF PartitionsOf
<1>5. parts \in [1 .. d -> Seq(Int)]  BY <1>1, <1>2, PartitionsTyped
<1> HIDE DEF Start
<1>6. \A p \in 1 .. d : params[p] \in 0 .. MaxRiceParameter /\ parts[p] \in Seq(Int)
  BY <1>2, <1>5 DEF IsParameters
<1>7. PICK ws : ws = [p \in 1 .. d |-> PartitionWrites(parts[p], params[p])]  OBVIOUS
<1>8. PICK lens : lens = [p \in 1 .. d |-> 4 + RiceBits(parts[p], params[p])]  OBVIOUS
<1>9. lens \in [1 .. d -> Nat] /\ lens \in [1 .. d -> Int]
      /\ CodedBits(parts, params) = SumSeq(lens)
  <2>1. d \in Nat /\ IsParameters(params, d)  BY <1>2, <1>3
  <2>2. lens \in [1 .. d -> Nat] /\ CodedBits(parts, params) = SumSeq(lens)
    BY <1>5, <1>8, <2>1, CodedTyped
  <2>3. QED  BY <2>2
<1>10. \A p \in 1 .. d : Puts(ws[p], lens[p])  BY <1>6, <1>7, <1>8, PutsPartition
<1>11. ws = [p \in 1 .. d |-> ws[p]] /\ d \in Nat  BY <1>3, <1>7
<1>12. Puts(FlattenSeq(ws), SumSeq(lens))  BY <1>9, <1>10, <1>11, PutsFlat
<1>13. PICK a, b : a = Write(0, 2) /\ b = Write(po, 4)  OBVIOUS
<1>14. <<a>> \o <<b>> = <<a, b>>  BY OneAfterOther
<1>15. Puts(<<a>>, 2) /\ Puts(<<b>>, 4)
  <2>1. 0 \in Int /\ po \in Int  OBVIOUS
  <2>2. QED  BY <1>1, <1>13, <2>1, PutsWrite
<1>16. Puts(<<a, b>>, 6)
  <2>1. PICK x, y : x = <<a>> /\ y = <<b>>  OBVIOUS
  <2>2. Puts(x \o y, 2 + 4)  BY <1>15, <2>1, PutsBoth
  <2>3. <<a, b>> = x \o y  BY <1>14, <2>1
  <2>4. 2 + 4 = 6  OBVIOUS
  <2>5. PICK z, n : z = x \o y /\ n = 2 + 4  OBVIOUS
  <2>6. Puts(z, n)  BY <2>2, <2>5
  <2>7. z = <<a, b>> /\ n = 6  BY <2>3, <2>4, <2>5
  <2>8. QED  BY ONLY <2>6, <2>7
<1>17. DOMAIN parts = 1 .. d  BY <1>5
<1>18. ResidualWrites(po, parts, params) = <<a, b>> \o FlattenSeq(ws)
  BY <1>7, <1>13, <1>17, Zenon DEF ResidualWrites
<1>19. Holds(bits, at, <<a, b>>) /\ Holds(bits, at + 6, FlattenSeq(ws)) /\ at + 6 \in Nat
  <2>1. PICK x, y, z, m : /\ x = <<a, b>> /\ y = FlattenSeq(ws)
                          /\ z = ResidualWrites(po, parts, params) /\ m = SumSeq(lens)
    OBVIOUS
  <2>2. Concat(z, x, y) /\ Holds(bits, at, z) /\ Puts(x, 6) /\ Puts(y, m)
    BY <1>12, <1>16, <1>18, <2>1 DEF Concat
  <2>3. Splits(bits, at, x, 6, y)  BY <2>2, HoldsBoth
  <2>4. QED  BY <2>1, <2>3 DEF Splits
<1>20. R!ReadUnsigned(bits, at + 2, 4) = po
  <2>1. PICK x, y, z : x = <<a>> /\ y = <<b>> /\ z = <<a, b>>  OBVIOUS
  <2>2. Concat(z, x, y) /\ Holds(bits, at, z) /\ Puts(x, 2) /\ Puts(y, 4)
    BY <1>14, <1>15, <1>19, <2>1 DEF Concat
  <2>3. Splits(bits, at, x, 2, y)  BY <2>2, HoldsBoth
  <2>4. Holds(bits, at + 2, <<Write(po, 4)>>) /\ at + 2 \in Nat
    BY <1>13, <2>1, <2>3 DEF Splits
  <2>5. po \in 0 .. 15  OBVIOUS
  <2>6. QED  BY <2>4, <2>5, ParameterRead
<1>21. PICK H \in [0 .. d -> Nat] : /\ H[0] = 0 /\ SumSeq(lens) = H[d]
                                    /\ \A i \in 1 .. d : H[i] = H[i - 1] + lens[i]
  BY <1>9, <1>11, SumTableNat
<1> DEFINE P == [i \in 0 .. d |-> (at + 6) + H[i]]
<1>22. P \in [0 .. d -> Nat]  OBVIOUS
<1>23. P[0] = at + 6 /\ P[d] = at + (6 + CodedBits(parts, params))
  <2>1. 0 \in 0 .. d /\ d \in 0 .. d  BY <1>3
  <2>2. PICK h \in Nat : h = H[d]  BY <2>1
  <2>3. P[0] = at + 6 /\ P[d] = (at + 6) + h /\ CodedBits(parts, params) = h
    BY <1>9, <1>21, <2>1, <2>2
  <2>4. QED  BY <2>3
<1>24. \A i \in 1 .. d : P[i] = P[i - 1] + lens[i]
  <2>1. ASSUME NEW i \in 1 .. d PROVE P[i] = P[i - 1] + lens[i]
    <3>1. i \in 0 .. d /\ i - 1 \in 0 .. d  BY <1>3
    <3>2. PICK h \in Nat, l \in Nat : h = H[i - 1] /\ l = lens[i]  BY <1>9, <3>1
    <3>3. P[i] = (at + 6) + (h + l) /\ P[i - 1] = (at + 6) + h  BY <1>21, <3>1, <3>2
    <3>4. (at + 6) + (h + l) = ((at + 6) + h) + l  OBVIOUS
    <3> HIDE DEF P
    <3>5. QED  BY <3>2, <3>3, <3>4
  <2>2. QED  BY <2>1
<1> HIDE DEF P
<1>25. \A i \in 1 .. d : Holds(bits, P[i - 1], ws[i])
  <2>1. Holds(bits, P[0], FlattenSeq(ws))  BY <1>19, <1>23
  <2>2. QED  BY <1>10, <1>11, <1>22, <1>24, <2>1, HoldsFlat
<1> DEFINE G == [i \in 0 .. d |-> State(P[i], SubSeq(rs, 1, Start(i)))]
<1>26. G[0] = State(at + 6, <<>>) /\ G[d] = State(at + (6 + CodedBits(parts, params)), rs)
  <2>1. 0 \in 0 .. d /\ d \in 0 .. d  BY <1>3
  <2>2. SubSeq(rs, 1, 0) = <<>> /\ SubSeq(rs, 1, len) = rs
    <3>1. SubSeq(rs, 1, Len(rs)) = rs  BY SubSeqFull
    <3>2. QED  BY <1>2, <3>1
  <2>3. QED  BY <1>3, <1>23, <2>1, <2>2
<1> DEFINE count(i) == q - (IF i = 1 THEN order ELSE 0)
<1>27. ASSUME NEW i \in 1 .. d PROVE G[i] = R!ReadPartition(bits, G[i - 1], count(i))
  <2>1. i \in 0 .. d /\ i - 1 \in 0 .. d  BY <1>3
  <2>2. PICK u, v : u = Start(i - 1) /\ v = Start(i)  OBVIOUS
  <2>3. u \in 0 .. len /\ v \in 0 .. len /\ v = u + count(i)  BY <1>3, <2>1, <2>2
  <2>4. count(i) \in Nat  BY <1>3
  <2>5. v \in u .. len  BY <1>3, <2>3, <2>4
  <2> HIDE DEF count
  <2>6. PICK o, t, r, k : /\ o = P[i - 1] /\ t = SubSeq(rs, 1, u) /\ r = parts[i]
                          /\ k = params[i]
    OBVIOUS
  <2>7. r = SubSeq(rs, u + 1, v)  BY <1>4, <2>2, <2>6
  <2>8. /\ t \o r = SubSeq(rs, 1, v) /\ t \in Seq(Int) /\ r \in Seq(Int) /\ Len(r) = v - u
    <3>1. u \in 0 .. Len(rs) /\ v \in u .. Len(rs)  BY <1>2, <2>3, <2>5
    <3>2. PartsJoined(rs, u, v)  BY <3>1, PartsJoin
    <3>3. QED  BY <2>6, <2>7, <3>2 DEF PartsJoined
  <2>9. Len(r) = count(i)
    <3>1. PICK c \in Nat : c = count(i)  BY <2>4
    <3>2. u \in Nat /\ v = u + c /\ Len(r) = v - u  BY <2>3, <2>8, <3>1
    <3>3. v - u = c  BY <3>2
    <3>4. QED  BY <3>1, <3>2, <3>3
  <2>10. o \in Nat /\ k \in 0 .. MaxRiceParameter  BY <1>6, <1>22, <2>1, <2>6
  <2>11. Holds(bits, o, PartitionWrites(r, k))  BY <1>7, <1>25, <2>6
  <2>12. PartitionIsRead(bits, o, t, r, k)  BY <2>8, <2>10, <2>11, PartitionComesBack
  <2>13. P[i] = o + (4 + RiceBits(r, k))  BY <1>8, <1>24, <2>6
  <2>14. G[i] = State(P[i], SubSeq(rs, 1, v)) /\ G[i - 1] = State(o, t)
    BY <2>1, <2>2, <2>6
  <2> HIDE DEF G
  <2>15. QED  BY <2>8, <2>9, <2>12, <2>13, <2>14 DEF PartitionIsRead
<1>28. PICK first : first = State(at + 6, <<>>)  OBVIOUS
<1>29. IsResidualReading(G, bits, first, d, q, order)
  <2>1. PICK E : E = [i \in 0 .. d |-> IF i = 0 THEN first
                                       ELSE R!ReadPartition(bits, G[i - 1], count(i))]
    OBVIOUS
  <2>2. \A i \in 0 .. d : E[i] = G[i]
    <3>1. ASSUME NEW i \in 0 .. d PROVE E[i] = G[i]
      <4>1. i = 0 \/ i \in 1 .. d  BY <1>3
      <4> HIDE DEF G, count
      <4>2. QED  BY <1>26, <1>27, <1>28, <2>1, <4>1
    <3>2. QED  BY <3>1
  <2>3. E = G  BY <2>1, <2>2
  <2> HIDE DEF G
  <2>4. QED  BY <2>1, <2>3 DEF IsResidualReading
<1> HIDE DEF G
<1>30. PICK g : g = CHOOSE f : IsResidualReading(f, bits, first, d, q, order)  OBVIOUS
<1>31. IsResidualReading(g, bits, first, d, q, order)  BY <1>29, <1>30, Zenon
<1>32. \A i \in 0 .. d : g[i] = IF i = 0 THEN first
                                ELSE R!ReadPartition(bits, g[i - 1], count(i))
  BY <1>31 DEF IsResidualReading
<1> HIDE DEF count
<1>33. StepAlike(g, G, d)
  <2>1. g[0] = G[0]
    <3>1. 0 \in 0 .. d  BY <1>3
    <3>2. QED  BY <1>26, <1>28, <1>32, <3>1
  <2>2. ASSUME NEW i \in 1 .. d, g[i - 1] = G[i - 1] PROVE g[i] = G[i]
    <3>1. i \in 0 .. d /\ i # 0  BY <1>3
    <3>2. QED  BY <1>27, <1>32, <2>2, <3>1
  <2>3. QED  BY <2>1, <2>2 DEF StepAlike
<1>34. g[d] = G[d]
  <2>1. d \in 0 .. d /\ d \in Nat  BY <1>3
  <2>2. Agree(g, G, d)  BY <1>33, <2>1, SameTable
  <2>3. QED  BY <2>1, <2>2 DEF Agree
<1>35. R!ReadResiduals(bits, at, size, order) = g[d]
  <2>1. first = [at |-> at + 6, got |-> <<>>]  BY <1>28, Zenon DEF State
  <2>2. Announced(bits, at, size, d, q)  BY <1>2, <1>20 DEF Announced
  <2>3. ResidualsAre(bits, at, size, order, d, q)  BY <2>2, ReadResidualsIs
  <2>4. QED  BY <1>30, <2>1, <2>3, Zenon DEF ResidualsAre
<1>36. QED  BY <1>26, <1>34, <1>35 DEF ResidualsComeBack

-----------------------------------------------------------------------------
(* The prediction undone.                                                  *)

\* C++'s shift of a negative number rounds down, as the decoder's division does.
LEMMA ShiftIsDiv ==
  ASSUME NEW v \in Int, NEW s \in 0 .. WordBits
  PROVE  ArithmeticShiftRight(v, s) = v \div 2^s
<1>1. PICK d \in Nat \ {0} : d = 2^s  BY PowerTyped
<1>2. ArithmeticShiftRight(v, s) = IF v >= 0 THEN v \div d ELSE -((-v + d - 1) \div d)
  BY <1>1, Zenon DEF ArithmeticShiftRight
<1>3. CASE v >= 0  BY <1>1, <1>2, <1>3
<1>4. CASE v < 0
  <2>1. PICK q, r : q = v \div d /\ r = v % d  OBVIOUS
  <2>2. q \in Int /\ r \in 0 .. d - 1 /\ v = d * q + r  BY <2>1
  <2>3. PICK w, f, e : w = -v + d - 1 /\ f = -q /\ e = d - 1 - r  OBVIOUS
  <2>4. f \in Int /\ e \in 0 .. d - 1 /\ w \in Int  BY <2>2, <2>3
  <2>5. Composed(w, d, f, e)
    <3>1. d * f = -(d * q)  BY <2>2, <2>3
    <3>2. PICK g, h : g = d * q /\ h = d * f  OBVIOUS
    <3>3. g \in Int /\ h \in Int  BY <2>2, <2>4, <3>2
    <3>4. v = g + r /\ h = -g  BY <2>2, <3>1, <3>2
    <3>5. w = h + e  BY <2>2, <2>3, <3>3, <3>4
    <3>6. QED  BY <3>2, <3>5 DEF Composed
  <2>6. Divided(w, d, f, e)  BY <2>4, <2>5, QuotientIs, Zenon
  <2>7. w \div d = f  BY <2>6 DEF Divided
  <2>8. ~(v >= 0)  BY <1>4
  <2>9. ArithmeticShiftRight(v, s) = -(w \div d)  BY <1>2, <2>3, <2>8
  <2>10. -f = q  BY <2>2, <2>3
  <2>11. QED  BY <1>1, <2>1, <2>7, <2>9, <2>10
<1>5. QED  BY <1>3, <1>4

IsForetelling(g, x, coefs) ==
  g = [j \in 0 .. Len(coefs) |->
         IF j = 0 THEN 0 ELSE g[j - 1] + coefs[j] * x[Len(x) + 1 - j]]

LEMMA ForetoldIs ==
  ASSUME NEW x, NEW coefs, NEW shift
  PROVE  R!Foretold(x, coefs, shift)
           = (CHOOSE g : IsForetelling(g, x, coefs))[Len(coefs)] \div 2^shift
BY Zenon DEF R!Foretold, IsForetelling

Foretells(x, m, p) ==
  /\ R!Foretold(SubSeq(x, 1, m), p.coefs, p.shift) = Prediction(x, m + 1, p)
  /\ Prediction(x, m + 1, p) \in Int

\* From the samples so far the decoder predicts what the writer predicted from the
\* whole block.
LEMMA ForetoldRead ==
  ASSUME NEW x \in Seq(Int), NEW p, IsPredictor(p), NEW m \in Nat, Order(p) <= m, m < Len(x)
  PROVE  Foretells(x, m, p)
<1>1. PICK c, s, k, l, y : /\ c = p.coefs /\ s = p.shift /\ k = Order(p) /\ l = Len(x)
                           /\ y = SubSeq(x, 1, m)
  OBVIOUS
<1>2. /\ k \in Nat /\ l \in Nat /\ DOMAIN x = 1 .. l /\ DOMAIN c = 1 .. k /\ k = Len(c)
      /\ k <= m /\ m < l
      /\ \A j \in 1 .. k : c[j] \in Int
      /\ \A j \in 1 .. l : x[j] \in Int
  <2>1. c \in Seq(Int) /\ k = Len(c)  BY <1>1 DEF IsPredictor, Order
  <2>2. k \in Nat /\ l \in Nat /\ k <= m /\ m < l  BY <1>1, <2>1
  <2>3. DOMAIN c = 1 .. k /\ \A j \in 1 .. k : c[j] \in Int  BY ONLY <2>1
  <2>4. DOMAIN x = 1 .. l /\ \A j \in 1 .. l : x[j] \in Int
    BY ONLY <1>1, x \in Seq(Int)
  <2>5. QED  BY <2>1, <2>2, <2>3, <2>4
<1>3. s \in 0 .. WordBits
  <2>1. 15 <= WordBits /\ WordBits \in Nat  BY WriterAssumption, SubframesAssumption
  <2>2. s \in 0 .. 15  BY <1>1 DEF IsPredictor
  <2>3. QED  BY <2>1, <2>2
<1>4. Len(y) = m /\ \A j \in 1 .. m : y[j] = x[j]
  <2>1. 1 \in 1 .. l + 1 /\ m \in Nat /\ m <= l  BY <1>2
  <2>2. QED  BY <1>1, <1>2, <2>1
<1>5. PICK i : i = m + 1  OBVIOUS
<1>6. PICK z : z = [j \in 1 .. k |-> c[j] * x[i - j]]  OBVIOUS
<1>7. ASSUME NEW j \in 1 .. k
      PROVE  c[j] * x[i - j] \in Int /\ c[j] * y[m + 1 - j] = c[j] * x[i - j]
  <2>1. i - j \in 1 .. m /\ i - j \in 1 .. l /\ m + 1 - j = i - j  BY <1>2, <1>5
  <2>2. c[j] \in Int /\ x[i - j] \in Int /\ y[i - j] = x[i - j]  BY <1>2, <1>4, <2>1
  <2>3. c[j] * x[i - j] \in Int  BY <2>2
  <2>4. QED  BY <2>1, <2>2, <2>3
<1>8. z \in [1 .. k -> Int]  BY <1>6, <1>7
<1>9. PICK H \in [0 .. k -> Int] : /\ H[0] = 0 /\ SumSeq(z) = H[k]
                                   /\ \A j \in 1 .. k : H[j] = H[j - 1] + z[j]
  BY <1>2, <1>8, SumTable
<1>10. \A j \in 1 .. k : H[j] = H[j - 1] + c[j] * y[m + 1 - j]  BY <1>6, <1>7, <1>9
<1>11. IsForetelling(H, y, c)
  <2>1. PICK E : E = [j \in 0 .. k |-> IF j = 0 THEN 0 ELSE H[j - 1] + c[j] * y[m + 1 - j]]
    OBVIOUS
  <2>2. \A j \in 0 .. k : E[j] = H[j]
    <3>1. ASSUME NEW j \in 0 .. k PROVE E[j] = H[j]
      <4>1. j = 0 \/ j \in 1 .. k  BY <1>2
      <4>2. QED  BY <1>9, <1>10, <2>1, <4>1
    <3>2. QED  BY <3>1
  <2>3. E = H  BY <2>1, <2>2
  <2>4. QED  BY <1>2, <1>4, <2>1, <2>3 DEF IsForetelling
<1>12. PICK g : g = CHOOSE f : IsForetelling(f, y, c)  OBVIOUS
<1>13. IsForetelling(g, y, c)  BY <1>11, <1>12, Zenon
<1>14. \A j \in 0 .. k : g[j] = IF j = 0 THEN 0 ELSE g[j - 1] + c[j] * y[m + 1 - j]
  BY <1>2, <1>4, <1>13 DEF IsForetelling
<1>15. g[k] = H[k]
  <2>1. g[0] = H[0]
    <3>1. 0 \in 0 .. k  BY <1>2
    <3>2. QED  BY <1>9, <1>14, <3>1
  <2>2. ASSUME NEW j \in 1 .. k, g[j - 1] = H[j - 1] PROVE g[j] = H[j]
    <3>1. j \in 0 .. k /\ j # 0  BY <1>2
    <3>2. QED  BY <1>10, <1>14, <2>2, <3>1
  <2>3. StepAlike(g, H, k)  BY <2>1, <2>2 DEF StepAlike
  <2>4. Agree(g, H, k)  BY <1>2, <2>3, SameTable
  <2>5. k \in 0 .. k  BY <1>2
  <2>6. QED  BY <2>4, <2>5 DEF Agree
<1>16. R!Foretold(y, c, s) = g[k] \div 2^s  BY <1>2, <1>12, ForetoldIs
<1>17. Prediction(x, i, p) = ArithmeticShiftRight(SumSeq(z), s)
  BY <1>1, <1>2, <1>6, Zenon DEF Prediction
<1>18. PICK v \in Int : v = SumSeq(z)
  <2>1. k \in 0 .. k  BY <1>2
  <2>2. QED  BY <1>9, <2>1
<1>19. ArithmeticShiftRight(v, s) = v \div 2^s /\ ArithmeticShiftRight(v, s) \in Int
  BY <1>3, ShiftIsDiv, ShiftRightTyped
<1>20. R!Foretold(y, c, s) = Prediction(x, i, p) /\ Prediction(x, i, p) \in Int
  BY <1>9, <1>15, <1>16, <1>17, <1>18, <1>19
<1>21. QED  BY <1>1, <1>5, <1>20 DEF Foretells

IsRestoring(g, warm, residuals, coefs, shift) ==
  g = [n \in 0 .. Len(residuals) |->
         IF n = 0 THEN warm ELSE R!RestoreNext(g[n - 1], residuals[n], coefs, shift)]

LEMMA RestoreIs ==
  ASSUME NEW warm, NEW residuals, NEW coefs, NEW shift
  PROVE  R!Restore(warm, residuals, coefs, shift)
           = (CHOOSE g : IsRestoring(g, warm, residuals, coefs, shift))[Len(residuals)]
BY Zenon DEF R!Restore, IsRestoring

Restored(x, p) == R!Restore(SubSeq(x, 1, Order(p)), Residuals(x, p), p.coefs, p.shift) = x

\* Adding the residuals to the predictions gives the block back.
LEMMA RestoreRead ==
  ASSUME NEW x \in Seq(Int), NEW p, IsPredictor(p), Order(p) <= Len(x)
  PROVE  Restored(x, p)
<1>1. PICK c, s, k, l, rs, warm : /\ c = p.coefs /\ s = p.shift /\ k = Order(p) /\ l = Len(x)
                                  /\ rs = Residuals(x, p) /\ warm = SubSeq(x, 1, k)
  OBVIOUS
<1>2. PICK n : n = Len(rs)  OBVIOUS
<1>3. k \in Nat /\ l \in Nat /\ n \in Nat /\ n = l - k /\ k <= l /\ rs \in Seq(Int)
  <2>1. k \in Nat /\ l - k \in Nat /\ rs \in Seq(Int) /\ n = l - k
    BY <1>1, <1>2, ResidualsTyped
  <2>2. l \in Nat /\ k <= l  BY <1>1
  <2>3. QED  BY <2>1, <2>2
<1>4. \A j \in 1 .. n : rs[j] = x[j + k] - Prediction(x, j + k, p)
  <2>1. rs = [j \in 1 .. n |-> x[j + k] - Prediction(x, j + k, p)]
    <3>1. rs = [j \in 1 .. l - k |-> x[j + k] - Prediction(x, j + k, p)]
      BY <1>1, Zenon DEF Residuals
    <3>2. QED  BY <1>3, <3>1
  <2>2. QED  BY <2>1
<1> DEFINE G == [j \in 0 .. n |-> SubSeq(x, 1, k + j)]
<1>5. G[0] = warm /\ G[n] = x
  <2>1. 0 \in 0 .. n /\ n \in 0 .. n /\ k + 0 = k /\ k + n = l  BY <1>3
  <2>2. SubSeq(x, 1, Len(x)) = x  BY SubSeqFull
  <2>3. QED  BY <1>1, <2>1, <2>2
<1>6. ASSUME NEW j \in 1 .. n PROVE G[j] = R!RestoreNext(G[j - 1], rs[j], c, s)
  <2>1. PICK m : m = k + (j - 1)  OBVIOUS
  <2>2. /\ m \in Nat /\ k <= m /\ m < l /\ j + k = m + 1 /\ k + j = m + 1
        /\ j \in 0 .. n /\ j - 1 \in 0 .. n
    BY <1>3, <2>1
  <2>3. Foretells(x, m, p)  BY <1>1, <2>2, ForetoldRead
  <2>4. PICK y, q, e : y = SubSeq(x, 1, m) /\ q = Prediction(x, m + 1, p) /\ e = x[m + 1]
    OBVIOUS
  <2>5. R!Foretold(y, c, s) = q /\ q \in Int  BY <1>1, <2>3, <2>4 DEF Foretells
  <2>6. m + 1 \in 1 .. l  BY <1>3, <2>2
  <2>7. e \in Int  BY <1>1, <2>4, <2>6
  <2>8. rs[j] = e - q  BY <1>4, <2>2, <2>4
  <2>9. rs[j] + q = e  BY <2>5, <2>7, <2>8
  <2>10. R!RestoreNext(y, rs[j], c, s) = Append(y, rs[j] + R!Foretold(y, c, s))
    BY Zenon DEF R!RestoreNext
  <2>11. SubSeq(x, 1, m + 1) = Append(y, e)
    <3>1. 1 \in 1 .. l /\ m + 1 \in 1 .. l /\ (m + 1) - 1 = m  BY <1>3, <2>2, <2>6
    <3>2. PICK a : a = m + 1  OBVIOUS
    <3>3. a \in 1 .. Len(x) /\ 1 \in 1 .. Len(x) /\ a - 1 = m  BY <1>1, <3>1, <3>2
    <3>4. SubSeq(x, 1, a) = SubSeq(x, 1, a - 1) \o <<x[a]>>  BY <3>3, SubSeqRecursiveSecond
    <3>5. y \in Seq(Int)
      <4>1. \A h \in 1 .. m : x[h] \in Int
        <5>1. \A h \in 1 .. m : h \in 1 .. Len(x)  BY <1>1, <1>3, <2>2
        <5>2. QED  BY <5>1
      <4>2. y \in [1 .. m -> Int]
        <5>1. y = [h \in 1 .. m |-> x[h]]  BY <2>2, <2>4
        <5>2. QED  BY <4>1, <5>1
      <4>3. QED  BY <2>2, <4>2
    <3>6. Append(y, e) = y \o <<e>>  BY <2>7, <3>5, AppendIsConcat
    <3>7. QED  BY <2>4, <3>2, <3>3, <3>4, <3>6
  <2>12. G[j] = SubSeq(x, 1, m + 1) /\ G[j - 1] = y  BY <2>1, <2>2, <2>4
  <2> HIDE DEF G
  <2>13. QED  BY <2>5, <2>9, <2>10, <2>11, <2>12
<1>7. IsRestoring(G, warm, rs, c, s)
  <2>1. PICK E : E = [j \in 0 .. n |-> IF j = 0 THEN warm
                                       ELSE R!RestoreNext(G[j - 1], rs[j], c, s)]
    OBVIOUS
  <2>2. \A j \in 0 .. n : E[j] = G[j]
    <3>1. ASSUME NEW j \in 0 .. n PROVE E[j] = G[j]
      <4>1. j = 0 \/ j \in 1 .. n  BY <1>3
      <4> HIDE DEF G
      <4>2. QED  BY <1>5, <1>6, <2>1, <4>1
    <3>2. QED  BY <3>1
  <2>3. E = G  BY <2>1, <2>2
  <2> HIDE DEF G
  <2>4. QED  BY <1>2, <2>1, <2>3 DEF IsRestoring
<1> HIDE DEF G
<1>8. PICK g : g = CHOOSE f : IsRestoring(f, warm, rs, c, s)  OBVIOUS
<1>9. IsRestoring(g, warm, rs, c, s)  BY <1>7, <1>8, Zenon
<1>10. \A j \in 0 .. n : g[j] = IF j = 0 THEN warm ELSE R!RestoreNext(g[j - 1], rs[j], c, s)
  BY <1>2, <1>9 DEF IsRestoring
<1>11. g[n] = G[n]
  <2>1. g[0] = G[0]
    <3>1. 0 \in 0 .. n  BY <1>3
    <3>2. QED  BY <1>5, <1>10, <3>1
  <2>2. ASSUME NEW j \in 1 .. n, g[j - 1] = G[j - 1] PROVE g[j] = G[j]
    <3>1. j \in 0 .. n /\ j # 0  BY <1>3
    <3>2. QED  BY <1>6, <1>10, <2>2, <3>1
  <2>3. StepAlike(g, G, n)  BY <2>1, <2>2 DEF StepAlike
  <2>4. Agree(g, G, n)  BY <1>3, <2>3, SameTable
  <2>5. n \in 0 .. n  BY <1>3
  <2>6. QED  BY <2>4, <2>5 DEF Agree
<1>12. R!Restore(warm, rs, c, s) = g[n]  BY <1>2, <1>8, RestoreIs
<1>13. QED  BY <1>1, <1>5, <1>11, <1>12 DEF Restored

-----------------------------------------------------------------------------
(* The header and the body of a subframe read back.                        *)

BlockComesBack(bits, at, values, w) ==
  R!ReadSignedBlock(bits, at, w, Len(values)) = values

LEMMA BlockRead ==
  ASSUME NEW bits \in Bits, NEW at \in Nat, NEW values \in Seq(Int), NEW w \in 1 .. WordBits,
         AllFit(values, w), Holds(bits, at, PlainWrites(values, w))
  PROVE  BlockComesBack(bits, at, values, w)
<1>1. PICK n \in Nat : n = Len(values) /\ values \in [1 .. n -> Int] /\ DOMAIN values = 1 .. n
  OBVIOUS
<1>2. w \in 0 .. WordBits  BY SubframesAssumption
<1>3. \A i \in 1 .. n : /\ Shows(bits, at + (i - 1) * w, values[i], w)
                        /\ at + (i - 1) * w \in Nat
  BY <1>1, <1>2, HoldsPlain
<1>4. ASSUME NEW i \in 1 .. n PROVE R!ReadSigned(bits, at + (i - 1) * w, w) = values[i]
  <2>1. PICK p, v : p = at + (i - 1) * w /\ v = values[i]  OBVIOUS
  <2>2. p \in Nat /\ v \in Int /\ FitsBits(v, w) /\ Shows(bits, p, v, w)
    BY <1>1, <1>3, <2>1 DEF AllFit
  <2>3. R!ReadSigned(bits, p, w) = v  BY <2>2, SignedRead
  <2>4. QED  BY <2>1, <2>3
<1>5. R!ReadSignedBlock(bits, at, w, n) = [i \in 1 .. n |-> R!ReadSigned(bits, at + (i - 1) * w, w)]
  BY Zenon DEF R!ReadSignedBlock
<1>6. PICK E : E = [i \in 1 .. n |-> R!ReadSigned(bits, at + (i - 1) * w, w)]  OBVIOUS
<1>7. \A i \in 1 .. n : E[i] = values[i]  BY <1>4, <1>6
<1>8. values = [i \in 1 .. n |-> values[i]] /\ E = [i \in 1 .. n |-> E[i]]  BY <1>1, <1>6
<1>9. E = values  BY <1>7, <1>8
<1>10. QED  BY <1>1, <1>5, <1>6, <1>9 DEF BlockComesBack

HeaderIsRead(bits, type, wasted) ==
  /\ R!ReadUnsigned(bits, 2, 6) = type
  /\ wasted = 0 => bits[8] = 0
  /\ wasted # 0 => bits[8] # 0 /\ R!ReadZeros(bits, 9) = wasted - 1

\* One bit put down alone.
LEMMA OneBit ==
  ASSUME NEW bits, NEW at \in Nat, NEW v \in 0 .. 1, Holds(bits, at, <<Write(v, 1)>>)
  PROVE  bits[at] = v /\ at <= Len(bits)
<1>1. v \in Int /\ 1 \in 0 .. WordBits  BY SubframesAssumption, WriterAssumption
<1>2. Shows(bits, at, v, 1) /\ at + 1 - 1 <= Len(bits)  BY <1>1, HoldsWrite
<1>3. 1 \in 1 .. 1 /\ at + 1 - 1 = at /\ 1 - 1 = 0  OBVIOUS
<1>4. bits[at + 1 - 1] = (v \div 2^(1 - 1)) % 2  BY <1>2, <1>3 DEF Shows
<1>5. bits[at] = (v \div 1) % 2  BY <1>3, <1>4, PowerOfZero
<1>6. (v \div 1) % 2 = v
  <2>1. v = 0 \/ v = 1  OBVIOUS
  <2>2. QED  BY <2>1
<1>7. QED  BY <1>2, <1>3, <1>5, <1>6

LEMMA ThreeInTurn ==
  ASSUME NEW a, NEW b, NEW c
  PROVE  <<a>> \o <<b, c>> = <<a, b, c>>
<1>1. PICK S : a \in S /\ b \in S /\ c \in S
  <2>1. a \in {a, b, c} /\ b \in {a, b, c} /\ c \in {a, b, c}  OBVIOUS
  <2>2. QED  BY <2>1, Zenon
<1>2. PICK x, y, u, v : x = <<a>> /\ y = <<b, c>> /\ u = <<a, b, c>> /\ v = x \o y
  OBVIOUS
<1>3. /\ x \in Seq(S) /\ Len(x) = 1 /\ x[1] = a
      /\ y \in Seq(S) /\ Len(y) = 2 /\ y[1] = b /\ y[2] = c
      /\ u \in Seq(S) /\ Len(u) = 3 /\ u[1] = a /\ u[2] = b /\ u[3] = c
  BY <1>1, <1>2
<1>4. v \in Seq(S) /\ Len(v) = 3 /\ v[1] = a /\ v[2] = b /\ v[3] = c
  <2>1. v \in Seq(S) /\ Len(v) = Len(x) + Len(y)  BY <1>2, <1>3
  <2>2. v[1] = x[1] /\ v[2] = y[1] /\ v[3] = y[2]  BY <1>2, <1>3
  <2>3. QED  BY <1>3, <2>1, <2>2
<1>5. \A j \in 1 .. Len(v) : v[j] = u[j]
  <2>1. \A j \in 1 .. 3 : j = 1 \/ j = 2 \/ j = 3  OBVIOUS
  <2>2. QED  BY <1>3, <1>4, <2>1
<1>6. Len(u) = Len(v)  BY <1>3, <1>4
<1>7. v = u  BY <1>3, <1>4, <1>5, <1>6, SeqEqual
<1>8. QED  BY <1>2, <1>7

LEMMA HeaderRead ==
  ASSUME NEW bits \in Bits, NEW type \in 0 .. 63, NEW wasted \in Nat,
         Holds(bits, 1, HeaderWrites(type, wasted))
  PROVE  HeaderIsRead(bits, type, wasted)
<1>1. /\ 0 \in Int /\ 1 \in Int /\ 1 \in 0 .. WordBits /\ 6 \in 0 .. WordBits
      /\ 1 \in Nat /\ 8 \in Nat /\ type \in Int
  BY SubframesAssumption, WriterAssumption
<1>2. PICK o, i, t, z : /\ o = Write(0, 1) /\ i = Write(1, 1)
                        /\ t = Write(type, 6) /\ z = ZeroRun(wasted - 1)
  OBVIOUS
<1>3. Puts(<<o>>, 1) /\ Puts(<<i>>, 1) /\ Puts(<<t>>, 6)  BY <1>1, <1>2, PutsWrite
<1>4. PICK ho, hi, ht, hot, hr, all : /\ ho = <<o>> /\ hi = <<i>> /\ ht = <<t>>
                                  /\ hot = <<o, t>> /\ all = HeaderWrites(type, wasted)
                                  /\ hr = (IF wasted = 0 THEN <<o>> ELSE <<i, z, i>>)
  OBVIOUS
<1>5. Concat(hot, ho, ht)  BY <1>4, OneAfterOther DEF Concat
<1>6. Puts(hot, 7)
  <2>1. Puts(ho \o ht, 1 + 6)  BY <1>3, <1>4, PutsBoth
  <2>2. 1 + 6 = 7  OBVIOUS
  <2>3. QED  BY <1>5, <2>1, <2>2 DEF Concat
<1>7. Concat(all, hot, hr)  BY <1>2, <1>4, Zenon DEF HeaderWrites, Concat
<1>8. \E n : Puts(hr, n)
  <2>1. CASE wasted = 0  BY <1>3, <1>4, <2>1
  <2>2. CASE wasted # 0
    <3>1. PICK n \in Nat : n = wasted - 1  BY <2>2
    <3>2. PICK x, y : x = <<z>> /\ y = <<z, i>>  OBVIOUS
    <3>3. Puts(x, n)  BY <1>2, <3>1, <3>2, PutsZeros
    <3>4. Puts(x \o hi, n + 1)  BY <1>3, <1>4, <3>3, PutsBoth
    <3>5. x \o hi = y  BY <1>4, <3>2, OneAfterOther
    <3>6. Puts(hi \o y, 1 + (n + 1))  BY <1>3, <1>4, <3>4, <3>5, PutsBoth
    <3>7. hi \o y = hr  BY <1>4, <2>2, <3>2, ThreeInTurn
    <3>8. QED  BY <3>6, <3>7
  <2>3. QED  BY <2>1, <2>2
<1>9. Holds(bits, 1, hot) /\ Holds(bits, 8, hr)
  <2>1. PICK n : Puts(hr, n)  BY <1>8
  <2>2. Splits(bits, 1, hot, 7, hr)  BY <1>1, <1>4, <1>6, <1>7, <2>1, HoldsBoth
  <2>3. 1 + 7 = 8  OBVIOUS
  <2>4. QED  BY <2>2, <2>3 DEF Splits
<1>10. R!ReadUnsigned(bits, 2, 6) = type
  <2>1. Splits(bits, 1, ho, 1, ht)  BY <1>1, <1>3, <1>4, <1>5, <1>9, HoldsBoth
  <2>2. Holds(bits, 2, <<Write(type, 6)>>) /\ 2 \in Nat
    <3>1. 1 + 1 = 2  OBVIOUS
    <3>2. QED  BY <1>2, <1>4, <2>1, <3>1 DEF Splits
  <2>3. Shows(bits, 2, type, 6)  BY <1>1, <2>2, HoldsWrite
  <2>4. R!ReadUnsigned(bits, 2, 6) = type % 2^6  BY <1>1, <2>2, <2>3, NumberRead
  <2>5. type % 64 = type  OBVIOUS
  <2>6. QED  BY <2>4, <2>5, PowerOfZero
<1>11. CASE wasted = 0
  <2>1. Holds(bits, 8, <<Write(0, 1)>>)  BY <1>2, <1>4, <1>9, <1>11
  <2>2. 0 \in 0 .. 1  OBVIOUS
  <2>3. bits[8] = 0  BY <1>1, <2>1, <2>2, OneBit
  <2>4. QED  BY <1>10, <1>11, <2>3 DEF HeaderIsRead
<1>12. CASE wasted # 0
  <2>1. PICK n \in Nat : n = wasted - 1  BY <1>12
  <2>2. PICK x, y : x = <<z>> /\ y = <<z, i>>  OBVIOUS
  <2>3. Puts(x, n)  BY <1>2, <2>1, <2>2, PutsZeros
  <2>4. Concat(y, x, hi)  BY <1>4, <2>2, OneAfterOther DEF Concat
  <2>5. Puts(y, n + 1)
    <3>1. Puts(x \o hi, n + 1)  BY <1>3, <1>4, <2>3, PutsBoth
    <3>2. QED  BY <2>4, <3>1 DEF Concat
  <2>6. Concat(hr, hi, y)
    <3>1. hr = <<i, z, i>>  BY <1>4, <1>12
    <3>2. QED  BY <1>4, <2>2, <3>1, ThreeInTurn DEF Concat
  <2>7. Holds(bits, 8, hi) /\ Holds(bits, 9, y)
    <3>1. PICK m : m = n + 1  OBVIOUS
    <3>2. Puts(y, m)  BY <2>5, <3>1
    <3>3. Splits(bits, 8, hi, 1, y)  BY <1>1, <1>3, <1>4, <1>9, <2>6, <3>2, HoldsBoth
    <3>4. 8 + 1 = 9  OBVIOUS
    <3>5. QED  BY <3>3, <3>4 DEF Splits
  <2>8. Holds(bits, 9, x) /\ Holds(bits, 9 + n, hi) /\ 9 + n \in Nat
    <3>1. 9 \in Nat  OBVIOUS
    <3>2. Splits(bits, 9, x, n, hi)  BY <1>3, <1>4, <2>3, <2>4, <2>7, <3>1, HoldsBoth
    <3>3. QED  BY <3>2 DEF Splits
  <2>9. bits[8] = 1
    <3>1. Holds(bits, 8, <<Write(1, 1)>>)  BY <1>2, <1>4, <2>7
    <3>2. 1 \in 0 .. 1  OBVIOUS
    <3>3. QED  BY <1>1, <3>1, <3>2, OneBit
  <2>10. \A b \in 1 .. n : bits[9 + b - 1] = 0
    <3>1. Holds(bits, 9, <<ZeroRun(n)>>) /\ 9 \in Nat  BY <1>2, <2>1, <2>2, <2>8
    <3>2. QED  BY <3>1, HoldsZeros
  <2>11. bits[9 + n] = 1 /\ 9 + n <= Len(bits)
    <3>1. PICK p \in Nat : p = 9 + n  BY <2>8
    <3>2. Holds(bits, p, <<Write(1, 1)>>)  BY <1>2, <1>4, <2>8, <3>1
    <3>3. 1 \in 0 .. 1  OBVIOUS
    <3>4. bits[p] = 1 /\ p <= Len(bits)  BY <3>2, <3>3, OneBit
    <3>5. QED  BY <3>1, <3>4
  <2>12. R!ReadZeros(bits, 9) = n
    <3>1. 9 \in Nat  OBVIOUS
    <3>2. QED  BY <2>10, <2>11, <3>1, ZerosRead
  <2>13. bits[8] # 0  BY <2>9
  <2>14. QED  BY <1>10, <1>12, <2>1, <2>12, <2>13 DEF HeaderIsRead
<1>13. QED  BY <1>11, <1>12

\* The warm-up samples, and the residuals with the place after them, come back.
WarmRead(bits, at, x, w, order) == R!ReadSignedBlock(bits, at, w, order) = SubSeq(x, 1, order)

SectionRead(bits, at, x, p, end) ==
  R!ReadResiduals(bits, at, Len(x), Order(p)) = State(end, Residuals(x, p))

FixedComesBack(bits, at, x, w, order, end) ==
  R!ReadFixed(bits, at, Len(x), w, order) = [samples |-> x, at |-> end]

LEMMA BinomialsAre ==
  ASSUME NEW k \in 0 .. 4
  PROVE  /\ FixedPredictor(k).coefs = IF k = 0 THEN <<>> ELSE R!BinomialCoefs[k]
         /\ FixedPredictor(k).shift = 0
<1>1. CASE k = 0  BY <1>1 DEF FixedPredictor
<1>2. CASE k = 1  BY <1>2 DEF FixedPredictor, R!BinomialCoefs
<1>3. CASE k = 2  BY <1>3 DEF FixedPredictor, R!BinomialCoefs
<1>4. CASE k = 3  BY <1>4 DEF FixedPredictor, R!BinomialCoefs
<1>5. CASE k = 4  BY <1>5 DEF FixedPredictor, R!BinomialCoefs
<1>6. QED  BY <1>1, <1>2, <1>3, <1>4, <1>5

LEMMA FixedRead ==
  ASSUME NEW bits, NEW at, NEW x \in Seq(Int), NEW w, NEW order \in 0 .. 4, order <= Len(x),
         NEW p, p = FixedPredictor(order), NEW after, after = at + order * w, NEW end,
         WarmRead(bits, at, x, w, order), SectionRead(bits, after, x, p, end)
  PROVE  FixedComesBack(bits, at, x, w, order, end)
<1>1. IsPredictor(p) /\ Order(p) = order  BY FixedIsPredictor
<1>2. Restored(x, p)  BY <1>1, RestoreRead
<1>3. PICK c, size, rs, warm : /\ c = p.coefs /\ size = Len(x) /\ rs = Residuals(x, p)
                               /\ warm = SubSeq(x, 1, order)
  OBVIOUS
<1>4. c = (IF order = 0 THEN <<>> ELSE R!BinomialCoefs[order]) /\ p.shift = 0
  BY <1>3, BinomialsAre
<1>5. R!Restore(warm, rs, c, 0) = x  BY <1>1, <1>2, <1>3, <1>4 DEF Restored
<1>6. R!ReadSignedBlock(bits, at, w, order) = warm  BY <1>3 DEF WarmRead
<1>7. R!ReadResiduals(bits, at + order * w, size, order) = State(end, rs)
  BY <1>1, <1>3 DEF SectionRead
<1>8. PICK s : s = State(end, rs)  OBVIOUS
<1>9. s.at = end /\ s.got = rs  BY <1>8 DEF State
<1>10. R!ReadFixed(bits, at, size, w, order) = [samples |-> R!Restore(warm, s.got, c, 0), at |-> s.at]
  BY <1>4, <1>6, <1>7, <1>8, Zenon DEF R!ReadFixed
<1>11. QED  BY <1>3, <1>5, <1>9, <1>10 DEF FixedComesBack

\* What stands between the warm-up samples of an LPC subframe and its residuals.
LpcHeadRead(bits, after, p, precision) ==
  /\ R!ReadUnsigned(bits, after, 4) = precision - 1
  /\ R!ReadSigned(bits, after + 4, 5) = p.shift
  /\ R!ReadSignedBlock(bits, after + 9, precision, Order(p)) = p.coefs

LpcComesBack(bits, at, x, w, order, end) ==
  R!ReadLpc(bits, at, Len(x), w, order) = [samples |-> x, at |-> end]

LEMMA LpcRead ==
  ASSUME NEW bits, NEW at, NEW x \in Seq(Int), NEW w, NEW p, IsPredictor(p), Order(p) <= Len(x),
         NEW precision \in 1 .. 15, NEW after, after = at + Order(p) * w,
         NEW rest, rest = after + 9 + Order(p) * precision, NEW end,
         WarmRead(bits, at, x, w, Order(p)), LpcHeadRead(bits, after, p, precision),
         SectionRead(bits, rest, x, p, end)
  PROVE  LpcComesBack(bits, at, x, w, Order(p), end)
<1>1. Restored(x, p)  BY RestoreRead
<1>2. PICK c, h, size, rs, warm, order : /\ c = p.coefs /\ h = p.shift /\ size = Len(x)
                                         /\ rs = Residuals(x, p) /\ order = Order(p)
                                         /\ warm = SubSeq(x, 1, order)
  OBVIOUS
<1>3. R!Restore(warm, rs, c, h) = x  BY <1>1, <1>2 DEF Restored
<1>4. R!ReadSignedBlock(bits, at, w, order) = warm  BY <1>2 DEF WarmRead
<1>5. R!ReadResiduals(bits, rest, size, order) = State(end, rs)  BY <1>2 DEF SectionRead
<1>6. /\ R!ReadUnsigned(bits, after, 4) + 1 = precision
      /\ R!ReadSigned(bits, after + 4, 5) = h
      /\ R!ReadSignedBlock(bits, after + 9, precision, order) = c
  <2>1. (precision - 1) + 1 = precision  OBVIOUS
  <2>2. QED  BY <1>2, <2>1 DEF LpcHeadRead
<1>7. PICK s : s = State(end, rs)  OBVIOUS
<1>8. s.at = end /\ s.got = rs  BY <1>7 DEF State
<1>9. after = at + order * w /\ rest = after + 9 + order * precision  BY <1>2
<1>10. R!ReadLpc(bits, at, size, w, order)
         = [samples |-> R!Restore(R!ReadSignedBlock(bits, at, w, order),
                                  R!ReadResiduals(bits, rest, size, order).got, c, h),
            at |-> R!ReadResiduals(bits, rest, size, order).at]
  BY <1>6, <1>9, Zenon DEF R!ReadLpc
<1>11. QED  BY <1>2, <1>3, <1>4, <1>5, <1>7, <1>8, <1>10 DEF LpcComesBack

\* The body of each type.
BodyIsRead(bits, at, x, w, type, end) ==
  R!ReadBody(bits, at, Len(x), w, type) = [samples |-> x, at |-> end]

LEMMA ConstantBody ==
  ASSUME NEW bits \in Bits, NEW at \in Nat, NEW x \in Seq(Int), NEW w \in 1 .. WordBits,
         Len(x) >= 1, AllFit(x, w), \A i \in DOMAIN x : x[i] = x[1],
         Holds(bits, at, PlainWrites(<<x[1]>>, w))
  PROVE  BodyIsRead(bits, at, x, w, 0, at + w)
<1>1. PICK n \in Nat : n = Len(x) /\ n >= 1 /\ DOMAIN x = 1 .. n
  OBVIOUS
<1>2. PICK v : v = x[1]  OBVIOUS
<1>3. v \in Int /\ FitsBits(v, w)
  <2>1. 1 \in 1 .. n  BY <1>1
  <2>2. QED  BY <1>1, <1>2, <2>1 DEF AllFit
<1>4. R!ReadSigned(bits, at, w) = v
  <2>1. PICK y : y = <<v>>  OBVIOUS
  <2>2. y \in [1 .. 1 -> Int] /\ y[1] = v /\ 1 \in Nat  BY <1>3, <2>1
  <2>3. w \in 0 .. WordBits /\ w \in Nat  BY SubframesAssumption
  <2>4. Holds(bits, at, PlainWrites(y, w))  BY <1>2, <2>1
  <2>5. \A i \in 1 .. 1 : Shows(bits, at + (i - 1) * w, y[i], w)
    BY <2>2, <2>3, <2>4, HoldsPlain
  <2>6. 1 \in 1 .. 1 /\ at + (1 - 1) * w = at  BY <2>3
  <2>7. Shows(bits, at, v, w)  BY <2>2, <2>5, <2>6
  <2>8. QED  BY <1>3, <2>7, SignedRead
<1>5. PICK y : y = [i \in 1 .. n |-> R!ReadSigned(bits, at, w)]  OBVIOUS
<1>6. y = x
  <2>1. \A i \in 1 .. n : y[i] = x[i]  BY <1>1, <1>2, <1>4, <1>5
  <2>2. x = [i \in 1 .. n |-> x[i]]  BY <1>1
  <2>3. y = [i \in 1 .. n |-> y[i]]  BY <1>5
  <2>4. QED  BY <2>1, <2>2, <2>3
<1>7. R!ReadBody(bits, at, n, w, 0) = [samples |-> y, at |-> at + w]
  <2>1. PICK z : z = 0  OBVIOUS
  <2>2. z = 0 /\ ~(z = 1) /\ ~(z \in 8 .. 12) /\ ~(z \in 32 .. 63)  BY <2>1
  <2>3. R!ReadBody(bits, at, n, w, z) = [samples |-> y, at |-> at + w]
    BY <1>5, <2>2, Zenon DEF R!ReadBody
  <2>4. QED  BY <2>1, <2>3
<1>8. QED  BY <1>1, <1>6, <1>7 DEF BodyIsRead

LEMMA VerbatimBody ==
  ASSUME NEW bits \in Bits, NEW at \in Nat, NEW x \in Seq(Int), NEW w \in 1 .. WordBits,
         AllFit(x, w), Holds(bits, at, PlainWrites(x, w))
  PROVE  BodyIsRead(bits, at, x, w, 1, at + Len(x) * w)
<1>1. BlockComesBack(bits, at, x, w)  BY BlockRead
<1>2. PICK n : n = Len(x)  OBVIOUS
<1>3. PICK z : z = 1  OBVIOUS
<1>4. z = 1 /\ ~(z = 0) /\ ~(z \in 8 .. 12) /\ ~(z \in 32 .. 63)  BY <1>3
<1>5. R!ReadBody(bits, at, n, w, z)
        = [samples |-> R!ReadSignedBlock(bits, at, w, n), at |-> at + n * w]
  BY <1>4, Zenon DEF R!ReadBody
<1>6. QED  BY <1>1, <1>2, <1>3, <1>5 DEF BlockComesBack, BodyIsRead

LEMMA FixedBody ==
  ASSUME NEW bits, NEW at, NEW x, NEW w, NEW order \in 0 .. 4, NEW end,
         FixedComesBack(bits, at, x, w, order, end), NEW type, type = 8 + order
  PROVE  BodyIsRead(bits, at, x, w, type, end)
<1>1. PICK n : n = Len(x)  OBVIOUS
<1>2. type \in 8 .. 12 /\ ~(type = 0) /\ ~(type = 1) /\ ~(type \in 32 .. 63) /\ type - 8 = order
  OBVIOUS
<1>3. R!ReadBody(bits, at, n, w, type) = R!ReadFixed(bits, at, n, w, order)
  BY <1>2, Zenon DEF R!ReadBody
<1>4. QED  BY <1>1, <1>3 DEF FixedComesBack, BodyIsRead

LEMMA LpcBody ==
  ASSUME NEW bits, NEW at, NEW x, NEW w, NEW order \in 1 .. 32, NEW end,
         LpcComesBack(bits, at, x, w, order, end), NEW type, type = 32 + order - 1
  PROVE  BodyIsRead(bits, at, x, w, type, end)
<1>1. PICK n : n = Len(x)  OBVIOUS
<1>2. type \in 32 .. 63 /\ ~(type = 0) /\ ~(type = 1) /\ ~(type \in 8 .. 12) /\ type - 31 = order
  OBVIOUS
<1>3. R!ReadBody(bits, at, n, w, type) = R!ReadLpc(bits, at, n, w, order)
  BY <1>2, Zenon DEF R!ReadBody
<1>4. QED  BY <1>1, <1>3 DEF LpcComesBack, BodyIsRead

LEMMA WarmUp ==
  ASSUME NEW bits \in Bits, NEW at \in Nat, NEW x \in Seq(Int), NEW w \in 1 .. WordBits,
         AllFit(x, w), NEW order \in Nat, order <= Len(x),
         NEW ws, ws = PlainWrites(SubSeq(x, 1, order), w), Holds(bits, at, ws)
  PROVE  WarmRead(bits, at, x, w, order)
<1>1. PICK y : y = SubSeq(x, 1, order)  OBVIOUS
<1>2. y \in Seq(Int) /\ Len(y) = order /\ \A i \in 1 .. order : y[i] = x[i] /\ i \in DOMAIN x
  <2>1. 1 \in 1 .. Len(x) + 1 /\ order \in 1 - 1 .. Len(x)  OBVIOUS
  <2>2. y \in Seq(Int) /\ Len(y) = order - 1 + 1  BY <1>1, <2>1, SubSeqProperties
  <2>3. \A i \in 1 .. order : y[i] = x[i] /\ i \in DOMAIN x  BY <1>1
  <2>4. QED  BY <2>2, <2>3
<1>3. AllFit(y, w)  BY <1>2 DEF AllFit
<1>4. BlockComesBack(bits, at, y, w)  BY <1>1, <1>2, <1>3, BlockRead
<1>5. QED  BY <1>1, <1>2, <1>4 DEF BlockComesBack, WarmRead

LEMMA SectionIsRead ==
  ASSUME NEW bits \in Bits, NEW at \in Nat, NEW x \in Seq(Int), NEW p, IsPredictor(p),
         Order(p) <= Len(x), NEW po \in 0 .. 8, ValidPartitionOrder(Len(x), Order(p), po),
         NEW params, IsParameters(params, 2^po),
         NEW parts, parts = PartitionsOf(Residuals(x, p), Len(x), Order(p), po),
         Holds(bits, at, ResidualWrites(po, parts, params)),
         NEW end, end = at + (6 + CodedBits(parts, params))
  PROVE  SectionRead(bits, at, x, p, end)
<1>1. PICK size, order, rs : size = Len(x) /\ order = Order(p) /\ rs = Residuals(x, p)
  OBVIOUS
<1>2. size \in Nat /\ order \in Nat /\ rs \in Seq(Int) /\ Len(rs) = size - order
  BY <1>1, ResidualsTyped
<1>3. IsParted(rs, size, order, po, params, parts)  BY <1>1, <1>2 DEF IsParted
<1>4. R!ReadResiduals(bits, at, size, order) = State(end, rs)
  <2>1. ResidualsComeBack(bits, at, size, order, rs, parts, params)
    BY <1>2, <1>3, ResidualRead
  <2>2. QED  BY <2>1 DEF ResidualsComeBack
<1>5. QED  BY <1>1, <1>4 DEF SectionRead

LEMMA LpcHead ==
  ASSUME NEW bits \in Bits, NEW at \in Nat, NEW p, IsPredictor(p), NEW precision \in 1 .. 15,
         AllFit(p.coefs, precision),
         NEW ws, ws = <<Write(precision - 1, 4), Write(p.shift, 5)>> \o PlainWrites(p.coefs, precision),
         Holds(bits, at, ws)
  PROVE  LpcHeadRead(bits, at, p, precision)
<1>1. PICK a, b, c, h : /\ a = Write(precision - 1, 4) /\ b = Write(p.shift, 5)
                        /\ c = p.coefs /\ h = p.shift
  OBVIOUS
<1>2. c \in Seq(Int) /\ h \in 0 .. 15  BY <1>1 DEF IsPredictor
<1>3. PICK order \in Nat : order = Len(c) /\ order = Order(p)  BY <1>1, <1>2 DEF Order
<1>4. /\ WordBits \in Nat /\ WordBits >= 15 /\ 4 \in 0 .. WordBits /\ 5 \in 0 .. WordBits
      /\ 5 \in 1 .. WordBits /\ precision \in 1 .. WordBits /\ precision \in 0 .. WordBits
      /\ precision - 1 \in 0 .. 15 /\ precision - 1 \in Int /\ h \in Int
  BY <1>2, SubframesAssumption, WriterAssumption
<1>5. PICK x, y, xy, z : /\ x = <<a>> /\ y = <<b>> /\ xy = <<a, b>>
                         /\ z = PlainWrites(c, precision)
  OBVIOUS
<1>6. Puts(x, 4) /\ Puts(y, 5)  BY <1>1, <1>4, <1>5, PutsWrite
<1>7. Concat(xy, x, y) /\ Concat(ws, xy, z)
  BY <1>1, <1>5, OneAfterOther DEF Concat
<1>8. Puts(xy, 9)
  <2>1. Puts(x \o y, 4 + 5)  BY <1>6, PutsBoth
  <2>2. 4 + 5 = 9  OBVIOUS
  <2>3. QED  BY <1>7, <2>1, <2>2 DEF Concat
<1>9. \E n : Puts(z, n)
  <2>1. c \in [1 .. order -> Int]
    <3>1. c \in Seq(Int) /\ order = Len(c)  BY <1>2, <1>3
    <3>2. c \in [1 .. Len(c) -> Int]  BY <3>1
    <3>3. QED  BY <3>1, <3>2
  <2>2. Puts(z, order * precision)  BY <1>4, <1>5, <2>1, PutsPlain
  <2>3. QED  BY <2>2
<1>10. Holds(bits, at, xy) /\ Holds(bits, at + 9, z) /\ at + 9 \in Nat
  <2>1. PICK n : Puts(z, n)  BY <1>9
  <2>2. Splits(bits, at, xy, 9, z)  BY <1>7, <1>8, <2>1, HoldsBoth
  <2>3. QED  BY <2>2 DEF Splits
<1>11. Holds(bits, at, x) /\ Holds(bits, at + 4, y) /\ at + 4 \in Nat
  <2>1. Splits(bits, at, x, 4, y)  BY <1>6, <1>7, <1>10, HoldsBoth
  <2>2. QED  BY <2>1 DEF Splits
<1>12. R!ReadUnsigned(bits, at, 4) = precision - 1
  <2>1. PICK v : v = precision - 1  OBVIOUS
  <2>2. v \in 0 .. 15 /\ Holds(bits, at, <<Write(v, 4)>>)  BY <1>1, <1>4, <1>5, <1>11, <2>1
  <2>3. R!ReadUnsigned(bits, at, 4) = v  BY <2>2, ParameterRead
  <2>4. QED  BY <2>1, <2>3
<1>13. R!ReadSigned(bits, at + 4, 5) = h
  <2>1. PICK o : o = at + 4  OBVIOUS
  <2>2. o \in Nat /\ Holds(bits, o, <<Write(h, 5)>>)  BY <1>1, <1>5, <1>11, <2>1
  <2>3. Shows(bits, o, h, 5)  BY <1>4, <2>2, HoldsWrite
  <2>4. FitsBits(h, 5)
    <3>1. 5 - 1 = 4 /\ h >= -16 /\ h <= 16 - 1  BY <1>2
    <3>2. QED  BY <3>1, PowerOfZero DEF FitsBits
  <2>5. R!ReadSigned(bits, o, 5) = h  BY <1>4, <2>2, <2>3, <2>4, SignedRead
  <2>6. QED  BY <2>1, <2>5
<1>14. R!ReadSignedBlock(bits, at + 9, precision, order) = c
  <2>1. PICK o : o = at + 9  OBVIOUS
  <2>2. o \in Nat /\ Holds(bits, o, PlainWrites(c, precision)) /\ AllFit(c, precision)
    BY <1>1, <1>5, <1>10, <2>1
  <2>3. BlockComesBack(bits, o, c, precision)  BY <1>2, <1>4, <2>2, BlockRead
  <2>4. QED  BY <1>3, <2>1, <2>3 DEF BlockComesBack
<1>15. QED  BY <1>1, <1>3, <1>12, <1>13, <1>14 DEF LpcHeadRead

\* What follows the header of a predicted subframe comes back, and ends where the
\* subframe ends.
LEMMA PredictedBody ==
  ASSUME NEW bits \in Bits, NEW sub, NEW bps \in 1 .. WordBits, IsSubframe(sub, bps),
         IsPredicted(sub), NEW k, k = sub.wasted, NEW w, w = bps - k, IsReadable(sub, w),
         NEW at, at = 9 + k, Holds(bits, at, PredictedWrites(sub, w)),
         NEW end, end = PredictedBits(sub, bps) + 1, NEW type, type = SubframeType(sub)
  PROVE  BodyIsRead(bits, at, sub.shifted, w, type, end)
<1>1. PICK x, p, l, n, order, size, rs, parts, params, porder, precision, kind :
        /\ x = sub.shifted /\ p = sub.predictor /\ params = sub.params
        /\ porder = sub.porder /\ precision = sub.precision /\ kind = sub.kind
        /\ order = Order(p) /\ size = Len(x) /\ n = 2^porder
        /\ l = p.coefs /\ rs = Residuals(x, p)
        /\ parts = PartitionsOf(rs, size, order, porder)
  OBVIOUS
<1>2. /\ kind \in PredictedKinds /\ IsPredictor(p) /\ order < size
      /\ kind = "LpcRice" => precision \in 1 .. 15
      /\ porder \in 0 .. 8 /\ ValidPartitionOrder(size, order, porder) /\ IsParameters(params, n)
  BY <1>1, Zenon DEF IsPredicted
<1>3. k \in 0 .. bps - 1 /\ x \in Seq(Int) /\ size \in Nat /\ size = Len(x)
  BY <1>1, Zenon, LenProperties DEF IsSubframe
<1>4. l \in Seq(Int) /\ p.shift \in Int /\ order = Len(l) /\ order \in Nat
  <2>1. l \in Seq(Int) /\ p.shift \in 0 .. 15 /\ order = Len(l)
    BY <1>1, <1>2, Zenon DEF IsPredictor, Order
  <2>2. PICK s : s = p.shift  OBVIOUS
  <2>3. s \in 0 .. 15  BY <2>1, <2>2
  <2>4. s \in Int  BY <2>3
  <2>5. QED  BY <2>1, <2>2, <2>4
<1>5. /\ WordBits \in Nat /\ WordBits >= 15 /\ bps \in Nat /\ k \in Nat /\ porder \in Int
      /\ w \in 0 .. WordBits /\ w \in 1 .. WordBits /\ w \in Nat /\ at \in Nat
  BY <1>2, <1>3, SubframesAssumption, WriterAssumption
<1>6. rs \in Seq(Int) /\ Len(rs) = size - order /\ order <= size
  <2>1. order <= size  BY <1>2, <1>3, <1>4
  <2>2. rs \in Seq(Int) /\ Len(rs) = size - order  BY <1>1, <1>2, <1>3, <2>1, ResidualsTyped
  <2>3. QED  BY <2>1, <2>2
<1>7. n \in Nat /\ parts \in [1 .. n -> Seq(Int)]
  <2>1. porder \in 0 .. WordBits  BY <1>2, <1>5
  <2>2. QED  BY <1>1, <1>2, <1>3, <1>4, <1>6, <2>1, PartitionsTyped
<1>8. PICK coded \in Nat : coded = CodedBits(parts, params)  BY <1>2, <1>7, CodedTyped
<1>9. PICK t \in Nat : t = order * w  BY <1>4, <1>5
<1>10. PICK warm, middle, rest, extra, both :
         /\ warm = PlainWrites(SubSeq(x, 1, order), w)
         /\ middle = (IF kind = "FixedRice" THEN <<>>
                      ELSE <<Write(precision - 1, 4), Write(p.shift, 5)>>
                           \o PlainWrites(l, precision))
         /\ rest = ResidualWrites(porder, parts, params)
         /\ extra = (IF kind = "LpcRice" THEN 4 + 5 + order * precision ELSE 0)
         /\ both = warm \o middle
  OBVIOUS
<1>11. Puts(rest, (2 + 4) + coded)  BY <1>2, <1>5, <1>7, <1>8, <1>10, PutsResidual
<1>12. Puts(warm, t)
  <2>1. PICK y : y = SubSeq(x, 1, order)  OBVIOUS
  <2>2. y \in [1 .. order -> Int]
    <3>1. 1 \in 1 .. Len(x) + 1 /\ order \in 1 - 1 .. Len(x)  BY <1>3, <1>4, <1>6
    <3>2. y \in Seq(Int) /\ Len(y) = order - 1 + 1
      <4>1. x \in Seq(Int)  BY <1>3
      <4>2. QED  BY ONLY <2>1, <3>1, <4>1, SubSeqProperties
    <3>3. Len(y) = order  BY <1>4, <3>2
    <3>4. QED  BY <3>2, <3>3
  <2>3. QED  BY <1>4, <1>5, <1>9, <1>10, <2>1, <2>2, PutsPlain
<1>13. Puts(middle, extra) /\ extra \in Nat
  <2>1. CASE kind = "FixedRice"
    <3>1. middle = <<>> /\ extra = 0  BY <1>10, <2>1
    <3>2. QED  BY <3>1, PutsNothing
  <2>2. CASE kind = "LpcRice"
    <3>1. PICK a, b : a = Write(precision - 1, 4) /\ b = Write(p.shift, 5)  OBVIOUS
    <3>2. precision \in Nat /\ precision \in 0 .. WordBits /\ precision - 1 \in Int
      BY <1>2, <1>5, <2>2
    <3>3. 4 \in 0 .. WordBits /\ 5 \in 0 .. WordBits  BY <1>5
    <3>4. Puts(<<a>>, 4) /\ Puts(<<b>>, 5)  BY <1>4, <3>1, <3>2, <3>3, PutsWrite
    <3>5. Puts(<<a>> \o <<b>>, 4 + 5)  BY <3>4, PutsBoth
    <3>6. Puts(<<a, b>>, 4 + 5)  BY <3>5, OneAfterOther
    <3>7. l \in [1 .. order -> Int]  BY <1>4
    <3>8. Puts(PlainWrites(l, precision), order * precision)  BY <1>4, <3>2, <3>7, PutsPlain
    <3>9. Puts(<<a, b>> \o PlainWrites(l, precision), (4 + 5) + order * precision)
      BY <3>6, <3>8, PutsBoth
    <3>10. middle = <<a, b>> \o PlainWrites(l, precision)  BY <1>10, <2>2, <3>1
    <3>11. extra = (4 + 5) + order * precision  BY <1>10, <2>2
    <3>12. order * precision \in Nat  BY <1>4, <3>2
    <3>13. extra \in Nat  BY <3>11, <3>12
    <3>14. QED  BY <3>9, <3>10, <3>11, <3>13
  <2>3. QED  BY <1>2, <2>1, <2>2 DEF PredictedKinds
<1>14. PICK o \in Nat : o = at + (t + extra)  BY <1>5, <1>13
<1>15. /\ Holds(bits, at, warm) /\ Holds(bits, at + t, middle) /\ at + t \in Nat
       /\ Holds(bits, o, rest)
  <2>1. PICK all, m, c : all = PredictedWrites(sub, w) /\ m = t + extra /\ c = (2 + 4) + coded
    OBVIOUS
  <2>2. Concat(all, both, rest) /\ Concat(both, warm, middle)
    BY <1>1, <1>10, <2>1, Zenon DEF PredictedWrites, Concat
  <2>3. Puts(both, m)  BY <1>10, <1>12, <1>13, <2>1, PutsBoth
  <2>4. Puts(rest, c) /\ Holds(bits, at, all)  BY <1>11, <2>1
  <2>5. Splits(bits, at, both, m, rest)  BY <1>5, <2>2, <2>3, <2>4, HoldsBoth
  <2>6. Holds(bits, at, both) /\ Holds(bits, at + m, rest)  BY <2>5 DEF Splits
  <2>7. Splits(bits, at, warm, t, middle)  BY <1>5, <1>12, <1>13, <2>2, <2>6, HoldsBoth
  <2>8. QED  BY <1>14, <2>1, <2>6, <2>7 DEF Splits
<1>16. end = o + (6 + coded)
  <2>1. PredictedBits(sub, bps) = (8 + k + order * w + extra) + (2 + 4 + coded)
    BY <1>1, <1>8, <1>10, Zenon DEF PredictedBits, PredictorBits, PartitionedBits, WastedBitsOverhead
  <2>2. PredictedBits(sub, bps) = (8 + k + t + extra) + (2 + 4 + coded)  BY <1>9, <2>1
  <2>3. QED  BY <1>5, <1>13, <1>14, <2>2
<1>17. AllFit(x, w)  BY <1>1 DEF IsReadable
<1>18. WarmRead(bits, at, x, w, order)  BY <1>3, <1>4, <1>5, <1>6, <1>10, <1>15, <1>17, WarmUp
<1>19. SectionRead(bits, o, x, p, end)
  BY <1>1, <1>2, <1>3, <1>6, <1>8, <1>10, <1>15, <1>16, SectionIsRead
<1>20. CASE kind = "FixedRice"
  <2>1. PICK h \in 0 .. 4 : p = FixedPredictor(h)  BY <1>1, <1>20 DEF IsReadable
  <2>2. order = h  BY <1>1, <2>1, FixedIsPredictor
  <2>3. extra = 0  BY <1>10, <1>20
  <2>4. o = at + order * w  BY <1>5, <1>9, <1>14, <2>3
  <2>5. type = 8 + order  BY <1>1, <1>20 DEF SubframeType
  <2>6. FixedComesBack(bits, at, x, w, order, end)
    BY <1>3, <1>6, <1>18, <1>19, <2>1, <2>2, <2>4, FixedRead
  <2>7. BodyIsRead(bits, at, x, w, type, end)  BY <2>2, <2>5, <2>6, FixedBody
  <2>8. QED  BY <1>1, <2>7
<1>21. CASE kind = "LpcRice"
  <2>1. order \in 1 .. 32 /\ AllFit(l, precision)  BY <1>1, <1>21 DEF IsReadable
  <2>2. precision \in 1 .. 15  BY <1>2, <1>21
  <2>3. PICK u \in Nat : u = order * precision  BY <1>4, <2>2
  <2>4. extra = 4 + 5 + u  BY <1>10, <1>21, <2>3
  <2>5. PICK after : after = at + t  OBVIOUS
  <2>6. o = after + 9 + u  BY <1>5, <1>14, <2>4, <2>5
  <2>7. type = 32 + order - 1  BY <1>1, <1>21 DEF SubframeType
  <2>8. middle = <<Write(precision - 1, 4), Write(p.shift, 5)>> \o PlainWrites(p.coefs, precision)
    BY <1>1, <1>10, <1>21
  <2>9. after \in Nat /\ Holds(bits, after, middle) /\ AllFit(p.coefs, precision)
    BY <1>1, <1>15, <2>1, <2>5
  <2>10. LpcHeadRead(bits, after, p, precision)  BY <1>2, <2>2, <2>8, <2>9, LpcHead
  <2>11. LpcComesBack(bits, at, x, w, order, end)
    <3>1. after = at + Order(p) * w /\ o = after + 9 + Order(p) * precision
      BY <1>1, <1>9, <2>3, <2>5, <2>6
    <3>2. Order(p) <= Len(x) /\ WarmRead(bits, at, x, w, Order(p))  BY <1>1, <1>6, <1>18
    <3>3. LpcComesBack(bits, at, x, w, Order(p), end)
      BY <1>2, <1>3, <1>19, <2>2, <2>10, <3>1, <3>2, LpcRead
    <3>4. QED  BY <1>1, <3>3
  <2>12. BodyIsRead(bits, at, x, w, type, end)  BY <2>1, <2>7, <2>11, LpcBody
  <2>13. QED  BY <1>1, <2>12
<1>22. QED  BY <1>2, <1>20, <1>21 DEF PredictedKinds

LEMMA PredictedPuts ==
  ASSUME NEW sub, NEW bps \in 1 .. WordBits, IsSubframe(sub, bps), IsPredicted(sub),
         NEW w, w = bps - sub.wasted, IsReadable(sub, w), NEW type, type = SubframeType(sub)
  PROVE  type \in 0 .. 63 /\ \E n : Puts(PredictedWrites(sub, w), n)
<1>1. PICK p, order, kind : p = sub.predictor /\ order = Order(p) /\ kind = sub.kind  OBVIOUS
<1>2. kind \in PredictedKinds  BY <1>1 DEF IsPredicted
<1>3. CASE kind = "FixedRice"
  <2>1. PICK h \in 0 .. 4 : p = FixedPredictor(h)  BY <1>1, <1>3 DEF IsReadable
  <2>2. order = h  BY <1>1, <2>1, FixedIsPredictor
  <2>3. type = 8 + order  BY <1>1, <1>3 DEF SubframeType
  <2>4. type \in 0 .. 63  BY <2>2, <2>3
  <2>5. QED  BY <2>4, PutsPrediction
<1>4. CASE kind = "LpcRice"
  <2>1. order \in 1 .. 32  BY <1>1, <1>4 DEF IsReadable
  <2>2. type = 32 + order - 1  BY <1>1, <1>4 DEF SubframeType
  <2>3. type \in 0 .. 63  BY <2>1, <2>2
  <2>4. QED  BY <2>3, PutsPrediction
<1>5. QED  BY <1>2, <1>3, <1>4 DEF PredictedKinds

\* The samples the shifted ones stand for.
Unshifted(x, k) == [i \in 1 .. Len(x) |-> x[i] * 2^k]

SubframeComesBack(bits, x, k, bps, end) ==
  R!ReadSubframe(bits, Len(x), bps) = [samples |-> Unshifted(x, k), at |-> end]

LEMMA SubframeIs ==
  ASSUME NEW bits, NEW type, NEW k \in Nat, HeaderIsRead(bits, type, k), NEW bps \in Nat,
         NEW w, w = bps - k, NEW x \in Seq(Int), NEW at, at = 9 + k, NEW end,
         BodyIsRead(bits, at, x, w, type, end)
  PROVE  SubframeComesBack(bits, x, k, bps, end)
<1>1. PICK n, b : n = Len(x) /\ b = R!ReadBody(bits, at, n, w, type)  OBVIOUS
<1>2. b = [samples |-> x, at |-> end]  BY <1>1 DEF BodyIsRead
<1>3. R!ReadUnsigned(bits, 2, 6) = type  BY DEF HeaderIsRead
<1>4. PICK z : z = R!ReadZeros(bits, 9)  OBVIOUS
<1>5. (IF bits[8] = 0 THEN 0 ELSE z + 1) = k /\ (IF bits[8] = 0 THEN 9 ELSE 10 + z) = at
  <2>1. CASE k = 0
    <3>1. bits[8] = 0 /\ at = 9  BY <2>1 DEF HeaderIsRead
    <3>2. QED  BY <2>1, <3>1
  <2>2. CASE k # 0
    <3>1. bits[8] # 0 /\ z = k - 1  BY <1>4, <2>2 DEF HeaderIsRead
    <3>2. z + 1 = k /\ 10 + z = at  BY <3>1
    <3>3. QED  BY <3>1, <3>2
  <2>3. QED  BY <2>1, <2>2
<1>6. R!ReadSubframe(bits, n, bps)
        = [samples |-> [i \in DOMAIN b.samples |-> b.samples[i] * 2^k], at |-> b.at]
  BY <1>1, <1>3, <1>4, <1>5, Zenon DEF R!ReadSubframe
<1>7. b.samples = x /\ b.at = end /\ DOMAIN x = 1 .. n  BY <1>1, <1>2
<1>8. QED  BY <1>1, <1>6, <1>7 DEF SubframeComesBack, Unshifted

\* A decoder reads back the samples of every subframe the writer can put down, and
\* ends where the writer did.
LEMMA SubframeRead ==
  ASSUME NEW sub, NEW bps \in 1 .. WordBits, IsSubframe(sub, bps), NEW k, k = sub.wasted,
         NEW w, w = bps - k, IsReadable(sub, w),
         NEW bits, bits = BitsOf(SubframeWrites(sub, bps)), NEW end, end = Len(bits) + 1
  PROVE  SubframeComesBack(bits, sub.shifted, k, bps, end)
<1>1. PICK x, n, ws, c, at, type : /\ x = sub.shifted /\ n = Len(x) /\ at = 9 + k
                                   /\ ws = SubframeWrites(sub, bps)
                                   /\ c = CountedBits(sub, bps) /\ type = SubframeType(sub)
  OBVIOUS
<1>2. k \in 0 .. bps - 1 /\ x \in Seq(Int) /\ n \in Nat /\ n >= 1
  BY <1>1, LenProperties DEF IsSubframe
<1>3. /\ WordBits \in Nat /\ bps \in Nat /\ k \in Nat /\ w \in 0 .. WordBits
      /\ w \in 1 .. WordBits /\ w \in Nat /\ at \in Nat /\ 1 \in Nat
  <2>1. /\ w = bps - k /\ bps \in 1 .. WordBits /\ WordBits \in Nat
        /\ at = 9 + k /\ k \in 0 .. bps - 1
    BY <1>1, <1>2, SubframesAssumption
  <2>2. QED  BY ONLY <2>1
<1>4. bits \in Bits /\ Len(bits) = c /\ c \in Nat
  <2>1. Puts(ws, c)  BY <1>1, PutsSubframe
  <2>2. ws \in Seq(Writes) /\ Width(ws) = c  BY <2>1 DEF Puts
  <2>3. QED  BY <1>1, <2>2, BitsArePatterns DEF Bits
<1>5. Holds(bits, 1, ws)
  <2>1. 1 + Len(bits) - 1 <= Len(bits)  BY <1>4
  <2>2. \A i \in 1 .. Len(bits) : bits[1 + i - 1] = bits[i]
    <3>1. \A i \in 1 .. Len(bits) : 1 + i - 1 = i  BY <1>4
    <3>2. QED  BY <3>1
  <2>3. QED  BY <1>1, <2>1, <2>2 DEF Holds, Stands
<1>6. AllFit(x, w)  BY <1>1 DEF IsReadable
<1>7. PICK head : head = HeaderWrites(type, k)  OBVIOUS
<1>8. PICK m : m = 8 + k  OBVIOUS
<1>9. ASSUME NEW rest, NEW r, Puts(rest, r), Concat(ws, head, rest), type \in 0 .. 63
      PROVE  HeaderIsRead(bits, type, k) /\ Holds(bits, at, rest)
  <2>1. type \in Int  BY <1>9
  <2>2. Puts(head, m)  BY <1>3, <1>7, <1>8, <2>1, PutsHeader
  <2>3. Splits(bits, 1, head, m, rest)  BY <1>3, <1>4, <1>5, <1>9, <2>2, HoldsBoth
  <2>4. 1 + m = at
    <3>1. at = 9 + k /\ m = 8 + k /\ k \in Nat  BY <1>1, <1>3, <1>8
    <3>2. QED  BY ONLY <3>1
  <2>5. Holds(bits, 1, head) /\ Holds(bits, at, rest)  BY <2>3, <2>4 DEF Splits
  <2>6. HeaderIsRead(bits, type, k)  BY <1>3, <1>4, <1>7, <1>9, <2>5, HeaderRead
  <2>7. QED  BY <2>5, <2>6
<1>10. type \in 0 .. 63 /\ HeaderIsRead(bits, type, k) /\ BodyIsRead(bits, at, x, w, type, end)
  <2>1. CASE sub.kind = "Constant"
    <3>1. PICK y, rest : y = <<x[1]>> /\ rest = PlainWrites(y, w)  OBVIOUS
    <3>2. y \in [1 .. 1 -> Int]
      <4>1. x[1] \in Int  BY <1>1, <1>2
      <4>2. QED  BY <3>1, <4>1
    <3>3. Puts(rest, 1 * w)  BY <1>3, <3>1, <3>2, PutsPlain
    <3>4. type = 0 /\ type \in 0 .. 63  BY <1>1, <2>1 DEF SubframeType
    <3>5. Concat(ws, head, rest)
      BY <1>1, <1>7, <2>1, <3>1 DEF SubframeWrites, Concat
    <3>6. HeaderIsRead(bits, type, k) /\ Holds(bits, at, rest)  BY <1>9, <3>3, <3>4, <3>5
    <3>7. \A i \in DOMAIN x : x[i] = x[1]  BY <1>1, <2>1 DEF IsReadable
    <3>8. Len(x) >= 1 /\ Holds(bits, at, PlainWrites(<<x[1]>>, w))  BY <1>1, <1>2, <3>1, <3>6
    <3>9. BodyIsRead(bits, at, x, w, 0, at + w)
      BY <1>2, <1>3, <1>4, <1>6, <3>7, <3>8, ConstantBody
    <3>10. end = at + w
      <4>1. c = 8 + (bps - k) + k
        BY <1>1, <2>1 DEF CountedBits, ConstantBits, WastedBitsOverhead
      <4>2. end = c + 1 /\ w = bps - k /\ at = 9 + k  BY <1>1, <1>4
      <4>3. QED  BY ONLY <1>3, <1>4, <4>1, <4>2
    <3>11. QED  BY <3>4, <3>6, <3>9, <3>10
  <2>2. CASE sub.kind = "Verbatim"
    <3>1. PICK rest : rest = PlainWrites(x, w)  OBVIOUS
    <3>2. x \in [1 .. n -> Int]  BY <1>1, <1>2
    <3>3. Puts(rest, n * w)  BY <1>2, <1>3, <3>1, <3>2, PutsPlain
    <3>4. type = 1 /\ type \in 0 .. 63  BY <1>1, <2>2 DEF SubframeType
    <3>5. Concat(ws, head, rest)
      BY <1>1, <1>7, <2>2, <3>1 DEF SubframeWrites, Concat
    <3>6. HeaderIsRead(bits, type, k) /\ Holds(bits, at, rest)  BY <1>9, <3>3, <3>4, <3>5
    <3>7. BodyIsRead(bits, at, x, w, 1, at + Len(x) * w)
      BY <1>2, <1>3, <1>4, <1>6, <3>1, <3>6, VerbatimBody
    <3>8. end = at + Len(x) * w
      <4>1. PICK t : t = n * w  OBVIOUS
      <4>2. t \in Nat  BY ONLY <1>2, <1>3, <4>1
      <4>3. c = 8 + t + k
        BY <1>1, <2>2, <4>1 DEF CountedBits, VerbatimBits, WastedBitsOverhead
      <4>4. end = c + 1 /\ at = 9 + k  BY <1>1, <1>4
      <4>5. end = at + t  BY ONLY <1>3, <1>4, <4>2, <4>3, <4>4
      <4>6. QED  BY <1>1, <4>1, <4>5
    <3>9. QED  BY <3>4, <3>6, <3>7, <3>8
  <2>3. CASE sub.kind \notin {"Constant", "Verbatim"}
    <3>1. IsPredicted(sub)  BY <2>3 DEF IsSubframe, IsPlain
    <3>2. PICK rest : rest = PredictedWrites(sub, w)  OBVIOUS
    <3>3. Concat(ws, head, rest)
      BY <1>1, <1>7, <2>3, <3>2 DEF SubframeWrites, Concat
    <3>4. c = PredictedBits(sub, bps)  BY <1>1, <2>3 DEF CountedBits
    <3>5. end = PredictedBits(sub, bps) + 1  BY <1>4, <3>4
    <3>6. type \in 0 .. 63 /\ \E r : Puts(rest, r)  BY <1>1, <3>1, <3>2, PredictedPuts
    <3>7. HeaderIsRead(bits, type, k) /\ Holds(bits, at, rest)  BY <1>9, <3>3, <3>6
    <3>8. BodyIsRead(bits, at, x, w, type, end)
      BY <1>1, <1>4, <3>1, <3>2, <3>5, <3>7, PredictedBody
    <3>9. QED  BY <3>6, <3>7, <3>8
  <2>4. QED  BY <2>1, <2>2, <2>3
<1>11. QED  BY <1>1, <1>2, <1>3, <1>10, SubframeIs

-----------------------------------------------------------------------------
(* What a decision says, of every frame written.                           *)

\* What Lossless says of the bits put down.
ComesBack(bits, y, bps) ==
  R!ReadSubframe(bits, Len(y), bps) = [samples |-> y, at |-> Len(bits) + 1]

LEMMA OwnComesBack ==
  ASSUME HeaderInv, ValidBlock, NEW sub, IsSubframe(sub, info.bps), IsOwn(sub, Shifted, Wasted),
         NEW bits, bits = BitsOf(SubframeWrites(sub, info.bps))
  PROVE  ComesBack(bits, samples, info.bps)
<1>1. PICK bps, k, w, x, n, end : /\ bps = info.bps /\ k = Wasted /\ w = bps - k
                                  /\ x = Shifted /\ n = Len(samples) /\ end = Len(bits) + 1
  OBVIOUS
<1>2. /\ bps \in 1 .. WordBits /\ IsSubframe(sub, bps) /\ k = sub.wasted /\ x = sub.shifted
      /\ IsReadable(sub, w) /\ bits = BitsOf(SubframeWrites(sub, bps))
  BY <1>1, ValidBlockTyped DEF IsOwn
<1>3. SubframeComesBack(bits, x, k, bps, end)  BY <1>1, <1>2, SubframeRead
<1>4. Len(x) = n /\ samples \in Seq(Int) /\ n \in Nat /\ DOMAIN samples = 1 .. n
      /\ k \in 0 .. WordBits
  <2>1. Len(x) = n /\ samples \in Seq(Int) /\ n \in Nat /\ DOMAIN samples = 1 .. n
        /\ k \in 0 .. bps - 1
    BY <1>1, ShiftedBlock, ValidBlockTyped DEF IsBlock
  <2>2. QED  BY <1>2, <2>1, SubframesAssumption
<1>5. ASSUME NEW i \in 1 .. n PROVE x[i] * 2^k = samples[i]
  <2>1. x[i] \in Int /\ samples[i] = 2^k * x[i]  BY <1>1, <1>4, ShiftedUndone
  <2>2. PICK a, d \in Int : a = x[i] /\ d = 2^k  BY <1>4, <2>1, PowerTyped
  <2>3. a * d = d * a  BY <2>2
  <2>4. QED  BY <2>1, <2>2, <2>3
<1>6. Unshifted(x, k) = samples
  <2>1. Unshifted(x, k) = [i \in 1 .. n |-> x[i] * 2^k]  BY <1>4 DEF Unshifted
  <2>2. samples = [i \in 1 .. n |-> samples[i]]  BY <1>4
  <2>3. QED  BY <1>5, <2>1, <2>2
<1>7. R!ReadSubframe(bits, n, bps) = [samples |-> samples, at |-> end]
  BY <1>3, <1>4, <1>6 DEF SubframeComesBack
<1>8. QED  BY <1>1, <1>7 DEF ComesBack

\* What ExactIsOptimal says of a size, a block and the limits it was written under.
NoneCheaper(bits, y, i) ==
  LET wasted == CommonWastedBits(y, i.bps)
      x == ShiftSamples(y, wasted)
  IN  \A o \in 0 .. MaxFixedOrder(x), po \in 0 .. i.maxPorder :
        ValidPartitionOrder(Len(x), o, po) =>
          \A params \in [1 .. 2^po -> 0 .. MaxRiceParameter] :
            bits <= PredictorBits("FixedRice", o, 0, i.bps, wasted)
              + PartitionedBits(Residuals(x, FixedPredictor(o)), Len(x), o, po, params)

WriterInv ==
  /\ HeaderInv
  /\ Lossless /\ SizeIsCounted /\ NeverLargerThanVerbatim
  /\ ExactIsOptimal /\ AnalysisNeverThrows

LEMMA FillingKeeps ==
  ASSUME HeaderInv', outcome' = "filling"
  PROVE  WriterInv'
BY DEF WriterInv, Lossless, SizeIsCounted, NeverLargerThanVerbatim, ExactIsOptimal,
       AnalysisNeverThrows

\* An optimal subframe is one in the sense of ExactIsOptimal.
LEMMA OptimalMeans ==
  ASSUME HeaderInv, ValidBlock, NEW sub, IsOptimal(sub, Shifted, Wasted),
         NEW o \in 0 .. MaxFixedOrder(Shifted), NEW po \in 0 .. info.maxPorder,
         ValidPartitionOrder(Len(Shifted), o, po),
         NEW params \in [1 .. 2^po -> 0 .. MaxRiceParameter]
  PROVE  sub.bits <= PredictorBits("FixedRice", o, 0, info.bps, Wasted)
           + PartitionedBits(Residuals(Shifted, FixedPredictor(o)), Len(Shifted), o, po, params)
<1>1. PICK p, x, w : p = FixedPredictor(o) /\ x = Shifted /\ w = Wasted  OBVIOUS
<1>2. Order(p) = o
  <2>1. x \in Seq(Int) /\ Len(x) >= 1  BY <1>1, ShiftedBlock DEF IsBlock
  <2>2. MaxFixedOrder(x) \in 0 .. 4  BY <2>1, FixedOrders
  <2>3. o \in 0 .. 4  BY <1>1, <2>2
  <2>4. QED  BY <1>1, <2>3, FixedIsPredictor
<1>3. PICK n : n = 2^po  OBVIOUS
<1>4. params \in [1 .. n -> 0 .. MaxRiceParameter]  BY <1>3
<1>5. IsParameters(params, n)  BY <1>4 DEF IsParameters
<1>6. IsCheapest(sub, "FixedRice", p, 0, x, info.bps, w, info.maxPorder)
  BY <1>1, Zenon DEF IsOptimal
<1>7. ValidPartitionOrder(Len(x), Order(p), po) /\ IsParameters(params, 2^po)
  BY <1>1, <1>2, <1>3, <1>5
<1>8. sub.bits <= PredictorBits("FixedRice", Order(p), 0, info.bps, w)
                  + PartitionedBits(Residuals(x, p), Len(x), Order(p), po, params)
  BY <1>6, <1>7, Zenon DEF IsCheapest
<1>9. QED  BY <1>1, <1>2, <1>8

LEMMA WriteBestKeeps ==
  ASSUME HeaderInv, HeaderInv', NEW profile \in Profiles, WriteBest(profile)
  PROVE  WriterInv'
<1>1. PICK found \in {{}} \cup {{q} : q \in LpcCandidates} :
        /\ call' = [op |-> "best", profile |-> profile, found |-> found]
        /\ IF ValidBlock THEN EmitOwn(BestSubframe(profile, found)) ELSE Reject
  BY DEF WriteBest
<1>2. call'.op = "best" /\ call'.profile = profile /\ call'.op # "selected"  BY <1>1
<1>3. CASE ~ValidBlock
  <2>1. outcome' = "rejected" /\ info' = info /\ samples' = samples
    BY <1>1, <1>3 DEF Reject
  <2>2. ~ValidBlock'  BY <1>3, <2>1 DEF ValidBlock
  <2>3. QED
    BY <2>1, <2>2 DEF WriterInv, Lossless, SizeIsCounted, NeverLargerThanVerbatim,
                      ExactIsOptimal, AnalysisNeverThrows
<1>4. CASE ValidBlock
  <2>1. PICK sub : sub = BestSubframe(profile, found)  OBVIOUS
  <2>2. /\ IsFound(sub, profile) /\ IsOwn(sub, Shifted, Wasted)
        /\ profile # "OrderGuessMeanEstimateRice" => sub.bits <= LargestSize
        /\ profile = "Exact" /\ ~AllEqual => IsOptimal(sub, Shifted, Wasted)
    BY <1>4, <2>1, BestFound
  <2>3. Emit(sub, Decision(sub))  BY <1>1, <1>4, <2>1 DEF EmitOwn
  <2>4. info.bps \in 1 .. WordBits /\ IsSubframe(sub, info.bps)
    BY <1>4, <2>2, ShiftedBlock DEF IsFound
  <2>5. /\ info' = info /\ samples' = samples
        /\ \/ /\ outcome' = "written" /\ Len(body') = CountedBits(sub, info.bps)
              /\ body' = BitsOf(SubframeWrites(sub, info.bps)) /\ decision' = Decision(sub)
           \/ /\ outcome' = "rejected"
              /\ ~HeaderWritable(info.number, Len(samples), info.bps)
    BY <2>3, <2>4, EmitPutsCounted
  <2>6. CASE outcome' = "rejected"
    <3>1. ~HeaderWritable(info.number, Len(samples), info.bps)  BY <2>5, <2>6
    <3>2. QED
      BY <2>5, <2>6, <3>1 DEF WriterInv, Lossless, SizeIsCounted, NeverLargerThanVerbatim,
                              ExactIsOptimal, AnalysisNeverThrows
  <2>7. CASE outcome' # "rejected"
    <3>1. /\ outcome' = "written" /\ Len(body') = CountedBits(sub, info.bps)
          /\ body' = BitsOf(SubframeWrites(sub, info.bps)) /\ decision'.bits = sub.bits
      BY <2>5, <2>7 DEF Decision
    <3>2. SizeIsCounted'  BY <1>2, <2>2, <3>1 DEF SizeIsCounted, IsFound
    <3>3. NeverLargerThanVerbatim'
      <4>1. LargestSize = VerbatimBits(Len(samples'), info'.bps,
                                       CommonWastedBits(samples', info'.bps))
        BY <2>5 DEF LargestSize, Wasted
      <4>2. QED  BY <1>2, <2>2, <3>1, <4>1 DEF NeverLargerThanVerbatim, IsFound
    <3>4. ExactIsOptimal'
      <4>1. CASE profile = "Exact" /\ ~AllEqual
        <5>1. IsOptimal(sub, Shifted, Wasted)  BY <2>2, <4>1
        <5>2. \A o \in 0 .. MaxFixedOrder(Shifted), po \in 0 .. info.maxPorder :
                ValidPartitionOrder(Len(Shifted), o, po) =>
                  \A params \in [1 .. 2^po -> 0 .. MaxRiceParameter] :
                    sub.bits <= PredictorBits("FixedRice", o, 0, info.bps, Wasted)
                      + PartitionedBits(Residuals(Shifted, FixedPredictor(o)), Len(Shifted),
                                        o, po, params)
          BY <1>4, <5>1, OptimalMeans
        <5>3. NoneCheaper(sub.bits, samples, info)
          BY <5>2, Zenon DEF NoneCheaper, Shifted, Wasted
        <5>4. NoneCheaper(decision'.bits, samples', info')  BY <2>5, <3>1, <5>3
        <5>5. QED  BY <5>4, Zenon DEF ExactIsOptimal, NoneCheaper
      <4>2. CASE ~(profile = "Exact" /\ ~AllEqual)
        <5>1. AllEqual <=> AllEqual'  BY <2>5 DEF AllEqual
        <5>2. QED  BY <1>2, <4>2, <5>1 DEF ExactIsOptimal
      <4>3. QED  BY <4>1, <4>2
    <3>5. AnalysisNeverThrows'  BY <3>1 DEF AnalysisNeverThrows
    <3>6. Lossless'
      <4>1. ComesBack(body', samples, info.bps)  BY <1>4, <2>2, <2>4, <3>1, OwnComesBack
      <4>2. QED  BY <2>5, <4>1 DEF Lossless, ComesBack
    <3>7. QED  BY <3>2, <3>3, <3>4, <3>5, <3>6 DEF WriterInv
  <2>8. QED  BY <2>6, <2>7
<1>5. QED  BY <1>3, <1>4

LEMMA SelectedKeeps ==
  ASSUME HeaderInv, HeaderInv', NEW s \in Selections, NEW trusted \in BOOLEAN,
         call' = [op |-> "selected", selected |-> s, trusted |-> trusted],
         NEW d, ~trusted => d = Decision(SelectedSubframe(s)),
         \/ Accepted(s, trusted) /\ Emit(SelectedSubframe(s), d)
         \/ Reject
  PROVE  WriterInv'
<1>1. call'.op = "selected" /\ call'.op # "best" /\ call'.trusted = trusted  OBVIOUS
<1>2. NeverLargerThanVerbatim' /\ ExactIsOptimal' /\ AnalysisNeverThrows'
  BY <1>1 DEF NeverLargerThanVerbatim, ExactIsOptimal, AnalysisNeverThrows
<1>3. SizeIsCounted' /\ Lossless'
  <2>1. CASE outcome' # "written"  BY <2>1 DEF SizeIsCounted, Lossless
  <2>2. CASE outcome' = "written"
    <3>1. Accepted(s, trusted) /\ Emit(SelectedSubframe(s), d)  BY <2>2 DEF Reject
    <3>2. PICK sub : sub = SelectedSubframe(s)  OBVIOUS
    <3>3. /\ IsSubframe(sub, info.bps) /\ sub.bits = CountedBits(sub, info.bps)
          /\ IsOwn(sub, Shifted, Wasted)
      BY <3>1, <3>2, SelectedFound
    <3>4. ValidBlock /\ info.bps \in 1 .. WordBits
      <4>1. ValidBlock  BY <3>1 DEF Accepted
      <4>2. QED  BY <4>1, ValidBlockTyped
    <3>5. /\ info' = info /\ samples' = samples
          /\ Len(body') = CountedBits(sub, info.bps) /\ decision' = d
          /\ body' = BitsOf(SubframeWrites(sub, info.bps))
      BY <2>2, <3>1, <3>2, <3>3, <3>4, EmitPutsCounted
    <3>6. ~trusted => d.bits = sub.bits  BY <3>2 DEF Decision
    <3>7. SizeIsCounted'  BY <1>1, <3>3, <3>5, <3>6 DEF SizeIsCounted
    <3>8. ComesBack(body', samples, info.bps)  BY <3>3, <3>4, <3>5, OwnComesBack
    <3>9. Lossless'  BY <3>5, <3>8 DEF Lossless, ComesBack
    <3>10. QED  BY <3>7, <3>9
  <2>3. QED  BY <2>1, <2>2
<1>4. QED  BY <1>2, <1>3 DEF WriterInv

LEMMA WriterInvInductive ==
  ASSUME WriterInv, [Next]_vars
  PROVE  WriterInv'
<1>1. HeaderInv /\ HeaderInv'  BY HeaderInvInductive DEF WriterInv
<1>2. CASE PushSample
  <2>1. outcome' = "filling"  BY <1>2 DEF PushSample
  <2>2. QED  BY <1>1, <2>1, FillingKeeps
<1>3. ASSUME NEW profile \in Profiles, WriteBest(profile) PROVE WriterInv'
  BY <1>1, <1>3, WriteBestKeeps
<1>4. ASSUME NEW s \in Selections, WriteSelected(s) PROVE WriterInv'
  <2>1. PICK d : d = Decision(SelectedSubframe(s))  OBVIOUS
  <2>2. /\ call' = [op |-> "selected", selected |-> s, trusted |-> FALSE]
        /\ \/ Accepted(s, FALSE) /\ Emit(SelectedSubframe(s), d)
           \/ Reject
    BY <1>4, <2>1 DEF WriteSelected, EmitOwn
  <2>3. QED  BY <1>1, <2>1, <2>2, SelectedKeeps, FALSE \in BOOLEAN, Zenon
<1>5. ASSUME NEW s \in Selections, WriteSelectedWithDecision(s) PROVE WriterInv'
  <2>1. PICK d : /\ call' = [op |-> "selected", selected |-> s, trusted |-> TRUE]
                 /\ \/ Accepted(s, TRUE) /\ Emit(SelectedSubframe(s), d)
                    \/ Reject
    BY <1>5 DEF WriteSelectedWithDecision
  <2>2. QED  BY <1>1, <2>1, SelectedKeeps, TRUE \in BOOLEAN, Zenon
<1>6. CASE NextFrame
  <2>1. outcome' = "filling"  BY <1>6 DEF NextFrame
  <2>2. QED  BY <1>1, <2>1, FillingKeeps
<1>7. CASE UNCHANGED vars
  <2>1. /\ info' = info /\ samples' = samples /\ call' = call /\ outcome' = outcome
        /\ body' = body /\ decision' = decision
    BY <1>7 DEF vars
  <2>2. SizeIsCounted'  BY <2>1 DEF WriterInv, SizeIsCounted
  <2>3. NeverLargerThanVerbatim'  BY <2>1 DEF WriterInv, NeverLargerThanVerbatim
  <2>4. ExactIsOptimal'
    <3>1. SUFFICES ASSUME outcome' = "written", call'.op = "best", call'.profile = "Exact",
                          ~AllEqual'
                   PROVE  NoneCheaper(decision'.bits, samples', info')
      BY Zenon DEF ExactIsOptimal, NoneCheaper
    <3>2. outcome = "written" /\ call.op = "best" /\ call.profile = "Exact" /\ ~AllEqual
      BY <2>1, <3>1 DEF AllEqual
    <3>3. NoneCheaper(decision.bits, samples, info)
      BY <3>2, Zenon DEF WriterInv, ExactIsOptimal, NoneCheaper
    <3>4. QED  BY <2>1, <3>3
  <2>5. AnalysisNeverThrows'  BY <2>1 DEF WriterInv, AnalysisNeverThrows, ValidBlock
  <2>6. Lossless'  BY <2>1 DEF WriterInv, Lossless
  <2>7. QED  BY <1>1, <2>2, <2>3, <2>4, <2>5, <2>6 DEF WriterInv
<1>8. QED  BY <1>2, <1>3, <1>4, <1>5, <1>6, <1>7 DEF Next

LEMMA WriterInvariance == Spec => []WriterInv
<1>1. Init => WriterInv
  BY DEF Init, WriterInv, HeaderInv, Lossless, SizeIsCounted, NeverLargerThanVerbatim,
         ExactIsOptimal, AnalysisNeverThrows
<1>2. WriterInv /\ [Next]_vars => WriterInv'
  BY WriterInvInductive
<1>3. QED  BY <1>1, <1>2, PTL DEF Spec

\* What the writer lets out, a decoder turns back into the samples that came in, and
\* stops where the subframe does, whether the writer chose it or was handed it
\* (write_mono_best_frame, write_mono_selected_frame_impl).
THEOREM EverySampleComesBack == Spec => []Lossless
<1>1. WriterInv => Lossless  BY DEF WriterInv
<1>2. QED  BY <1>1, WriterInvariance, PTL

\* No block of legal samples is refused by write_mono_best_frame: whatever predictor
\* and parameters the analysis settles on, its codes go out in writes of a word at most.
THEOREM AnalysisAlwaysWrites == Spec => []AnalysisNeverThrows
<1>1. WriterInv => AnalysisNeverThrows  BY DEF WriterInv
<1>2. QED  BY <1>1, WriterInvariance, PTL

\* The bits a decision reports are the bits put down (fixed_rice_subframe_bits,
\* lpc_rice_subframe_bits, constant_subframe_bits, verbatim_subframe_bits).
THEOREM CountedIsWritten == Spec => []SizeIsCounted
<1>1. WriterInv => SizeIsCounted  BY DEF WriterInv
<1>2. QED  BY <1>1, WriterInvariance, PTL

\* No frame with counted sizes is larger than the block stored as it is.
THEOREM VerbatimIsTheMost == Spec => []NeverLargerThanVerbatim
<1>1. WriterInv => NeverLargerThanVerbatim  BY DEF WriterInv
<1>2. QED  BY <1>1, WriterInvariance, PTL

\* Settling each partition on its own, the exact profile finds the least of all
\* choices of fixed predictor, partition order and parameters.
THEOREM ExactFindsTheLeast == Spec => []ExactIsOptimal
<1>1. WriterInv => ExactIsOptimal  BY DEF WriterInv
<1>2. QED  BY <1>1, WriterInvariance, PTL
=============================================================================
