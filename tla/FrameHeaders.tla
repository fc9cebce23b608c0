---------------------------- MODULE FrameHeaders ----------------------------
(***************************************************************************)
(* The header of a native FLAC frame (write_frame_with_body): the block    *)
(* size code and its one or two bytes, and the frame number in the         *)
(* UTF-8-like code.  A frame number is given by its base-64 digits, least  *)
(* significant first: seven of them, one more than the format can hold.    *)
(***************************************************************************)
EXTENDS Integers, Sequences, FiniteSets

CONSTANT ByteValues      \* 256: the block sizes that one byte can state

ASSUME HeadersAssumption == ByteValues \in Nat \ {0}

FrameNumbers == [1 .. 7 -> 0 .. 63]

\* What the lead byte holds above n continuation bytes, and the marks it carries.
LeadLimit(n) == IF n = 0 THEN 128 ELSE <<32, 16, 8, 4, 2, 1>>[n]
LeadMark(n) == IF n = 0 THEN 0 ELSE <<192, 224, 240, 248, 252, 254>>[n]

LeadValue(number, n) == IF n = 0 THEN number[1] + 64 * number[2] ELSE number[n + 1]

\* The value is below the n-th threshold: nothing is left above the lead byte.
Fits(number, n) ==
  /\ LeadValue(number, n) < LeadLimit(n)
  /\ \A i \in 1 .. 7 : i > n + 1 /\ ~(n = 0 /\ i = 2) => number[i] = 0

CodeLength(number) ==
  CHOOSE n \in 0 .. 6 : Fits(number, n) /\ \A m \in 0 .. n - 1 : ~Fits(number, m)

Representable(number) == \E n \in 0 .. 6 : Fits(number, n)

\* Mutant: the continuation bytes go out least significant first.
CodedNumberReversed(number) ==
  LET n == CodeLength(number)
  IN  [i \in 1 .. n + 1 |-> IF i = 1 THEN LeadMark(n) + LeadValue(number, n)
                                     ELSE 128 + number[i - 1]]

CodedNumber(number) ==
  LET n == CodeLength(number)
  IN  [i \in 1 .. n + 1 |-> IF i = 1 THEN LeadMark(n) + LeadValue(number, n)
                                     ELSE 128 + number[n + 2 - i]]

-----------------------------------------------------------------------------
BlockSizeCode(size) == IF size <= ByteValues THEN 6 ELSE 7

CodedSize(size) ==
  IF BlockSizeCode(size) = 6
  THEN <<(size - 1) % ByteValues>>
  ELSE <<((size - 1) \div ByteValues) % ByteValues, (size - 1) % ByteValues>>

BitsPerSampleCode(bps) ==
  CASE bps = 8 -> 1 [] bps = 12 -> 2 [] bps = 16 -> 4
    [] bps = 20 -> 5 [] bps = 24 -> 6 [] bps = 32 -> 7

HeaderOf(number, size, bps) ==
  [blocking |-> BlockSizeCode(size), bps |-> BitsPerSampleCode(bps),
   bytes |-> CodedNumber(number) \o CodedSize(size)]

\* The inputs write_frame_with_body refuses.
HeaderWritable(number, size, bps) ==
  /\ bps \in {8, 12, 16, 20, 24, 32}
  /\ size >= 1 /\ size <= ByteValues * ByteValues
  /\ Representable(number)

-----------------------------------------------------------------------------
\* A decoder's view of it: the lead byte tells how many bytes follow.
TailBytes(lead) ==
  IF lead < 128 THEN 0
  ELSE CHOOSE n \in 1 .. 6 : lead >= LeadMark(n) /\ lead < LeadMark(n) + LeadLimit(n)

ReadNumber(bytes) ==
  LET n == TailBytes(bytes[1])
  IN  IF n = 0
      THEN <<bytes[1] % 64, bytes[1] \div 64, 0, 0, 0, 0, 0>>
      ELSE [i \in 1 .. 7 |-> IF i <= n THEN bytes[n + 2 - i] - 128
                             ELSE IF i = n + 1 THEN bytes[1] - LeadMark(n) ELSE 0]

ReadSize(header) ==
  LET at == TailBytes(header.bytes[1]) + 2
  IN  IF header.blocking = 6
      THEN header.bytes[at] + 1
      ELSE header.bytes[at] * ByteValues + header.bytes[at + 1] + 1

ReadBitsPerSample(header) == <<8, 12, 0, 16, 20, 24, 32>>[header.bps]
=============================================================================
