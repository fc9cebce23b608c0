--------------------------- MODULE SubframeReader ---------------------------
(***************************************************************************)
(* What a FLAC decoder reads back from the bits of one mono subframe.  The *)
(* repository decodes with libFLAC, so this module is the format itself:   *)
(* it knows the block size and the sample width from the frame header, and *)
(* nothing of how the writer chose.  It uses none of the writer's helpers. *)
(***************************************************************************)
EXTENDS Integers, Sequences, FiniteSetsExt

ReadUnsigned(bits, at, width) ==
  LET value[n \in 0 .. width] ==
        IF n = 0 THEN 0 ELSE 2 * value[n - 1] + bits[at + n - 1]
  IN  value[width]

ReadSigned(bits, at, width) ==
  LET v == ReadUnsigned(bits, at, width)
  IN  IF v >= 2^(width - 1) THEN v - 2^width ELSE v

ReadZeros(bits, at) ==
  Min({n \in 0 .. Len(bits) - at : bits[at + n] = 1}
      \cup {Len(bits) - at + 1})       \* no one bit: run off the end

ReadSignedBlock(bits, at, width, count) ==
  [i \in 1 .. count |-> ReadSigned(bits, at + (i - 1) * width, width)]

\* One Rice code, appended to what was read so far.
ReadRice(bits, state, k) ==
  LET q == ReadZeros(bits, state.at)
      v == q * 2^k + ReadUnsigned(bits, state.at + q + 1, k)
  IN  [at  |-> state.at + q + 1 + k,
       got |-> Append(state.got, IF v % 2 = 0 THEN v \div 2 ELSE -((v + 1) \div 2))]

\* One partition: a parameter, then codes.
ReadPartition(bits, state, count) ==
  LET k == ReadUnsigned(bits, state.at, 4)
      after[i \in 0 .. count] ==
        IF i = 0 THEN [state EXCEPT !.at = @ + 4] ELSE ReadRice(bits, after[i - 1], k)
  IN  after[count]

\* The residual section: a method, an order, then each partition; the first one
\* gives up order of its codes.
ReadResiduals(bits, at, size, order) ==
  LET porder == ReadUnsigned(bits, at + 2, 4)
      count(part) == (size \div 2^porder) - (IF part = 1 THEN order ELSE 0)
      after[part \in 0 .. 2^porder] ==
        IF part = 0 THEN [at |-> at + 6, got |-> <<>>]
        ELSE ReadPartition(bits, after[part - 1], count(part))
  IN  after[2^porder]

\* Undo the prediction, one sample after the other.
Foretold(x, coefs, shift) ==
  LET sum[j \in 0 .. Len(coefs)] ==
        IF j = 0 THEN 0 ELSE sum[j - 1] + coefs[j] * x[Len(x) + 1 - j]
  IN  sum[Len(coefs)] \div 2^shift

RestoreNext(x, residual, coefs, shift) == Append(x, residual + Foretold(x, coefs, shift))

Restore(warm, residuals, coefs, shift) ==
  LET restored[n \in 0 .. Len(residuals)] ==
        IF n = 0 THEN warm ELSE RestoreNext(restored[n - 1], residuals[n], coefs, shift)
  IN  restored[Len(residuals)]

BinomialCoefs == <<<<1>>, <<2, -1>>, <<3, -3, 1>>, <<4, -6, 4, -1>>>>

ReadFixed(bits, at, size, width, order) ==
  LET rs == ReadResiduals(bits, at + order * width, size, order)
      coefs == IF order = 0 THEN <<>> ELSE BinomialCoefs[order]
  IN  [samples |-> Restore(ReadSignedBlock(bits, at, width, order), rs.got, coefs, 0),
       at |-> rs.at]

ReadLpc(bits, at, size, width, order) ==
  LET after     == at + order * width
      precision == ReadUnsigned(bits, after, 4) + 1
      shift     == ReadSigned(bits, after + 4, 5)
      coefs     == ReadSignedBlock(bits, after + 9, precision, order)
      rs        == ReadResiduals(bits, after + 9 + order * precision, size, order)
  IN  [samples |-> Restore(ReadSignedBlock(bits, at, width, order), rs.got, coefs, shift),
       at |-> rs.at]

ReadBody(bits, at, size, width, type) ==
  CASE type = 0 -> [samples |-> [i \in 1 .. size |-> ReadSigned(bits, at, width)],
                    at |-> at + width]
    [] type = 1 -> [samples |-> ReadSignedBlock(bits, at, width, size),
                    at |-> at + size * width]
    [] type \in 8 .. 12  -> ReadFixed(bits, at, size, width, type - 8)
    [] type \in 32 .. 63 -> ReadLpc(bits, at, size, width, type - 31)

\* The samples of a subframe, and where the bits after it start.
ReadSubframe(bits, size, bps) ==
  LET type   == ReadUnsigned(bits, 2, 6)
      zeros  == ReadZeros(bits, 9)
      wasted == IF bits[8] = 0 THEN 0 ELSE zeros + 1
      body   == ReadBody(bits, IF bits[8] = 0 THEN 9 ELSE 10 + zeros, size,
                         bps - wasted, type)
  IN  [samples |-> [i \in DOMAIN body.samples |-> body.samples[i] * 2^wasted],
       at |-> body.at]
=============================================================================
