------------------------------ MODULE Subframes ------------------------------
(***************************************************************************)
(* The arithmetic of the native FLAC writer (flac_native_writer.cpp): how  *)
(* one block of samples is shifted, predicted, partitioned and costed, and *)
(* the calls on the BitWriter that put the chosen subframe down.           *)
(*                                                                         *)
(* A predictor is [coefs, shift]; the fixed predictors are the ones with   *)
(* the binomial coefficients and no shift.  A subframe carries everything  *)
(* the writer needs: kind, predictor, porder, params, wasted, bits, and    *)
(* the shifted samples.                                                    *)
(***************************************************************************)
EXTENDS Integers, Sequences, SequencesExt, FiniteSetsExt

CONSTANTS MaxRiceParameter,       \* 14: larger ones are escape codes
          MaxLpcOrder,            \* 12
          MinLpcBlockSize,        \* 256: shorter blocks get no LPC analysis
          WordBits                \* 64: the widest write_bits

ASSUME SubframesAssumption ==
  /\ MaxRiceParameter \in Nat /\ MaxRiceParameter <= 14
  /\ MaxLpcOrder \in Nat /\ MaxLpcOrder <= 32 /\ MinLpcBlockSize \in Nat \ {0}
  /\ WordBits \in Nat /\ WordBits > MaxRiceParameter

\* Arithmetic, true whatever the constants are: stated for the proofs, as the proof
\* system knows nothing about exponentiation.
ASSUME PowersAssumption ==
  \A n \in 0 .. WordBits : 2^n \in Nat \ {0} /\ 2^(n + 1) = 2 * 2^n

SumSeq(s) == FoldLeft(+, 0, s)
Magnitude(x) == IF x < 0 THEN -x ELSE x
FitsBits(x, bits) == x >= -(2^(bits - 1)) /\ x <= 2^(bits - 1) - 1

-----------------------------------------------------------------------------
\* Wasted bits: low zero bits every sample shares, never the whole width.
TrailingZeroBits(x, bps) ==
  IF x = 0 THEN bps ELSE Max({z \in 0 .. bps - 1 : x % 2^z = 0})

CommonWastedBits(samples, bps) ==
  Min({TrailingZeroBits(samples[i], bps) : i \in DOMAIN samples} \cup {bps - 1})

\* Mutant: a count just below the width is not exempt from the witness bit.
ObservedWithWitness(samples, bps, selected) ==
  /\ selected < bps
  /\ \A i \in DOMAIN samples : samples[i] % 2^selected = 0
  /\ \E i \in DOMAIN samples : (samples[i] \div 2^selected) % 2 = 1

\* The one-pass check of a selected count that the trusted path makes.
ObservedWastedBits(samples, bps, selected) ==
  /\ selected < bps
  /\ \A i \in DOMAIN samples : samples[i] % 2^selected = 0
  /\ \/ selected + 1 >= bps
     \/ \E i \in DOMAIN samples : (samples[i] \div 2^selected) % 2 = 1

\* C++ division truncates towards zero.
ShiftSamples(samples, wasted) ==
  [i \in DOMAIN samples |->
     IF samples[i] < 0 THEN -((-samples[i]) \div 2^wasted)
                       ELSE samples[i] \div 2^wasted]

-----------------------------------------------------------------------------
\* Prediction.
FixedPredictor(order) ==
  [coefs |-> << <<>>, <<1>>, <<2, -1>>, <<3, -3, 1>>, <<4, -6, 4, -1>> >>[order + 1],
   shift |-> 0]

Order(predictor) == Len(predictor.coefs)

ArithmeticShiftRight(x, shift) ==
  IF x >= 0 THEN x \div 2^shift ELSE -((-x + 2^shift - 1) \div 2^shift)

Prediction(x, i, predictor) ==
  ArithmeticShiftRight(
    SumSeq([j \in DOMAIN predictor.coefs |-> predictor.coefs[j] * x[i - j]]),
    predictor.shift)

Residuals(x, predictor) ==
  [k \in 1 .. Len(x) - Order(predictor) |->
     x[k + Order(predictor)] - Prediction(x, k + Order(predictor), predictor)]

\* Mutant: negative residuals are not moved up by one.
FoldUnmoved(r) == IF r >= 0 THEN 2 * r ELSE 2 * (-r) + 1

FoldSigned(r) == IF r >= 0 THEN 2 * r ELSE 2 * (-(r + 1)) + 1

-----------------------------------------------------------------------------
\* Partitions of the residuals, numbered from 0; the first gives up order of them.
ValidPartitionOrder(size, order, porder) ==
  size % 2^porder = 0 /\ size \div 2^porder > order

\* Where a partition starts among the residuals, counted from 0.
PartitionStart(size, order, porder, part) ==
  IF part = 0 THEN 0 ELSE part * (size \div 2^porder) - order

PartitionsOf(residuals, size, order, porder) ==
  [p \in 1 .. 2^porder |-> SubSeq(residuals, PartitionStart(size, order, porder, p - 1) + 1,
                                             PartitionStart(size, order, porder, p))]

\* A search that replaces its best only by something strictly smaller.
FirstLeast(f) ==
  CHOOSE k \in DOMAIN f : \A j \in DOMAIN f : f[k] < f[j] \/ (f[k] = f[j] /\ k <= j)

\* Rice codes: the exact cost, and the libFLAC-style estimate from the mean.
RiceBits(rs, k) == SumSeq([i \in DOMAIN rs |-> (FoldSigned(rs[i]) \div 2^k) + 1 + k])

\* Mutant: the loop stops one short of the largest parameter.
ChooseBelowLargest(rs) == FirstLeast([k \in 0 .. MaxRiceParameter - 1 |-> RiceBits(rs, k)])

ChooseRiceParameter(rs) == FirstLeast([k \in 0 .. MaxRiceParameter |-> RiceBits(rs, k)])

AbsSum(rs) == SumSeq([i \in DOMAIN rs |-> Magnitude(rs[i])])

MeanRiceParameter(absSum, count) ==
  IF count = 0 \/ absSum < 2 THEN 0
  ELSE LET mean == ((absSum - 1) * (2^18 \div count)) \div 2^18
       IN  IF mean = 0 THEN 0
           ELSE Min({MaxRiceParameter, Max({e \in 0 .. 30 : 2^e <= mean}) + 1})

MeanPartitionBits(k, count, absSum) ==
  LET bits == 4 + (1 + k) * count
              + (IF k = 0 THEN 2 * absSum ELSE absSum \div 2^(k - 1))
  IN  IF bits > count \div 2 THEN bits - count \div 2 ELSE 0

MeanParameters(parts) ==
  [p \in DOMAIN parts |-> MeanRiceParameter(AbsSum(parts[p]), Len(parts[p]))]

MeanBits(parts, params) ==
  6 + SumSeq([p \in DOMAIN parts |->
                MeanPartitionBits(params[p], Len(parts[p]), AbsSum(parts[p]))])

MeanCandidate(porder, parts) ==
  [porder |-> porder, params |-> MeanParameters(parts),
   bits   |-> MeanBits(parts, MeanParameters(parts))]

\* Large partition orders are tried first, and the first best is kept.
LargestLeast(candidates) ==
  CHOOSE c \in candidates : \A d \in candidates :
    c.bits < d.bits \/ (c.bits = d.bits /\ c.porder >= d.porder)

MeanChoice(residuals, size, order, maxPorder) ==
  LargestLeast({MeanCandidate(po, PartitionsOf(residuals, size, order, po)) :
                  po \in {q \in 0 .. maxPorder : ValidPartitionOrder(size, order, q)}})

-----------------------------------------------------------------------------
\* Subframe sizes in bits, before the frame is padded to a byte.
\* Mutant: only the flag bit of the header is counted.
WastedBitsUncounted(wasted) == 0

WastedBitsOverhead(wasted) == wasted

ConstantBits(bps, wasted) == 8 + (bps - wasted) + WastedBitsOverhead(wasted)
VerbatimBits(size, bps, wasted) == 8 + size * (bps - wasted) + WastedBitsOverhead(wasted)

\* What precedes the partitions; precision is 0 for a fixed predictor.
PredictorBits(kind, order, precision, bps, wasted) ==
  8 + WastedBitsOverhead(wasted) + order * (bps - wasted)
    + (IF kind = "LpcRice" THEN 4 + 5 + order * precision ELSE 0)

CodedBits(parts, params) ==
  SumSeq([p \in DOMAIN parts |-> 4 + RiceBits(parts[p], params[p])])

PartitionedBits(residuals, size, order, porder, params) ==
  2 + 4 + CodedBits(PartitionsOf(residuals, size, order, porder), params)

-----------------------------------------------------------------------------
\* Subframes.
Plain(kind, x, wasted, bits) ==
  [kind |-> kind, predictor |-> FixedPredictor(0), precision |-> 0, porder |-> 0,
   params |-> <<>>, wasted |-> wasted, shifted |-> x, bits |-> bits]

Predicted(kind, predictor, precision, porder, params, x, bps, wasted) ==
  [kind |-> kind, predictor |-> predictor, precision |-> precision,
   porder |-> porder, params |-> params, wasted |-> wasted, shifted |-> x,
   bits |-> PredictorBits(kind, Order(predictor), precision, bps, wasted)
            + PartitionedBits(Residuals(x, predictor), Len(x), Order(predictor),
                              porder, params)]

ChosenParameters(parts) == [p \in DOMAIN parts |-> ChooseRiceParameter(parts[p])]

ExactParameters(residuals, size, order, porder) ==
  ChosenParameters(PartitionsOf(residuals, size, order, porder))

\* Strictly smaller wins, so the first of equals in (order, porder) stays.
FirstBest(subframes) ==
  CHOOSE c \in subframes : \A d \in subframes :
    \/ c.bits < d.bits
    \/ c.bits = d.bits /\ Order(c.predictor) < Order(d.predictor)
    \/ c.bits = d.bits /\ Order(c.predictor) = Order(d.predictor) /\ c.porder <= d.porder

ExactSubframes(kind, predictor, precision, x, bps, wasted, maxPorder) ==
  {Predicted(kind, predictor, precision, po,
             ExactParameters(Residuals(x, predictor), Len(x), Order(predictor), po),
             x, bps, wasted) :
     po \in {q \in 0 .. maxPorder : ValidPartitionOrder(Len(x), Order(predictor), q)}}

\* The best subframe of one predictor; rice is how its partitions are chosen.
AnalyzePredictor(kind, predictor, precision, x, bps, wasted, maxPorder, rice) ==
  LET mean == MeanChoice(Residuals(x, predictor), Len(x), Order(predictor), maxPorder)
      Estimated(m) == Predicted(kind, predictor, precision, m.porder, m.params, x, bps, wasted)
  IN  CASE rice = "Exact" ->
             FirstBest(ExactSubframes(kind, predictor, precision, x, bps, wasted, maxPorder))
        [] rice = "MeanEstimate" -> Estimated(mean)
        [] rice = "MeanEstimateOnly" ->
             [Estimated(mean) EXCEPT !.bits =
                PredictorBits(kind, Order(predictor), precision, bps, wasted) + mean.bits]

MaxFixedOrder(x) == IF Len(x) > 1 THEN Min({4, Len(x) - 1}) ELSE 0

ChooseFixed(x, bps, wasted, maxPorder) ==
  FirstBest({AnalyzePredictor("FixedRice", FixedPredictor(o), 0, x, bps, wasted,
                              maxPorder, "Exact") : o \in 0 .. MaxFixedOrder(x)})

GuessFixedOrder(x) ==
  FirstLeast([o \in 0 .. MaxFixedOrder(x) |-> AbsSum(Residuals(x, FixedPredictor(o)))])

-----------------------------------------------------------------------------
\* The calls on the BitWriter: a value of some width, or a run of zero bits.
Write(value, width) == [value |-> value, width |-> width, run |-> FALSE]
ZeroRun(n) == [value |-> 0, width |-> n, run |-> TRUE]

HeaderWrites(type, wasted) ==
  <<Write(0, 1), Write(type, 6)>> \o
  (IF wasted = 0 THEN <<Write(0, 1)>>
   ELSE <<Write(1, 1), ZeroRun(wasted - 1), Write(1, 1)>>)

\* Mutant: every code in one write.
RiceInOneWrite(r, k) ==
  <<Write(2^k + (FoldSigned(r) % 2^k), (FoldSigned(r) \div 2^k) + 1 + k)>>

\* A Rice code goes out in one write when it fits the word.
RiceWrites(r, k) ==
  LET quotient == FoldSigned(r) \div 2^k
      stop     == 2^k + (FoldSigned(r) % 2^k)
  IN  IF quotient <= (WordBits - 1) - k
      THEN <<Write(stop, quotient + 1 + k)>>
      ELSE <<ZeroRun(quotient), Write(stop, k + 1)>>

PartitionWrites(rs, k) ==
  <<Write(k, 4)>> \o FlattenSeq([i \in DOMAIN rs |-> RiceWrites(rs[i], k)])

PlainWrites(values, width) == [i \in DOMAIN values |-> Write(values[i], width)]

ResidualWrites(porder, parts, params) ==
  <<Write(0, 2), Write(porder, 4)>> \o
  FlattenSeq([p \in DOMAIN parts |-> PartitionWrites(parts[p], params[p])])

\* What follows the header of a predicted subframe.
PredictedWrites(sub, width) ==
  PlainWrites(SubSeq(sub.shifted, 1, Order(sub.predictor)), width) \o
  (IF sub.kind = "FixedRice" THEN <<>>
   ELSE <<Write(sub.precision - 1, 4), Write(sub.predictor.shift, 5)>>
        \o PlainWrites(sub.predictor.coefs, sub.precision)) \o
  ResidualWrites(sub.porder,
                 PartitionsOf(Residuals(sub.shifted, sub.predictor), Len(sub.shifted),
                              Order(sub.predictor), sub.porder),
                 sub.params)

SubframeType(sub) ==
  CASE sub.kind = "Constant"  -> 0
    [] sub.kind = "Verbatim"  -> 1
    [] sub.kind = "FixedRice" -> 8 + Order(sub.predictor)
    [] sub.kind = "LpcRice"   -> 32 + Order(sub.predictor) - 1

SubframeWrites(sub, bps) ==
  HeaderWrites(SubframeType(sub), sub.wasted) \o
  CASE sub.kind = "Constant" -> PlainWrites(<<sub.shifted[1]>>, bps - sub.wasted)
    [] sub.kind = "Verbatim" -> PlainWrites(sub.shifted, bps - sub.wasted)
    [] OTHER                 -> PredictedWrites(sub, bps - sub.wasted)

\* write_bits throws when asked for more than a word.
Writable(writes) == \A i \in DOMAIN writes : writes[i].run \/ writes[i].width <= WordBits

BitsOf(writes) ==
  FlattenSeq([i \in DOMAIN writes |->
    [b \in 1 .. writes[i].width |->
       IF writes[i].run THEN 0
       ELSE (writes[i].value \div 2^(writes[i].width - b)) % 2]])
=============================================================================
