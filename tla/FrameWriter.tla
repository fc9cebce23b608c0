----------------------------- MODULE FrameWriter -----------------------------
(***************************************************************************)
(* One FLAC frame after another, from samples to bits: the two families of *)
(* calls by which the encoders write a frame (flac_native_writer.cpp).     *)
(*                                                                         *)
(*   WriteBest      write_mono_best_frame: the writer analyses the block   *)
(*                  under a profile and picks the subframe (CPU encoder);  *)
(*   WriteSelected  write_mono_selected_frame[_with_decision]: a device    *)
(*                  picked, the writer validates and writes (accelerated   *)
(*                  encoder).                                              *)
(*                                                                         *)
(* The coefficients of an LPC candidate come out of floating-point         *)
(* arithmetic and are not computed here: any quantized predictor the       *)
(* analysis could produce may be its best, or none may be found.           *)
(***************************************************************************)
EXTENDS Subframes, FrameHeaders

R == INSTANCE SubframeReader

CONSTANTS Infos,            \* FlacFrameInfo: number, bps, maxLpcOrder, precision, maxPorder
          SampleValues,     \* the samples that occur
          BlockLimit,       \* bound: samples in a block, for each info
          Quantized,        \* predictors LPC analysis may come up with
          Selections        \* FlacSelectedSubframe values a caller may pass

\* A sample of the widest kind goes out in one write, and so does a coefficient.
ASSUME WriterAssumption ==
  /\ WordBits >= 15
  /\ SampleValues \subseteq Int /\ BlockLimit \in [Infos -> Nat]
  /\ \A i \in Infos : /\ i.number \in FrameNumbers /\ i.maxLpcOrder \in Nat
                      /\ i.maxPorder \in 0 .. 8 /\ i.precision \in 1 .. 15
                      /\ i.bps \in {8, 12, 16, 20, 24, 32} => i.bps <= WordBits

\* The types of FlacSelectedSubframe's fields, and the shift quantization clamps.
ASSUME SelectionsAssumption ==
  /\ \A s \in Selections :
       /\ s.kind \in {"Constant", "Verbatim", "FixedRice", "LpcRice"}
       /\ s.predictor.coefs \in Seq(Int) /\ s.predictor.shift \in Int
       /\ s.precision \in Nat /\ s.porder \in Nat /\ s.wasted \in Nat
       /\ s.params \in Seq(Nat)
  /\ \A q \in Quantized : q.coefs \in Seq(Int) /\ q.shift \in 0 .. 15

VARIABLES info,       \* FlacFrameInfo of the frame
          samples,    \* the block
          call,       \* how the frame was written
          outcome,    \* "filling" | "written" | "rejected"
          header, body, decision

vars == <<info, samples, call, outcome, header, body, decision>>

NoCall == [op |-> "none"]
Nothing == <<>>

Init ==
  /\ info \in Infos
  /\ samples = <<>> /\ call = NoCall /\ outcome = "filling"
  /\ header = Nothing /\ body = Nothing /\ decision = Nothing

PushSample ==
  /\ outcome = "filling" /\ Len(samples) < BlockLimit[info]
  /\ \E x \in SampleValues : samples' = Append(samples, x)
  /\ UNCHANGED <<info, call, outcome, header, body, decision>>

NextFrame ==
  /\ outcome # "filling"
  /\ samples' = <<>> /\ call' = NoCall /\ outcome' = "filling"
  /\ header' = Nothing /\ body' = Nothing /\ decision' = Nothing
  /\ UNCHANGED info

-----------------------------------------------------------------------------
Decision(sub) ==
  [kind |-> sub.kind, order |-> Order(sub.predictor), porder |-> sub.porder,
   wasted |-> sub.wasted, bits |-> sub.bits]

Reject == /\ outcome' = "rejected"
          /\ UNCHANGED <<info, samples, header, body, decision>>

\* Serialise first; the frame reaches the output only when that did not throw.
EmitWrites(writes, returned) ==
  IF Writable(writes) /\ HeaderWritable(info.number, Len(samples), info.bps)
  THEN /\ outcome' = "written"
       /\ header' = HeaderOf(info.number, Len(samples), info.bps)
       /\ body' = BitsOf(writes)
       /\ decision' = returned
       /\ UNCHANGED <<info, samples>>
  ELSE Reject

Emit(sub, returned) == EmitWrites(SubframeWrites(sub, info.bps), returned)

EmitOwn(sub) == Emit(sub, Decision(sub))

ValidBlock ==
  /\ info.bps \in {8, 12, 16, 20, 24, 32}
  /\ samples # <<>>
  /\ \A i \in DOMAIN samples : FitsBits(samples[i], info.bps)

AllEqual == \A i \in DOMAIN samples : samples[i] = samples[1]

-----------------------------------------------------------------------------
\* The profiles differ in the search of predictors and in the Rice costing; the
\* two subdivide-tukey3 ones differ from two of these in the LPC windows only.
Profiles == {"Exact", "OrderGuessExactRice", "OrderGuessMeanRice",
             "OrderGuessMeanEstimateRice"}

RiceOf(profile) ==
  CASE profile \in {"Exact", "OrderGuessExactRice"} -> "Exact"
    [] profile = "OrderGuessMeanRice"               -> "MeanEstimate"
    [] profile = "OrderGuessMeanEstimateRice"       -> "MeanEstimateOnly"

FixedSubframe(profile, x, wasted) ==
  IF profile = "Exact"
  THEN ChooseFixed(x, info.bps, wasted, info.maxPorder)
  ELSE AnalyzePredictor("FixedRice", FixedPredictor(GuessFixedOrder(x)), 0, x,
                        info.bps, wasted, info.maxPorder, RiceOf(profile))

\* Orders LPC analysis is run for.
LpcOrders ==
  IF Len(samples) < MinLpcBlockSize THEN {}
  ELSE 1 .. Min({info.maxLpcOrder, MaxLpcOrder, Len(samples) - 1})

\* Quantization rounds and clamps to the precision; an all-zero result is dropped.
LpcCandidates ==
  {q \in Quantized :
     /\ Order(q) \in LpcOrders
     /\ \A j \in DOMAIN q.coefs : FitsBits(q.coefs[j], info.precision)
     /\ \E j \in DOMAIN q.coefs : q.coefs[j] # 0}

LpcSubframe(profile, q, x, wasted) ==
  AnalyzePredictor("LpcRice", q, info.precision, x, info.bps, wasted,
                   info.maxPorder, RiceOf(profile))

\* Mutant: LPC is compared with fixed only.
ChooseLpcOverFixed(fixed, lpcs, verbatim) ==
  LET better == {l \in lpcs : l.bits < fixed.bits}
  IN  IF better # {} THEN CHOOSE l \in better : TRUE
      ELSE IF fixed.bits < verbatim.bits THEN fixed ELSE verbatim

ChooseSubframe(fixed, lpcs, verbatim) ==
  LET better == {l \in lpcs : l.bits < fixed.bits /\ l.bits < verbatim.bits}
  IN  IF better # {} THEN CHOOSE l \in better : TRUE
      ELSE IF fixed.bits < verbatim.bits THEN fixed ELSE verbatim

\* lpcs holds the best LPC subframe, when analysis found one.
BestSubframe(profile, found) ==
  LET wasted == CommonWastedBits(samples, info.bps)
      x      == ShiftSamples(samples, wasted)
  IN  IF AllEqual
      THEN Plain("Constant", x, wasted, ConstantBits(info.bps, wasted))
      ELSE ChooseSubframe(
             FixedSubframe(profile, x, wasted),
             {LpcSubframe(profile, q, x, wasted) : q \in found},
             Plain("Verbatim", x, wasted, VerbatimBits(Len(x), info.bps, wasted)))

WriteBest(profile) ==
  /\ outcome = "filling"
  /\ \E found \in {{}} \cup {{q} : q \in LpcCandidates} :
       /\ call' = [op |-> "best", profile |-> profile, found |-> found]
       /\ IF ValidBlock
          THEN EmitOwn(BestSubframe(profile, found))
          ELSE Reject

-----------------------------------------------------------------------------
\* A selection s: kind, predictor, precision, porder, wasted, params.
ShapeValid(s) ==
  /\ Order(s.predictor) < Len(samples)
  /\ s.porder <= info.maxPorder
  /\ s.kind = "FixedRice" => \E o \in 0 .. 4 : s.predictor = FixedPredictor(o)
  /\ s.kind = "LpcRice" =>
       /\ Order(s.predictor) \in 1 .. Min({32, info.maxLpcOrder})
       /\ s.precision \in 1 .. 15 /\ s.predictor.shift \in 0 .. 15
       /\ \A j \in DOMAIN s.predictor.coefs : FitsBits(s.predictor.coefs[j], s.precision)

ParametersValid(s) ==
  /\ ValidPartitionOrder(Len(samples), Order(s.predictor), s.porder)
  /\ s.params # <<>> =>
       /\ Len(s.params) = 2^s.porder
       /\ \A p \in DOMAIN s.params : s.params[p] <= MaxRiceParameter

\* With a trusted decision the predicted kinds are validated in one pass.
WastedBitsMatch(s, trusted) ==
  IF trusted /\ s.kind \in {"FixedRice", "LpcRice"}
  THEN ObservedWastedBits(samples, info.bps, s.wasted)
  ELSE CommonWastedBits(samples, info.bps) = s.wasted

Accepted(s, trusted) ==
  /\ ValidBlock
  /\ WastedBitsMatch(s, trusted)
  /\ s.kind = "Constant" => AllEqual
  /\ s.kind \in {"FixedRice", "LpcRice"} => ShapeValid(s) /\ ParametersValid(s)

SelectedSubframe(s) ==
  LET x == ShiftSamples(samples, s.wasted)
      params == IF s.params # <<>> THEN s.params
                ELSE ExactParameters(Residuals(x, s.predictor), Len(x),
                                     Order(s.predictor), s.porder)
  IN  CASE s.kind = "Constant" -> Plain("Constant", x, s.wasted,
                                        ConstantBits(info.bps, s.wasted))
        [] s.kind = "Verbatim" -> Plain("Verbatim", x, s.wasted,
                                        VerbatimBits(Len(x), info.bps, s.wasted))
        [] OTHER -> Predicted(s.kind, s.predictor, s.precision, s.porder, params, x,
                              info.bps, s.wasted)

DecisionMatches(s, d) ==
  /\ d.kind = s.kind /\ d.porder = s.porder /\ d.wasted = s.wasted
  /\ s.kind \in {"FixedRice", "LpcRice"} => d.order = Order(s.predictor)

\* Decisions a caller may pass along with s: the one it came with, or another's.
Decisions(s) ==
  [kind : {s.kind}, order : {Order(s.predictor)}, porder : {s.porder, s.porder + 1},
   wasted : {s.wasted}, bits : {1}]

WriteSelected(s) ==
  /\ outcome = "filling"
  /\ call' = [op |-> "selected", selected |-> s, trusted |-> FALSE]
  /\ IF Accepted(s, FALSE)
     THEN EmitOwn(SelectedSubframe(s))
     ELSE Reject

WriteSelectedWithDecision(s) ==
  /\ outcome = "filling"
  /\ call' = [op |-> "selected", selected |-> s, trusted |-> TRUE]
  /\ \E d \in Decisions(s) :
       IF DecisionMatches(s, d) /\ Accepted(s, TRUE)
       THEN Emit(SelectedSubframe(s), d)
       ELSE Reject

-----------------------------------------------------------------------------
Next ==
  \/ PushSample
  \/ \E profile \in Profiles : WriteBest(profile)
  \/ \E s \in Selections : WriteSelected(s)
  \/ \E s \in Selections : WriteSelectedWithDecision(s)
  \/ NextFrame

Spec == Init /\ [][Next]_vars

-----------------------------------------------------------------------------
\* A decoder reads the frame number, the block size and the sample width back from
\* the header, on both sides of every length of the number's code and of the switch
\* to two bytes for the size (write_frame_with_body, write_utf8_uint, block_size_code).
HeaderReadsBack ==
  outcome = "written" =>
    /\ ReadNumber(header.bytes) = info.number
    /\ ReadSize(header) = Len(samples)
    /\ ReadBitsPerSample(header) = info.bps

\* A decoder gets back every sample, and ends where the subframe ends, of whatever
\* the writer lets out, whether it chose the subframe or was handed one
\* (write_fixed_rice_frame, write_lpc_rice_frame, write_mono_selected_frame_impl).
Lossless ==
  outcome = "written" =>
    R!ReadSubframe(body, Len(samples), info.bps) = [samples |-> samples, at |-> Len(body) + 1]

\* The size the analysis reports is the size written: the bits counted before
\* serialising (fixed_rice_subframe_bits and its like) are the bits put down.
SizeIsCounted ==
  outcome = "written" /\ ~(call.op = "selected" /\ call.trusted)
                      /\ ~(call.op = "best" /\ call.profile = "OrderGuessMeanEstimateRice")
    => Len(body) = decision.bits

\* The exact profile finds the optimum: no fixed predictor, partition order and
\* assignment of Rice parameters needs fewer bits (choose_fixed_rice_subframe
\* settles each partition on its own). A block of equal samples is left out: it
\* becomes a constant subframe unsearched, though a short one of wide samples
\* would be smaller predicted (one sample 1 of 16 bits: 24 bits against 21).
ExactIsOptimal ==
  outcome = "written" /\ call.op = "best" /\ call.profile = "Exact" /\ ~AllEqual =>
    LET wasted == CommonWastedBits(samples, info.bps)
        x == ShiftSamples(samples, wasted)
    IN  \A o \in 0 .. MaxFixedOrder(x), po \in 0 .. info.maxPorder :
          ValidPartitionOrder(Len(x), o, po) =>
            \A params \in [1 .. 2^po -> 0 .. MaxRiceParameter] :
              decision.bits <= PredictorBits("FixedRice", o, 0, info.bps, wasted)
                + PartitionedBits(Residuals(x, FixedPredictor(o)), Len(x), o, po, params)

\* Analysis never makes a block larger than storing it plainly: what is written
\* is at most a verbatim subframe, with any profile that counts real bits.
NeverLargerThanVerbatim ==
  outcome = "written" /\ call.op = "best" /\ call.profile # "OrderGuessMeanEstimateRice" =>
    Len(body) <= VerbatimBits(Len(samples), info.bps, CommonWastedBits(samples, info.bps))

\* A block of legal samples is never refused: no choice of the analysis asks the
\* BitWriter for more than a word at once (write_rice_signed_block, write_bits).
AnalysisNeverThrows ==
  outcome = "rejected" /\ call.op = "best"
    => ~ValidBlock \/ ~HeaderWritable(info.number, Len(samples), info.bps)

\* The one-pass validator of the trusted path accepts exactly the selections the
\* two-pass one does (SelectedWastedBitsValidator, validated_common_wasted_bits).
ValidatorsAgree ==
  outcome = "filling" => \A s \in Selections : Accepted(s, TRUE) <=> Accepted(s, FALSE)

=============================================================================
