---------------------------- MODULE FrameWriterMC ----------------------------
(***************************************************************************)
(* FrameWriter on small blocks: the frame numbers on both sides of every   *)
(* length of the code, each with another set of limits; a few predictors   *)
(* of either sign; selections that fit some blocks and not others.         *)
(***************************************************************************)
EXTENDS FrameWriter

Number(digits) == [i \in 1 .. 7 |-> IF i <= Len(digits) THEN digits[i] ELSE 0]

FrameInfo(digits, bps, lpc, precision, porder) ==
  [number |-> Number(digits), bps |-> bps, maxLpcOrder |-> lpc,
   precision |-> precision, maxPorder |-> porder]

\* The limits that choices depend on, with the longest blocks.
LimitInfos ==
  { FrameInfo(<<63, 1>>, 8, 2, 4, 2),
    FrameInfo(<<0, 2>>, 12, 2, 1, 1),
    FrameInfo(<<63, 31>>, 8, 1, 3, 2),
    FrameInfo(<<0, 32>>, 8, 0, 15, 0) }

\* The other frame numbers, and a width that FLAC has no code for.
HeaderInfos ==
  { FrameInfo(digits, 8, 2, 4, 1) :
      digits \in { <<63, 63, 15>>, <<0, 0, 16>>, <<63, 63, 63, 7>>, <<0, 0, 0, 8>>,
                   <<63, 63, 63, 63, 3>>, <<0, 0, 0, 0, 4>>, <<63, 63, 63, 63, 63, 1>>,
                   <<0, 0, 0, 0, 0, 2>>, <<63, 63, 63, 63, 63, 63>>,
                   <<0, 0, 0, 0, 0, 0, 1>> } }
    \cup {FrameInfo(<<5>>, 9, 2, 4, 0)}

MCInfos == LimitInfos \cup HeaderInfos
MCBlockLimit == [i \in MCInfos |-> IF i \in LimitInfos THEN 4 ELSE 2]

\* 135 fits 12 bits and not 8, and is the only odd one; 100 and -100 alternating
\* are what the predictor <<-1>> foretells and no fixed predictor does.
MCSampleValues == {-100, 0, 100, 135}

MCQuantized ==
  { [coefs |-> <<-1>>, shift |-> 0], [coefs |-> <<-4, 3>>, shift |-> 2],
    [coefs |-> <<7, -8>>, shift |-> 0] }

Selection(kind, predictor, porder, wasted, params) ==
  [kind |-> kind, predictor |-> predictor, precision |-> IF kind = "LpcRice" THEN 3 ELSE 0,
   porder |-> porder, wasted |-> wasted, params |-> params]

MCSelections ==
  {Selection(k, FixedPredictor(0), 0, w, <<>>) : k \in {"Constant", "Verbatim"}, w \in {0, 2, 7}}
    \cup
  {Selection("FixedRice", FixedPredictor(o), po, w, ps) :
     o \in {0, 2}, po \in 0 .. 1, w \in {0, 2, 7}, ps \in {<<>>, <<0, 3>>}}
    \cup
  {Selection("FixedRice", FixedPredictor(0), 2, w, <<>>) : w \in {2, 8}}
    \cup
  {Selection("LpcRice", q, po, 2, ps) :
     q \in MCQuantized, po \in 0 .. 1, ps \in {<<>>, <<2, 0>>, <<9>>}}
=============================================================================
