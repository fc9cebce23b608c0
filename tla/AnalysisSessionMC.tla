-------------------------- MODULE AnalysisSessionMC --------------------------
(***************************************************************************)
(* AnalysisSession on batches of one or two short frames: every profile,   *)
(* with and without LPC, silent frames, frames with wasted bits and loud   *)
(* ones whose predictions overflow a device int.                           *)
(***************************************************************************)
EXTENDS AnalysisToWriter

\* Predictors the recursion leads to, oldest coefficient first, for orders 1 to 4.
Steady == [guess |-> 1, raw |-> << <<1>>, <<-1, 2>>, <<1, -3, 3>>, <<-1, 4, -6, 4>> >>,
           shift |-> 0]
Steep  == [guess |-> 2, raw |-> << <<9>>, <<7, 40>>, <<5, -20, 33>>, <<6, -15, 20, 33>> >>,
           shift |-> 1]
Weak   == [guess |-> 2, raw |-> << <<1>>, <<1, -2>>, <<0, 1, 2>>, <<0, 0, 1, -2>> >>,
           shift |-> 2]

Batch(block, lpc, profile, porder, samples, found) ==
  [block |-> block, lpc |-> lpc, profile |-> profile, precision |-> 4, porder |-> porder,
   samples |-> samples, found |-> found]

MCCalls ==
  { Batch(5, 4, "Exact", 1, <<3, -7, 12, 5, -9>>, <<Steady, Weak, Steep>>),
    Batch(4, 2, "Exact", 2, <<64, 32, -96, 0>>, <<Weak, Steady, Steep>>),
    Batch(4, 2, "OrderGuessExactRice", 1, <<0, 0, 0, 0, 6, -4, 2, 10>>, <<Weak, Steady>>),
    Batch(4, 2, "OrderGuessMeanRice", 1, <<100, -60, 55, -43, 40, 44, 48, 52>>, <<Weak, Steep, Steady>>),
    Batch(4, 2, "OrderGuessMeanEstimateRice", 0, <<127, 120, -128, -125, 4, 0, -8, 4>>,
          <<Steep, Weak>>),
    Batch(6, 3, "OrderGuessMeanEstimateRice", 1, <<2, 4, 2, 4, 6, 4>>, <<Weak, Steady>>),
    Batch(3, 2, "SubdivideTukey3MeanRice", 0, <<12, -4, 8>>, <<Weak, Steady>>),
    Batch(3, 2, "SubdivideTukey3MeanEstimateRice", 0, <<5, 1, -2>>, <<Steady, Weak>>),
    Batch(4, 0, "Exact", 1, <<7, 7, 7, 7, 1, 2, 4, 8>>, <<Weak>>),
    Batch(4, 0, "OrderGuessMeanRice", 1, <<16, 8, 24, -8>>, <<Weak>>) }

\* A block that the partition order does not divide, its samples all even.
UnevenCalls ==
  { Batch(5, 2, "OrderGuessMeanEstimateRice", 1, <<40, -64, 24, 48, -16>>, <<Weak, Steady>>) }
=============================================================================
