--------------------------- MODULE AnalysisToWriter ---------------------------
(***************************************************************************)
(* A GPU session and the native FLAC writer that is handed its choice.     *)
(***************************************************************************)
EXTENDS AnalysisSession

\* The writer that is handed the device's choice.
W(i, x) == INSTANCE FrameWriter
             WITH info <- i, samples <- x, call <- <<>>, outcome <- "filling",
                  header <- <<>>, body <- <<>>, decision <- <<>>,
                  Infos <- {}, SampleValues <- {}, BlockLimit <- <<>>, Quantized <- {},
                  Selections <- {}, ByteValues <- 256

WriterInfo == [number |-> 0, bps |-> DeviceBits, maxLpcOrder |-> call.lpc,
               precision |-> call.precision, maxPorder |-> call.porder]

\* The writer takes whatever a session returns, without a check it makes failing, and
\* the subframe has the size the device counted where it counts real bits
\* (flaccl_task_to_selected_subframe, write_mono_selected_frame_with_decision).
WriterAcceptsDevice ==
  stage = "returned" =>
    \A f \in Frames :
      LET s == Selected(result.tasks[f + 1], result.rice[f + 1])
      IN  /\ W(WriterInfo, OwnFrame(f))!Accepted(s, TRUE)
          /\ ~MeanEstimated(call.profile) =>
               W(WriterInfo, OwnFrame(f))!SelectedSubframe(s).bits = result.tasks[f + 1].size

===============================================================================
