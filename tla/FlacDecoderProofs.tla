-------------------------- MODULE FlacDecoderProofs --------------------------
(***************************************************************************)
(* Proofs about FlacDecoder for groups, buffers, streams and files of      *)
(* every size: no sample is lost or repeated, success is complete, and an  *)
(* error ends the output.                                                  *)
(***************************************************************************)
EXTENDS FlacDecoder, TLAPS

-----------------------------------------------------------------------------
(* The inductive invariant: what each stage of the function may rely on.   *)

Stages == {"process", "aborted", "frame", "check", "finish", "drain", "flush", "size", "close",
           "done"}

TypeInv ==
  /\ size \in Nat /\ consumed \in Nat /\ hashed \in Nat /\ inputBytes \in Nat
  /\ expected \in Nat /\ samples \in Nat /\ pendingCount \in Nat
  /\ packed \in Nat /\ written \in Nat /\ frame \in Nat
  /\ pc \in Stages

\* The stages that are reached only while no callback has failed.
CleanInv == pc \in Stages \ {"process", "aborted", "done"} => ~error

\* A full group never waits.
PendingInv == ~error => pendingCount < GroupSamples

CheckedInv ==
  pc \in {"finish", "drain", "flush", "size", "close"} =>
    pendingCount = 0 /\ haveInfo /\ samples >= expected

OutputInv ==
  /\ pc \in {"size", "close"} => packed = 0
  /\ pc = "close" /\ digesting => hashed = inputBytes

VerdictInv == verdict = "ok" => pc = "done" /\ packed = 0 /\ pendingCount = 0

IInv ==
  /\ TypeInv /\ CleanInv /\ PendingInv /\ CheckedInv /\ OutputInv /\ VerdictInv
  /\ EverySampleOnce /\ SuccessIsComplete

\* One more group, wherever it goes.
LEMMA OneMoreGroup ==
  ASSUME NEW g \in Nat, NEW w \in Nat, NEW p \in Nat
  PROVE  g * (w + (p + 1)) = g * (w + p) + g /\ g * (w + p) \in Nat
  OBVIOUS

LEMMA InitEstablishes == Init => IInv
<1> SUFFICES ASSUME Init PROVE IInv
  OBVIOUS
<1>1. TypeInv
  BY DecoderAssumption DEF Init, TypeInv, Stages
<1>2. GroupSamples * (0 + 0) + 0 = 0
  BY DecoderAssumption
<1>3. /\ CleanInv /\ PendingInv /\ CheckedInv /\ OutputInv /\ VerdictInv /\ EverySampleOnce
      /\ SuccessIsComplete
  BY <1>2, DecoderAssumption DEF Init, CleanInv, PendingInv, CheckedInv, OutputInv, VerdictInv, EverySampleOnce,
              SuccessIsComplete
<1>4. QED
  BY <1>1, <1>3 DEF IInv

\* Callbacks that see no sample, and the growth of the file.
LEMMA CallbackInv ==
  ASSUME IInv, ReadAndHash \/ StreamInfo \/ StreamError \/ Frame \/ FrameDone \/ Grow
  PROVE  IInv'
<1> USE DEF fileVars, infoVars, sampleVars, resultVars
<1>1. UNCHANGED <<digesting, samples, pendingCount, packed, written, underreported, mismatch,
                 inputBytes, verdict>>
  BY DEF ReadAndHash, StreamInfo, StreamError, Frame, FrameDone, Grow
<1>2. /\ error => error'
      /\ pc = "done" => FALSE
      /\ pc' \in {"process", "aborted", "frame"} \/ UNCHANGED <<pc, error, hashed, haveInfo, expected>>
  BY DEF ReadAndHash, StreamInfo, StreamError, Frame, FrameDone, Grow, IInv, TypeInv
<1>3. TypeInv'
  BY <1>1, DecoderAssumption DEF ReadAndHash, StreamInfo, StreamError, Frame, FrameDone, Grow, IInv,
     TypeInv, Stages
<1>4. CleanInv'
  BY DEF ReadAndHash, StreamInfo, StreamError, Frame, FrameDone, Grow, IInv, CleanInv, TypeInv,
     Stages
<1>5. PendingInv' /\ CheckedInv' /\ OutputInv' /\ VerdictInv'
  BY <1>1, <1>2 DEF IInv, PendingInv, CheckedInv, OutputInv, VerdictInv
<1>6. EverySampleOnce' /\ SuccessIsComplete'
  BY <1>1, <1>2 DEF IInv, EverySampleOnce, SuccessIsComplete, VerdictInv
<1>7. QED
  BY <1>3, <1>4, <1>5, <1>6 DEF IInv

LEMMA FrameSampleInv ==
  ASSUME IInv, FrameSample
  PROVE  IInv'
<1> USE DEF fileVars, infoVars, resultVars
<1>1. /\ TypeInv /\ pc = "frame" /\ frame > 0 /\ ~error /\ verdict # "ok"
      /\ GroupSamples * (written + packed) + pendingCount = samples
      /\ GroupSamples \in Nat \ {0}
      /\ UNCHANGED <<fileVars, infoVars, resultVars>>
  BY DecoderAssumption DEF IInv, FrameSample, CleanInv, Stages, EverySampleOnce, VerdictInv
<1>2. /\ pc' \in {"frame", "aborted"} /\ verdict' # "ok"
  BY <1>1 DEF FrameSample
<1>3. CheckedInv' /\ OutputInv' /\ VerdictInv' /\ SuccessIsComplete'
  BY <1>2 DEF CheckedInv, OutputInv, VerdictInv, SuccessIsComplete
<1>4. CASE error' = TRUE /\ pc' = "aborted"
  <2>1. TypeInv'
    BY <1>1, <1>4 DEF FrameSample, TypeInv, Stages, PackGroup
  <2>2. CleanInv' /\ PendingInv' /\ EverySampleOnce'
    BY <1>4 DEF CleanInv, PendingInv, EverySampleOnce
  <2>3. QED
    BY <1>3, <2>1, <2>2 DEF IInv
<1>5. CASE UNCHANGED <<error, pc>>
  <2>1. CleanInv'
    BY <1>1, <1>5 DEF CleanInv
  <2>2. CASE /\ pendingCount + 1 < GroupSamples /\ samples' = samples + 1
             /\ pendingCount' = pendingCount + 1 /\ frame' = frame - 1
             /\ UNCHANGED <<packed, written>>
    <3>1. TypeInv'
      BY <1>1, <1>5, <2>2 DEF TypeInv
    <3>2. GroupSamples * (written + packed) \in Nat /\ pendingCount \in Nat
      BY <1>1, OneMoreGroup DEF TypeInv
    <3>3. EverySampleOnce' /\ PendingInv'
      BY <1>1, <2>2, <3>2 DEF EverySampleOnce, PendingInv
    <3>4. QED
      BY <1>3, <2>1, <3>1, <3>3 DEF IInv
  <2>3. CASE /\ ~(pendingCount + 1 < GroupSamples) /\ samples' = samples + 1
             /\ pendingCount' = 0 /\ frame' = frame - 1 /\ PackGroup
    <3>1. written \in Nat /\ packed \in Nat /\ pendingCount \in Nat /\ samples \in Nat /\ frame \in Nat
      BY <1>1 DEF TypeInv
    <3>2. written' \in Nat /\ packed' \in Nat /\ written' + packed' = written + (packed + 1)
      BY <2>3, <3>1 DEF PackGroup
    <3>3. TypeInv'
      BY <1>1, <1>5, <2>3, <3>1, <3>2 DEF TypeInv
    <3>4. pendingCount + 1 = GroupSamples
      BY <1>1, <2>3, <3>1 DEF IInv, PendingInv
    <3>5. GroupSamples * (written + (packed + 1)) = GroupSamples * (written + packed) + GroupSamples
          /\ GroupSamples * (written + packed) \in Nat
      BY <1>1, <3>1, OneMoreGroup
    <3>6. GroupSamples * (written' + packed') + pendingCount' = samples'
      <4>1. GroupSamples * (written' + packed') = GroupSamples * (written + packed) + GroupSamples
        BY <3>2, <3>5
      <4> DEFINE held == GroupSamples * (written + packed)
      <4>2. held + pendingCount = samples /\ held \in Nat /\ samples' = samples + 1
            /\ pendingCount' = 0 /\ GroupSamples \in Nat
        BY <1>1, <2>3, <3>5
      <4> HIDE DEF held
      <4>3. held + GroupSamples + 0 = samples + 1
        BY <3>1, <3>4, <4>2
      <4>4. QED
        BY <4>1, <4>2, <4>3 DEF held
    <3>7. EverySampleOnce' /\ PendingInv'
      BY <1>1, <2>3, <3>6 DEF EverySampleOnce, PendingInv
    <3>8. QED
      BY <1>3, <2>1, <3>3, <3>7 DEF IInv
  <2>4. QED
    BY <1>1, <1>5, <2>2, <2>3 DEF FrameSample
<1>6. QED
  BY <1>4, <1>5 DEF FrameSample

\* The end of process_until_end_of_stream and the steps after it that write nothing.
LEMMA EndingInv ==
  ASSUME IInv, CallReturns \/ CheckStream \/ Finish \/ Drain \/ CheckSize \/ Close
  PROVE  IInv'
<1> USE DEF fileVars, infoVars, sampleVars, resultVars
<1>1. /\ TypeInv /\ CleanInv /\ CheckedInv /\ OutputInv /\ VerdictInv
      /\ UNCHANGED <<digesting, size, infoVars, sampleVars>>
      /\ verdict # "ok"
  BY DEF IInv, VerdictInv, CallReturns, CheckStream, Finish, Drain, CheckSize, Close
<1>2. EverySampleOnce' /\ PendingInv'
  BY <1>1 DEF IInv, EverySampleOnce, PendingInv, CallReturns, CheckStream, Finish, Drain,
     CheckSize, Close
<1>3. TypeInv'
  BY <1>1 DEF TypeInv, Stages, Throw, CallReturns, CheckStream, Finish, Drain, CheckSize, Close
<1>4. CleanInv'
  BY <1>1 DEF CleanInv, TypeInv, Stages, Throw, CallReturns, CheckStream, Finish, Drain,
     CheckSize, Close
<1>5. CheckedInv' /\ OutputInv'
  BY <1>1 DEF CheckedInv, OutputInv, TypeInv, Stages, Throw, CallReturns, CheckStream, Finish,
     Drain, CheckSize, Close
<1>6. VerdictInv' /\ SuccessIsComplete'
  <2>1. CASE Close /\ verdict' = "ok"
    <3>1. /\ pc = "close" /\ ~error /\ pendingCount = 0 /\ packed = 0 /\ haveInfo
          /\ samples >= expected /\ (digesting => hashed = inputBytes)
          /\ pc' = "done" /\ UNCHANGED <<fileVars, error, infoVars, sampleVars, inputBytes>>
      BY <1>1, <2>1 DEF Close, CleanInv, CheckedInv, OutputInv, Stages, Throw
    <3>2. GroupSamples * (written + packed) + pendingCount = samples
      BY <3>1 DEF IInv, EverySampleOnce
    <3>3. written \in Nat /\ samples \in Nat /\ GroupSamples \in Nat
      BY <1>1, DecoderAssumption DEF TypeInv
    <3>4. GroupSamples * written = samples
      BY <3>1, <3>2, <3>3
    <3>5. QED
      BY <3>1, <3>4 DEF VerdictInv, SuccessIsComplete
  <2>2. CASE verdict' # "ok"
    BY <2>2 DEF VerdictInv, SuccessIsComplete
  <2>3. QED
    BY <1>1, <2>1, <2>2 DEF CallReturns, CheckStream, Finish, Drain, CheckSize, Throw
<1>7. QED
  BY <1>2, <1>3, <1>4, <1>5, <1>6 DEF IInv

LEMMA FlushRestInv ==
  ASSUME IInv, FlushRest
  PROVE  IInv'
<1> USE DEF fileVars, infoVars
<1>1. /\ TypeInv /\ pc = "flush" /\ ~error /\ verdict # "ok" /\ CheckedInv
      /\ UNCHANGED <<fileVars, infoVars, samples, pendingCount, frame, underreported, mismatch,
                     inputBytes>>
  BY DEF IInv, FlushRest, CleanInv, Stages, VerdictInv
<1>2. CASE Flush /\ pc' = "size" /\ UNCHANGED <<error, verdict>>
  <2>1. written' + packed' = written + packed /\ packed' = 0 /\ written' \in Nat
    BY <1>1, <1>2 DEF Flush, TypeInv
  <2>2. TypeInv'
    BY <1>1, <1>2, <2>1 DEF TypeInv, Stages
  <2>3. EverySampleOnce' /\ PendingInv'
    BY <1>1, <1>2, <2>1 DEF IInv, EverySampleOnce, PendingInv
  <2>4. CleanInv' /\ CheckedInv' /\ OutputInv' /\ VerdictInv' /\ SuccessIsComplete'
    BY <1>1, <1>2, <2>1 DEF CleanInv, CheckedInv, OutputInv, VerdictInv, SuccessIsComplete
  <2>5. QED
    BY <2>2, <2>3, <2>4 DEF IInv
<1>3. CASE error' = TRUE /\ Throw /\ UNCHANGED <<packed, written>>
  <2>1. TypeInv'
    BY <1>1, <1>3 DEF TypeInv, Stages, Throw
  <2>2. /\ CleanInv' /\ PendingInv' /\ CheckedInv' /\ OutputInv' /\ VerdictInv'
        /\ EverySampleOnce' /\ SuccessIsComplete'
    BY <1>3 DEF CleanInv, PendingInv, CheckedInv, OutputInv, VerdictInv, EverySampleOnce,
                SuccessIsComplete, Throw
  <2>3. QED
    BY <2>1, <2>2 DEF IInv
<1>4. QED
  BY <1>2, <1>3 DEF FlushRest

-----------------------------------------------------------------------------
(* The theorems. *)

LEMMA StepPreserves == IInv /\ [Next]_vars => IInv'
<1>1. IInv /\ UNCHANGED vars => IInv'
  BY DEF vars, fileVars, infoVars, sampleVars, resultVars, IInv, TypeInv, CleanInv, PendingInv,
     CheckedInv, OutputInv, VerdictInv, EverySampleOnce, SuccessIsComplete
<1>2. QED
  BY <1>1, CallbackInv, FrameSampleInv, EndingInv, FlushRestInv DEF Next, Returned

\* The inductive invariant holds in every reachable state.
THEOREM Invariance == Spec => []IInv
  BY InitEstablishes, StepPreserves, PTL DEF Spec

\* Every sample libFLAC delivered is pending, packed or written, once, for groups
\* and buffers of every size and frames of every length.
THEOREM NoSampleLost == Spec => []EverySampleOnce
<1>1. IInv => EverySampleOnce
  BY DEF IInv
<1>2. QED
  BY Invariance, <1>1, PTL

\* The decoder reports success only for an output that holds all the samples, at
\* least as many as declared, and for a digest of the whole file.
THEOREM CompleteSuccess == Spec => []SuccessIsComplete
<1>1. IInv => SuccessIsComplete
  BY DEF IInv
<1>2. QED
  BY Invariance, <1>1, PTL

\* Once a callback has failed, whatever libFLAC still calls, nothing is written.
THEOREM ErrorEndsOutput == Spec => NoOutputAfterError
<1>1. IInv /\ [Next]_vars => (error => UNCHANGED written)
  BY DEF vars, sampleVars, IInv, CleanInv, Stages, Next, ReadAndHash, StreamInfo, StreamError,
     Frame, FrameSample, FrameDone, CallReturns, CheckStream, Finish, Drain, FlushRest,
     CheckSize, Close, Grow, Returned
<1>2. QED
  BY Invariance, <1>1, PTL DEF Spec, NoOutputAfterError
=============================================================================
