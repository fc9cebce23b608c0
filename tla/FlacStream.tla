----------------------------- MODULE FlacStream -----------------------------
(***************************************************************************)
(* What an encoder promises about the FLAC file it leaves behind, whatever *)
(* threads it uses: the file grows by whole frames in input order, its     *)
(* STREAMINFO is rewritten only after the last frame, and success is       *)
(* reported only for a file that holds the whole input.  Both encoders     *)
(* implement this specification.  The bytes of a write that failed are not *)
(* part of it: a failed file never leaves its staging directory.           *)
(***************************************************************************)
EXTENDS FlacFrames

VARIABLES length,   \* samples in the input
          file,     \* frames written so far
          info,     \* STREAMINFO block at the head of the file
          verdict   \* what the encoder has reported

streamVars == <<length, file, info, verdict>>

Complete == length <= Len(file) * FrameSamples

StreamInit ==
  /\ length \in Nat
  /\ file = <<>>
  /\ info = Placeholder
  /\ verdict = "none"

AppendFrame ==
  /\ verdict = "none"
  /\ info = Placeholder
  /\ ~Complete
  /\ file' = Append(file, FrameAt(Len(file), length))
  /\ UNCHANGED <<length, info, verdict>>

RewriteInfo ==
  /\ verdict = "none"
  /\ Complete
  /\ info' = StreamInfo(length, length)
  /\ UNCHANGED <<length, file, verdict>>

Succeed ==
  /\ verdict = "none"
  /\ Complete
  /\ info = StreamInfo(length, length)
  /\ verdict' = "ok"
  /\ UNCHANGED <<length, file, info>>

Fail ==
  /\ verdict = "none"
  /\ verdict' = "error"
  /\ UNCHANGED <<length, file, info>>

StreamNext == AppendFrame \/ RewriteInfo \/ Succeed \/ Fail

StreamSpec == StreamInit /\ [][StreamNext]_streamVars
=============================================================================
