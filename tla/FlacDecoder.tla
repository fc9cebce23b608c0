----------------------------- MODULE FlacDecoder -----------------------------
(***************************************************************************)
(* decompress_flac_to_lds_impl in flac_codec.cpp, and the end of           *)
(* run_decompress that closes its output.  libFLAC drives the code through *)
(* callbacks: any number of them in one process_single call, metadata,     *)
(* frames, errors and, for verify, reads of the compressed file, which are *)
(* hashed as they happen.  Samples are collected in groups, groups in an   *)
(* output buffer.  The compressed file is counted in blocks and may grow   *)
(* while it is read.                                                       *)
(***************************************************************************)
EXTENDS Integers

CONSTANTS GroupSamples,   \* samples in client.pending (4)
          PackedGroups,   \* groups in client.packed_output (8192)
          MaxSamples,     \* bound: samples libFLAC delivers
          MaxBlocks       \* bound: blocks of the compressed file

ASSUME DecoderAssumption ==
  /\ GroupSamples \in Nat \ {0} /\ PackedGroups \in Nat \ {0}
  /\ MaxSamples \in Nat /\ MaxBlocks \in Nat \ {0}

VARIABLES
  digesting,      \* input_digest is given (verify)
  size,           \* blocks of the compressed file
  consumed,       \* blocks read from input_file
  hashed,         \* blocks counted in the digest
  error,          \* client.error is not empty
  haveInfo,       \* client.have_streaminfo
  expected,       \* client.expected_total_samples, 0 if unknown
  samples,        \* client.stats.samples
  pendingCount,   \* client.pending_count
  packed,         \* groups in client.packed_output
  written,        \* groups in the output
  frame,          \* samples of the current frame not looked at yet
  underreported,  \* streaminfo_total_samples_underreported
  mismatch,       \* streaminfo_pcm_md5_mismatch
  inputBytes,     \* stats.input_bytes, in blocks
  verdict,        \* "none", "ok" or "error"
  pc              \* where the function is

fileVars   == <<digesting, size, consumed, hashed>>
infoVars   == <<haveInfo, expected>>
sampleVars == <<samples, pendingCount, packed, written, frame>>
resultVars == <<underreported, mismatch, inputBytes, verdict>>
vars       == <<fileVars, error, infoVars, sampleVars, resultVars, pc>>

Init ==
  /\ digesting \in BOOLEAN
  /\ size \in 1 .. MaxBlocks
  /\ consumed = 0 /\ hashed = 0
  /\ error = FALSE
  /\ haveInfo = FALSE /\ expected = 0
  /\ samples = 0 /\ pendingCount = 0 /\ packed = 0 /\ written = 0 /\ frame = 0
  /\ underreported = FALSE /\ mismatch = FALSE /\ inputBytes = 0
  /\ verdict = "none"
  /\ pc = "process"

Throw == pc' = "done" /\ verdict' = "error"

-----------------------------------------------------------------------------
(* Callbacks, inside a call of process_single. *)

\* read_and_hash_callback: the next blocks of the file, hashed; or an error.
ReadAndHash ==
  /\ pc = "process" /\ digesting
  /\ \/ \E n \in 1 .. (size - consumed) :
          /\ consumed' = consumed + n
          /\ \/ hashed' = hashed + n /\ UNCHANGED <<error, pc>>
             \/ error' = TRUE /\ pc' = "aborted" /\ UNCHANGED hashed
     \/ error' = TRUE /\ pc' = "aborted" /\ UNCHANGED <<consumed, hashed>>
  /\ UNCHANGED <<digesting, size, infoVars, sampleVars, resultVars>>

\* metadata_callback for a STREAMINFO block: a total that cannot be one of
\* whole groups, a wrong format and a progress callback that throws are errors.
StreamInfo ==
  /\ pc = "process"
  /\ haveInfo' = TRUE
  /\ expected' \in 0 .. MaxSamples
  /\ \/ error' = TRUE
     \/ expected' % GroupSamples = 0 /\ UNCHANGED error
  /\ UNCHANGED <<fileVars, sampleVars, resultVars, pc>>

\* error_callback: libFLAC reports a defect of the stream and goes on.
StreamError ==
  /\ pc = "process"
  /\ error' = TRUE
  /\ UNCHANGED <<fileVars, infoVars, sampleVars, resultVars, pc>>

\* Mutant: an earlier error does not stop the frame.
FrameDespiteError ==
  /\ pc = "process" /\ frame = 0
  /\ \E n \in 1 .. (MaxSamples - samples) : frame' = n
  /\ pc' = "frame"
  /\ UNCHANGED <<fileVars, error, infoVars, samples, pendingCount, packed, written, resultVars>>

\* write_callback: refuse the frame after an error or for its format.
Frame ==
  /\ pc = "process" /\ frame = 0
  /\ \/ /\ ~error
        /\ \E n \in 1 .. (MaxSamples - samples) : frame' = n
        /\ pc' = "frame" /\ UNCHANGED error
     \/ error' = TRUE /\ pc' = "aborted" /\ UNCHANGED frame
  /\ UNCHANGED <<fileVars, infoVars, samples, pendingCount, packed, written, resultVars>>

\* flush_packed_output, when the write succeeds.
Flush ==
  /\ written' = written + packed
  /\ packed' = 0

\* Mutant: the last group of a full buffer is lost.
PackGroupLate ==
  IF packed + 1 > PackedGroups
  THEN written' = written + packed /\ packed' = 0
  ELSE packed' = packed + 1 /\ UNCHANGED written

\* write_packed_group: the buffer is written as soon as it is full.
PackGroup ==
  IF packed + 1 = PackedGroups
  THEN /\ written' = written + packed + 1
       /\ packed' = 0
  ELSE packed' = packed + 1 /\ UNCHANGED written

\* One sample of the frame: refuse it, or collect it.
FrameSample ==
  /\ pc = "frame" /\ frame > 0
  /\ \/ error' = TRUE /\ pc' = "aborted"        \* out of range or off the grid
        /\ frame' = 0
        /\ UNCHANGED <<samples, pendingCount, packed, written>>
     \/ /\ samples' = samples + 1
        /\ IF pendingCount + 1 < GroupSamples
           THEN /\ pendingCount' = pendingCount + 1 /\ frame' = frame - 1
                /\ UNCHANGED <<packed, written, error, pc>>
           ELSE \/ /\ pendingCount' = 0 /\ frame' = frame - 1
                   /\ PackGroup
                   /\ UNCHANGED <<error, pc>>
                \/ /\ packed + 1 = PackedGroups  \* the write fails
                   /\ error' = TRUE /\ pc' = "aborted"
                   /\ pendingCount' = pendingCount + 1
                   /\ frame' = 0 /\ packed' = packed + 1
                   /\ UNCHANGED written
  /\ UNCHANGED <<fileVars, infoVars, resultVars>>

\* The frame is through; the progress callback may still throw.
FrameDone ==
  /\ pc = "frame" /\ frame = 0
  /\ \/ pc' = "process" /\ UNCHANGED error
     \/ error' = TRUE /\ pc' = "aborted"
  /\ UNCHANGED <<fileVars, infoVars, sampleVars, resultVars>>

-----------------------------------------------------------------------------
(* process_until_end_of_stream: what process_single returned. *)

\* FALSE, or TRUE after an error; or the end of the stream (or of the link).
CallReturns ==
  /\ pc \in {"process", "aborted"}
  /\ \/ Throw
     \/ pc = "process" /\ ~error /\ pc' = "check" /\ UNCHANGED verdict
  /\ UNCHANGED <<fileVars, error, infoVars, sampleVars, underreported, mismatch, inputBytes>>

-----------------------------------------------------------------------------
(* After the stream. *)

\* Mutant: samples that do not fill a group are dropped.
CheckStreamLoosely ==
  /\ pc = "check"
  /\ IF haveInfo /\ samples >= expected
     THEN pc' = "finish" /\ UNCHANGED verdict /\ underreported' = (expected # 0 /\ samples > expected)
     ELSE Throw /\ UNCHANGED underreported
  /\ UNCHANGED <<fileVars, error, infoVars, sampleVars, mismatch, inputBytes>>

CheckStream ==
  /\ pc = "check"
  /\ IF pendingCount = 0 /\ haveInfo /\ samples >= expected
     THEN /\ pc' = "finish" /\ UNCHANGED verdict
          /\ underreported' = (expected # 0 /\ samples > expected)
     ELSE Throw /\ UNCHANGED underreported
  /\ UNCHANGED <<fileVars, error, infoVars, sampleVars, mismatch, inputBytes>>

\* FLAC__stream_decoder_finish: a PCM MD5 that does not match is a warning.
Finish ==
  /\ pc = "finish"
  /\ mismatch' \in BOOLEAN
  /\ pc' = IF digesting THEN "drain" ELSE "flush"
  /\ UNCHANGED <<fileVars, error, infoVars, sampleVars, underreported, inputBytes, verdict>>

\* drain_and_hash_input: the rest of the file, to its end.
Drain ==
  /\ pc = "drain"
  /\ \/ \E n \in 1 .. (size - consumed) :
          /\ consumed' = consumed + n
          /\ hashed' = hashed + n
          /\ UNCHANGED <<error, verdict, pc>>
     \/ /\ consumed = size
        /\ pc' = "flush"
        /\ UNCHANGED <<consumed, hashed, error, verdict>>
     \/ error' = TRUE /\ Throw /\ UNCHANGED <<consumed, hashed>>
  /\ UNCHANGED <<digesting, size, infoVars, sampleVars, underreported, mismatch, inputBytes>>

FlushRest ==
  /\ pc = "flush"
  /\ \/ Flush /\ pc' = "size" /\ UNCHANGED <<error, verdict>>
     \/ packed > 0 /\ error' = TRUE /\ Throw /\ UNCHANGED <<packed, written>>
  /\ UNCHANGED <<fileVars, infoVars, samples, pendingCount, frame, underreported, mismatch,
                 inputBytes>>

\* The size the file has now; with a digest, it must be the size hashed.
CheckSize ==
  /\ pc = "size"
  /\ \/ /\ digesting => hashed = size
        /\ inputBytes' = size /\ pc' = "close" /\ UNCHANGED verdict
     \/ Throw /\ UNCHANGED inputBytes
  /\ UNCHANGED <<fileVars, error, infoVars, sampleVars, underreported, mismatch>>

\* The caller closes the output and only then goes on to publish it.
Close ==
  /\ pc = "close"
  /\ \/ pc' = "done" /\ verdict' = "ok"
     \/ Throw
  /\ UNCHANGED <<fileVars, error, infoVars, sampleVars, underreported, mismatch, inputBytes>>

\* Another process appends to the compressed file.
Grow ==
  /\ pc # "done" /\ size < MaxBlocks
  /\ size' = size + 1
  /\ UNCHANGED <<digesting, consumed, hashed, error, infoVars, sampleVars, resultVars, pc>>

Returned == pc = "done" /\ UNCHANGED vars

Next ==
  \/ ReadAndHash \/ StreamInfo \/ StreamError \/ Frame \/ FrameSample \/ FrameDone
  \/ CallReturns \/ CheckStream \/ Finish \/ Drain \/ FlushRest \/ CheckSize \/ Close
  \/ Grow \/ Returned

Spec == Init /\ [][Next]_vars
-----------------------------------------------------------------------------
(* Properties. *)

\* Across frames of any length and flushes of the buffer, every sample that
\* libFLAC delivered is in exactly one place, and nothing else is.
EverySampleOnce ==
  ~error => GroupSamples * (written + packed) + pendingCount = samples

\* Success means the output holds every sample delivered, at least as many as
\* STREAMINFO declares, no callback failed on the way, and the digest is of all
\* the bytes of the size reported with it, whether libFLAC or the drain read them
\* and however the file grew.
SuccessIsComplete ==
  verdict = "ok" =>
    /\ ~error /\ haveInfo
    /\ GroupSamples * written = samples
    /\ samples >= expected
    /\ digesting => hashed = inputBytes

\* Once any callback has recorded an error the output does not grow.
NoOutputAfterError == [][error => UNCHANGED written]_vars
=============================================================================
