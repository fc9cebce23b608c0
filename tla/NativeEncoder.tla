---------------------------- MODULE NativeEncoder ----------------------------
(***************************************************************************)
(* compress_lds_to_native_flac in native_flac_encoder.cpp: one thread      *)
(* reads the LDS input, cuts it into frames, hands the frames to the pool  *)
(* and writes the encoded frames in order, at most 2 * ThreadCount of them *)
(* outstanding; with one thread it encodes in place.  Any step that does   *)
(* I/O or encodes may throw, and the exception leaves through the pool's   *)
(* destructor.                                                             *)
(***************************************************************************)
EXTENDS FlacFrames, FramePool

CONSTANTS ThreadCount,   \* the --threads option
          MaxGroups      \* bound on the length of the inputs considered

ASSUME EncoderAssumption ==
  /\ ThreadCount \in Nat \ {0}
  /\ MaxGroups \in Nat
  /\ IsFiniteSet(Workers)
  /\ IF ThreadCount = 1 THEN Workers = {} ELSE Cardinality(Workers) = ThreadCount

VARIABLES
  input,         \* the LDS input; never changes
  unread,        \* groups the stream has not delivered
  stream,        \* state of the std::istream
  chunk,         \* groups of the current chunk
  fed,           \* groups of the current chunk already unpacked
  samples,       \* stats.samples
  hashed,        \* samples given to pcm_md5
  cut,           \* position of the first sample of frame_samples
  buffered,      \* samples unpacked and not yet in a frame
  frameNumber,   \* frame_number
  nextToWrite,   \* next_frame_to_write
  inFlight,      \* in_flight_ of the pool
  encodedFrame,  \* {} or the frame taken from the pool and not yet written
  file,          \* frames written to the output
  info,          \* its STREAMINFO block
  verdict,       \* how the function is going to end
  pc             \* where it is

inputVars  == <<input, unread, stream, chunk, fed, samples, hashed>>
frameVars  == <<cut, buffered, frameNumber>>
outputVars == <<nextToWrite, file, info>>
flushVars  == <<inFlight, encodedFrame>>
mainVars   == <<inputVars, frameVars, outputVars, flushVars, verdict, pc>>
vars       == <<poolVars, mainVars>>

MaxPending == 2 * ThreadCount

\* Mutant: one frame too many.
BacklogOverfull == inFlight > MaxPending

BacklogFull == inFlight >= MaxPending

Init ==
  /\ PoolInit
  /\ input \in Inputs(MaxGroups)
  /\ unread = input.groups
  /\ stream = "good"
  /\ chunk = 0 /\ fed = 0
  /\ samples = 0 /\ hashed = 0
  /\ cut = 0 /\ buffered = 0
  /\ frameNumber = 0 /\ nextToWrite = 0 /\ inFlight = 0
  /\ encodedFrame = {}
  /\ file = <<>>
  /\ info = Placeholder
  /\ verdict = "none"
  /\ pc = "read"

\* An exception unwinds to the destructor of the pool.
Throw ==
  /\ pc' = "stop"
  /\ verdict' = "error"

-----------------------------------------------------------------------------
(* Reading the input: process_lds_sample_groups. *)

ReadChunk ==
  /\ pc = "read" /\ stream = "good"
  /\ \E r \in Reads(unread, input.ragged) :
       /\ stream' = r.stream
       /\ IF r.partial
          THEN Throw /\ UNCHANGED <<unread, chunk, fed>>
          ELSE /\ unread' = unread - r.groups
               /\ chunk' = r.groups
               /\ fed' = 0
               /\ pc' = IF r.groups = 0 THEN "read" ELSE "feed"
               /\ UNCHANGED verdict
  /\ UNCHANGED <<poolVars, input, samples, hashed, frameVars, outputVars, flushVars>>

\* The stream stopped: the input is complete, or reading it failed.
FinishReading ==
  /\ pc = "read" /\ stream # "good"
  /\ IF stream = "bad"
     THEN Throw
     ELSE /\ pc' = IF buffered > 0 THEN "submitTail" ELSE "drain"
          /\ UNCHANGED verdict
  /\ UNCHANGED <<poolVars, inputVars, frameVars, outputVars, flushVars>>

\* on_group: hash the group, then push its samples one after the other.
FeedGroup ==
  /\ pc = "feed" /\ fed < chunk
  /\ fed' = fed + 1
  /\ hashed' = hashed + GroupSamples
  /\ buffered' = buffered + GroupSamples
  /\ pc' = IF buffered' >= FrameSamples THEN "submit" ELSE "feed"
  /\ UNCHANGED <<poolVars, input, unread, stream, chunk, samples, cut,
                 frameNumber, outputVars, flushVars, verdict>>

\* The chunk is counted; the progress callback may throw.
FinishChunk ==
  /\ pc = "feed" /\ fed = chunk
  /\ samples' = samples + chunk * GroupSamples
  /\ \/ pc' = "read" /\ UNCHANGED verdict
     \/ Throw
  /\ UNCHANGED <<poolVars, input, unread, stream, chunk, fed, hashed,
                 frameVars, outputVars, flushVars>>

-----------------------------------------------------------------------------
(***************************************************************************)
(* Writing the next frame: flush_next_threaded_frame, called from          *)
(* submit_frame or from the drain.  take runs under the mutex of the pool, *)
(* write_frame_bytes after it is released: a worker may finish or fail in  *)
(* between.  While encodedFrame holds a frame the thread is in the call.   *)
(***************************************************************************)

TakeNextFrame ==
  /\ encodedFrame = {}
  /\ \/ /\ ConsumerSleeps(nextToWrite)
        /\ UNCHANGED mainVars
     \/ /\ consumer = "awake" /\ exception
        /\ Throw
        /\ UNCHANGED <<poolVars, inputVars, frameVars, outputVars, flushVars>>
     \/ /\ \E frame \in Ready(nextToWrite) :
             Take(frame) /\ encodedFrame' = {frame}
        /\ inFlight' = inFlight - 1
        /\ UNCHANGED <<inputVars, frameVars, outputVars, verdict, pc>>

WriteFrame(frame) ==
  /\ file' = Append(file, frame)
  /\ nextToWrite' = nextToWrite + 1
  /\ UNCHANGED info

WriteTakenFrame ==
  /\ encodedFrame # {}
  /\ \/ /\ \E frame \in encodedFrame : WriteFrame(frame)
        /\ UNCHANGED <<verdict, pc>>
     \/ Throw /\ UNCHANGED outputVars
  /\ encodedFrame' = {}
  /\ UNCHANGED <<poolVars, inputVars, frameVars, inFlight>>

-----------------------------------------------------------------------------
(* submit_frame: a full frame from the input, or the tail. *)

\* Mutant: the tail is padded to a full frame.
CutPaddedFrame ==
  [number |-> frameNumber, first |-> cut, count |-> FrameSamples]

CutFrame ==
  [number |-> frameNumber,
   first  |-> cut,
   count  |-> Min2(FrameSamples, buffered)]

CutDone ==
  /\ cut' = cut + CutFrame.count
  /\ buffered' = buffered - CutFrame.count
  /\ frameNumber' = frameNumber + 1

Resume == IF pc \in {"submit", "notify"} THEN "feed" ELSE "drain"

\* One thread: encode and write in place.
SubmitInline ==
  /\ pc \in {"submit", "submitTail"} /\ ThreadCount = 1
  /\ \/ WriteFrame(CutFrame) /\ CutDone /\ pc' = Resume /\ UNCHANGED verdict
     \/ Throw /\ UNCHANGED <<frameVars, outputVars>>
  /\ UNCHANGED <<poolVars, inputVars, flushVars>>

\* Backlog full: write frames until there is room.
MakeRoom ==
  /\ pc \in {"submit", "submitTail"} /\ ThreadCount # 1
  /\ BacklogFull
  /\ TakeNextFrame

\* Mutant: in_flight_ is not incremented.
SubmitUncounted ==
  /\ pc \in {"submit", "submitTail"} /\ ThreadCount # 1
  /\ ~BacklogFull /\ encodedFrame = {}
  /\ Submit(CutFrame)
  /\ CutDone
  /\ pc' = IF pc = "submit" THEN "notify" ELSE "notifyTail"
  /\ UNCHANGED <<verdict, flushVars, inputVars, outputVars>>

SubmitFrame ==
  /\ pc \in {"submit", "submitTail"} /\ ThreadCount # 1
  /\ ~BacklogFull /\ encodedFrame = {}
  /\ \/ /\ Submit(CutFrame)
        /\ inFlight' = inFlight + 1
        /\ CutDone
        /\ pc' = IF pc = "submit" THEN "notify" ELSE "notifyTail"
        /\ UNCHANGED verdict
     \/ /\ exception /\ Throw
        /\ UNCHANGED <<poolVars, frameVars, inFlight>>
  /\ UNCHANGED <<inputVars, outputVars, encodedFrame>>

NotifyWorker ==
  /\ pc \in {"notify", "notifyTail"}
  /\ NotifyOneWorker
  /\ pc' = Resume
  /\ UNCHANGED <<inputVars, frameVars, outputVars, flushVars, verdict>>

-----------------------------------------------------------------------------
(* The end of the file. *)

Drain ==
  /\ pc = "drain" /\ nextToWrite # frameNumber
  /\ TakeNextFrame

\* Mutant: the last outstanding frame is not waited for.
FinishDrainEarly ==
  /\ pc = "drain" /\ nextToWrite + 1 >= frameNumber
  /\ pc' = "rewrite"
  /\ UNCHANGED <<poolVars, inputVars, frameVars, outputVars, flushVars, verdict>>

FinishDrain ==
  /\ pc = "drain" /\ nextToWrite = frameNumber
  /\ pc' = "rewrite"
  /\ UNCHANGED <<poolVars, inputVars, frameVars, outputVars, flushVars, verdict>>

RewriteStreamInfo ==
  /\ pc = "rewrite"
  /\ \/ info' = StreamInfo(samples, hashed) /\ pc' = "close" /\ UNCHANGED verdict
     \/ Throw /\ UNCHANGED info
  /\ UNCHANGED <<poolVars, inputVars, frameVars, nextToWrite, file, flushVars>>

CloseOutput ==
  /\ pc = "close"
  /\ \/ pc' = "stop" /\ verdict' = "ok"
     \/ Throw
  /\ UNCHANGED <<poolVars, inputVars, frameVars, outputVars, flushVars>>

-----------------------------------------------------------------------------
(* Leaving the function, by return or by exception: ~FrameEncoderPool. *)

StopWorkers ==
  /\ pc = "stop"
  /\ StopPool
  /\ pc' = "wake"
  /\ UNCHANGED <<inputVars, frameVars, outputVars, flushVars, verdict>>

WakeWorkers ==
  /\ pc = "wake"
  /\ NotifyAllWorkers
  /\ pc' = "join"
  /\ UNCHANGED <<inputVars, frameVars, outputVars, flushVars, verdict>>

JoinWorkers ==
  /\ pc = "join"
  /\ AllJoined
  /\ pc' = "done"
  /\ UNCHANGED <<poolVars, inputVars, frameVars, outputVars, flushVars, verdict>>

MainStep ==
  \/ ReadChunk \/ FinishReading \/ FeedGroup \/ FinishChunk
  \/ SubmitInline \/ MakeRoom \/ SubmitFrame \/ NotifyWorker
  \/ WriteTakenFrame \/ Drain \/ FinishDrain \/ RewriteStreamInfo \/ CloseOutput
  \/ StopWorkers \/ WakeWorkers \/ JoinWorkers

PoolStep ==
  /\ SpuriousWakeup \/ \E w \in Workers : WorkerStep(w)
  /\ UNCHANGED mainVars

Returned == pc = "done" /\ UNCHANGED vars

Next == MainStep \/ PoolStep \/ Returned

Spec == Init /\ [][Next]_vars

\* The operating system runs every thread that can run.
Fairness ==
  /\ WF_vars(MainStep)
  /\ \A w \in Workers : WF_vars(WorkerStep(w) /\ UNCHANGED mainVars)

FairSpec == Spec /\ Fairness
-----------------------------------------------------------------------------
(* Properties. *)

PCs == {"read", "feed", "submit", "submitTail", "notify", "notifyTail", "drain",
        "rewrite", "close", "stop", "wake", "join", "done"}

\* Every variable keeps the type its declaration in the code gives it.
TypeOK ==
  /\ jobs \in Seq(Frames)
  /\ results \in SUBSET Frames
  /\ exception \in BOOLEAN /\ stopping \in BOOLEAN
  /\ worker \in [Workers -> WorkerStates]
  /\ holding \in [Workers -> SUBSET Frames]
  /\ consumer \in {"awake", "asleep"}
  /\ input \in Inputs(MaxGroups)
  /\ unread \in Nat /\ chunk \in Nat /\ fed \in Nat
  /\ stream \in {"good", "eof", "bad"}
  /\ samples \in Nat /\ hashed \in Nat
  /\ cut \in Nat /\ buffered \in Nat
  /\ frameNumber \in Nat /\ nextToWrite \in Nat /\ inFlight \in Nat
  /\ encodedFrame \in SUBSET Frames
  /\ file \in Seq(Frames)
  /\ info \in [total : Nat, md5 : Nat]
  /\ verdict \in {"none", "ok", "error"}
  /\ pc \in PCs

\* Whatever order the workers finish in, the i-th frame of the output is the
\* i-th frame of the input, with its number and its samples (take by number).
FramesInOrder ==
  \A i \in 1 .. Len(file) : file[i] = FrameAt(i - 1, LengthOf(input))

Outstanding ==
  {jobs[i] : i \in 1 .. Len(jobs)} \cup HeldFrames \cup results \cup encodedFrame

\* While the pool is healthy every frame submitted and not yet written is in
\* exactly one place, in the pool or in the hands of the main thread: none is
\* lost, encoded twice, or left behind.
NoFrameLost ==
  ~stopping /\ verdict # "error" =>
    /\ {f.number : f \in Outstanding} =
         IF ThreadCount = 1 THEN {} ELSE nextToWrite .. (frameNumber - 1)
    /\ Len(jobs) + Cardinality(HeldFrames) + Cardinality(results) = inFlight

\* The reader never runs further ahead of the writer than 2 * ThreadCount
\* frames, so memory stays bounded however slow one frame is.
BacklogBounded == Cardinality(Outstanding) <= MaxPending

\* A consumer asleep although its result, or the exception, is there has a
\* notification on the way: it cannot sleep through both.
NoLostResultWakeup ==
  consumer = "asleep" /\ (exception \/ Ready(nextToWrite) # {}) =>
    In({"publishing", "failed", "signalling"}) # {}

\* Jobs never wait for a pool that is all asleep, and no worker sleeps through
\* the stop flag: whoever must notify has not finished doing so.
NoStrandedWorker ==
  In({"asleep"}) # {} =>
    /\ jobs # <<>> /\ ~stopping =>
         Len(jobs) <= Cardinality(In({"checking"})) +
                      (IF pc \in {"notify", "notifyTail"} THEN 1 ELSE 0)
    /\ stopping => In({"failed"}) # {} \/ pc \in {"stop", "wake"}

\* Once a worker has failed nothing more leaves the pool, even a result that
\* was there before, and nothing enters it.  The one frame that may still reach
\* the file is the one the main thread had taken and was about to write.
OnlyTakenFrameAfterFailure ==
  [][exception =>
       /\ encodedFrame' \subseteq encodedFrame
       /\ file' # file => /\ \E frame \in encodedFrame : file' = Append(file, frame)
                         /\ encodedFrame' = {}
       /\ frameNumber' = frameNumber]_vars

\* The file seen from outside: whole frames in order, STREAMINFO last, success
\* only for the whole input.
Stream == INSTANCE FlacStream WITH length <- LengthOf(input)
ImplementsStream == Stream!StreamSpec

\* The function returns, with every worker joined, however workers fail.
EventuallyReturns == <>(pc = "done" /\ AllJoined)
=============================================================================
