------------------------- MODULE AcceleratedEncoder -------------------------
(***************************************************************************)
(* compress_lds_to_accelerated_native_flac in                              *)
(* accelerated_native_backend.cpp: the main thread collects batches of     *)
(* frames, one std::async task at a time analyses the previous batch on    *)
(* the device, and the analysed batch is written through the worker pool   *)
(* (or in place with one thread) while the next one is analysed.           *)
(***************************************************************************)
EXTENDS FlacFrames, FramePool

CONSTANTS ThreadCount,   \* options.thread_count
          BatchFrames,   \* options.batch_frames
          MaxGroups      \* bound on the length of the inputs considered

ASSUME AcceleratedAssumption ==
  /\ ThreadCount \in Nat \ {0}
  /\ BatchFrames \in Nat \ {0}
  /\ MaxGroups \in Nat
  /\ IsFiniteSet(Workers)
  /\ IF ThreadCount = 1 THEN Workers = {} ELSE Cardinality(Workers) = ThreadCount

VARIABLES
  input,         \* the LDS input; never changes
  unread,        \* groups the stream has not delivered
  stream,        \* state of the std::istream
  chunk,         \* groups of the current chunk
  fed,           \* groups of the current chunk already appended
  segment,       \* md5_segment_start_group
  samples,       \* stats.samples
  hashed,        \* samples pcm_md5 covers, or Garbled
  start,         \* position of the first sample of batch_samples
  batch,         \* size of batch_samples
  carry,         \* samples of the group that did not fit the full batch
  inFrame,       \* samples_in_current_frame
  frameNumber,   \* frame_number
  pending,       \* the batch of the valid future pending_batch, if any
  running,       \* batches an async task is analysing
  broken,        \* batches whose analysis threw
  writing,       \* the analysed batch being written, if any
  submitted,     \* frames of it given to the pool
  taken,         \* frames of it written
  encodedFrame,  \* the frame taken from the pool and not yet written, if any
  file, info,    \* the output
  verdict,       \* how the function is going to end
  resume,        \* where it goes on after flush_batch or the write of a batch
  pc             \* where it is

inputVars  == <<input, unread, stream, chunk, fed, segment, samples, hashed>>
batchVars  == <<start, batch, carry, inFrame, frameNumber>>
taskVars   == <<pending, running, broken>>
writeVars  == <<writing, submitted, taken, encodedFrame>>
outputVars == <<file, info>>
mainVars   == <<inputVars, batchVars, writeVars, outputVars, pending, verdict, resume, pc>>
vars       == <<poolVars, mainVars, running, broken>>

Garbled == -1
BatchSamples == BatchFrames * FrameSamples
Aligned == FrameSamples % GroupSamples = 0

Batches == [first : Nat, from : Nat, frames : Nat]
\* Mutant: the offset of the frame after it.
FrameOfNext(b, i) ==
  [number |-> b.first + i, first |-> b.from + (i + 1) * FrameSamples, count |-> FrameSamples]

FrameOf(b, i) ==
  [number |-> b.first + i, first |-> b.from + i * FrameSamples, count |-> FrameSamples]

Init ==
  /\ PoolInit
  /\ input \in Inputs(MaxGroups)
  /\ unread = input.groups
  /\ stream = "good"
  /\ chunk = 0 /\ fed = 0 /\ segment = 0
  /\ samples = 0 /\ hashed = 0
  /\ start = 0 /\ batch = 0 /\ carry = 0 /\ inFrame = 0 /\ frameNumber = 0
  /\ pending = {} /\ running = {} /\ broken = {}
  /\ writing = {} /\ submitted = 0 /\ taken = 0 /\ encodedFrame = {}
  /\ file = <<>> /\ info = Placeholder
  /\ verdict = "none"
  /\ resume = "feed"
  /\ pc = "read"

\* An exception unwinds to ~SelectedFrameWriterPool and the future's destructor.
Throw ==
  /\ pc' = "stop"
  /\ verdict' = "error"

-----------------------------------------------------------------------------
(* Reading a chunk and appending its groups to the batch. *)

\* pcm_md5.update over groups a .. b-1 of the chunk's PCM buffer.
HashGroups(a, b) ==
  LET base == input.groups - unread - chunk
  IN  hashed' = IF hashed = (base + a) * GroupSamples
                THEN (base + b) * GroupSamples
                ELSE Garbled

ReadChunk ==
  /\ pc = "read" /\ stream = "good"
  /\ \E r \in Reads(unread, input.ragged) :
       /\ stream' = r.stream
       /\ IF r.partial
          THEN Throw /\ UNCHANGED <<unread, chunk, fed, segment>>
          ELSE /\ unread' = unread - r.groups
               /\ chunk' = r.groups
               /\ fed' = 0 /\ segment' = 0
               /\ pc' = IF r.groups = 0 THEN "read" ELSE "feed"
               /\ UNCHANGED verdict
  /\ UNCHANGED <<poolVars, input, samples, hashed, batchVars, taskVars,
                 writeVars, outputVars, resume>>

(***************************************************************************)
(* One group: append its samples up to the end of the batch.  When frames  *)
(* are a whole number of groups the batch ends with the group, and the     *)
(* segment read so far is hashed before the flush; otherwise the flush     *)
(* happens between two samples of the group, and carry is the rest.        *)
(***************************************************************************)
FeedGroup ==
  /\ pc = "feed" /\ fed < chunk
  /\ LET n == Min2(GroupSamples, BatchSamples - batch)
     IN  /\ batch' = batch + n
         /\ carry' = GroupSamples - n
         /\ frameNumber' = frameNumber + (inFrame + n) \div FrameSamples
         /\ inFrame' = (inFrame + n) % FrameSamples
  /\ fed' = fed + 1
  /\ IF batch' = BatchSamples
     THEN /\ pc' = "flush" /\ resume' = "feed"
          /\ IF Aligned
             THEN HashGroups(segment, fed + 1) /\ segment' = fed + 1
             ELSE UNCHANGED <<hashed, segment>>
     ELSE UNCHANGED <<pc, resume, hashed, segment>>
  /\ UNCHANGED <<poolVars, input, unread, stream, chunk, samples, start,
                 taskVars, writeVars, outputVars, verdict>>

\* What is left of the chunk is hashed; the progress callback may throw.
FinishChunk ==
  /\ pc = "feed" /\ fed = chunk
  /\ IF segment < chunk THEN HashGroups(segment, chunk) ELSE UNCHANGED hashed
  /\ samples' = samples + chunk * GroupSamples
  /\ \/ pc' = "read" /\ UNCHANGED verdict
     \/ Throw
  /\ UNCHANGED <<poolVars, input, unread, stream, chunk, fed, segment, batchVars,
                 taskVars, writeVars, outputVars, resume>>

\* The input ended: keep whole frames in the batch, the rest is the tail frame.
FinishReading ==
  /\ pc = "read" /\ stream # "good"
  /\ IF stream = "bad"
     THEN Throw /\ UNCHANGED <<batch, carry, resume>>
     ELSE /\ batch' = batch - (batch % FrameSamples)
          /\ carry' = batch % FrameSamples
          /\ pc' = "flush" /\ resume' = "pending"
          /\ UNCHANGED verdict
  /\ UNCHANGED <<poolVars, inputVars, start, inFrame, frameNumber, taskVars,
                 writeVars, outputVars>>

-----------------------------------------------------------------------------
(* flush_batch: swap the full batch out, collect the previous one's result *)
(* and start the analysis of this one.                                     *)

\* Mutant: the number of the first frame after the batch.
FullBatchAfter ==
  [first |-> frameNumber, from |-> start, frames |-> batch \div FrameSamples]

FullBatch ==
  [first  |-> frameNumber - batch \div FrameSamples,
   from   |-> start,
   frames |-> batch \div FrameSamples]

\* Mutant: what the group has left is dropped with the batch.
SwapDropsCarry ==
  /\ start' = start + batch
  /\ batch' = 0 /\ inFrame' = 0 /\ carry' = 0
  /\ UNCHANGED frameNumber

\* batch_samples restarts with what the group has left.
SwapBatch ==
  /\ start' = start + batch
  /\ batch' = carry
  /\ inFrame' = carry
  /\ carry' = 0
  /\ UNCHANGED frameNumber

\* std::async(std::launch::async, ...)
Launch(b) ==
  /\ pending' = {b}
  /\ running' = running \cup {b}

\* Mutant: the next task is launched without waiting for the previous one.
GotEarly(b) == b \in pending \ broken

\* pending_batch.get() returned b, or rethrew what its task threw.
Got(b)    == b \in pending \ (running \cup broken)
GotException == pending # {} /\ pending \subseteq broken \ running

FlushEmptyBatch ==
  /\ pc = "flush" /\ batch = 0
  /\ pc' = resume
  /\ UNCHANGED <<poolVars, inputVars, batchVars, taskVars, writeVars, outputVars,
                 verdict, resume>>

FlushFirstBatch ==
  /\ pc = "flush" /\ batch > 0 /\ pending = {}
  /\ SwapBatch
  /\ \/ Launch(FullBatch) /\ pc' = resume /\ UNCHANGED verdict
     \/ Throw /\ UNCHANGED <<pending, running>>
  /\ UNCHANGED <<poolVars, inputVars, broken, writeVars, outputVars, resume>>

FlushNextBatch ==
  /\ pc = "flush" /\ batch > 0
  /\ \E b \in Batches \cap pending :
       /\ Got(b)
       /\ SwapBatch
       /\ \/ /\ Launch(FullBatch)
             /\ writing' = {b} /\ submitted' = 0 /\ taken' = 0
             /\ pc' = "submit" /\ UNCHANGED <<verdict, encodedFrame>>
          \/ /\ Throw
             /\ pending' = {}
             /\ UNCHANGED <<running, writeVars>>
  /\ UNCHANGED <<poolVars, inputVars, broken, outputVars, resume>>

\* write_pending_batch, after the last flush.
WritePendingBatch ==
  /\ pc = "pending"
  /\ \/ /\ pending = {}
        /\ pc' = "tail" /\ UNCHANGED <<pending, writeVars, resume>>
     \/ \E b \in pending :
          /\ Got(b)
          /\ pending' = {}
          /\ writing' = {b} /\ submitted' = 0 /\ taken' = 0
          /\ pc' = "submit" /\ resume' = "tail" /\ UNCHANGED encodedFrame
  /\ UNCHANGED <<poolVars, inputVars, batchVars, running, broken, outputVars, verdict>>

\* The task's exception leaves get() in either place.
AnalysisThrows ==
  /\ (pc = "flush" /\ batch > 0) \/ pc = "pending"
  /\ GotException
  /\ pending' = {}
  /\ Throw
  /\ UNCHANGED <<poolVars, inputVars, batchVars, running, broken, writeVars,
                 outputVars, resume>>

\* The task itself: the device session and the shared counters are its own
\* while it runs.  A failed call or a wrong frame count is an exception.
AnalysisEnds(b) ==
  /\ b \in running
  /\ running' = running \ {b}
  /\ broken' \in {broken, broken \cup {b}}
  /\ UNCHANGED <<poolVars, mainVars>>

-----------------------------------------------------------------------------
(* write_accelerated_analyzed_batch: submit every frame, then take them all *)
(* in order; with one thread, write each in place.                         *)

WriteInline(b) ==
  /\ pc = "submit" /\ ThreadCount = 1 /\ taken < b.frames
  /\ \/ file' = Append(file, FrameOf(b, taken)) /\ taken' = taken + 1
        /\ UNCHANGED <<pc, verdict>>
     \/ Throw /\ UNCHANGED <<file, taken>>
  /\ UNCHANGED <<poolVars, inputVars, batchVars, taskVars, writing, submitted,
                 encodedFrame, info, resume>>

SubmitFrame(b) ==
  /\ pc = "submit" /\ ThreadCount # 1 /\ submitted < b.frames
  /\ \/ /\ Submit(FrameOf(b, submitted))
        /\ submitted' = submitted + 1
        /\ pc' = "notify" /\ UNCHANGED verdict
     \/ exception /\ Throw /\ UNCHANGED <<poolVars, submitted>>
  /\ UNCHANGED <<inputVars, batchVars, taskVars, writing, taken, encodedFrame,
                 outputVars, resume>>

NotifyWorker ==
  /\ pc = "notify"
  /\ NotifyOneWorker
  /\ pc' = "submit"
  /\ UNCHANGED <<inputVars, batchVars, taskVars, writeVars, outputVars, verdict, resume>>

\* take(), under the pool's mutex.
TakeFrame(b) ==
  /\ pc = "submit" /\ ThreadCount # 1
  /\ submitted = b.frames /\ taken < b.frames /\ encodedFrame = {}
  /\ \/ /\ ConsumerSleeps(b.first + taken)
        /\ UNCHANGED <<encodedFrame, pc, verdict>>
     \/ /\ consumer = "awake" /\ exception
        /\ Throw
        /\ UNCHANGED <<poolVars, encodedFrame>>
     \/ \E frame \in Ready(b.first + taken) :
          /\ Take(frame)
          /\ encodedFrame' = {frame}
          /\ UNCHANGED <<pc, verdict>>
  /\ UNCHANGED <<inputVars, batchVars, taskVars, writing, submitted, taken,
                 outputVars, resume>>

\* What take() returned is written without the mutex: a worker may fail first.
WriteTakenFrame ==
  /\ pc = "submit"
  /\ \E frame \in encodedFrame :
       \/ file' = Append(file, frame) /\ taken' = taken + 1 /\ UNCHANGED <<pc, verdict>>
       \/ Throw /\ UNCHANGED <<file, taken>>
  /\ encodedFrame' = {}
  /\ UNCHANGED <<poolVars, inputVars, batchVars, taskVars, writing, submitted,
                 info, resume>>

FinishWrite(b) ==
  /\ pc = "submit" /\ taken = b.frames
  /\ writing' = {}
  /\ pc' = resume
  /\ UNCHANGED <<poolVars, inputVars, batchVars, taskVars, submitted, taken,
                 encodedFrame, outputVars, verdict, resume>>

WriteStep ==
  \/ \E b \in writing :
       WriteInline(b) \/ SubmitFrame(b) \/ TakeFrame(b) \/ FinishWrite(b)
  \/ WriteTakenFrame

-----------------------------------------------------------------------------
(* The end of the file. *)

\* write_native_tail_frame; flush_batch left the tail as the next batch.
WriteTail ==
  /\ pc = "tail"
  /\ IF batch + carry = 0
     THEN pc' = "rewrite" /\ UNCHANGED <<file, frameNumber, verdict>>
     ELSE \/ /\ file' = Append(file, [number |-> frameNumber, first |-> start,
                                      count |-> batch + carry])
             /\ frameNumber' = frameNumber + 1
             /\ pc' = "rewrite" /\ UNCHANGED verdict
          \/ Throw /\ UNCHANGED <<file, frameNumber>>
  /\ UNCHANGED <<poolVars, inputVars, start, batch, carry, inFrame, taskVars,
                 writeVars, info, resume>>

RewriteStreamInfo ==
  /\ pc = "rewrite"
  /\ \/ info' = StreamInfo(samples, hashed) /\ pc' = "close" /\ UNCHANGED verdict
     \/ Throw /\ UNCHANGED info
  /\ UNCHANGED <<poolVars, inputVars, batchVars, taskVars, writeVars, file, resume>>

CloseOutput ==
  /\ pc = "close"
  /\ \/ pc' = "stop" /\ verdict' = "ok"
     \/ Throw
  /\ UNCHANGED <<poolVars, inputVars, batchVars, taskVars, writeVars, outputVars, resume>>

\* ~SelectedFrameWriterPool, then ~future, which waits for a task that runs.
StopWorkers ==
  /\ pc = "stop"
  /\ StopPool
  /\ pc' = "wake"
  /\ UNCHANGED <<inputVars, batchVars, taskVars, writeVars, outputVars, verdict, resume>>

WakeWorkers ==
  /\ pc = "wake"
  /\ NotifyAllWorkers
  /\ pc' = "join"
  /\ UNCHANGED <<inputVars, batchVars, taskVars, writeVars, outputVars, verdict, resume>>

JoinWorkers ==
  /\ pc = "join"
  /\ AllJoined
  /\ pc' = "await"
  /\ UNCHANGED <<poolVars, inputVars, batchVars, taskVars, writeVars, outputVars,
                 verdict, resume>>

\* Mutant: the future is detached.
DetachTask ==
  /\ pc = "await"
  /\ pc' = "done"
  /\ UNCHANGED <<poolVars, inputVars, batchVars, taskVars, writeVars, outputVars,
                 verdict, resume>>

AwaitTask ==
  /\ pc = "await"
  /\ pending \cap running = {}
  /\ pc' = "done"
  /\ UNCHANGED <<poolVars, inputVars, batchVars, taskVars, writeVars, outputVars,
                 verdict, resume>>

MainStep ==
  \/ ReadChunk \/ FeedGroup \/ FinishChunk \/ FinishReading
  \/ FlushEmptyBatch \/ FlushFirstBatch \/ FlushNextBatch
  \/ WritePendingBatch \/ AnalysisThrows
  \/ WriteStep \/ NotifyWorker
  \/ WriteTail \/ RewriteStreamInfo \/ CloseOutput
  \/ StopWorkers \/ WakeWorkers \/ JoinWorkers \/ AwaitTask

TaskStep == \E b \in running : AnalysisEnds(b)

PoolStep ==
  /\ SpuriousWakeup \/ \E w \in Workers : WorkerStep(w)
  /\ UNCHANGED <<mainVars, running, broken>>

Returned == pc = "done" /\ UNCHANGED vars

Next == MainStep \/ TaskStep \/ PoolStep \/ Returned

Spec == Init /\ [][Next]_vars

\* The operating system runs every thread that can run, and a call into the
\* device returns.
Fairness ==
  /\ WF_vars(MainStep)
  /\ WF_vars(TaskStep)
  /\ \A w \in Workers : WF_vars(WorkerStep(w) /\ UNCHANGED <<mainVars, running, broken>>)

FairSpec == Spec /\ Fairness
-----------------------------------------------------------------------------
(* Properties. *)

\* Never two analyses at once: the device session, its buffers and the
\* counters in native_stats are shared by all of them and have no lock.
OneAnalysisAtATime == Cardinality(running) <= 1

\* The frame numbers of the next batch follow those of the batch in flight and
\* of the one being written, so the three never overlap and leave no gap.
BatchesContiguous ==
  verdict = "none" =>
    /\ \A b \in writing : Len(file) = b.first + taken
    /\ \A b \in pending :
         /\ b.first = Len(file) +
              (IF writing = {} THEN 0 ELSE (CHOOSE v \in writing : TRUE).frames - taken)
         /\ b.from = b.first * FrameSamples
         /\ b.from + b.frames * FrameSamples = start

\* The pool has no backlog limit of its own: it never holds a frame of any
\* batch but the one being written, hence at most BatchFrames frames; and none of
\* a batch whose analysis failed, because get() rethrows first.
PoolHoldsOneBatch ==
  verdict = "none" =>
    /\ writing \cap broken = {}
    /\ \A f \in {jobs[i] : i \in 1 .. Len(jobs)} \cup HeldFrames \cup results :
         \E b \in writing : f.number \in (b.first + taken) .. (b.first + b.frames - 1)

\* No thread that uses the caller's options and analyzer outlives the call.
NoThreadOutlivesCall == pc = "done" => running = {} /\ AllJoined

\* The file seen from outside is the one the CPU encoder promises.
Stream == INSTANCE FlacStream WITH length <- LengthOf(input)
ImplementsStream == Stream!StreamSpec

\* The function returns, whatever fails.
EventuallyReturns == <>(pc = "done")
=============================================================================
