# A TLA+ model of ld-compress-ng

ld-compress-ng packs and unpacks LaserDisc captures: 10-bit LDS samples, four
in every five bytes, to and from FLAC. It has a CPU path through libFLAC, a
native FLAC encoder of its own with worker threads, and GPU-assisted encoders
(OpenCL, Vulkan, Metal) that analyse batches of frames on a device. This
directory holds TLA+ modules translated from that source, the TLC
configurations that check them, and machine-checked proofs about the core.

Paths below are relative to the repository, whose C++ sources are in `src/`.

## Inventory

| Component | Source | State | Operations | What makes it correct |
| --- | --- | --- | --- | --- |
| CPU native encoder | `native_flac_encoder.cpp` | input stream and chunk, running MD5, frame being filled, frame numbers, pool (queue, results, first exception, stop flag, in-flight count), output and its STREAMINFO | read chunk, take group, submit frame, write next frame, drain, rewrite STREAMINFO, close, destroy the pool; workers pop, encode, publish, fail | frames in input order, none lost or repeated, bounded backlog, no lost wakeup, errors never swallowed, always returns |
| Accelerated encoder | `accelerated_native_backend.cpp` | as above, plus the batch being filled, one future, the batch being written | append group, flush batch, analyse, write batch, write tail | one analysis at a time, batches contiguous, every group hashed once, nothing outlives the call |
| Output staging | `main.cpp` (`TemporaryOutput`, `publish_temporary_output`, the termination handler) | staging directory and payload, registration, in-progress flag, signal masks and actions | create, register, publish by rename or link, remove, unregister; handle a signal | the destination changes once and only to a complete file; staging data never stays |
| FLAC decoder | `flac_codec.cpp` (decoding) | STREAMINFO data, pending samples, packed buffer, first error, digest | libFLAC's callbacks, end checks, drain, flush | success means everything was written and hashed |
| Backend and device selection | `main.cpp`, `compressor.cpp`, the backends and device lists | command line, device lists | resolve, check, open session | options are honoured or refused; the session runs on what was selected |
| Native FLAC writer | `flac_native_writer.cpp`, `flac_primitives.cpp` | a bit writer per frame | choose predictor and Rice partitions, validate a device's selection, write frames | what is written decodes to the block, sizes agree with the bits, choices legal and minimal |
| LDS codec | `lds_codec.cpp` | none (pure, and two streaming loops) | pack, unpack, convert | packing round-trips, ragged input is refused |
| libFLAC adapter | `flac_codec.cpp` (encoding) | a libFLAC encoder, sample buffer | feed, finish | every sample is fed once |
| GPU sessions | `opencl_analysis.cpp`, `vulkan_analysis.cpp`, `metal_analysis.mm` and the backends | device and host buffers kept between batches, cached windows (OpenCL), task plan, command queue | plan and check, upload, enqueue or submit, run kernels, wait, read back, translate | results belong to the batch that asked, are what the CPU writer would compute, and the writer accepts them |
| Commands | `main.cpp` (bench, verify, convert, progress) | reports, temporary directory | loops over the above | cleanup, comparison of digests |

`compress` resolves a backend, opens the staging output, and lets one encoder
write the payload; `decompress` does the same around the decoder. The encoders
share the pool protocol and the format of the stream. The main thread, the
pool's workers and the analysis task share memory under one mutex or by a
future; signals interrupt any of these threads; other processes meet the
program at the destination path and at the compressed file.

What is hard here: finishing order of workers, notifications made after an
unlock, exceptions in one thread while others wait, destructors that join,
batches in flight while the next is collected, signals on any thread at any
step, checks made long before the use, callbacks that go on after an error,
device memory that still holds an earlier batch, an analysis written once for
the CPU and again for each device, and a device selected twice by different code.
`PROJECT.json` lists each hazard at its line.

## Modules

| Module | Models | Notes |
| --- | --- | --- |
| `FlacFrames` | reading in chunks, cutting into frames, STREAMINFO | shared vocabulary |
| `FlacStream` | what any encoder promises about its file | abstract specification |
| `FramePool` | `FrameEncoderPool` and `SelectedFrameWriterPool` | steps only; the owners build Next |
| `NativeEncoder` | `compress_lds_to_native_flac` | composes `FlacFrames`, `FramePool`; implements `FlacStream` |
| `AcceleratedEncoder` | `compress_lds_to_accelerated_native_flac` | composes `FlacFrames`, `FramePool` and the analysis task; implements `FlacStream` |
| `NativeEncoderProofs` | | theorems and proofs |
| `FramePoolProofs` | | lemmas on the pool's steps, for both of its owners |
| `AcceleratedEncoderProofs` | | theorems and proofs |
| `AtomicOutput` | what a command promises about its destination | abstract specification |
| `StagedOutput` | staging, publication, termination handler | implements `AtomicOutput` |
| `StagedOutputProofs` | | theorems and proofs |
| `FlacDecoder` | `decompress_flac_to_lds_impl` and its callbacks | |
| `FlacDecoderProofs` | | theorems and proofs |
| `BackendSelection` | options, automatic selection, session selection | |
| `BackendSelectionProofs` | | theorems and proofs |
| `Subframes` | wasted bits, prediction, Rice partitions, costs, the calls on `BitWriter` | operators |
| `FrameHeaders` | codes of frame number, block size, sample width, and how they are read | operators |
| `SubframeReader` | a FLAC decoder's reading of one mono subframe | external: the format; shares no helper with the writer |
| `FrameWriter` | `write_mono_best_frame`, `write_mono_selected_frame[_with_decision]` | composes the three above |
| `FrameWriterMC` | | infos, predictors and selections for TLC |
| `FrameWriterProofs` | | theorems and proofs, about the operators and the calls, up to the round trip of every sample |
| `TaskPlans` | the candidates of a batch, and the checks on them, `build_mono_analysis_task_plan_for_samples`, `generated_lpc_prefix_shape`, `validate_*_analysis_inputs` | operators |
| `AnalysisKernels` | the OpenCL kernels and the Vulkan shaders: wasted bits, windows and recursion, quantization, order guess, Rice costs, choice | operators; shares `Subframes`' vocabulary |
| `AnalysisSession` | `analyze_opencl_selected_frames`, `analyze_vulkan_selected_frames` and the sessions below them | composes `TaskPlans` and `AnalysisKernels` |
| `AnalysisSessionProofs` | | theorems and proofs |
| `AnalysisToWriter` | handing a device's choice to the writer | composes `AnalysisSession` and `FrameWriter` |
| `AnalysisSessionMC` | | batches for TLC |

### State and actions against the code

*Samples are positions.* A frame is its number, the position of its first
sample and its length; an MD5 is the length of the prefix it has been fed, and
`Garbled` if it was fed anything out of order. What a frame's bits are does not
matter to any property of these modules.

*One mutex, one step.* A critical section of the pool is one action. A
`notify_*` comes after the unlock in the code, so it is a separate action: a
worker that has stored a result is `publishing` until it notifies, and the main
thread passes through `notify` after `submit`. The main thread takes a frame under
the mutex and writes it after the unlock, in two steps: `encodedFrame` is the frame in
hand, and a worker may finish or fail before it is written. A condition variable is a set of
sleepers; both waits may wake spuriously and re-check. `in_flight_` belongs to
the one thread that submits and takes.

*Errors.* Every action that reads, writes, encodes or calls back has a disjunct
in which it throws. An exception goes to `stop`, the destructor of the pool,
with verdict `error`; the bytes a failed write may leave are not part of `file`
because the staging directory is then discarded.

*Batches.* `pending` is the valid future, `running` the tasks that are in the
analyser, `broken` those that threw. `Launch` needs no free slot: that there is
never a second analysis is a property (`OneAnalysisAtATime`), not a guard. When
frames are not a whole number of groups the batch ends inside a group; `carry`
is the rest of the group, which the code appends after the flush.

*Signals.* A handler runs on top of the thread it interrupts: that thread's own
steps are disabled while the others go on. Every statement of the handler is a
step. `BlockTerminationSignals` masks the main thread only; the pool's threads
exist only while the encoder runs. A signal is pending for the process until
some eligible thread takes it, and its action is the default one again after
`HandlerRestore`. Other processes create and remove files at the destination at
any time.

*libFLAC* is an environment that may call back in any order the library allows:
reads, STREAMINFO, frames of any length, errors, all within one
`process_single`. Blocks of the compressed file stand for its bytes, and the
file may grow.

*Devices* are what selection reads of them. `AvailableX` are the probes of
`main.cpp`, `SelectX` the selections that the backends make for themselves.

*Frames.* `FrameWriter` collects a block sample by sample, then makes one call on
the writer. An outcome is `written`, with the header fields, the bits of the
subframe and the decision returned, or `rejected` for every path that throws;
nothing is output before the last check, so a rejected frame leaves no bits.
A `BitWriter` is the sequence of calls made on it; `Writable` is the width check
of `write_bits` and `BitsOf` its loop. Frame numbers are base-64 digits, because
36 bits exceed TLC's integers, so the shifts and masks of `write_utf8_uint` become
digits. A predictor is coefficients and shift; the fixed ones are special cases.
LPC coefficients come out of floating-point windows and Levinson recursion:
`WriteBest` takes any predictor of `Quantized` that quantization could return, or
none, as the best one found, so its properties hold whatever the analysis finds.
The two `SubdivideTukey3` profiles differ from two others only in that analysis.
CRC, padding and the fixed header bits are left out.

*Plans.* A task is a record of what the code's task structure holds. The plan of
a batch is a sequence of tasks, frame after frame, and the selection, the indices
of those to analyse, with what the constants of the code limit (`TaskLimit`,
`WelchTarget`, `Tukey3Windows`). Each check the code makes on a plan is an
operator, kept apart from the operator that builds it.

*Kernels.* A launch is one step, a function from device memory to device memory
that writes what all its work items write. Device memory is a record of buffers,
each a sequence of cells; a cell never written is `Garbage`, a buffer longer than
the batch keeps its old tail. Integer arithmetic of the kernels is there where it
decides something: the 32-bit prediction sum wraps (`Wrapped`) unless the kernel's
own bound (`FitsInt`) lets it be used, sizes saturate. Floating-point results are
not computed: a window's weights are known by shape, place and block size, the
autocorrelation remembers what it was taken of, and the predictors found are a
free choice of the batch (`found`), so that wrong inputs of the recursion are
visible (`CoefficientsFromOwnFrame`) while its numerics are left open.

*Sessions.* `kept` are the buffers between batches and `mem` those in use. OpenCL
writes its inputs with blocking calls, enqueues one command at a time and blocks
in the first read; the device runs any number of commands behind. Vulkan copies
into host memory, records everything and submits it once. OpenCL analyses without
LPC in buffers of the call's own, and keeps the windows of the last block size,
count and profile. Any call may fail, also while the device is running; the
encoding then ends, as `AcceleratedEncoder` says, so no batch follows.

## Runs

| Run | Shows | Bounds and why they are enough |
| --- | --- | --- |
| `NativeEncoder` | type, order, conservation of frames, backlog, wakeups, at most the frame in hand written after a failure, return, refinement of `FlacStream` | 2 workers, backlog 4, frames of 3 samples against groups of 2, up to 16 samples: six frames exceed the backlog, so `MakeRoom` waits; frames and groups do not divide; chunks of 3 groups end full and short; a total over `TotalLimit` occurs |
| `NativeEncoderInline` | refinement with one thread | 8 groups of 4 in frames of 5: every phase of group against frame |
| `AcceleratedEncoder` | one analysis, contiguous batches, pool contents, nothing left running, return, refinement (with the MD5) | 2 writers, batches of 2 frames of 4 samples, 13 groups of 2: three batches and a tail, chunks of 6 groups that split across flushes |
| `AcceleratedEncoderInline` | refinement when a batch ends inside a group | frames of 5, groups of 4, batches of 10 |
| `StagedOutput` | staging data removed, publication atomic, signals not outrun | commands with two helper threads and one signal (helpers are interchangeable: one runs the handler while another encodes), and without helpers and all three signals (a handler masks all three, so they come one after the other); with and without `--overwrite` |
| `StagedTwoSignals` | a violation, see below | the smallest with two threads and two signals |
| `FlacDecoder` | conservation of samples, completeness, digest, no output after an error | groups of 3, buffers of 2 groups, 14 samples: two flushes in the middle of frames and a ragged rest; files of up to 3 blocks that grow |
| `BackendSelection` | the device named is the device run, an automatic command refused only for cause, both selections agree | at most 2 devices, 2 device options, 2 other options: every pair of devices whose order can matter, `--device` beside a backend's own option, and each two-option conflict |
| `BackendSelectionAuto` | a violation, see below | 2 devices |
| `FrameWriter` | round trip of samples and header, size counted is size written, optimality of the exact profile where it searches, never larger than verbatim, no legal block refused, both validators agree | blocks of up to 4 samples of {-100, 0, 100, 135}: constant, alternating, with shared zero bits, out of range for 8 bits; orders 0 to 3, partition orders to 2; frame numbers on both sides of all six thresholds and one beyond the last (four of the numbers with blocks of 4 and different limits, the others with blocks of 2). Scaled limits: `MaxRiceParameter` 4 (14 in the code), `WordBits` 16 (64), `ByteValues` 2 (256), `MinLpcBlockSize` 3 (256), so that saturated parameters, codes longer than a word, two-byte block sizes and LPC occur in these blocks |
| `AnalysisSession` | no legal batch refused, buffers and local memory large enough, coefficients from the frame's own samples and this batch's windows, guess and costs as the CPU writer's, best candidate with its own parameters, the writer takes what comes back | any two of ten batches in either order, through OpenCL or Vulkan: every profile, with and without LPC, one or two frames, blocks of 3 to 6 samples, silent, shifted and loud, so that a second batch is smaller, larger or of another shape than the first. Two batches are enough for what one leaves to the next: nothing in a session depends on more than its last state. Scaled limits (the code's in parentheses): `DeviceBits` 8 (16), `TaskLimit` 15 (32), `IntBits` 11 (32), `LeafPorderLimit` 1 (6), `MaxPartitionOrder` 2 (8), `MinGeneratedBlock` 4 (256), `MaxDeviceBlock` 8 (8192), `MaxRiceParameter` 4 (14), `MaxLpcOrder` 4 (12), so that a prediction leaves an int, a block is too short for LPC and both the leaf path and the general one are taken |
| `OpenClUnevenBlock` | a violation, see below | one batch |

Deadlock is checked in every run but the two of `AnalysisSessionMC`; a finished
program stutters explicitly. A session really stops, after a failure, a refusal
or `MaxCalls` batches, so there a state without a successor is no error.

### Fairness

`FairSpec` gives weak fairness to the main thread, to each worker and, for the
accelerated encoder, to the analysis task. It says that the operating system
runs every runnable thread and that a call into an encoder or a device returns,
which the code relies on and cannot ensure. Spurious wakeups, I/O failures and
exceptions get no fairness: they may but need not happen. Only
`NativeEncoder` and `AcceleratedEncoder` run under `FairSpec`, for
`EventuallyReturns`; worker symmetry is not used because it is unsound there.

### Findings

* `StagedTwoSignals`: a termination handler that has set
  `g_termination_cleanup_in_progress` but not yet removed the payload is cut
  short when a second signal reaches another thread, whose `_exit`
  (`main.cpp:137`) ends the process. README.md says SIGINT, SIGTERM and SIGHUP
  remove the private staging data. With one thread or with one signal it holds
  (`StagedOutput`).
* `BackendSelectionAuto`: automatic selection resolves to OpenCL because a GPU
  or accelerator exists, but passes no index to the backend, whose
  `choose_opencl_device` takes the first available device of any class. On a
  machine that lists a CPU device first the work runs there, where README.md
  promises a GPU/accelerator-class device. Metal and Vulkan repeat the probe's
  criteria, so for them both selections agree (`AutomaticRunsProbedDevice`).
* `OpenClUnevenBlock`: when OpenCL shifts samples in advance, the analysis kernel
  points `data` to the shifted ones (`opencl_analysis.cpp:2091`), but its general
  path, taken when the largest partition order does not divide the block, shifts
  each sample again. A frame with wasted bits is costed as another signal. The
  writer encodes the true samples, so the file stays lossless and only the choice
  suffers. `docs/PROJECT_PLAN.md` (line 1125) says the generic unshifted path gives
  identical results. With blocks the partition order divides, and in every other
  profile, device and writer agree (`DeviceAgreesWithWriter` in `AnalysisSession`,
  whose batches include an uneven block of another profile).

Read in the code and not shown by a run:

* `ldcompressReduceSumUlong` (`opencl_analysis.cpp`, 1699 to 1711) returns
  `scratch[0]` after its last barrier, and nothing keeps lane 0 from storing its
  value of the next reduction there while other lanes still read. In the general
  path each lane decides from its own copy which Rice parameters to keep. Lane 0's
  size and partition order are right in any case; the parameters may be mixed when
  the lanes of a group do not run in lockstep. `shaders/vulkan_fixed_constant.comp`
  (224 to 236) reduces the same way. A launch is one step here.
* For blocks shorter than 256 samples `build_vulkan_mixed_lpc_task_plan`
  (`vulkan_backend.cpp:107`) drops the LPC tasks, but line 153 still asks for the generated
  analysis, whose check wants them, and throws; block sizes from 16 are accepted
  on the command line. `LegalCallsAccepted` makes an exception of exactly this case.
* `effective_opencl_device_index` and its two siblings (`main.cpp:310` to 329) prefer
  the backend's own device option to `--device`, and no check refuses the pair: with
  `--device 0 --opencl-device 1` the `--device` is overridden without a word.
  `RequestedDeviceRuns` says so, and promises `--device` only where no backend's own
  device option is given.

## Proofs

`NativeEncoderProofs` proves, for every number of threads, frame size of at
least one group, chunk size, total limit and input:

* `Invariance`: the inductive invariant `IInv`;
* `TypeCorrect`: `TypeOK`;
* `OutputOrder`: `FramesInOrder`;
* `EncoderImplementsStream`: `ImplementsStream`, the refinement of `FlacStream`;
* `ResultWakeups`: `NoLostResultWakeup`.

The assumptions are those of `FlacFrames` and `NativeEncoder`: positive group,
chunk and thread counts, frames of at least a group (the program accepts 16 to
4608 samples), a finite set of workers, none for one thread.

That the file is in order is not inductive: which frame `take` returns depends
on what queue, workers and results hold. `IInv` therefore says that every frame
anywhere in the pool is the one its number determines in the input
(`PoolHonest`); this rests on the reader's position (`ReaderInv`: what is hashed,
unread and in the chunk add up to the input) and on the cut (`FramingInv`: the
frame being filled starts at `frameNumber * FrameSamples`, and after the tail
nothing is left). `CountInv` bounds the writer by the reader, `OutputInv` counts
the file, `VerdictInv` ties the verdict and STREAMINFO to the program counter.
Each action has a lemma of its own. The refinement then maps every step to
`AppendFrame`, `RewriteInfo`, `Succeed`, `Fail` or a stutter; that the stream is
complete when STREAMINFO is rewritten is `WholeInputWritten`. `ResultWakeups`
needs only the types and where the main thread sleeps.

The same module proves of the pool, for every number of threads:
`NothingLost` (`NoFrameLost`), `BacklogStaysBounded` (`BacklogBounded`),
`WorkersWoken` (`NoStrandedWorker`) and `FailureEndsOutput`
(`OnlyTakenFrameAfterFailure`). The last is not that the file stays as it is: a worker
may fail after the main thread took a frame and before it writes it. `HandInv` says
which frame that is, the next of the file. Counting frames is not inductive: a frame that moves
keeps the count only if it is not already where it goes. `PoolInv` says that a
frame is in one place (`PlacesInv`: once in the queue, with one worker, or among
the results), that a frame about to be submitted is none of them (`NewInv`), and
that the places together hold exactly the numbers between what is written and
what is submitted (`NumbersInv`, `TotalInv`). For the workers, the jobs nobody
looks at are bounded by the workers on their way to the queue plus the one
notification outstanding (`NoIdleJob`), and the end of the pool is announced
before anybody waits for it (`NoDeafWorker`). The lemmas on single pool steps are
in `FramePoolProofs`.

`AcceleratedEncoderProofs` proves for every batch, frame, group and chunk size,
every number of threads and every input `OneTask` (`OneAnalysisAtATime`),
`NoGapBetweenBatches` (`BatchesContiguous`), `PoolWithinBatch`
(`PoolHoldsOneBatch`), `NothingOutlivesCall` (`NoThreadOutlivesCall`) and
`PipelineImplementsStream` (`ImplementsStream`). The difficulty is that reading
stops in the middle of things to flush and write a batch, and that the first
number of a batch is computed backwards from the frame counter. `Place` tells
where the thread will go on, `Launched` the first frame no analysis has been
given; `ReaderInv` and `FramingInv` tie both to the input, `BatchInv` orders the
file, the batch being written, the one in flight and the one being filled, and
`OwnBatchInv` places every frame of the pool inside the batch being written, not
yet written; `HandInv` says that the frame taken and not yet written has left the pool and
is the next of its batch. These five hold until the verdict; after it nothing is read.

`FlacDecoderProofs` proves `NoSampleLost` (`EverySampleOnce`), `CompleteSuccess`
(`SuccessIsComplete`) and `ErrorEndsOutput` (`NoOutputAfterError`) for groups,
buffers, files and frames of every size. Success needs what each stage leaves
for the next: no error past the callbacks (`CleanInv`), no ragged rest and a
satisfied STREAMINFO past the checks (`CheckedInv`), nothing packed and all of the
file hashed before the close (`OutputInv`).

`StagedOutputProofs` proves `PublicationIsAtomic` (`PublishesAtomically`) for every
set of threads and any number of signals: the verdict is open wherever the
destination may still change (`OutcomeInv`). `StagingNeverStays`
(`StagingRemoved`) and `SignalsAreNotOutrun` (`SignalNotOutrun`) assume
`MaxSignals <= 1`: one signal at most for a command with helpers, any number for one
without. `StagedTwoSignals` shows that `StagingRemoved` needs that assumption. Under
it at most one handler runs (`SignalsInv`), and once it has set the flag the main
thread stands still (`MainStandsStill`): the handler is on top of it, or on a
helper it must join first, or the raised signal is pending and fatal
(`CleaningInv`).

`BackendSelectionProofs` proves for any number of devices, device options and other
options `SelectionInvariance`, `RequestedDevice` (`RequestedDeviceRuns`),
`RefusedForCause` (`AutomaticRefusedForCause`) and `AutomaticAgrees`
(`AutomaticRunsProbedDevice`). `SelectionInv` says that what a stage established
holds at every later one, since neither the command line nor the devices change,
and that a session that failed to open had no device to open. That Vulkan and
Metal pick again what the probe saw needs that a list with a suitable device has a
first one (`LeastNumber`). What a user may expect of `auto` is stated by `Eligible`, the
devices README.md lists, without the probes; that a probe finds a device exactly where
one is eligible (`ProbesFindEligible`), and that the first interface with one is taken
(`AutomaticTakesFirst`), gives `RequestedDevice` and `RefusedForCause`.

`FrameWriterProofs` proves of the operators, for every frame number that fits 36
bits and every block size up to `ByteValues` squared, that `ReadNumber` and
`ReadSize` invert what `write_frame_with_body` writes (`NumberReadsBack`,
`SizeReadsBack`). The heart is that a lead byte determines the length of the code
(`LeadTells`), so that what follows cannot be mistaken for it. `HeaderInv` says
that a written frame has the header of its own block and that it passed the
checks, and gives `HeadersReadBack` (`HeaderReadsBack`).

Of the blocks themselves it proves, for samples, predictors, limits and selections
of any number and any size within a word:

* `EverySampleComesBack` (`Lossless`): a decoder turns the bits of every frame back
  into its samples, and stops where the subframe ends;
* `ValidatorsAlwaysAgree` (`ValidatorsAgree`): the one-pass count of wasted bits
  accepts a selection exactly when the two-pass one does;
* `AnalysisAlwaysWrites` (`AnalysisNeverThrows`): no legal block is refused;
* `CountedIsWritten` (`SizeIsCounted`): the size counted is the size written;
* `VerbatimIsTheMost` (`NeverLargerThanVerbatim`);
* `ExactFindsTheLeast` (`ExactIsOptimal`): settling each partition on its own finds
  the least over all partition orders and all assignments of parameters.

The sums, the concatenations and the searches of the model are folds and choices
over data. Induction over data is done with one fact about numbers instead of an
induction theorem: a set of numbers that is not empty has a least one
(`LeastNumber`), so a table that starts right and never goes wrong for the first
time is right everywhere (`NumbersTo`, `FoldTable`, `SumTable`, `FlatTable`).
`Puts(ws, n)` says that the `BitWriter` takes the calls `ws` and that they put `n`
bits; it is closed under concatenation, and one lemma for each part of a subframe,
from a Rice code to the whole, leads to `PutsSubframe`. `IsSubframe` is what it asks
of a subframe: a legal partition order, parameters the format has, coefficients and
precision in range. Every search of the analysis ends in such a subframe
(`AnalyzedIsSubframe`, `FixedFound`, `LpcFound`, `BestFound`), and so does every
selection that is accepted (`SelectedFound`), with its own parameters or with those
found for it.

That the bits mean the samples is a second chain of lemmas beside that one.
`Holds(bits, at, ws)` says that the bits of the calls `ws` stand at a place; it
splits as the calls do (`HoldsBoth`), and each operator of `SubframeReader`, given
that the matching calls stand where it reads, gives what was written and the place
after it: one code (`RiceRead`, whether it went out in one write or in two), a
partition (`PartitionRead`), the residuals (`ResidualRead`, whose partitions joined
are the residuals again), the samples undone from them (`RestoreRead`), the header
(`HeaderRead`) and each kind of body, up to `SubframeRead`. What it asks beyond
`IsSubframe` is `IsReadable`: samples that fit the width left, an order and
coefficients that fit their fields, a fixed predictor that is one of the five. The
searches keep to these (`IsOwn`), a selection is accepted only with these, and
shifting out the wasted bits loses nothing as they are zero (`ShiftedUndone`,
`ShiftedFits`).

`WriterInv` adds to `HeaderInv` what all this says of a frame once written.
The assumptions are those of `Subframes`, `FrameHeaders` and `FrameWriter`: a word
wider than any parameter, coefficient and sample, partition orders to 8, precisions
from 1 to 15, Rice parameters to 14 and orders to 32 (what the fields of the format
hold; the code stops at 14 and 12), and fields of a selection of their C++ types. `PowersAssumption` only says how
powers of two go on, which the proof system does not know.

`ExactIsOptimal` leaves out blocks of equal samples. Without that condition the
proof failed, for a reason: such a block becomes a constant subframe without a
search, and a short one of wide samples would be smaller predicted (one sample 1 of
16 bits takes 24 bits, with the fixed predictor of order 0 it takes 21).

`AnalysisSessionProofs` proves for every sequence of legal batches, of any number of
frames, samples, tasks and windows, through either API, with any call failing:
`SessionInvariance`, `CallsAreTaken` (`LegalCallsAccepted`), `NothingReachedBeyond`
(`BuffersFit`), `CoefficientsAreOwn` (`CoefficientsFromOwnFrame`), `ResultInvariance`,
`BestIsOfOwnFrame` (`BestOfOwnFrame`) and `GuessIsTheWriters`
(`GuessAgreesWithWriter`). What is left from earlier batches is the difficulty: a
buffer that only grows keeps its old tail, and OpenCL skips the upload of windows it uploaded before. `SessionInv`
therefore says that the cached windows are those of the cached block size, count
and profile (`CacheSound`), that the session's own window buffer still begins with
them whenever no batch is running in other buffers (`WindowsKept`), and that a
running batch has its own (`WindowsCurrent`); that every buffer in use is at least
as long as this batch needs (`LongEnough`); that inputs are in place before a
command reads them (`InputsThere`, and `InputsStaged` for the host memory Vulkan
copies from); and, for each command done, what it left (`ShiftedDone`,
`AutocorDone`, `LpcDone`), which holds as no later command of the program writes
there.

That a frame gets a least candidate of its own needs a second invariant, `ResultInv`,
on top of that one. A least candidate exists only if the sizes compared are numbers,
so every task must stay one (`Sound`) through the commands that change tasks: planned
tasks are (`PlannedSound`), and marking the wasted bits, quantizing, pruning and the
exact analysis leave them so (`WastedMarks`, `QuantizeTracks`, `PruneTracks`,
`AnalyzeTracks`). The last is the long one: that the cost of a candidate is a number
takes that its samples are the shifted samples of its own frame (`Marked`), hence that
its residuals, their sums per leaf and per partition, the parameters chosen and the
bits they count are (`ResidualsTyped`, `FoldedPart`, `ExactTyped`, `MeanTyped`,
`AnalyzedSound`), with the saturation below `Pruned` in between. `ResultsOf(m, k)`
then says what `k` of the four commands after the analysis have made: the two searches
for the least, made apart by two kernels, find the same task as neither the tasks nor
the selection change between them, and on Vulkan, where the candidates' Rice parameters
and the chosen ones share a buffer, writing the chosen ones leaves the candidates' in
place (`WriteKeepsRice`).

That the guess is the writer's takes a third, `GuessInv`: until the guess a frame's
fixed tasks have the orders and sizes of the plan, though three launches rewrite the
tasks around them (`FixedStaysPlanned`), and after it all but one are pruned
(`GuessPrunes`). That the one left is the writer's joins three facts. The formulas the
kernel writes out are the writer's predictors of order 0 to 4 (`FixedPredicts`), so it
sums what `guess_fixed_order` sums over the same block (`DeviceError`). The tasks of a
frame lie in the order of their predictors (`FixedPlaced`, `FixedFound`,
`FixedOrdersPlanned`), so the least task among equals is the least order among equals
(`GuessKept`, by `LeastOnly`: a search has one answer). And where OpenCL without LPC
guesses on the host, it sees the samples before their wasted bits go: these are the
shifted ones times a power of two (`WastedExact`), which scales every residual and every
sum alike (`ResidualScaled`, `ErrorScaled`) and so leaves the guess as it is
(`GuessScaled`, `HostGuess`).

That the kernels shift by the wasted bits of the frame needs that
counting in `IntBits` finds what counting in `DeviceBits` would. `CallsAssumption` says what a
legal batch is, `LimitsAssumption` how the limits of the code relate (`TaskLimit` holds
the widest plan, and the largest block stored plainly counts fewer bits than an int holds),
and `FoundAssumption` that the Levinson recursion, whose numbers are inputs of the
model, hands on an order within the options and whole coefficients for each.
The proof of `CallsAreTaken` found that the model counted LPC tasks by overlapping
cases, where the code returns at the first that applies; the model was corrected.

Only model-checked: liveness (`EventuallyReturns`), since the provers at hand do
neither fairness nor ENABLED; and of `AnalysisSession` what relates the numbers of the
kernels to those of the writer's searches (`DeviceAgreesWithWriter`,
`WriterAcceptsDevice`). These equate two long computations over data, sum by sum; and
`DeviceAgreesWithWriter` holds only where OpenCL takes its leaf path, as the run
`OpenClUnevenBlock` shows, so the calls of its run are part of what it says.

## Not modelled

* Of a frame: the floating-point LPC analysis (windows, autocorrelation,
  quantization error), CRCs, padding, and the entry points that write one fixed
  kind of frame or only analyse. The check that a Rice quotient fits 32 bits
  needs folded residuals beyond 32 bits, out of TLC's integers.
* Packing of samples and hashes. The encoders' properties do not depend on them.
* Of the GPU sessions: floating-point LPC; the lanes of a work group (see above);
  Metal, whose code needs Apple's frameworks; construction and destruction of a
  session; entry points only tests use; a profile with a least fixed order above 0
  (`apply_mono_analysis_profile_to_plan`), which no command asks for. An OpenCL
  buffer whose growth fails leaves its handle released (`opencl_analysis.cpp:2853`),
  a window cache is marked valid before its upload (3696) and the Vulkan fence may
  time out with the device still running (`vulkan_analysis.cpp:1765`): each throws
  and ends the encoding, so no later batch meets it.
* Construction of the pools: a `std::thread` that cannot be created terminates
  the process; there is nothing to interleave.
* Timing counters, statistics, progress lines.
* The bench command with its temporary directory and reused sessions, the
  comparison made by `verify`, and devices that come or go while a command runs.
* The directory above the staging directory, and file systems that lose
  renames in a crash of the machine.

## Plan

Order of the work, most important behaviour first:

1. `FlacFrames`, `FlacStream`, `FramePool`, `NativeEncoder` and its proofs (done).
2. `AcceleratedEncoder`, `AtomicOutput` and `StagedOutput`, `FlacDecoder`,
   `BackendSelection` (done).
3. `Subframes`, `FrameHeaders`, `SubframeReader`, `FrameWriter` and the proof
   about its headers (done).
4. `TaskPlans`, `AnalysisKernels`, `AnalysisSession`: a device session whose
   buffers grow and are reused between batches (done).
5. `FramePoolProofs`, `AcceleratedEncoderProofs`, `FlacDecoderProofs`,
   `StagedOutputProofs`, `BackendSelectionProofs`, `AnalysisSessionProofs`, and
   the blocks in `FrameWriterProofs` (done).
6. `LdsCodec`: packing and the two streaming conversions; the libFLAC adapter.
   Both are sequential loops over data and weigh less than the above.
7. The bench and verify commands.

Theorem to prove next: `DeviceAgreesWithWriter` of `AnalysisSession` and
`WriterAcceptsDevice`, restricted to the paths where they agree.
