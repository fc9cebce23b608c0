---------------------------- MODULE AnalysisSession ----------------------------
(***************************************************************************)
(* One batch of frames after another through a GPU: the analysis functions *)
(* of opencl_backend.cpp and vulkan_backend.cpp, and the sessions of       *)
(* opencl_analysis.cpp and vulkan_analysis.cpp they call.                  *)
(*                                                                         *)
(*   Begin          build the task plan and check it                       *)
(*   Upload         grow the buffers that are too small, write the inputs  *)
(*   Submit         enqueue the next command (OpenCL) or all (Vulkan)      *)
(*   DeviceStep     the device runs the next command                       *)
(*   Finish         wait for the device, translate the best tasks          *)
(*   CallFails      an allocation, a launch or the wait reports an error   *)
(*                                                                         *)
(* A session keeps its buffers between batches and only ever grows them.   *)
(* OpenCL keeps the windows too, and analyses without LPC outside of the   *)
(* session, in buffers made for the call.  A batch that fails ends the     *)
(* encoding (AcceleratedEncoder), so nothing follows it here.              *)
(***************************************************************************)
EXTENDS AnalysisKernels

CONSTANTS Apis,               \* {"opencl", "vulkan"}
          Calls,              \* the batches: block, lpc, profile, precision, porder,
                              \* samples, found (see AnalysisKernels)
          MaxCalls,           \* bound: batches of a behaviour
          MinGeneratedBlock   \* 256: shorter blocks get no LPC tasks (Vulkan)

ASSUME SessionAssumption ==
  /\ Apis \subseteq {"opencl", "vulkan"} /\ MaxCalls \in Nat
  /\ MinGeneratedBlock \in Nat
  /\ \A c \in Calls : Len(c.samples) > 0 /\ Len(c.samples) % c.block = 0

\* What the options and the 16-bit input leave possible (validate_opencl_options,
\* validate_vulkan_options), and that the task limits were chosen for it.
ASSUME CallsAssumption ==
  \A c \in Calls :
    /\ c.block \in 1 .. MaxDeviceBlock
    /\ c.lpc \in 0 .. MaxLpcOrder /\ c.lpc < c.block
    /\ c.profile \in AnalysisProfiles
    /\ c.precision \in 1 .. 15 /\ c.porder \in 0 .. MaxPartitionOrder
    /\ c.samples \in Seq(Int)
    /\ \A i \in DOMAIN c.samples : FitsBits(c.samples[i], DeviceBits)

ASSUME LimitsAssumption ==
  /\ MaxLpcOrder < TaskLimit
  /\ 2 * MaxLpcOrder + 6 <= TaskLimit /\ Tukey3Windows + 6 <= TaskLimit
  /\ 9 <= TaskLimit
  /\ DeviceBits * MaxDeviceBlock < Pruned

\* What the Levinson recursion hands on: an order within what the options allow, and
\* for each order that many coefficients.
ASSUME FoundAssumption ==
  \A c \in Calls : c.lpc > 0 =>
    /\ Len(c.found) \in Nat \ {0}
    /\ \A i \in 1 .. Len(c.found) :
         /\ c.found[i].guess \in 1 .. c.lpc
         /\ \A o \in 1 .. c.lpc : \A k \in 1 .. o : c.found[i].raw[o][k] \in Int

VARIABLES api, call,
          stage,         \* "idle" | "planned" | "running" | "returned" | "refused" | "failed"
          plan,
          kept,          \* the session: buffers by name
          windowCache,   \* [block, count, profile, cells], or NoWindows (OpenCL)
          mem,           \* the buffers this batch uses
          submitted, done,   \* commands of the program enqueued and run
          result,        \* [tasks, rice], one of each per frame
          count          \* batches so far

vars == <<api, call, stage, plan, kept, windowCache, mem, submitted, done, result, count>>

NoWindows == [block |-> 0, count |-> 0, profile |-> "none", cells |-> <<>>]
NoResult == [tasks |-> <<>>, rice |-> <<>>]

DeviceBuffers == {"samples", "shifted", "tasks", "selected", "window", "autocor", "lpc",
                  "best", "taskRice", "bestRice"}
HostBuffers == {"samplesUp", "tasksUp", "selectedUp", "windowUp", "bestDown", "riceDown"}
NoBuffers == [b \in DeviceBuffers \cup HostBuffers |-> <<>>]

Init ==
  /\ api \in Apis
  /\ stage = "idle" /\ call = <<>> /\ plan = <<>> /\ result = NoResult /\ count = 0
  /\ kept = NoBuffers /\ mem = NoBuffers /\ windowCache = NoWindows
  /\ submitted = 0 /\ done = 0

-----------------------------------------------------------------------------
\* The plan.  Only the OpenCL analysis without LPC leaves the guess to the host, and
\* only Vulkan drops the LPC tasks of short blocks.
OptionsOf(c) ==
  [frameSamples |-> c.block, profile |-> c.profile,
   maxLpcOrder  |-> IF api = "vulkan" /\ c.block < MinGeneratedBlock THEN 0 ELSE c.lpc,
   gpuGuess     |-> api = "vulkan" \/ c.lpc > 0]

Generated(c) == c.lpc > 0

ValidInputs(c, p) ==
  /\ c.porder <= MaxPartitionOrder
  /\ api = "vulkan" => \A i \in DOMAIN c.samples : FitsBits(c.samples[i], DeviceBits)
  /\ IF Generated(c) THEN ValidGeneratedPlan(p, c.samples, c.precision)
                     ELSE ValidFixedPlan(p, c.samples)

Begin ==
  /\ stage \in {"idle", "returned"} /\ count < MaxCalls
  /\ \E c \in Calls :
       /\ call' = c
       /\ plan' = IF ValidOptions(OptionsOf(c)) THEN BuildPlan(OptionsOf(c), c.samples)
                                                ELSE <<>>
       /\ stage' = IF ValidOptions(OptionsOf(c)) /\ ValidInputs(c, plan')
                   THEN "planned" ELSE "refused"
  /\ count' = count + 1 /\ result' = NoResult
  /\ submitted' = 0 /\ done' = 0
  /\ UNCHANGED <<api, kept, windowCache, mem>>

-----------------------------------------------------------------------------
\* The arguments of the launches.
ShiftedProfile(c, s) ==
  /\ c.profile = "OrderGuessMeanEstimateRice" /\ s.windows = 3 /\ s.perWindow = 1
  /\ c.lpc <= MaxLpcOrder /\ c.porder <= LeafPorderLimit

ArgumentsOf(c, p) ==
  LET s == IF Generated(c) THEN PrefixShape(p, 0)
                           ELSE [lpcTasks |-> 0, perWindow |-> 0, windows |-> 0]
  IN  [frames |-> p.frames, perFrame |-> p.perFrame, perWindow |-> s.perWindow,
       lpcTasks |-> s.lpcTasks, windows |-> s.windows, precision |-> c.precision,
       profile |-> c.profile, maxPorder |-> c.porder, found |-> c.found,
       shifted |-> ShiftedProfile(c, s), api |-> api]

args == ArgumentsOf(call, plan)

\* The windows' weights are known by their shape, their place and the block size.
WindowShapes(n, block, profile) ==
  CASE SubdividesTukey3(profile) /\ n = 9 ->
         <<"tukey", "1 of 2", "2 of 2", "1 of 3", "2 of 3", "3 of 3",
           "all but 1 of 3", "all but 2 of 3", "all but 3 of 3">>
    [] ~SubdividesTukey3(profile) /\ block > 1 ->
         [w \in 1 .. n |-> IF w = 2 THEN "tukey" ELSE IF w = 3 THEN "welch" ELSE "flat"]
    [] OTHER -> [w \in 1 .. n |-> "flat"]

Windows(n, block, profile) ==
  FlattenSeq([w \in 1 .. n |->
    [i \in 1 .. block |-> [shape |-> WindowShapes(n, block, profile)[w], at |-> i, block |-> block]]])

\* Without LPC the Vulkan shader is given a window of one zero.
DummyWindow == <<[shape |-> "zero", at |-> 1, block |-> 1]>>

-----------------------------------------------------------------------------
\* Mutant: a buffer is made once, for the first batch.
EnsuredOnce(buffer, need) ==
  IF buffer # <<>> THEN buffer ELSE [i \in 1 .. need |-> Garbage]

\* A buffer that is too small is replaced, its contents lost.
Ensured(buffer, need) ==
  IF need <= Len(buffer) THEN buffer ELSE [i \in 1 .. need |-> Garbage]

\* Cells each buffer needs.  The floats of a frame's window (33 lags, 33 * 32
\* coefficients) are one cell of autocor and lpc: a single dummy float is none.
Needs(windowCells) ==
  LET vulkan == api = "vulkan"
      frames == plan.frames
      tasks  == Len(plan.tasks)
      cells  == frames * args.windows
      Host(n) == IF vulkan THEN n ELSE 0
  IN  [samples |-> Len(call.samples),
       shifted |-> IF args.shifted THEN Len(call.samples) ELSE 0,
       tasks |-> tasks, selected |-> Len(plan.selected), window |-> windowCells,
       autocor |-> cells, lpc |-> cells, best |-> frames,
       taskRice |-> IF vulkan THEN 0 ELSE tasks,
       bestRice |-> IF vulkan THEN frames + tasks ELSE frames,
       samplesUp |-> Host(Len(call.samples)), tasksUp |-> Host(tasks),
       selectedUp |-> Host(Len(plan.selected)), windowUp |-> Host(windowCells),
       bestDown |-> frames, riceDown |-> frames]

Grown(buffers, windowCells) ==
  [b \in DOMAIN buffers |-> Ensured(buffers[b], Needs(windowCells)[b])]

\* Where this batch starts from: the session's buffers, or none of them.  OpenCL
\* reads its results into vectors of their own.
OwnBuffers == api = "opencl" /\ ~Generated(call)
Starting ==
  IF OwnBuffers THEN NoBuffers
  ELSE IF api = "opencl" THEN [kept EXCEPT !.bestDown = <<>>, !.riceDown = <<>>] ELSE kept

WindowMiss ==
  \/ windowCache = NoWindows
  \/ windowCache.block # call.block \/ windowCache.count # args.windows
  \/ windowCache.profile # call.profile

CachedWindows ==
  IF WindowMiss
  THEN [block |-> call.block, count |-> args.windows, profile |-> call.profile,
        cells |-> Windows(args.windows, call.block, call.profile)]
  ELSE windowCache

\* Mutant: the windows go to the device only when its buffer is replaced.
UploadedWhenGrown(buffers, windows) ==
  Len(windows.cells) > Len(buffers.window)

WindowUploaded(buffers, windows) ==
  WindowMiss \/ Len(windows.cells) > Len(buffers.window)

\* OpenCL: blocking writes to the device.
UploadOpenCl ==
  LET windows == IF Generated(call) THEN CachedWindows ELSE windowCache
      cells   == IF Generated(call) THEN windows.cells ELSE <<>>
      grown   == Grown(Starting, Len(cells))
  IN  /\ windowCache' = windows
      /\ mem' = [grown EXCEPT
                   !.samples = Overwrite(@, call.samples),
                   !.tasks = Overwrite(@, plan.tasks),
                   !.selected = Overwrite(@, plan.selected),
                   !.window = IF Generated(call) /\ WindowUploaded(Starting, windows)
                              THEN Overwrite(@, cells) ELSE @]

\* Vulkan: into host memory the device will copy from.  Windows are made anew.
UploadVulkan ==
  LET cells == IF Generated(call) THEN Windows(args.windows, call.block, call.profile)
                                  ELSE DummyWindow
  IN  /\ mem' = [Grown(Starting, Len(cells)) EXCEPT
                   !.samplesUp = Overwrite(@, call.samples),
                   !.tasksUp = Overwrite(@, plan.tasks),
                   !.selectedUp = Overwrite(@, plan.selected),
                   !.windowUp = Overwrite(@, cells)]
      /\ UNCHANGED windowCache

Upload ==
  /\ stage = "planned"
  /\ IF api = "opencl" THEN UploadOpenCl ELSE UploadVulkan
  /\ stage' = "running"
  /\ UNCHANGED <<api, call, plan, kept, submitted, done, result, count>>

-----------------------------------------------------------------------------
\* Cells of local memory the OpenCL launch of the analysis asks for; the arrays of
\* the Vulkan shader have a fixed size.
LocalCells ==
  IF call.porder > LeafPorderLimit \/ (MeanRice(call.profile) /\ ~MeanEstimated(call.profile))
  THEN 1
  ELSE 2^call.porder * (IF MeanEstimated(call.profile) THEN 1 ELSE MaxRiceParameter + 1)

\* The commands of a batch, in the order of the queue.
GenerationCommands ==
  IF Generated(call) THEN <<"ComputeAutocor", "ComputeLpc", "QuantizeLpcOrders">> ELSE <<>>

GuessCommands == IF plan.guessed THEN <<"PruneFixedOrderGuess">> ELSE <<>>

UploadCommands == IF api = "vulkan" THEN <<"CopyInputs">> ELSE <<>>

Program ==
  UploadCommands \o <<"FindWastedBits">> \o GenerationCommands \o GuessCommands \o
  <<"AnalyzeSubframeExact", "ChooseBestMethod", "WriteBestRiceParameters",
    "ReadBest", "ReadRice">>

\* What the Vulkan copies move is what this batch wrote.
CopyInputs(m) ==
  LET Copied(from, to, n) == Overwrite(m[to], SubSeq(m[from], 1, n))
  IN  [m EXCEPT !.samples = Copied("samplesUp", "samples", Len(call.samples)),
                !.tasks = Copied("tasksUp", "tasks", Len(plan.tasks)),
                !.selected = Copied("selectedUp", "selected", Len(plan.selected)),
                !.window = Copied("windowUp", "window",
                                  IF Generated(call) THEN call.block * args.windows ELSE 1)]

Run(command, m) ==
  CASE command = "CopyInputs"              -> CopyInputs(m)
    [] command = "FindWastedBits"          -> FindWastedBits(m, args)
    [] command = "ComputeAutocor"          -> ComputeAutocor(m, args)
    [] command = "ComputeLpc"              -> ComputeLpc(m, args)
    [] command = "QuantizeLpcOrders"       -> QuantizeLpcOrders(m, args)
    [] command = "PruneFixedOrderGuess"    -> PruneFixedOrderGuess(m, args)
    [] command = "AnalyzeSubframeExact"    -> AnalyzeSubframeExact(m, args)
    [] command = "ChooseBestMethod"        -> ChooseBestMethod(m, args)
    [] command = "WriteBestRiceParameters" -> WriteBestRiceParameters(m, args)
    [] command = "ReadBest" -> [m EXCEPT !.bestDown = Overwrite(@, SubSeq(m.best, 1, plan.frames))]
    [] command = "ReadRice" -> [m EXCEPT !.riceDown = Overwrite(@, SubSeq(m.bestRice, 1, plan.frames))]

\* OpenCL enqueues one at a time, and a read blocks until it is done; Vulkan
\* records everything, with a barrier after each dispatch, and submits it once.
Blocked == submitted > 0 /\ Program[submitted] = "ReadBest" /\ done < submitted

Submit ==
  /\ stage = "running" /\ submitted < Len(Program)
  /\ IF api = "vulkan" THEN submitted' = Len(Program)
     ELSE ~Blocked /\ submitted' = submitted + 1
  /\ UNCHANGED <<api, call, stage, plan, kept, windowCache, mem, done, result, count>>

DeviceStep ==
  /\ stage = "running" /\ done < submitted
  /\ mem' = Run(Program[done + 1], mem)
  /\ done' = done + 1
  /\ UNCHANGED <<api, call, stage, plan, kept, windowCache, submitted, result, count>>

-----------------------------------------------------------------------------
\* flaccl_task_to_selected_subframe: the coefficients are put the other way round.
\* Mutant: they stay oldest first.
PredictorOldestFirst(task) ==
  CASE task.type = "Constant" -> FixedPredictor(0)
    [] task.type = "Fixed"    -> FixedPredictor(task.order)
    [] task.type = "Lpc"      -> [coefs |-> task.coefs, shift |-> task.shift]

PredictorOf(task) ==
  CASE task.type = "Constant" -> FixedPredictor(0)
    [] task.type = "Fixed"    -> FixedPredictor(task.order)
    [] task.type = "Lpc"      -> [coefs |-> Reverse(task.coefs), shift |-> task.shift]

Selected(task, rice) ==
  [kind      |-> CASE task.type = "Constant" -> "Constant" [] task.type = "Fixed" -> "FixedRice"
                   [] task.type = "Lpc" -> "LpcRice",
   predictor |-> PredictorOf(task),
   precision |-> IF task.type = "Lpc" THEN task.cbits ELSE 0,
   porder    |-> IF task.type = "Constant" THEN 0 ELSE task.porder,
   wasted    |-> task.wbits,
   params    |-> IF task.type = "Constant" THEN <<>> ELSE SubSeq(rice, 1, 2^task.porder)]

\* What the translation throws on.
Translatable(task, rice) ==
  /\ task.size >= 0 /\ task.wbits >= 0 /\ task.order >= 0
  /\ task.type = "Fixed" => task.order <= 4
  /\ task.type = "Lpc" =>
       /\ task.order \in 1 .. TaskLimit
       /\ task.cbits \in 1 .. 15 /\ task.shift \in 0 .. 15
       /\ \A i \in DOMAIN task.coefs : FitsBits(task.coefs[i], task.cbits)
  /\ task.type # "Constant" =>
       /\ task.porder \in 0 .. MaxPartitionOrder
       /\ api = "opencl" => \A p \in 1 .. 2^task.porder : rice[p] <= MaxRiceParameter

\* Mutant: the results are fetched as soon as everything is enqueued.
EverythingSubmitted == submitted = Len(Program)

\* clFinish, or the fence.
DeviceDone == submitted = Len(Program) /\ done = Len(Program)

Finish ==
  /\ stage = "running" /\ DeviceDone
  /\ result' = [tasks |-> SubSeq(mem.bestDown, 1, plan.frames),
                rice  |-> SubSeq(mem.riceDown, 1, plan.frames)]
  /\ stage' = IF \A f \in 1 .. plan.frames : Translatable(mem.bestDown[f], mem.riceDown[f])
              THEN "returned" ELSE "failed"
  /\ kept' = IF OwnBuffers THEN kept ELSE mem
  /\ UNCHANGED <<api, call, plan, windowCache, mem, submitted, done, count>>

\* An error of the API, or the fence not signalled within its 10 seconds: the device
\* may still be running.
CallFails ==
  /\ stage \in {"planned", "running"}
  /\ stage' = "failed"
  /\ UNCHANGED <<api, call, plan, kept, windowCache, mem, submitted, done, result, count>>

Next == Begin \/ Upload \/ Submit \/ DeviceStep \/ Finish \/ CallFails

Spec == Init /\ [][Next]_vars
-----------------------------------------------------------------------------
(* Properties. *)

OwnFrame(f) == FrameOf(call.samples, f * call.block, call.block)
OwnTasks(f) == {t \in DOMAIN plan.tasks : (t - 1) \div plan.perFrame = f}
OwnShifted(f) == ShiftSamples(OwnFrame(f), CommonWastedBits(OwnFrame(f), DeviceBits))
Frames == 0 .. plan.frames - 1

Before(command) == stage = "running" /\ done < Len(Program) /\ Program[done + 1] = command
After(command) == stage = "running" /\ done > 0 /\ Program[done] = command

\* A call is refused only where Vulkan has no LPC plan for a short block and then
\* insists on one: whatever else the options allow, the plan is one the session takes
\* (validate_options against generated_welch_candidate_count,
\* validate_generated_analysis_inputs, build_vulkan_mixed_lpc_task_plan).
LegalCallsAccepted ==
  stage = "refused" => api = "vulkan" /\ call.lpc > 0 /\ call.block < MinGeneratedBlock

\* No kernel reaches past the end of a buffer, however the batches before this one
\* left the session, nor past its local memory, whichever way it costs a task
\* (ensure_opencl_buffer, ensure_device_buffer, exact_leaf_rice_local_bytes and the
\* index expressions of the kernels).
Reach ==
  [samples  |-> Max({t.offset + t.block : t \in ToSet(plan.tasks)}),
   shifted  |-> IF args.shifted THEN Max({t.offset + t.block : t \in ToSet(plan.tasks)}) ELSE 0,
   tasks    |-> Max(ToSet(plan.selected)) + 1,
   selected |-> plan.frames * args.perFrame,
   window   |-> args.windows * call.block,
   autocor  |-> plan.frames * args.windows,
   lpc      |-> plan.frames * args.windows,
   best     |-> plan.frames,
   taskRice |-> IF api = "vulkan" THEN 0 ELSE Max(ToSet(plan.selected)) + 1,
   bestRice |-> IF api = "vulkan" THEN plan.frames + Max(ToSet(plan.selected)) + 1
                                  ELSE plan.frames]

BuffersFit ==
  /\ stage = "running" => \A b \in DeviceBuffers : Reach[b] <= Len(mem[b])
  /\ Before("AnalyzeSubframeExact") /\ api = "opencl" =>
       \A t \in DOMAIN plan.tasks : LeafCells(mem.tasks[t], args) <= LocalCells

\* The coefficients of a frame come from its own samples, its wasted bits removed, and
\* from this batch's windows, though the session has analysed other block sizes and
\* profiles before (cached_window_valid, write_opencl_buffer of the windows).
CoefficientsFromOwnFrame ==
  After("ComputeLpc") =>
    \A f \in Frames, w \in 0 .. args.windows - 1 :
      mem.lpc[f * args.windows + w + 1] =
        [samples |-> OwnShifted(f),
         window  |-> FrameOf(Windows(args.windows, call.block, call.profile),
                             w * call.block, call.block)]

\* The fixed order a frame is left with is the one the CPU writer would guess,
\* whether the device guesses on shifted samples or the host on the original ones
\* (ldcompressPruneFixedOrderGuess, guess_fixed_order).
GuessAgreesWithWriter ==
  Before("AnalyzeSubframeExact") /\ OrderGuess(call.profile) =>
    \A f \in Frames :
      {mem.tasks[t].order : t \in {u \in OwnTasks(f) : mem.tasks[u].type = "Fixed"
                                                     /\ mem.tasks[u].size # Pruned}}
        = {GuessFixedOrder(OwnShifted(f))}

\* The CPU writer's own analysis of the predictor a task has.
RiceCosting(profile) ==
  CASE MeanEstimated(profile)                        -> "MeanEstimateOnly"
    [] MeanRice(profile) /\ ~MeanEstimated(profile)  -> "MeanEstimate"
    [] ~MeanRice(profile)                            -> "Exact"

WriterAnalysis(task, f) ==
  AnalyzePredictor(IF task.type = "Fixed" THEN "FixedRice" ELSE "LpcRice",
                   PredictorOf(task), task.cbits, OwnShifted(f), DeviceBits,
                   CommonWastedBits(OwnFrame(f), DeviceBits), call.porder,
                   RiceCosting(call.profile))

AgreesWithWriter(task, rice, s) ==
  /\ task.porder = s.porder /\ SubSeq(rice, 1, 2^task.porder) = s.params
  /\ task.size = Saturated(s.bits)

\* What the device says of a candidate is what the CPU writer would: its size, its
\* partition order and its Rice parameters, though the device sums per leaf, in
\* narrower integers, over samples shifted earlier, and tries the orders another way
\* round (ldcompressAnalyzeSubframeExact against analyze_fixed_rice_subframe and its
\* like).
DeviceAgreesWithWriter ==
  After("AnalyzeSubframeExact") =>
    \A f \in Frames : \A t \in OwnTasks(f) :
      mem.tasks[t].type # "Constant" /\ mem.tasks[t].size # Pruned =>
        AgreesWithWriter(mem.tasks[t], mem[TaskRiceBuffer(args)][TaskRiceCell(args, t)],
                         WriterAnalysis(mem.tasks[t], f))

\* Analysis on samples shifted in advance finds what the generic analysis of the
\* original samples finds.  OpenCL outside of its leaf path does not.
ShiftedAgreesWithGeneric ==
  After("AnalyzeSubframeExact") =>
    \A t \in DOMAIN plan.tasks :
      mem.tasks[t].size # Pruned =>
        mem.tasks[t] = AnalyzedTask(mem, [args EXCEPT !.shifted = FALSE], mem.tasks[t]).task

\* Every frame gets a least candidate of its own group, of this batch, with the Rice
\* parameters of that candidate and not of another of the same size
\* (ldcompressChooseBestMethod, ldcompressWriteBestRiceParameters, clFinish, the fence).
BestOfOwnFrame ==
  stage = "returned" =>
    \A f \in Frames : \E t \in OwnTasks(f) :
      /\ result.tasks[f + 1] = mem.tasks[t]
      /\ \A u \in OwnTasks(f) : mem.tasks[t].size <= mem.tasks[u].size
      /\ result.rice[f + 1] = mem[TaskRiceBuffer(args)][TaskRiceCell(args, t)]

=============================================================================
