------------------------------ MODULE TaskPlans ------------------------------
(***************************************************************************)
(* What a GPU is asked to try (opencl_analysis.cpp, shared by the OpenCL   *)
(* and the Vulkan backend): for every frame of a batch, a group of tasks.  *)
(* A task is one subframe candidate: the LPC candidates first, grouped by  *)
(* the window their coefficients will come from, then the constant one,    *)
(* then the fixed predictors.  The functions here build such a plan from   *)
(* the options and the samples, and check one before it is run.            *)
(*                                                                         *)
(* A task keeps its coefficients oldest sample first, the reverse of the   *)
(* order a FLAC subframe has them in.  Task numbers and sample offsets     *)
(* count from 0, as they do on the device.                                 *)
(***************************************************************************)
EXTENDS Subframes

CONSTANTS DeviceBits,             \* 16: the sample width the kernels are built for
          TaskLimit,              \* kFlacClMaxOrder, 32: tasks per frame, LPC order
          WelchTarget,            \* 2: Welch candidates asked for
          Tukey3Windows,          \* 9: windows of the subdivide-tukey3 profiles
          MaxDeviceBlock,         \* 8192: samples in a frame
          IntBits                 \* 32: width of a device int

ASSUME TaskPlansAssumption ==
  /\ {DeviceBits, TaskLimit, WelchTarget, Tukey3Windows, MaxDeviceBlock} \subseteq Nat \ {0}
  /\ IntBits \in Nat /\ IntBits > DeviceBits /\ IntBits <= WordBits

IntMax == 2^(IntBits - 1) - 1

\* The size of a task nobody will choose.
Pruned == IntMax

AnalysisProfiles ==
  {"Exact", "OrderGuessExactRice", "OrderGuessMeanRice", "OrderGuessMeanEstimateRice",
   "SubdivideTukey3MeanRice", "SubdivideTukey3MeanEstimateRice"}

OrderGuess(profile) == profile # "Exact"
SubdividesTukey3(profile) ==
  profile \in {"SubdivideTukey3MeanRice", "SubdivideTukey3MeanEstimateRice"}
MeanEstimated(profile) ==
  profile \in {"OrderGuessMeanEstimateRice", "SubdivideTukey3MeanEstimateRice"}
MeanRice(profile) ==
  MeanEstimated(profile) \/ profile \in {"OrderGuessMeanRice", "SubdivideTukey3MeanRice"}

-----------------------------------------------------------------------------
\* Options o: frameSamples, maxLpcOrder, profile, gpuGuess.  Every backend asks for
\* the constant candidate and for the fixed orders from 0 to at most 4.
LargestFixed(o) == Min({4, o.frameSamples - 1})
FixedTaskCount(o) == LargestFixed(o) + 1

\* Mutant: Welch candidates are not limited to the spare tasks.
WelchUnlimited(o) == Min({WelchTarget, o.maxLpcOrder})

WelchCount(o) ==
  IF o.maxLpcOrder = 0 THEN 0
  ELSE Max({0, Min({WelchTarget, o.maxLpcOrder,
                    TaskLimit - (2 * o.maxLpcOrder + 1 + FixedTaskCount(o))})})

LpcTaskCount(o) ==
  IF o.maxLpcOrder = 0 THEN 0
  ELSE CASE SubdividesTukey3(o.profile) -> Tukey3Windows
         [] o.profile = "Exact"         -> 2 * o.maxLpcOrder + WelchCount(o)
         [] OTHER                       -> 3

GuessedOnDevice(o) == OrderGuess(o.profile) /\ o.gpuGuess /\ FixedTaskCount(o) > 1

\* A guess made by the host leaves one fixed task.
TasksPerFrame(o) ==
  LpcTaskCount(o) + 1 +
  (IF OrderGuess(o.profile) /\ ~GuessedOnDevice(o) THEN 1 ELSE FixedTaskCount(o))

ValidOptions(o) ==
  /\ o.frameSamples > 0
  /\ o.maxLpcOrder <= TaskLimit
  /\ o.maxLpcOrder = 0 \/ o.maxLpcOrder < o.frameSamples
  /\ DeviceBits * o.frameSamples <= IntMax
  /\ LpcTaskCount(o) + 1 + FixedTaskCount(o) <= TaskLimit

-----------------------------------------------------------------------------
CommonTask(o, frame, type, order) ==
  [type |-> type, order |-> order, coefs |-> <<>>, shift |-> 0, cbits |-> 0,
   size |-> DeviceBits * o.frameSamples, wbits |-> 0, abits |-> DeviceBits,
   porder |-> 0, offset |-> frame * o.frameSamples, block |-> o.frameSamples]

LpcOrdersOf(o) ==
  IF OrderGuess(o.profile)
  THEN [w \in 1 .. LpcTaskCount(o) |-> 1]
  ELSE [i \in 1 .. 2 * o.maxLpcOrder |-> ((i - 1) % o.maxLpcOrder) + 1] \o
       [i \in 1 .. WelchCount(o) |-> o.maxLpcOrder - WelchCount(o) + i]

ConstantTask(o, frame) == [CommonTask(o, frame, "Constant", 1) EXCEPT !.coefs = <<1>>]

FixedTask(o, frame, order) ==
  [CommonTask(o, frame, "Fixed", order) EXCEPT !.coefs = Reverse(FixedPredictor(order).coefs)]

FrameOf(samples, offset, size) == SubSeq(samples, offset + 1, offset + size)

\* The host guesses on the samples as they came, not shifted.
FixedOrdersOf(o, block) ==
  IF OrderGuess(o.profile) /\ ~GuessedOnDevice(o)
  THEN <<GuessFixedOrder(block)>>
  ELSE [i \in 1 .. FixedTaskCount(o) |-> i - 1]

FrameTasks(o, frame, block) ==
  [i \in 1 .. LpcTaskCount(o) |-> CommonTask(o, frame, "Lpc", LpcOrdersOf(o)[i])] \o
  <<ConstantTask(o, frame)>> \o
  [i \in DOMAIN FixedOrdersOf(o, block) |-> FixedTask(o, frame, FixedOrdersOf(o, block)[i])]

BuildPlan(o, samples) ==
  LET frames == Len(samples) \div o.frameSamples
  IN  [tasks    |-> FlattenSeq([f \in 1 .. frames |->
                      FrameTasks(o, f - 1, FrameOf(samples, (f - 1) * o.frameSamples,
                                                   o.frameSamples))]),
       selected |-> [i \in 1 .. frames * TasksPerFrame(o) |-> i - 1],
       frames   |-> frames, perFrame |-> TasksPerFrame(o), block |-> o.frameSamples,
       profile  |-> o.profile, maxLpcOrder |-> o.maxLpcOrder,
       guessed  |-> GuessedOnDevice(o)]

-----------------------------------------------------------------------------
\* How the LPC tasks at the head of a frame group fall into windows.
TaskOf(plan, frame, i) == plan.tasks[frame * plan.perFrame + i]

LpcPrefix(plan, frame) ==
  CHOOSE n \in 0 .. plan.perFrame :
    /\ \A i \in 1 .. n : TaskOf(plan, frame, i).type = "Lpc"
    /\ n < plan.perFrame => TaskOf(plan, frame, n + 1).type # "Lpc"

PerWindow(plan, frame) ==
  CHOOSE n \in 0 .. LpcPrefix(plan, frame) :
    /\ \A i \in 1 .. n : TaskOf(plan, frame, i).order = i
    /\ n < LpcPrefix(plan, frame) => TaskOf(plan, frame, n + 1).order # n + 1

PrefixShape(plan, frame) ==
  LET total == LpcPrefix(plan, frame)
      per   == PerWindow(plan, frame)
  IN  [lpcTasks |-> total, perWindow |-> per,
       windows  |-> IF per = 0 THEN 0 ELSE (total + per - 1) \div per]

\* Every full window holds the orders 1, 2, ... ; the last one may be cut short.
ValidShape(plan, frame, s) ==
  /\ s.lpcTasks > 0 /\ s.perWindow \in 1 .. TaskLimit
  /\ \A i \in 1 .. s.lpcTasks :
       /\ TaskOf(plan, frame, i).order \in 1 .. TaskLimit
       /\ i <= (s.lpcTasks \div s.perWindow) * s.perWindow =>
            TaskOf(plan, frame, i).order = ((i - 1) % s.perWindow) + 1

\* Groups stay within their frame's samples, and selections within their group.
FrameAligned(plan) ==
  /\ plan.perFrame > 0 /\ plan.tasks # <<>> /\ plan.selected # <<>>
  /\ Len(plan.selected) = Len(plan.tasks) /\ Len(plan.tasks) % plan.perFrame = 0
  /\ \A f \in 0 .. plan.frames - 1, i \in 1 .. plan.perFrame :
       /\ TaskOf(plan, f, i).offset = TaskOf(plan, f, 1).offset
       /\ TaskOf(plan, f, i).block = TaskOf(plan, f, 1).block
       /\ plan.selected[f * plan.perFrame + i] \in
            f * plan.perFrame .. (f + 1) * plan.perFrame - 1

ValidTask(task, samples) ==
  /\ task.block \in 1 .. MaxDeviceBlock
  /\ task.offset \in 0 .. Len(samples) - task.block
  /\ task.type \in {"Lpc", "Fixed"} => task.order < task.block
  /\ task.type = "Fixed" => task.order \in 0 .. 4 /\ task.shift \in 0 .. 30

\* Analysis without LPC takes fixed and constant tasks only.
ValidFixedPlan(plan, samples) ==
  /\ FrameAligned(plan) /\ plan.frames > 0
  /\ \A i \in DOMAIN plan.tasks :
       plan.tasks[i].type \in {"Constant", "Fixed"} /\ ValidTask(plan.tasks[i], samples)

\* Analysis with LPC wants an LPC prefix, the same in every frame.
ValidGeneratedPlan(plan, samples, precision) ==
  /\ FrameAligned(plan) /\ plan.frames > 0 /\ precision \in 1 .. 15
  /\ \A f \in 0 .. plan.frames - 1 :
       /\ ValidShape(plan, f, PrefixShape(plan, f))
       /\ PrefixShape(plan, f) = PrefixShape(plan, 0)
       /\ \A i \in PrefixShape(plan, f).lpcTasks + 1 .. plan.perFrame :
            TaskOf(plan, f, i).type # "Lpc"
  /\ \A i \in DOMAIN plan.tasks :
       ValidTask(plan.tasks[i], samples) /\ plan.tasks[i].block = plan.tasks[1].block

=============================================================================
