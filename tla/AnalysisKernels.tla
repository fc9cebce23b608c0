--------------------------- MODULE AnalysisKernels ---------------------------
(***************************************************************************)
(* The kernels that analyse a batch on a GPU (the OpenCL C source in       *)
(* opencl_analysis.cpp; the modes of vulkan_fixed_constant.comp are the    *)
(* same code again).  A kernel is a function from device memory to device  *)
(* memory: the work items of a launch touch disjoint cells, and launches   *)
(* follow one another.                                                     *)
(*                                                                         *)
(* Memory is a record of buffers, each a sequence of cells.  A buffer may  *)
(* be longer than what the launch needs: the rest is left over from an     *)
(* earlier one.  A launch has arguments a: frames, perFrame, perWindow,    *)
(* lpcTasks, windows, precision, profile, maxPorder, shifted, api, and     *)
(* found, which stands for the floating-point part: the predictors the     *)
(* Levinson recursion would lead to, window by window.                     *)
(***************************************************************************)
EXTENDS TaskPlans

CONSTANTS LeafPorderLimit,        \* 6: largest partition order with sums kept per leaf
          MaxPartitionOrder       \* 8: largest partition order

ASSUME KernelsAssumption ==
  /\ MaxPartitionOrder \in 0 .. WordBits /\ LeafPorderLimit \in 0 .. MaxPartitionOrder

\* What a buffer holds before anything is written to it; read as a task, one that
\* nothing looks wrong with.
Garbage == [garbage |-> TRUE, type |-> "Constant", size |-> 0, wbits |-> 0, order |-> 0]

\* Cells copied to the front of a buffer; what lies behind stays.
Overwrite(buffer, cells) ==
  [i \in DOMAIN buffer |-> IF i <= Len(cells) THEN cells[i] ELSE buffer[i]]

\* A search downwards that replaces its best only by something strictly smaller.
LastLeast(f) == CHOOSE k \in DOMAIN f : \A j \in DOMAIN f : f[k] < f[j] \/ (f[k] = f[j] /\ j <= k)

FirstTask(mem, a, frame) == mem.tasks[frame * a.perFrame + 1]
OriginalFrame(mem, task) == FrameOf(mem.samples, task.offset, task.block)

-----------------------------------------------------------------------------
\* ldcompressFindWastedBits: the bits all samples of a frame leave zero, and how
\* many the largest shifted one has.
BitLength(x) == IF x = 0 THEN 0 ELSE Max({e \in 0 .. IntBits : 2^e <= x}) + 1
FoldToMagnitude(x) == IF x < 0 THEN -x - 1 ELSE x

WastedBitsOf(x) ==
  IF \A i \in DOMAIN x : x[i] = 0 THEN DeviceBits - 1
  ELSE Min({TrailingZeroBits(x[i], IntBits) : i \in DOMAIN x})

ActiveBits(x, wasted) ==
  Max({1} \cup {BitLength(FoldToMagnitude(x[i])) - wasted : i \in DOMAIN x})

MarkWasted(task, x) ==
  [task EXCEPT !.wbits = WastedBitsOf(x), !.abits = ActiveBits(x, WastedBitsOf(x))]

ShiftedFrames(mem, a) ==
  FlattenSeq([f \in 1 .. a.frames |->
    ShiftSamples(OriginalFrame(mem, FirstTask(mem, a, f - 1)),
                 WastedBitsOf(OriginalFrame(mem, FirstTask(mem, a, f - 1))))])

FindWastedBits(mem, a) ==
  [mem EXCEPT
     !.tasks = [t \in DOMAIN mem.tasks |->
                  IF t > a.frames * a.perFrame THEN mem.tasks[t]
                  ELSE MarkWasted(mem.tasks[t], OriginalFrame(mem,
                         FirstTask(mem, a, (t - 1) \div a.perFrame)))],
     !.shifted = IF a.shifted THEN Overwrite(@, ShiftedFrames(mem, a)) ELSE @]

-----------------------------------------------------------------------------
\* The samples a kernel sees: shifted in memory already, or as it reads them.
ShiftedBlock(mem, a, task) ==
  IF a.shifted THEN FrameOf(mem.shifted, task.offset, task.block)
  ELSE ShiftSamples(OriginalFrame(mem, task), task.wbits)

\* ldcompressComputeAutocor: a cell stands for the lags of one frame seen through
\* one window, and is known by what went into them.
AutocorCell(mem, a, frame, window) ==
  LET task == FirstTask(mem, a, frame)
  IN  [samples |-> ShiftedBlock(mem, a, task),
       window  |-> FrameOf(mem.window, window * task.block, task.block)]

WindowCells(a, Cell(_, _)) ==
  [i \in 1 .. a.frames * a.windows |-> Cell((i - 1) \div a.windows, (i - 1) % a.windows)]

ComputeAutocor(mem, a) ==
  [mem EXCEPT !.autocor = Overwrite(@, WindowCells(a, LAMBDA f, w : AutocorCell(mem, a, f, w)))]

\* ldcompressComputeLpc: the predictors of every order, from the lags.
ComputeLpc(mem, a) ==
  [mem EXCEPT !.lpc = Overwrite(@, WindowCells(a, LAMBDA f, w : mem.autocor[f * a.windows + w + 1]))]

-----------------------------------------------------------------------------
\* ldcompressQuantizeLpcOrders: found[i] is [guess, raw, shift] for some window;
\* raw[order] are the coefficients before they are clamped.
FoundFor(a, frame, window) == a.found[((frame + window) % Len(a.found)) + 1]

Clamped(x, bits) == Max({-(2^(bits - 1) - 1), Min({x, 2^(bits - 1) - 1})})

CoefficientBits(coefs) == 1 + Max({BitLength(FoldToMagnitude(coefs[i])) : i \in DOMAIN coefs})

QuantizedOrder(task, order, f, precision) ==
  LET coefs == [i \in 1 .. order |-> Clamped(f.raw[order][i], precision)]
  IN  [task EXCEPT !.order = order, !.coefs = coefs, !.shift = f.shift,
                   !.cbits = CoefficientBits(coefs)]

\* With a guess, a window of one task gets the guessed order; in a window with a
\* task per order the others are pruned.
QuantizedTask(task, f, a) ==
  CASE ~OrderGuess(a.profile)                        -> QuantizedOrder(task, task.order, f, a.precision)
    [] OrderGuess(a.profile) /\ a.perWindow = 1      -> QuantizedOrder(task, f.guess, f, a.precision)
    [] OrderGuess(a.profile) /\ a.perWindow # 1
         /\ task.order = f.guess                     -> QuantizedOrder(task, task.order, f, a.precision)
    [] OTHER                                         -> [task EXCEPT !.size = Pruned]

QuantizeLpcOrders(mem, a) ==
  [mem EXCEPT !.tasks = [t \in DOMAIN mem.tasks |->
     LET frame == (t - 1) \div a.perFrame
         slot  == (t - 1) % a.perFrame
     IN  IF frame < a.frames /\ slot < a.lpcTasks
         THEN QuantizedTask(mem.tasks[t], FoundFor(a, frame, slot \div a.perWindow), a)
         ELSE mem.tasks[t]]]

-----------------------------------------------------------------------------
\* ldcompressResidual: the residuals of a task, positions counted from 0.
DevicePrediction(x, pos, task) ==
  SumSeq([i \in 1 .. task.order |-> task.coefs[i] * x[pos - task.order + i]])

\* In a device int the sum wraps around.
Wrapped(x) == ((x + 2^(IntBits - 1)) % 2^IntBits) - 2^(IntBits - 1)

\* Mutant: the residual's own sample is forgotten in the bound, and more besides.
FitsIntLoosely(task) ==
  task.type = "Lpc" /\ AbsSum(task.coefs) <= (2 * IntMax) \div 2^task.abits

\* ldcompressShiftedLpcResidualFitsInt
FitsInt(task) ==
  /\ task.type = "Lpc" /\ task.abits \in 1 .. IntBits - 2
  /\ AbsSum(task.coefs) <= (IntMax - 2^task.abits) \div 2^task.abits

LpcResidual(x, pos, task, useInt) ==
  x[pos + 1] - ArithmeticShiftRight(IF useInt THEN Wrapped(DevicePrediction(x, pos, task))
                                              ELSE DevicePrediction(x, pos, task), task.shift)

\* The binomial coefficients are written out in the kernel; the task's are not read.
FixedResidual(x, pos, order) ==
  CASE order = 0 -> x[pos + 1]
    [] order = 1 -> x[pos + 1] - x[pos]
    [] order = 2 -> x[pos + 1] - 2 * x[pos] + x[pos - 1]
    [] order = 3 -> x[pos + 1] - 3 * x[pos] + 3 * x[pos - 1] - x[pos - 2]
    [] order = 4 -> x[pos + 1] - 4 * x[pos] + 6 * x[pos - 1] - 4 * x[pos - 2] + x[pos - 3]

DeviceResiduals(x, task, useInt) ==
  [pos \in task.order .. task.block - 1 |->
     IF task.type = "Lpc" THEN LpcResidual(x, pos, task, useInt)
                          ELSE FixedResidual(x, pos, task.order)]

-----------------------------------------------------------------------------
\* ldcompressPruneFixedOrderGuess: of a frame's fixed tasks, the one with the least
\* sum of absolute residuals stays.
FixedTasksOf(mem, a, frame) ==
  {t \in {mem.selected[frame * a.perFrame + i] + 1 : i \in 1 .. a.perFrame} :
     mem.tasks[t].type = "Fixed"}

AbsoluteSum(r, from, to) == SumSeq([i \in 1 .. to - from |-> Magnitude(r[from + i - 1])])

GuessSum(mem, a, task) ==
  AbsoluteSum(DeviceResiduals(ShiftedBlock(mem, a, task), task, FALSE), task.order, task.block)

\* Mutant: the last of equals is kept.
KeptFixedLast(mem, a, frame) ==
  LastLeast([t \in FixedTasksOf(mem, a, frame) |-> GuessSum(mem, a, mem.tasks[t])])

KeptFixed(mem, a, frame) ==
  FirstLeast([t \in FixedTasksOf(mem, a, frame) |-> GuessSum(mem, a, mem.tasks[t])])

PruneFixedOrderGuess(mem, a) ==
  LET pruned == UNION {FixedTasksOf(mem, a, f) \ {KeptFixed(mem, a, f)} : f \in 0 .. a.frames - 1}
  IN  [mem EXCEPT !.tasks = [t \in DOMAIN mem.tasks |->
         IF t \in pruned THEN [mem.tasks[t] EXCEPT !.size = Pruned] ELSE mem.tasks[t]]]

-----------------------------------------------------------------------------
\* ldcompressAnalyzeSubframeExact.
PartitionFrom(task, porder, p) ==
  IF p = 0 THEN task.order ELSE p * (task.block \div 2^porder)
PartitionTo(task, porder, p) == (p + 1) * (task.block \div 2^porder)
ResidualCount(task, porder, p) ==
  (task.block \div 2^porder) - (IF p = 0 THEN task.order ELSE 0)

FoldedSum(r, from, to, k) ==
  SumSeq([i \in 1 .. to - from |-> FoldSigned(r[from + i - 1]) \div 2^k])

\* The leaves, partitions of the largest order, that a partition is made of.
LeafSum(task, leafOrder, porder, p, Sum(_, _)) ==
  SumSeq([l \in 1 .. 2^(leafOrder - porder) |->
    LET leaf == p * 2^(leafOrder - porder) + l - 1
    IN  Sum(PartitionFrom(task, leafOrder, leaf), PartitionTo(task, leafOrder, leaf))])

PartitionSum(task, leaf, maxPorder, porder, p, Sum(_, _)) ==
  IF leaf THEN LeafSum(task, maxPorder, porder, p, Sum)
  ELSE Sum(PartitionFrom(task, porder, p), PartitionTo(task, porder, p))

\* A partition's cost for each parameter, and its cost by the mean.
ExactCosts(r, task, leaf, maxPorder, porder, p) ==
  [k \in 0 .. MaxRiceParameter |->
     PartitionSum(task, leaf, maxPorder, porder, p, LAMBDA from, to : FoldedSum(r, from, to, k))
     + ResidualCount(task, porder, p) * (1 + k)]

ExactChoices(r, task, leaf, maxPorder, porder) ==
  [p \in 1 .. 2^porder |->
     LET costs == ExactCosts(r, task, leaf, maxPorder, porder, p - 1)
         k     == FirstLeast(costs)
     IN  [k |-> k, bits |-> 4 + costs[k]]]

MeanChoices(r, task, leaf, maxPorder, porder) ==
  [p \in 1 .. 2^porder |->
     LET total == PartitionSum(task, leaf, maxPorder, porder, p - 1,
                               LAMBDA from, to : AbsoluteSum(r, from, to))
         count == ResidualCount(task, porder, p - 1)
         k     == MeanRiceParameter(total, count)
     IN  [k |-> k, bits |-> MeanPartitionBits(k, count, total)]]

ParametersOf(choices) == [p \in DOMAIN choices |-> choices[p].k]
BitsOfChoices(choices) == SumSeq([p \in DOMAIN choices |-> choices[p].bits])

\* Bits before the partitions.
BaseBits(task) ==
  8 + task.wbits + task.order * (DeviceBits - task.wbits) + 6
    + (IF task.type = "Lpc" THEN 4 + 5 + task.order * task.cbits ELSE 0)

RecountedBits(r, task, porder, choices) ==
  SumSeq([p \in 1 .. 2^porder |->
    4 + FoldedSum(r, PartitionFrom(task, porder, p - 1), PartitionTo(task, porder, p - 1),
                  choices[p].k)
      + ResidualCount(task, porder, p - 1) * (1 + choices[p].k)])

\* Sums are kept per leaf when the largest order is small and divides the block;
\* the OpenCL kernel does not when it has to recount after costing by the mean.
UsesLeaves(task, a) ==
  /\ Min({a.maxPorder, MaxPartitionOrder}) <= LeafPorderLimit
  /\ ValidPartitionOrder(task.block, task.order, Min({a.maxPorder, MaxPartitionOrder}))
  /\ MeanRice(a.profile) => MeanEstimated(a.profile) \/ a.api = "vulkan"

\* Cells of local memory its work group fills with those sums.
LeafCells(task, a) ==
  IF UsesLeaves(task, a)
  THEN 2^Min({a.maxPorder, MaxPartitionOrder}) * (IF MeanRice(a.profile) THEN 1
                                                  ELSE MaxRiceParameter + 1)
  ELSE 0

\* Only the leaf path with mean costing has residuals in device ints.
UsesInt(task, a) == a.shifted /\ MeanRice(a.profile) /\ UsesLeaves(task, a) /\ FitsInt(task)

\* The samples the residuals come from.  Outside of its leaf path the OpenCL kernel
\* shifts what it reads, and that may be shifted already.
CostedBlock(mem, a, task) ==
  IF a.api = "opencl" /\ a.shifted /\ ~UsesLeaves(task, a)
  THEN ShiftSamples(ShiftedBlock(mem, a, task), task.wbits)
  ELSE ShiftedBlock(mem, a, task)

PartitionOrders(task, a) ==
  {q \in 0 .. Min({a.maxPorder, MaxPartitionOrder}) :
     ValidPartitionOrder(task.block, task.order, q)}

ChoicesAt(r, task, a) ==
  [q \in PartitionOrders(task, a) |->
     IF MeanRice(a.profile)
     THEN MeanChoices(r, task, UsesLeaves(task, a), Min({a.maxPorder, MaxPartitionOrder}), q)
     ELSE ExactChoices(r, task, UsesLeaves(task, a), Min({a.maxPorder, MaxPartitionOrder}), q)]

\* A size that does not fit a device int becomes the pruned one.
Saturated(bits) == Min({bits, IntMax})

CostedBits(r, task, a, porder, choices) ==
  BaseBits(task) + (IF MeanRice(a.profile) /\ ~MeanEstimated(a.profile)
                    THEN RecountedBits(r, task, porder, choices)
                    ELSE BitsOfChoices(choices))

\* Mean costing goes down from the largest order, exact costing up from 0.
BestChoice(task, a, choices) ==
  LET costs == [q \in DOMAIN choices |-> BitsOfChoices(choices[q])]
  IN  IF MeanRice(a.profile) THEN LastLeast(costs) ELSE FirstLeast(costs)

Settled(task, a, r, porder, choices) ==
  [task   |-> [task EXCEPT !.porder = porder,
                           !.size = Saturated(CostedBits(r, task, a, porder, choices))],
   params |-> ParametersOf(choices)]

SettledBy(task, a, r, choices) ==
  Settled(task, a, r, BestChoice(task, a, choices), choices[BestChoice(task, a, choices)])

Unsettled(task) == [task |-> [task EXCEPT !.size = Pruned], params |-> <<>>]

ConstantSettled(task, x) ==
  IF \E i \in DOMAIN x : x[i] # x[1] THEN Unsettled([task EXCEPT !.porder = 0])
  ELSE [task   |-> [task EXCEPT !.porder = 0, !.size = 8 + DeviceBits],
        params |-> <<>>]

Predictable(task) ==
  /\ task.order < task.block
  /\ task.type = "Lpc" => /\ task.order # 0 /\ task.shift \in 0 .. 15 /\ task.cbits \in 1 .. 15
                          /\ \A i \in DOMAIN task.coefs : FitsBits(task.coefs[i], task.cbits)

AnalyzedTask(mem, a, task) ==
  CASE task.size = Pruned      -> Unsettled(task)
    [] task.size # Pruned /\ task.type = "Constant" -> ConstantSettled(task, OriginalFrame(mem, task))
    [] task.size # Pruned /\ task.type # "Constant" /\ ~Predictable(task) ->
         Unsettled([task EXCEPT !.porder = 0])
    [] OTHER ->
         LET r == DeviceResiduals(CostedBlock(mem, a, task), task, UsesInt(task, a))
         IN  SettledBy(task, a, r, ChoicesAt(r, task, a))

\* Every task has a fixed number of cells for its parameters, zero if unused.
RiceCell(params) ==
  [i \in 1 .. 2^MaxPartitionOrder |-> IF i <= Len(params) THEN params[i] ELSE 0]

\* Where the parameters of task t go; the Vulkan shader keeps the best ones, a cell
\* per frame, in front of them in the same buffer.
TaskRiceBuffer(a) == IF a.api = "vulkan" THEN "bestRice" ELSE "taskRice"
TaskRiceCell(a, t) == IF a.api = "vulkan" THEN a.frames + t ELSE t

AnalyzeSubframeExact(mem, a) ==
  LET results == [t \in {mem.selected[i] + 1 : i \in 1 .. a.frames * a.perFrame} |->
                    AnalyzedTask(mem, a, mem.tasks[t])]
      Owner(cell) == cell - TaskRiceCell(a, 0)
  IN  [mem EXCEPT
         !.tasks = [t \in DOMAIN @ |-> IF t \in DOMAIN results THEN results[t].task ELSE @[t]],
         ![TaskRiceBuffer(a)] =
           [c \in DOMAIN @ |-> IF Owner(c) \in DOMAIN results
                               THEN RiceCell(results[Owner(c)].params) ELSE @[c]]]

-----------------------------------------------------------------------------
\* ldcompressChooseBestMethod and ldcompressWriteBestRiceParameters: the first
\* smallest of the frame's selected tasks, found twice over.
BestTask(mem, a, frame) ==
  mem.selected[frame * a.perFrame +
    FirstLeast([i \in 1 .. a.perFrame |->
                  mem.tasks[mem.selected[frame * a.perFrame + i] + 1].size])] + 1

ChooseBestMethod(mem, a) ==
  [mem EXCEPT !.best = Overwrite(@, [f \in 1 .. a.frames |-> mem.tasks[BestTask(mem, a, f - 1)]])]

WriteBestRiceParameters(mem, a) ==
  [mem EXCEPT !.bestRice = Overwrite(@, [f \in 1 .. a.frames |->
     mem[TaskRiceBuffer(a)][TaskRiceCell(a, BestTask(mem, a, f - 1))]])]

=============================================================================
