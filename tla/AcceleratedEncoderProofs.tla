---------------------- MODULE AcceleratedEncoderProofs ----------------------
(***************************************************************************)
(* Proofs about AcceleratedEncoder for every number of threads, every      *)
(* batch, frame and chunk size and every input: one analysis at a time,    *)
(* batches without gaps or overlaps, and the file FlacStream promises.     *)
(***************************************************************************)
EXTENDS AcceleratedEncoder, FramePoolProofs, FiniteSetTheorems

-----------------------------------------------------------------------------
(* The inductive invariant.  Where the thread is in the input is told by   *)
(* the place it will go on from when a batch has been flushed or written   *)
(* (Place); the frames are told by Launched, the number of the first frame *)
(* not yet given to an analysis.                                           *)

PCs == {"read", "feed", "flush", "pending", "submit", "notify", "tail", "rewrite", "close",
        "stop", "wake", "join", "await", "done"}
Leaving == {"stop", "wake", "join", "await", "done"}

Place == IF pc \in {"flush", "submit", "notify"} THEN resume ELSE pc

TypeInv ==
  /\ PlaceTypes(Frames)
  /\ input \in Inputs(MaxGroups)
  /\ unread \in Nat /\ chunk \in Nat /\ fed \in Nat /\ segment \in Nat
  /\ stream \in {"good", "eof", "bad"}
  /\ samples \in Nat /\ hashed \in Int
  /\ start \in Nat /\ batch \in Nat /\ carry \in Nat /\ inFrame \in Nat /\ frameNumber \in Nat
  /\ pending \in SUBSET Batches /\ writing \in SUBSET Batches
  /\ submitted \in Nat /\ taken \in Nat /\ encodedFrame \in SUBSET Frames
  /\ file \in Seq(Frames)
  /\ verdict \in {"none", "ok", "error"}
  /\ resume \in {"feed", "pending", "tail"}
  /\ pc \in PCs

\* Groups before the current chunk, and before the next one to feed.
Base == input.groups - unread - chunk
Fed == Base + fed

ReaderInv ==
  /\ unread + chunk <= input.groups /\ fed <= chunk
  /\ stream = "eof" => unread = 0
  /\ Place = "feed" => /\ segment <= fed /\ hashed = (Base + segment) * GroupSamples
                       /\ samples = Base * GroupSamples
  /\ Place # "feed" => /\ fed = chunk
                       /\ hashed = Fed * GroupSamples /\ samples = Fed * GroupSamples
  /\ Place \notin {"feed", "read"} => stream = "eof"
  /\ pc = "flush" => resume # "tail"

Launched == FullBatch.first

FramingInv ==
  pc \notin {"rewrite", "close"} =>
    /\ Launched \in Nat /\ start = Launched * FrameSamples
    /\ start + batch + carry = Fed * GroupSamples
    /\ Place \in {"feed", "read"} /\ pc # "flush" =>
         batch < BatchSamples /\ carry = 0 /\ inFrame = batch % FrameSamples
    /\ pc = "flush" /\ resume = "feed" => batch = BatchSamples /\ carry < GroupSamples
    /\ pc = "flush" /\ resume # "feed" => batch % FrameSamples = 0 /\ carry < FrameSamples
    /\ Place \notin {"feed", "read"} /\ pc # "flush" => batch + carry < FrameSamples

\* Never two batches with an analysis, and none but the pending one.
TasksInv ==
  /\ running \subseteq pending
  /\ \A a, b \in pending : a = b

BatchInv ==
  pc \notin {"rewrite", "close"} =>
    /\ \A a, b \in writing : a = b
    /\ writing # {} <=> pc \in {"submit", "notify"}
    /\ writing \cap (running \cup broken) = {}
    /\ \A b \in pending \cup writing : b.frames > 0 /\ b.from = b.first * FrameSamples
    /\ \A b \in writing :
         /\ Len(file) = b.first + taken /\ taken <= b.frames /\ submitted <= b.frames
         /\ ThreadCount # 1 /\ taken > 0 => submitted = b.frames
         /\ ThreadCount = 1 => submitted = 0
         /\ \A p \in pending : p.first = b.first + b.frames
         /\ pending = {} => Launched = b.first + b.frames
    /\ \A p \in pending : Launched = p.first + p.frames /\ (writing = {} => p.first = Len(file))
    /\ pending = {} /\ writing = {} => Launched = Len(file)
    /\ Place = "tail" => pending = {}

\* A frame in the pool belongs to the batch being written, and is not written yet.
OwnBatchInv ==
  \A f : InPool(f) =>
    \E b \in writing : f.number \in b.first + taken .. b.first + submitted - 1

\* A frame as the input determines it, and not an empty one.
Honest(f) == f = FrameAt(f.number, LengthOf(input)) /\ f.count > 0

HonestInv == \A f : InPool(f) => Honest(f)

\* The frame taken and not yet written has left the pool and is the next of its
\* batch, all of which has been submitted.
HandInv ==
  \A f \in encodedFrame :
    /\ pc = "submit" /\ ThreadCount # 1
    /\ Honest(f) /\ ~InPool(f)
    /\ \E b \in writing : submitted = b.frames /\ taken < b.frames /\ f.number = b.first + taken

FramesInOrder ==
  \A i \in 1 .. Len(file) : file[i] = FrameAt(i - 1, LengthOf(input))

VerdictInv ==
  /\ verdict = "none" <=> pc \notin Leaving
  /\ pc \in {"rewrite", "close"} => Stream!Complete
  /\ pc \in {"rewrite", "close"} => writing = {} /\ pending = {}
  /\ pc = "close" => info = StreamInfo(LengthOf(input), LengthOf(input))
  /\ verdict = "none" /\ pc # "close" => info = Placeholder

IInv ==
  /\ TypeInv /\ PlacesInv /\ HonestInv /\ TasksInv /\ FramesInOrder /\ VerdictInv
  /\ verdict = "none" => ReaderInv /\ FramingInv /\ BatchInv /\ OwnBatchInv /\ HandInv

-----------------------------------------------------------------------------
(* Facts about numbers. *)

LEMMA Division ==
  ASSUME NEW x \in Nat, NEW d \in Nat \ {0}
  PROVE  /\ x \div d \in Nat /\ x % d \in 0 .. d - 1
         /\ x = (x \div d) * d + (x % d)
  OBVIOUS

LEMMA Quotient ==
  ASSUME NEW q \in Nat, NEW d \in Nat \ {0}, NEW r \in Nat, r < d
  PROVE  (q * d + r) \div d = q /\ (q * d + r) % d = r
  OBVIOUS

LEMMA Distributive ==
  ASSUME NEW x \in Int, NEW y \in Int, NEW d \in Int
  PROVE  (x + y) * d = x * d + y * d
  OBVIOUS

LEMMA Monotone ==
  ASSUME NEW x \in Int, NEW y \in Int, NEW d \in Nat, x <= y
  PROVE  x * d <= y * d
  OBVIOUS

\* Whole frames before and after n more samples.
LEMMA MoreSamples ==
  ASSUME NEW x \in Nat, NEW n \in Nat, NEW d \in Nat \ {0}
  PROVE  /\ (x + n) \div d = x \div d + ((x % d) + n) \div d
         /\ (x + n) % d = ((x % d) + n) % d
<1> DEFINE q == x \div d
           r == x % d
           p == (r + n) \div d
           s == (r + n) % d
<1>1. q \in Nat /\ r \in Nat /\ x = q * d + r
  BY Division
<1>2. p \in Nat /\ s \in 0 .. d - 1 /\ r + n = p * d + s
  <2>1. r + n \in Nat
    BY <1>1
  <2>2. QED
    BY <2>1, Division
<1> HIDE DEF q, r, p, s
<1>3. x + n = (q + p) * d + s
  BY <1>1, <1>2, Distributive
<1>4. (x + n) \div d = q + p /\ (x + n) % d = s
  BY <1>1, <1>2, <1>3, Quotient
<1>5. QED
  BY <1>4 DEF q, r, p, s

\* Fewer samples than a frame, and whole frames.
LEMMA SmallAndWhole ==
  ASSUME NEW d \in Nat \ {0}
  PROVE  /\ \A r \in 0 .. d - 1 : r \div d = 0 /\ r % d = r
         /\ \A x \in Nat : x % d = 0 => x = (x \div d) * d
         /\ \A x \in Nat : x - (x % d) = (x \div d) * d
         /\ \A q \in Nat : (q * d) \div d = q /\ (q * d) % d = 0
<1>1. ASSUME NEW r \in 0 .. d - 1 PROVE r \div d = 0 /\ r % d = r
  OBVIOUS
<1>2. ASSUME NEW x \in Nat PROVE x - (x % d) = (x \div d) * d
  <2>1. x \div d \in Nat /\ x % d \in 0 .. d - 1 /\ x = (x \div d) * d + (x % d)
    BY Division
  <2>2. QED
    BY <2>1
<1>3. ASSUME NEW q \in Nat PROVE (q * d) \div d = q /\ (q * d) % d = 0
  OBVIOUS
<1>4. QED
  BY <1>1, <1>2, <1>3, Division

\* Sizes of samples, frames and batches.
LEMMA Sizes ==
  /\ GroupSamples \in Nat \ {0} /\ FrameSamples \in Nat \ {0} /\ BatchFrames \in Nat \ {0}
  /\ GroupSamples <= FrameSamples
  /\ BatchSamples \in Nat /\ BatchSamples >= FrameSamples
  /\ BatchSamples \div FrameSamples = BatchFrames /\ BatchSamples % FrameSamples = 0
<1>1. /\ GroupSamples \in Nat \ {0} /\ FrameSamples \in Nat \ {0} /\ BatchFrames \in Nat \ {0}
      /\ GroupSamples <= FrameSamples
  BY FramesAssumption, AcceleratedAssumption
<1>2. BatchSamples \in Nat /\ BatchSamples >= FrameSamples
  BY <1>1 DEF BatchSamples
<1>3. BatchSamples \div FrameSamples = BatchFrames /\ BatchSamples % FrameSamples = 0
  BY <1>1, SmallAndWhole DEF BatchSamples
<1>4. QED
  BY <1>1, <1>2, <1>3

\* The length of an input, and the groups fed of it.
LEMMA InputLength ==
  ASSUME TypeInv, ReaderInv
  PROVE  /\ LengthOf(input) \in Nat /\ LengthOf(input) = input.groups * GroupSamples
         /\ input.groups \in Nat
         /\ Base \in Nat /\ Fed \in Nat /\ Fed <= input.groups
         /\ Fed * GroupSamples \in Nat /\ Fed * GroupSamples <= LengthOf(input)
         /\ unread = 0 /\ fed = chunk => Fed * GroupSamples = LengthOf(input)
<1>1. input.groups \in Nat
  BY AcceleratedAssumption DEF TypeInv, Inputs
<1>2. /\ Base \in Nat /\ Fed \in Nat /\ Fed <= input.groups
      /\ unread = 0 /\ fed = chunk => Fed = input.groups
  <2>1. /\ unread \in Nat /\ chunk \in Nat /\ fed \in Nat
        /\ unread + chunk <= input.groups /\ fed <= chunk
    BY DEF TypeInv, ReaderInv
  <2>2. QED
    BY <1>1, <2>1 DEF Base, Fed
<1>3. LengthOf(input) \in Nat /\ LengthOf(input) = input.groups * GroupSamples
  BY <1>1, Sizes DEF LengthOf
<1> HIDE DEF Fed
<1>4. Fed * GroupSamples \in Nat /\ Fed * GroupSamples <= LengthOf(input)
  BY <1>1, <1>2, <1>3, Sizes, Monotone
<1>5. QED
  BY <1>1, <1>2, <1>3, <1>4

\* What a read may deliver: no more than is left, and all of it at the end.
LEMMA ReadsType ==
  ASSUME NEW left \in Nat, NEW ragged \in BOOLEAN, NEW r \in Reads(left, ragged)
  PROVE  /\ r.groups \in 0 .. left
         /\ r.partial \in BOOLEAN
         /\ r.stream \in {"good", "eof", "bad"}
         /\ r.stream = "eof" => r.groups = left
<1>1. CASE r \in [groups : 0 .. Min2(left, ChunkGroups - 1), partial : BOOLEAN,
                  stream : {"bad"}]
  <2>1. /\ r.groups \in 0 .. Min2(left, ChunkGroups - 1) /\ r.partial \in BOOLEAN
        /\ r.stream = "bad"
    BY <1>1
  <2>2. QED
    BY <2>1, FramesAssumption DEF Min2
<1>2. CASE /\ left >= ChunkGroups
           /\ r = [groups |-> ChunkGroups, partial |-> FALSE, stream |-> "good"]
  BY <1>2, FramesAssumption
<1>3. CASE /\ ~(left >= ChunkGroups)
           /\ r = [groups |-> left, partial |-> ragged, stream |-> "eof"]
  BY <1>3
<1>4. QED
  BY <1>1, <1>2, <1>3 DEF Reads

-----------------------------------------------------------------------------
(* The initial state, and steps that only move frames. *)

LEMMA InitEstablishes == Init => IInv
<1> SUFFICES ASSUME Init PROVE IInv
  OBVIOUS
<1> USE DEF Init, PoolInit
<1>1. PlacesInv /\ PlaceTypes(Frames) /\ \A f : ~InPool(f)
  BY DEF PlacesInv, OnceInv, HeldInv, InPool, JobPlaces, PlaceTypes, WorkerStates
<1>2. TypeInv
  <2>1. input \in Inputs(MaxGroups) /\ unread \in Nat
    BY AcceleratedAssumption DEF Inputs
  <2>2. file \in Seq(Frames)
    OBVIOUS
  <2>3. QED
    BY <1>1, <2>1, <2>2 DEF TypeInv, PCs
<1>3. HonestInv /\ OwnBatchInv /\ HandInv /\ TasksInv /\ FramesInOrder
  BY <1>1 DEF HonestInv, OwnBatchInv, HandInv, TasksInv, FramesInOrder
<1>4. VerdictInv
  BY DEF VerdictInv, Leaving
<1>5. Base = 0 /\ Fed = 0
  BY <1>2 DEF Base, Fed, TypeInv, Inputs
<1>6. ReaderInv
  <2>1. input.groups \in Nat /\ 0 * GroupSamples = 0
    BY Sizes, AcceleratedAssumption DEF Inputs
  <2>2. QED
    BY <1>5, <2>1 DEF ReaderInv, Place
<1>7. 0 \div FrameSamples = 0 /\ 0 % FrameSamples = 0
  BY Sizes, SmallAndWhole
<1>8. Launched = 0
  BY <1>7 DEF Launched, FullBatch
<1>9. FramingInv
  <2>1. 0 * GroupSamples = 0 /\ 0 * FrameSamples = 0 /\ 0 < BatchSamples
    BY Sizes
  <2>2. QED
    BY <1>5, <1>7, <1>8, <2>1 DEF FramingInv, Place
<1>10. BatchInv
  BY <1>8 DEF BatchInv, Place
<1>11. QED
  BY <1>1, <1>2, <1>3, <1>4, <1>6, <1>9, <1>10 DEF IInv

\* A step of another thread: the main thread's state stays, frames only move, and
\* the batch being written keeps its analysis.
LEMMA MainStable ==
  ASSUME IInv, UNCHANGED mainVars, TypeInv', PlacesInv', TasksInv',
         \A f : InPool(f)' => InPool(f),
         verdict = "none" => writing \cap (running' \cup broken') = {}
  PROVE  IInv'
<1> USE DEF mainVars, inputVars, batchVars, writeVars, outputVars
<1>1. HonestInv' /\ FramesInOrder'
  BY DEF IInv, HonestInv, Honest, FramesInOrder, LengthOf
<1>2. VerdictInv'
  BY DEF IInv, VerdictInv, LengthOf, Stream!Complete
<1>3. Base' = Base /\ Fed' = Fed /\ Launched' = Launched /\ Place' = Place
  BY DEF Base, Fed, Launched, FullBatch, Place
<1>4. verdict = "none" => ReaderInv' /\ FramingInv'
  BY <1>3 DEF IInv, ReaderInv, FramingInv
<1>5. verdict = "none" => BatchInv' /\ OwnBatchInv'
  BY <1>3 DEF IInv, BatchInv, OwnBatchInv
<1>6. verdict = "none" => HandInv'
  BY DEF IInv, HandInv, Honest, LengthOf
<1>7. QED
  BY <1>1, <1>2, <1>4, <1>5, <1>6 DEF IInv

\* Only the thread that is writing a batch can have a frame in hand.
LEMMA NothingInHand ==
  ASSUME IInv, verdict = "none", pc # "submit"
  PROVE  encodedFrame = {}
  BY DEF IInv, HandInv

LEMMA EmptyHand ==
  ASSUME encodedFrame' = {}
  PROVE  HandInv'
  BY DEF HandInv

\* The batch being written has been analysed, and not in vain.
LEMMA WrittenIsAnalysed ==
  ASSUME IInv, verdict = "none"
  PROVE  writing \cap (running \cup broken) = {}
  BY DEF IInv, BatchInv, VerdictInv

\* A step that leaves the pool alone.
LEMMA PoolSame ==
  ASSUME PlaceTypes(Frames), PlacesInv, UNCHANGED poolVars
  PROVE  PlaceTypes(Frames)' /\ PlacesInv' /\ \A f : InPool(f)' <=> InPool(f)
<1>1. UNCHANGED <<jobs, results, holding, worker>>
  BY DEF poolVars
<1>2. QED
  BY <1>1, PlacesStable DEF PlaceTypes

\* An exception leaves the file as it is and is on its way out.
LEMMA ThrowInv ==
  ASSUME IInv, TypeInv', PlacesInv', TasksInv', \A f : InPool(f)' => InPool(f),
         UNCHANGED <<input, file>>, Throw
  PROVE  IInv'
<1>1. HonestInv' /\ FramesInOrder'
  BY DEF IInv, HonestInv, Honest, FramesInOrder, LengthOf
<1>2. VerdictInv'
  BY DEF Throw, VerdictInv, Leaving
<1>3. QED
  BY <1>1, <1>2 DEF IInv, Throw

-----------------------------------------------------------------------------
(* Reading. *)

\* Steps that read and cut the input touch no batch that was launched.
LEMMA ReadingInv ==
  ASSUME IInv, pc \in {"read", "feed", "flush"}, Place # "tail",
         UNCHANGED <<poolVars, input, taskVars, writeVars, outputVars, verdict>>,
         pc' \in {"read", "feed", "flush", "pending"}, Place' # "tail",
         TypeInv', ReaderInv', FramingInv', Launched' = Launched
  PROVE  IInv'
<1> USE DEF taskVars, writeVars, outputVars
<1>1. verdict = "none"
  BY DEF IInv, VerdictInv, Leaving
<1>2. PlacesInv' /\ \A f : InPool(f)' <=> InPool(f)
  BY PoolSame DEF IInv, TypeInv
<1>3. HonestInv' /\ FramesInOrder' /\ TasksInv' /\ OwnBatchInv'
  BY <1>1, <1>2 DEF IInv, HonestInv, Honest, FramesInOrder, LengthOf, TasksInv, OwnBatchInv
<1>4. VerdictInv'
  BY <1>1 DEF IInv, VerdictInv, Leaving
<1>5. BatchInv'
  BY <1>1 DEF IInv, BatchInv
<1>6. HandInv'
  BY <1>1, NothingInHand, EmptyHand
<1>7. QED
  BY <1>2, <1>3, <1>4, <1>5, <1>6 DEF IInv

LEMMA ReadChunkInv ==
  ASSUME IInv, ReadChunk
  PROVE  IInv'
<1> USE DEF batchVars, taskVars, writeVars, outputVars
<1>1. /\ TypeInv /\ pc = "read" /\ stream = "good" /\ Place = "read"
      /\ UNCHANGED <<poolVars, input, samples, hashed, batchVars, taskVars, writeVars,
                     outputVars, resume>>
  BY DEF IInv, ReadChunk, Place
<1>2. verdict = "none" /\ ReaderInv /\ FramingInv
  BY <1>1 DEF IInv, VerdictInv, Leaving
<1>3. PICK r \in Reads(unread, input.ragged) :
        /\ stream' = r.stream
        /\ IF r.partial
           THEN Throw /\ UNCHANGED <<unread, chunk, fed, segment>>
           ELSE /\ unread' = unread - r.groups
                /\ chunk' = r.groups
                /\ fed' = 0 /\ segment' = 0
                /\ pc' = IF r.groups = 0 THEN "read" ELSE "feed"
                /\ UNCHANGED verdict
  BY DEF ReadChunk
<1>4. /\ r.groups \in 0 .. unread /\ r.stream \in {"good", "eof", "bad"}
      /\ r.stream = "eof" => r.groups = unread
  <2>1. unread \in Nat /\ input.ragged \in BOOLEAN
    BY <1>1 DEF TypeInv, Inputs
  <2>2. QED
    BY <2>1, ReadsType
<1>5. PlaceTypes(Frames)' /\ PlacesInv' /\ \A f : InPool(f)' <=> InPool(f)
  BY <1>1, PoolSame DEF IInv, TypeInv
<1>6. TypeInv'
  <2>1. unread' \in Nat /\ chunk' \in Nat /\ fed' \in Nat /\ segment' \in Nat
    BY <1>1, <1>3, <1>4 DEF TypeInv
  <2>2. pc' \in PCs /\ verdict' \in {"none", "ok", "error"}
    BY <1>1, <1>3 DEF TypeInv, Throw, PCs
  <2>3. QED
    BY <1>1, <1>3, <1>4, <1>5, <2>1, <2>2 DEF TypeInv
<1>7. CASE r.partial
  <2>1. Throw /\ TasksInv'
    BY <1>1, <1>3, <1>7 DEF IInv, TasksInv
  <2>2. QED
    BY <1>1, <1>5, <1>6, <2>1, ThrowInv
<1>8. CASE ~r.partial
  <2>1. /\ unread' = unread - r.groups /\ chunk' = r.groups /\ fed' = 0 /\ segment' = 0
        /\ pc' = (IF r.groups = 0 THEN "read" ELSE "feed") /\ verdict' = verdict
    BY <1>3, <1>8
  <2>2. Place' = pc' /\ pc' \in {"read", "feed"}
    BY <2>1 DEF Place
  <2>3. fed = chunk /\ unread + chunk <= input.groups /\ input.groups \in Nat
    BY <1>1, <1>2, InputLength DEF ReaderInv
  <2>4. Base' = Fed /\ Fed' = Fed /\ unread' + chunk' <= input.groups /\ unread' \in Nat
    <3>1. unread \in Nat /\ chunk \in Nat /\ fed \in Nat /\ r.groups \in 0 .. unread
          /\ input' = input
      BY <1>1, <1>4 DEF TypeInv
    <3> HIDE <1>3, <1>4
    <3>2. QED
      BY <2>1, <2>3, <3>1 DEF Base, Fed
  <2>5. Fed \in Nat /\ Fed + 0 = Fed
    BY <1>1, <1>2, InputLength
  <2>6. stream' = "eof" => unread' = 0
    BY <1>1, <1>3, <1>4, <2>1 DEF TypeInv
  <2>7. hashed = Fed * GroupSamples /\ samples = Fed * GroupSamples
    BY <1>1, <1>2 DEF ReaderInv
  <2>8. ReaderInv'
    BY <1>1, <1>4, <2>1, <2>2, <2>4, <2>5, <2>6, <2>7 DEF ReaderInv
  <2>9. Launched' = Launched
    BY <1>1 DEF Launched, FullBatch
  <2>10. FramingInv'
    BY <1>1, <1>2, <2>2, <2>4, <2>9 DEF FramingInv
  <2>11. QED
    BY <1>1, <1>6, <2>1, <2>2, <2>8, <2>9, <2>10, ReadingInv
<1>9. QED
  BY <1>7, <1>8
LEMMA FeedGroupInv ==
  ASSUME IInv, FeedGroup
  PROVE  IInv'
<1> USE DEF taskVars, writeVars, outputVars
<1> DEFINE n == Min2(GroupSamples, BatchSamples - batch)
<1>1. /\ TypeInv /\ pc = "feed" /\ Place = "feed" /\ fed < chunk
      /\ batch' = batch + n /\ carry' = GroupSamples - n
      /\ frameNumber' = frameNumber + (inFrame + n) \div FrameSamples
      /\ inFrame' = (inFrame + n) % FrameSamples
      /\ fed' = fed + 1
      /\ UNCHANGED <<poolVars, input, unread, stream, chunk, samples, start,
                     taskVars, writeVars, outputVars, verdict>>
  BY DEF IInv, FeedGroup, Place
<1>2. verdict = "none" /\ ReaderInv /\ FramingInv
  BY <1>1 DEF IInv, VerdictInv, Leaving
<1>3. /\ batch < BatchSamples /\ carry = 0 /\ inFrame = batch % FrameSamples
      /\ start = Launched * FrameSamples /\ Launched \in Nat
      /\ start + batch + carry = Fed * GroupSamples
  BY <1>1, <1>2 DEF FramingInv
<1>4. /\ n \in Nat \ {0} /\ n <= GroupSamples
      /\ batch' <= BatchSamples
      /\ batch' # BatchSamples => n = GroupSamples
  BY <1>1, <1>3, Sizes DEF Min2, TypeInv
<1> HIDE DEF n
<1>5. /\ batch' \div FrameSamples = batch \div FrameSamples + (inFrame + n) \div FrameSamples
      /\ batch' % FrameSamples = inFrame'
  <2>1. batch \in Nat /\ n \in Nat /\ FrameSamples \in Nat \ {0}
    BY <1>1, <1>4, Sizes DEF TypeInv
  <2>2. QED
    BY <1>1, <1>3, <2>1, MoreSamples
<1>6. /\ batch' \in Nat /\ carry' \in Nat /\ inFrame' \in Nat /\ frameNumber' \in Nat /\ fed' \in Nat
      /\ carry' < GroupSamples
  <2>1. /\ batch \in Nat /\ inFrame \in Nat /\ frameNumber \in Nat /\ fed \in Nat
        /\ GroupSamples \in Nat \ {0} /\ FrameSamples \in Nat \ {0}
    BY <1>1, Sizes DEF TypeInv
  <2>2. (inFrame + n) \div FrameSamples \in Nat /\ (inFrame + n) % FrameSamples \in Nat
    <3>1. inFrame + n \in Nat
      BY <1>4, <2>1
    <3>2. QED
      BY <2>1, <3>1, Division
  <2>3. QED
    BY <1>1, <1>4, <2>1, <2>2
<1>7. Launched' = Launched
  <2>1. batch \div FrameSamples \in Nat /\ (inFrame + n) \div FrameSamples \in Nat
        /\ frameNumber \in Nat
    <3>1. batch \in Nat /\ inFrame + n \in Nat /\ FrameSamples \in Nat \ {0} /\ frameNumber \in Nat
      BY <1>1, <1>4, Sizes DEF TypeInv
    <3>2. QED
      BY <3>1, Division
  <2>2. QED
    BY <1>1, <1>5, <2>1 DEF Launched, FullBatch
<1>8. Base' = Base /\ Base \in Nat /\ Fed' = Fed + 1 /\ Fed \in Nat /\ Fed = Base + fed
  <2>1. Base \in Nat /\ Fed \in Nat /\ fed \in Nat
    BY <1>1, <1>2, InputLength DEF TypeInv
  <2>2. Base' = Base /\ Fed = Base + fed /\ Fed' = Base' + (fed + 1)
    BY <1>1 DEF Base, Fed
  <2>3. QED
    BY <2>1, <2>2
<1>9. start + batch' + carry' = Fed' * GroupSamples
  <2>1. start \in Nat /\ batch \in Nat /\ n \in Nat /\ GroupSamples \in Nat
    BY <1>1, <1>4, Sizes DEF TypeInv
  <2>2. (Fed + 1) * GroupSamples = Fed * GroupSamples + GroupSamples
    BY <1>8, <2>1, Distributive
  <2>3. Fed * GroupSamples \in Nat
    BY <1>8, <2>1
  <2>4. QED
    BY <1>1, <1>3, <1>8, <2>1, <2>2, <2>3
<1>10. /\ IF batch' = BatchSamples
          THEN pc' = "flush" /\ resume' = "feed"
          ELSE pc' = "feed" /\ resume' = resume
       /\ \/ hashed' = hashed /\ segment' = segment
          \/ hashed' = (Base + (fed + 1)) * GroupSamples /\ segment' = fed + 1
  <2>1. hashed = (Base + segment) * GroupSamples
    BY <1>1, <1>2 DEF ReaderInv
  <2>2. HashGroups(segment, fed + 1) => hashed' = (Base + (fed + 1)) * GroupSamples
    BY <2>1 DEF HashGroups, Base
  <2>3. QED
    BY <1>1, <2>2 DEF FeedGroup
<1>11. Place' = "feed"
  BY <1>10 DEF Place
<1>12. ReaderInv'
  <2>1. /\ fed \in Nat /\ chunk \in Nat /\ segment \in Nat /\ segment <= fed
        /\ hashed = (Base + segment) * GroupSamples /\ samples = Base * GroupSamples
        /\ unread + chunk <= input.groups /\ (stream = "eof" => unread = 0)
    BY <1>1, <1>2 DEF ReaderInv, TypeInv
  <2>2. segment' <= fed' /\ hashed' = (Base' + segment') * GroupSamples /\ fed' <= chunk
    BY <1>1, <1>8, <1>10, <2>1
  <2>3. QED
    BY <1>1, <1>8, <1>10, <1>11, <2>1, <2>2 DEF ReaderInv
<1>13. FramingInv'
  <2>1. carry' = 0 \/ batch' = BatchSamples
    BY <1>1, <1>4, Sizes
  <2>2. batch' = BatchSamples \/ batch' < BatchSamples
    BY <1>4, <1>6, Sizes
  <2>3. QED
    BY <1>1, <1>3, <1>5, <1>6, <1>7, <1>9, <1>10, <1>11, <2>1, <2>2 DEF FramingInv
<1>14. TypeInv'
  <2>1. PlaceTypes(Frames)'
    BY <1>1, PoolSame DEF IInv, TypeInv
  <2>2. hashed' \in Int /\ segment' \in Nat
    <3>1. GroupSamples \in Nat /\ Base + (fed + 1) \in Int
      BY <1>1, <1>8, Sizes DEF TypeInv
    <3>2. (Base + (fed + 1)) * GroupSamples \in Int
      BY <3>1
    <3>3. QED
      BY <1>1, <1>6, <1>10, <3>2 DEF TypeInv
  <2>3. pc' \in PCs /\ resume' \in {"feed", "pending", "tail"}
    BY <1>1, <1>10 DEF TypeInv, PCs
  <2>4. QED
    BY <1>1, <1>6, <2>1, <2>2, <2>3 DEF TypeInv
<1>15. QED
  BY <1>1, <1>7, <1>10, <1>11, <1>12, <1>13, <1>14, ReadingInv

LEMMA FinishChunkInv ==
  ASSUME IInv, FinishChunk
  PROVE  IInv'
<1> USE DEF batchVars, taskVars, writeVars, outputVars
<1>1. /\ TypeInv /\ pc = "feed" /\ Place = "feed" /\ fed = chunk
      /\ (IF segment < chunk THEN HashGroups(segment, chunk) ELSE UNCHANGED hashed)
      /\ samples' = samples + chunk * GroupSamples
      /\ (pc' = "read" /\ UNCHANGED verdict) \/ Throw
      /\ UNCHANGED <<poolVars, input, unread, stream, chunk, fed, segment, batchVars,
                     taskVars, writeVars, outputVars, resume>>
  BY DEF IInv, FinishChunk, Place
<1>2. verdict = "none" /\ ReaderInv /\ FramingInv
  BY <1>1 DEF IInv, VerdictInv, Leaving
<1>3. Base' = Base /\ Fed' = Fed /\ Fed = Base + chunk /\ Base \in Nat /\ Launched' = Launched
      /\ Fed * GroupSamples \in Nat
  BY <1>1, <1>2, InputLength DEF Base, Fed, Launched, FullBatch
<1>4. /\ hashed = (Base + segment) * GroupSamples /\ samples = Base * GroupSamples
      /\ segment <= chunk /\ segment \in Nat /\ chunk \in Nat /\ GroupSamples \in Nat
  BY <1>1, <1>2, Sizes DEF ReaderInv, TypeInv
<1>5. hashed' = Fed * GroupSamples
  <2>1. CASE segment < chunk
    BY <1>1, <1>3, <1>4, <2>1 DEF HashGroups, Base
  <2>2. CASE ~(segment < chunk)
    <3>1. segment = chunk
      BY <1>4, <2>2
    <3>2. QED
      BY <1>1, <1>3, <1>4, <2>2, <3>1
  <2>3. QED
    BY <2>1, <2>2
<1>6. samples' = Fed * GroupSamples
  BY <1>1, <1>3, <1>4, Distributive
<1>7. PlaceTypes(Frames)' /\ PlacesInv' /\ \A f : InPool(f)' <=> InPool(f)
  BY <1>1, PoolSame DEF IInv, TypeInv
<1>8. TypeInv'
  <2>1. pc' \in PCs /\ verdict' \in {"none", "ok", "error"}
    BY <1>1 DEF TypeInv, Throw, PCs
  <2>2. QED
    BY <1>1, <1>3, <1>5, <1>6, <1>7, <2>1 DEF TypeInv
<1>9. CASE Throw
  <2>1. TasksInv'
    BY <1>1 DEF IInv, TasksInv
  <2>2. QED
    BY <1>1, <1>7, <1>8, <1>9, <2>1, ThrowInv
<1>10. CASE pc' = "read" /\ UNCHANGED verdict
  <2>1. Place' = "read"
    BY <1>10 DEF Place
  <2>2. ReaderInv'
    BY <1>1, <1>2, <1>3, <1>5, <1>6, <1>10, <2>1 DEF ReaderInv
  <2>3. FramingInv'
    BY <1>1, <1>2, <1>3, <1>10, <2>1 DEF FramingInv
  <2>4. QED
    BY <1>1, <1>3, <1>8, <1>10, <2>1, <2>2, <2>3, ReadingInv
<1>11. QED
  BY <1>1, <1>9, <1>10

LEMMA FinishReadingInv ==
  ASSUME IInv, FinishReading
  PROVE  IInv'
<1> USE DEF inputVars, taskVars, writeVars, outputVars
<1>1. /\ TypeInv /\ pc = "read" /\ Place = "read" /\ stream # "good"
      /\ UNCHANGED <<poolVars, inputVars, start, inFrame, frameNumber, taskVars,
                     writeVars, outputVars>>
  BY DEF IInv, FinishReading, Place
<1>2. verdict = "none" /\ ReaderInv /\ FramingInv
  BY <1>1 DEF IInv, VerdictInv, Leaving
<1>3. PlaceTypes(Frames)' /\ PlacesInv' /\ \A f : InPool(f)' <=> InPool(f)
  BY <1>1, PoolSame DEF IInv, TypeInv
<1>4. CASE stream = "bad"
  <2>1. Throw /\ UNCHANGED <<batch, carry, resume>> /\ TasksInv'
    BY <1>1, <1>4 DEF IInv, FinishReading, TasksInv
  <2>2. TypeInv'
    BY <1>1, <1>3, <2>1 DEF TypeInv, Throw, PCs
  <2>3. QED
    BY <1>1, <1>3, <2>1, <2>2, ThrowInv
<1>5. CASE stream # "bad"
  <2>1. /\ batch' = batch - (batch % FrameSamples) /\ carry' = batch % FrameSamples
        /\ pc' = "flush" /\ resume' = "pending" /\ verdict' = verdict
    BY <1>5 DEF FinishReading
  <2>2. stream = "eof" /\ Place' = "pending"
    BY <1>1, <1>5, <2>1 DEF TypeInv, Place
  <2>3. /\ batch' = (batch \div FrameSamples) * FrameSamples
        /\ batch' \div FrameSamples = batch \div FrameSamples /\ batch' % FrameSamples = 0
        /\ batch' \in Nat /\ carry' \in Nat /\ carry' < FrameSamples
        /\ batch' + carry' = batch
    <3>1. batch \in Nat /\ FrameSamples \in Nat \ {0}
      BY <1>1, Sizes DEF TypeInv
    <3>2. /\ batch \div FrameSamples \in Nat /\ batch % FrameSamples \in 0 .. FrameSamples - 1
          /\ batch = (batch \div FrameSamples) * FrameSamples + (batch % FrameSamples)
      BY <3>1, Division
    <3>3. batch' = (batch \div FrameSamples) * FrameSamples
      BY <2>1, <3>1, SmallAndWhole
    <3>4. batch' \div FrameSamples = batch \div FrameSamples /\ batch' % FrameSamples = 0
      BY <3>1, <3>2, <3>3, SmallAndWhole
    <3>5. batch' \in Nat
      BY <3>1, <3>2, <3>3
    <3>6. QED
      BY <2>1, <3>1, <3>2, <3>3, <3>4, <3>5
  <2>4. Launched' = Launched /\ Base' = Base /\ Fed' = Fed
    BY <1>1, <2>3 DEF Launched, FullBatch, Base, Fed
  <2>5. TypeInv'
    BY <1>1, <1>3, <2>1, <2>3 DEF TypeInv, PCs
  <2>6. ReaderInv'
    BY <1>1, <1>2, <2>1, <2>2, <2>4 DEF ReaderInv
  <2>7. start' + batch' + carry' = Fed' * GroupSamples
    <3>1. start + batch + carry = Fed * GroupSamples /\ carry = 0 /\ start \in Nat /\ batch \in Nat
      BY <1>1, <1>2 DEF FramingInv, TypeInv
    <3>2. QED
      BY <1>1, <2>3, <2>4, <3>1
  <2>8. FramingInv'
    BY <1>1, <1>2, <2>1, <2>2, <2>3, <2>4, <2>7 DEF FramingInv
  <2>9. QED
    BY <1>1, <2>1, <2>2, <2>4, <2>5, <2>6, <2>8, ReadingInv
<1>6. QED
  BY <1>4, <1>5
-----------------------------------------------------------------------------
(* Flushing a batch. *)

LEMMA FlushEmptyBatchInv ==
  ASSUME IInv, FlushEmptyBatch
  PROVE  IInv'
<1> USE DEF inputVars, batchVars, taskVars, writeVars, outputVars
<1>1. /\ TypeInv /\ pc = "flush" /\ batch = 0 /\ pc' = resume
      /\ UNCHANGED <<poolVars, inputVars, batchVars, taskVars, writeVars, outputVars,
                     verdict, resume>>
  BY DEF IInv, FlushEmptyBatch
<1>2. verdict = "none" /\ ReaderInv /\ FramingInv
  BY <1>1 DEF IInv, VerdictInv, Leaving
<1>3. resume = "pending"
  BY <1>1, <1>2, Sizes DEF FramingInv, ReaderInv, TypeInv
<1>4. Place = "pending" /\ Place' = "pending"
  BY <1>1, <1>3 DEF Place
<1>5. Base' = Base /\ Fed' = Fed /\ Launched' = Launched
  BY <1>1 DEF Base, Fed, Launched, FullBatch
<1>6. ReaderInv' /\ FramingInv'
  BY <1>1, <1>2, <1>3, <1>4, <1>5, Sizes DEF ReaderInv, FramingInv, TypeInv
<1>7. TypeInv'
  <2>1. PlaceTypes(Frames)'
    BY <1>1, PoolSame DEF IInv, TypeInv
  <2>2. QED
    BY <1>1, <2>1 DEF TypeInv, PCs
<1>8. QED
  BY <1>1, <1>3, <1>4, <1>5, <1>6, <1>7, ReadingInv

\* The batch that is swapped out, and what is left.
LEMMA SwapFacts ==
  ASSUME TypeInv, ReaderInv, FramingInv, pc = "flush", batch > 0, SwapBatch
  PROVE  /\ FullBatch \in Batches /\ FullBatch.frames > 0
         /\ FullBatch.first = Launched /\ FullBatch.from = FullBatch.first * FrameSamples
         /\ Launched' = Launched + FullBatch.frames
         /\ start' = Launched' * FrameSamples
         /\ start' \in Nat /\ batch' = carry /\ carry' = 0 /\ inFrame' = carry
         /\ carry < FrameSamples /\ frameNumber' = frameNumber
         /\ start' + batch' + carry' = start + batch + carry
<1> DEFINE q == batch \div FrameSamples
<1>1. /\ batch \in Nat /\ carry \in Nat /\ start \in Nat /\ frameNumber \in Nat
      /\ FrameSamples \in Nat \ {0} /\ GroupSamples <= FrameSamples /\ GroupSamples \in Nat
  BY Sizes DEF TypeInv
<1>2. /\ Launched \in Nat /\ start = Launched * FrameSamples
      /\ batch % FrameSamples = 0 /\ carry < FrameSamples
  <2>1. CASE resume = "feed"
    BY <1>1, <2>1, Sizes DEF FramingInv
  <2>2. CASE resume # "feed"
    BY <2>2 DEF FramingInv
  <2>3. QED
    BY <2>1, <2>2
<1>3. q \in Nat /\ batch = q * FrameSamples
  BY <1>1, <1>2, Division, SmallAndWhole
<1>4. q > 0
  <2>1. CASE q = 0
    BY <1>1, <1>3, <2>1
  <2>2. QED
    BY <1>3, <2>1
<1>5. Launched = frameNumber - q /\ FullBatch = [first |-> Launched, from |-> start, frames |-> q]
  BY DEF Launched, FullBatch
<1> HIDE DEF q
<1>6. /\ FullBatch \in Batches /\ FullBatch.frames = q /\ FullBatch.first = Launched
      /\ FullBatch.from = start
  BY <1>1, <1>2, <1>3, <1>5 DEF Batches
<1>7. /\ start' = start + batch /\ batch' = carry /\ carry' = 0 /\ inFrame' = carry
      /\ frameNumber' = frameNumber
  BY DEF SwapBatch
<1>8. Launched' = frameNumber
  <2>1. carry \div FrameSamples = 0
    BY <1>1, <1>2, SmallAndWhole
  <2>2. Launched' = frameNumber' - (batch' \div FrameSamples)
    BY DEF Launched, FullBatch
  <2>3. QED
    BY <1>1, <1>7, <2>1, <2>2
<1>9. Launched' = Launched + q
  BY <1>1, <1>3, <1>5, <1>8
<1>10. start' = Launched' * FrameSamples
  BY <1>1, <1>2, <1>3, <1>7, <1>9, Distributive
<1>11. start' \in Nat /\ start' + batch' + carry' = start + batch + carry
  BY <1>1, <1>7
<1>12. QED
  BY <1>2, <1>4, <1>6, <1>7, <1>9, <1>10, <1>11

\* Before a flush and between writes the pool holds no frame.
LEMMA NothingInPool ==
  ASSUME OwnBatchInv, writing = {}
  PROVE  \A f : ~InPool(f)
  BY DEF OwnBatchInv

\* The rest of the invariant after a flush that launched the full batch.
LEMMA FlushFraming ==
  ASSUME TypeInv, ReaderInv, FramingInv, pc = "flush", batch > 0, SwapBatch,
         UNCHANGED <<inputVars, resume>>, pc' \in {resume, "submit"}
  PROVE  ReaderInv' /\ FramingInv' /\ Place' = resume
<1> USE DEF inputVars
<1>1. /\ resume \in {"feed", "pending"}
  BY DEF ReaderInv, TypeInv
<1>2. Place = resume /\ Place' = resume
  BY <1>1 DEF Place
<1>3. Base' = Base /\ Fed' = Fed
  BY DEF Base, Fed
<1>4. ReaderInv'
  BY <1>1, <1>2, <1>3 DEF ReaderInv
<1>5. /\ Launched' \in Nat /\ start' = Launched' * FrameSamples
      /\ batch' = carry /\ carry' = 0 /\ inFrame' = carry /\ carry < FrameSamples
      /\ carry \in Nat
      /\ start' + batch' + carry' = Fed' * GroupSamples
  <2>1. start + batch + carry = Fed * GroupSamples /\ Launched \in Nat
    BY DEF FramingInv
  <2>2. /\ FullBatch \in Batches /\ Launched' = Launched + FullBatch.frames
        /\ start' = Launched' * FrameSamples
        /\ batch' = carry /\ carry' = 0 /\ inFrame' = carry /\ carry < FrameSamples
        /\ start' + batch' + carry' = start + batch + carry
    BY SwapFacts
  <2>3. FullBatch.frames \in Nat /\ carry \in Nat
    BY <2>2 DEF Batches, TypeInv
  <2>4. Launched' \in Nat
    BY <2>1, <2>2, <2>3
  <2>5. QED
    BY <1>3, <2>1, <2>2, <2>3, <2>4
<1>6. carry < BatchSamples /\ carry % FrameSamples = carry
  BY <1>5, Sizes, SmallAndWhole
<1>7. batch' + carry' < FrameSamples
  BY <1>5, Sizes
<1>8. FramingInv'
  BY <1>1, <1>2, <1>5, <1>6, <1>7 DEF FramingInv
<1>9. QED
  BY <1>2, <1>4, <1>8

LEMMA FlushTypes ==
  ASSUME TypeInv, PlacesInv, SwapBatch, carry \in Nat, start' \in Nat,
         UNCHANGED <<poolVars, inputVars, outputVars, resume>>,
         pending' \in SUBSET Batches, writing' \in SUBSET Batches,
         submitted' \in Nat, taken' \in Nat, encodedFrame' \in SUBSET Frames,
         verdict' \in {"none", "error"}, pc' \in PCs
  PROVE  TypeInv' /\ PlacesInv' /\ \A f : InPool(f)' <=> InPool(f)
<1> USE DEF inputVars, outputVars
<1>1. PlaceTypes(Frames)' /\ PlacesInv' /\ \A f : InPool(f)' <=> InPool(f)
  BY PoolSame DEF TypeInv
<1>2. batch' \in Nat /\ carry' \in Nat /\ inFrame' \in Nat /\ frameNumber' \in Nat
  BY DEF SwapBatch, TypeInv
<1>3. TypeInv'
  BY <1>1, <1>2 DEF TypeInv
<1>4. QED
  BY <1>1, <1>3

LEMMA FlushFirstBatchInv ==
  ASSUME IInv, FlushFirstBatch
  PROVE  IInv'
<1> USE DEF inputVars, writeVars, outputVars
<1>1. /\ TypeInv /\ pc = "flush" /\ batch > 0 /\ pending = {} /\ SwapBatch
      /\ UNCHANGED <<poolVars, inputVars, broken, writeVars, outputVars, resume>>
      /\ \/ Launch(FullBatch) /\ pc' = resume /\ UNCHANGED verdict
         \/ Throw /\ UNCHANGED <<pending, running>>
  BY DEF IInv, FlushFirstBatch
<1>2. verdict = "none" /\ ReaderInv /\ FramingInv /\ BatchInv /\ OwnBatchInv
  BY <1>1 DEF IInv, VerdictInv, Leaving
<1>3. /\ FullBatch \in Batches /\ FullBatch.frames > 0
      /\ FullBatch.first = Launched /\ FullBatch.from = FullBatch.first * FrameSamples
      /\ Launched' = Launched + FullBatch.frames /\ start' \in Nat
  BY <1>1, <1>2, SwapFacts
<1>4. writing = {} /\ Launched = Len(file) /\ running = {} /\ resume \in {"feed", "pending"}
  BY <1>1, <1>2 DEF BatchInv, IInv, TasksInv, ReaderInv, TypeInv
<1>5. TypeInv' /\ PlacesInv' /\ \A f : InPool(f)' <=> InPool(f)
  <2>1. pending' \in SUBSET Batches /\ verdict' \in {"none", "error"} /\ pc' \in PCs
    BY <1>1, <1>2, <1>3, <1>4 DEF Launch, Throw, PCs
  <2>2. carry \in Nat /\ submitted' \in Nat /\ taken' \in Nat /\ writing' \in SUBSET Batches
        /\ encodedFrame' \in SUBSET Frames
    BY <1>1 DEF TypeInv
  <2>3. QED
    BY <1>1, <1>3, <2>1, <2>2, FlushTypes DEF IInv
<1>6. CASE Launch(FullBatch) /\ pc' = resume /\ UNCHANGED verdict
  <2>1. pending' = {FullBatch} /\ running' = {FullBatch} /\ TasksInv'
    BY <1>4, <1>6 DEF Launch, TasksInv
  <2>2. ReaderInv' /\ FramingInv' /\ Place' = resume
    BY <1>1, <1>2, <1>6, FlushFraming
  <2>3. HonestInv' /\ FramesInOrder' /\ OwnBatchInv'
    BY <1>1, <1>2, <1>5 DEF IInv, HonestInv, Honest, FramesInOrder, OwnBatchInv, LengthOf
  <2>4. VerdictInv'
    BY <1>1, <1>2, <1>4, <1>6 DEF IInv, VerdictInv, Leaving
  <2>5. BatchInv'
    BY <1>1, <1>3, <1>4, <1>6, <2>1, <2>2 DEF BatchInv
  <2>6. HandInv'
    BY <1>1, <1>2, NothingInHand, EmptyHand
  <2>7. QED
    BY <1>5, <2>1, <2>2, <2>3, <2>4, <2>5, <2>6 DEF IInv
<1>7. CASE Throw /\ UNCHANGED <<pending, running>>
  <2>1. TasksInv'
    BY <1>7 DEF IInv, TasksInv
  <2>2. QED
    BY <1>1, <1>5, <1>7, <2>1, ThrowInv
<1>8. QED
  BY <1>1, <1>6, <1>7

LEMMA FlushNextBatchInv ==
  ASSUME IInv, FlushNextBatch
  PROVE  IInv'
<1> USE DEF inputVars, outputVars
<1>1. PICK b \in Batches \cap pending :
        /\ Got(b) /\ SwapBatch
        /\ \/ /\ Launch(FullBatch)
              /\ writing' = {b} /\ submitted' = 0 /\ taken' = 0
              /\ pc' = "submit" /\ UNCHANGED <<verdict, encodedFrame>>
           \/ /\ Throw
              /\ pending' = {}
              /\ UNCHANGED <<running, writeVars>>
  BY DEF FlushNextBatch
<1>2. /\ TypeInv /\ pc = "flush" /\ batch > 0
      /\ UNCHANGED <<poolVars, inputVars, broken, outputVars, resume>>
  BY DEF IInv, FlushNextBatch
<1>3. verdict = "none" /\ ReaderInv /\ FramingInv /\ BatchInv /\ OwnBatchInv
  BY <1>2 DEF IInv, VerdictInv, Leaving
<1>4. /\ FullBatch \in Batches /\ FullBatch.frames > 0
      /\ FullBatch.first = Launched /\ FullBatch.from = FullBatch.first * FrameSamples
      /\ Launched' = Launched + FullBatch.frames /\ start' \in Nat
  BY <1>1, <1>2, <1>3, SwapFacts
<1>5. /\ b \in Batches /\ pending = {b} /\ running = {} /\ b \notin broken /\ writing = {}
      /\ b.frames > 0 /\ b.from = b.first * FrameSamples
      /\ Launched = b.first + b.frames /\ b.first = Len(file)
      /\ resume \in {"feed", "pending"}
  <2>1. pending = {b} /\ running = {} /\ b \notin broken
    BY <1>1 DEF Got, IInv, TasksInv
  <2>2. QED
    BY <1>1, <1>2, <1>3, <2>1 DEF BatchInv, ReaderInv, TypeInv
<1>6. TypeInv' /\ PlacesInv' /\ \A f : InPool(f)' <=> InPool(f)
  <2>1. pending' \in SUBSET Batches /\ verdict' \in {"none", "error"} /\ pc' \in PCs
    BY <1>1, <1>3, <1>4, <1>5 DEF Launch, Throw, PCs
  <2>2. carry \in Nat /\ submitted' \in Nat /\ taken' \in Nat /\ writing' \in SUBSET Batches
        /\ encodedFrame' \in SUBSET Frames
    BY <1>1, <1>2, <1>5 DEF TypeInv, writeVars
  <2>3. QED
    BY <1>1, <1>2, <1>4, <2>1, <2>2, FlushTypes DEF IInv
<1>7. CASE /\ Launch(FullBatch)
           /\ writing' = {b} /\ submitted' = 0 /\ taken' = 0
           /\ pc' = "submit" /\ UNCHANGED <<verdict, encodedFrame>>
  <2>1. pending' = {FullBatch} /\ running' = {FullBatch} /\ TasksInv'
    BY <1>5, <1>7 DEF Launch, TasksInv
  <2>2. ReaderInv' /\ FramingInv' /\ Place' = resume
    BY <1>1, <1>2, <1>3, <1>7, FlushFraming
  <2>3. HonestInv' /\ FramesInOrder'
    BY <1>2, <1>6 DEF IInv, HonestInv, Honest, FramesInOrder, LengthOf
  <2>4. OwnBatchInv'
    BY <1>3, <1>5, <1>6 DEF OwnBatchInv
  <2>5. VerdictInv'
    BY <1>2, <1>3, <1>7 DEF IInv, VerdictInv, Leaving
  <2>6. BatchInv'
    <3>1. b # FullBatch
      BY <1>4, <1>5 DEF Batches
    <3>2. Len(file) \in Nat /\ b.first \in Nat /\ b.frames \in Nat
      BY <1>2, <1>5 DEF TypeInv, Batches
    <3>3. file' = file /\ broken' = broken /\ Len(file) = b.first + 0
      BY <1>2, <1>5, <3>2
    <3>4. QED
      BY <1>3, <1>4, <1>5, <1>7, <2>1, <2>2, <3>1, <3>2, <3>3 DEF BatchInv
  <2>7. HandInv'
    BY <1>2, <1>3, <1>7, NothingInHand, EmptyHand
  <2>8. QED
    BY <1>6, <2>1, <2>2, <2>3, <2>4, <2>5, <2>6, <2>7 DEF IInv
<1>8. CASE Throw /\ pending' = {} /\ UNCHANGED <<running, writeVars>>
  <2>1. TasksInv'
    BY <1>5, <1>8 DEF TasksInv
  <2>2. QED
    BY <1>2, <1>6, <1>8, <2>1, ThrowInv
<1>9. QED
  BY <1>1, <1>7, <1>8
-----------------------------------------------------------------------------
(* Collecting and writing a batch. *)

\* While a batch is collected and written the input is not read.
LEMMA WritingFraming ==
  ASSUME TypeInv, ReaderInv, FramingInv, UNCHANGED <<inputVars, batchVars>>,
         pc \in {"pending", "submit", "notify", "tail"},
         pc' \in PCs \ {"flush", "rewrite", "close"},
         Place' = Place \/ {Place, Place'} \subseteq {"pending", "tail"}
  PROVE  ReaderInv' /\ FramingInv'
<1> USE DEF inputVars, batchVars
<1>1. Base' = Base /\ Fed' = Fed /\ Launched' = Launched
  BY DEF Base, Fed, Launched, FullBatch
<1>2. Place \in {"feed", "pending", "tail"}
  BY DEF Place, TypeInv
<1>3. ReaderInv'
  BY <1>1, <1>2 DEF ReaderInv
<1>4. FramingInv'
  BY <1>1, <1>2 DEF FramingInv
<1>5. QED
  BY <1>3, <1>4

LEMMA WritePendingBatchInv ==
  ASSUME IInv, WritePendingBatch
  PROVE  IInv'
<1> USE DEF inputVars, batchVars, writeVars, outputVars
<1>1. /\ TypeInv /\ pc = "pending" /\ Place = "pending"
      /\ UNCHANGED <<poolVars, inputVars, batchVars, running, broken, outputVars, verdict>>
  BY DEF IInv, WritePendingBatch, Place
<1>2. verdict = "none" /\ ReaderInv /\ FramingInv /\ BatchInv /\ OwnBatchInv
  BY <1>1 DEF IInv, VerdictInv, Leaving
<1>3. writing = {}
  BY <1>1, <1>2 DEF BatchInv
<1>4. PlaceTypes(Frames)' /\ PlacesInv' /\ \A f : InPool(f)' <=> InPool(f)
  BY <1>1, PoolSame DEF IInv, TypeInv
<1>5. HonestInv' /\ FramesInOrder' /\ OwnBatchInv'
  BY <1>1, <1>2, <1>3, <1>4 DEF IInv, HonestInv, Honest, FramesInOrder, OwnBatchInv, LengthOf
<1>6. Launched' = Launched /\ encodedFrame = {}
  BY <1>1, <1>2, NothingInHand DEF Launched, FullBatch
<1>7. CASE /\ pending = {}
           /\ pc' = "tail" /\ UNCHANGED <<pending, writeVars, resume>>
  <2>1. Place' = "tail"
    BY <1>7 DEF Place
  <2>2. TypeInv' /\ TasksInv'
    BY <1>1, <1>4, <1>7 DEF TypeInv, IInv, TasksInv, PCs
  <2>3. ReaderInv' /\ FramingInv'
    BY <1>1, <1>2, <1>7, <2>1, WritingFraming DEF PCs
  <2>4. BatchInv'
    BY <1>1, <1>2, <1>3, <1>6, <1>7, <2>1 DEF BatchInv
  <2>5. VerdictInv'
    BY <1>1, <1>2, <1>7 DEF IInv, VerdictInv, Leaving
  <2>6. HandInv'
    BY <1>6, <1>7, EmptyHand
  <2>7. QED
    BY <1>4, <1>5, <2>2, <2>3, <2>4, <2>5, <2>6 DEF IInv
<1>8. CASE \E b \in pending :
             /\ Got(b)
             /\ pending' = {}
             /\ writing' = {b} /\ submitted' = 0 /\ taken' = 0
             /\ pc' = "submit" /\ resume' = "tail" /\ UNCHANGED encodedFrame
  <2>1. PICK b \in pending :
          /\ Got(b)
          /\ pending' = {}
          /\ writing' = {b} /\ submitted' = 0 /\ taken' = 0
          /\ pc' = "submit" /\ resume' = "tail" /\ UNCHANGED encodedFrame
    BY <1>8
  <2>2. Place' = "tail"
    BY <2>1 DEF Place
  <2>3. /\ pending = {b} /\ running = {} /\ b \notin broken
        /\ b \in Batches /\ b.first \in Nat /\ b.frames \in Nat
    <3>1. pending = {b} /\ running = {} /\ b \notin broken
      BY <2>1 DEF Got, IInv, TasksInv
    <3>2. b \in Batches
      BY <1>1, <3>1 DEF TypeInv
    <3>3. QED
      BY <3>1, <3>2 DEF Batches
  <2>4. TypeInv' /\ TasksInv'
    BY <1>1, <1>4, <2>1, <2>3 DEF TypeInv, TasksInv, PCs
  <2>5. ReaderInv' /\ FramingInv'
    BY <1>1, <1>2, <2>1, <2>2, WritingFraming DEF PCs
  <2>6. BatchInv'
    <3>1. /\ b.frames > 0 /\ b.from = b.first * FrameSamples
          /\ Launched = b.first + b.frames /\ b.first = Len(file)
      BY <1>1, <1>2, <1>3, <2>3 DEF BatchInv
    <3>2. Len(file) = b.first + 0 /\ file' = file /\ broken' = broken /\ running' = {}
      BY <1>1, <2>3, <3>1
    <3>3. QED
      BY <1>6, <2>1, <2>2, <2>3, <3>1, <3>2 DEF BatchInv
  <2>7. VerdictInv'
    BY <1>1, <1>2, <2>1 DEF IInv, VerdictInv, Leaving
  <2>8. HandInv'
    BY <1>6, <2>1, EmptyHand
  <2>9. QED
    BY <1>4, <1>5, <2>4, <2>5, <2>6, <2>7, <2>8 DEF IInv
<1>9. QED
  BY <1>7, <1>8 DEF WritePendingBatch

LEMMA AnalysisThrowsInv ==
  ASSUME IInv, AnalysisThrows
  PROVE  IInv'
<1> USE DEF inputVars, batchVars, writeVars, outputVars
<1>1. /\ TypeInv /\ GotException /\ pending' = {} /\ Throw
      /\ UNCHANGED <<poolVars, inputVars, batchVars, running, broken, writeVars,
                     outputVars, resume>>
  BY DEF IInv, AnalysisThrows
<1>2. PlaceTypes(Frames)' /\ PlacesInv' /\ \A f : InPool(f)' <=> InPool(f)
  BY <1>1, PoolSame DEF IInv, TypeInv
<1>3. running = {}
  BY <1>1 DEF GotException, IInv, TasksInv
<1>4. TypeInv' /\ TasksInv'
  BY <1>1, <1>2, <1>3 DEF TypeInv, TasksInv, Throw, PCs
<1>5. QED
  BY <1>1, <1>2, <1>4, ThrowInv

\* Every frame of the batch being written is the one the input determines.
LEMMA OwnFramesHonest ==
  ASSUME TypeInv, ReaderInv, FramingInv, BatchInv, pc \in {"submit", "notify"},
         NEW b \in writing, NEW i \in Nat, i < b.frames
  PROVE  FrameOf(b, i) \in Frames /\ Honest(FrameOf(b, i))
<1>1. /\ b.first \in Nat /\ b.frames \in Nat /\ b.from = b.first * FrameSamples
      /\ FrameSamples \in Nat \ {0}
  BY Sizes DEF TypeInv, BatchInv, Batches
<1>2. b.first + b.frames <= Launched /\ Launched \in Nat /\ start = Launched * FrameSamples
  <2>1. CASE pending = {}
    BY <1>1, <2>1 DEF BatchInv, FramingInv
  <2>2. CASE pending # {}
    <3>1. PICK p \in pending : p.first = b.first + b.frames /\ Launched = p.first + p.frames
      BY <2>2 DEF BatchInv
    <3>2. p.frames \in Nat
      BY DEF TypeInv, Batches
    <3>3. QED
      BY <1>1, <3>1, <3>2 DEF FramingInv
  <2>3. QED
    BY <2>1, <2>2
<1>3. start <= LengthOf(input) /\ LengthOf(input) \in Nat
  <2>1. Fed * GroupSamples \in Nat /\ Fed * GroupSamples <= LengthOf(input) /\ LengthOf(input) \in Nat
    BY InputLength
  <2>2. start + batch + carry = Fed * GroupSamples /\ start \in Nat /\ batch \in Nat /\ carry \in Nat
    BY DEF FramingInv, TypeInv
  <2>3. QED
    BY <2>1, <2>2
<1> DEFINE n == b.first + i
<1>4. n \in Nat /\ n + 1 <= Launched
  BY <1>1, <1>2
<1>5. n * FrameSamples + FrameSamples <= LengthOf(input) /\ n * FrameSamples \in Nat
  <2>1. (n + 1) * FrameSamples <= Launched * FrameSamples
    BY <1>1, <1>2, <1>4, Monotone
  <2>2. (n + 1) * FrameSamples = n * FrameSamples + FrameSamples /\ n * FrameSamples \in Nat
    BY <1>1, <1>4, Distributive
  <2> DEFINE p == n * FrameSamples
  <2>3. p + FrameSamples <= start /\ p \in Nat /\ FrameSamples \in Nat
    BY <1>1, <1>2, <2>1, <2>2
  <2>4. start \in Nat
    BY DEF TypeInv
  <2> HIDE DEF n, p
  <2>5. p + FrameSamples <= LengthOf(input)
    BY <1>3, <2>3, <2>4
  <2>6. QED
    BY <2>3, <2>5 DEF p
<1>6. b.from + i * FrameSamples = n * FrameSamples
  BY <1>1, Distributive
<1> HIDE DEF n
<1>7. FrameOf(b, i) = [number |-> n, first |-> n * FrameSamples, count |-> FrameSamples]
  BY <1>6 DEF FrameOf, n
<1>8. Min2(FrameSamples, LengthOf(input) - n * FrameSamples) = FrameSamples
  BY <1>1, <1>3, <1>5 DEF Min2
<1>9. QED
  BY <1>1, <1>4, <1>5, <1>7, <1>8 DEF Honest, FrameAt, Frames

\* Writing the next frame, in place or from the pool.
LEMMA AppendInv ==
  ASSUME IInv, verdict = "none", pc = "submit", NEW b \in writing, NEW f \in Frames,
         taken < b.frames, f.number = b.first + taken, Honest(f),
         ThreadCount # 1 => submitted = b.frames,
         PlaceTypes(Frames)', PlacesInv', \A g : InPool(g)' => InPool(g) /\ g # f,
         file' = Append(file, f), taken' = taken + 1, encodedFrame' = {},
         UNCHANGED <<inputVars, batchVars, taskVars, writing, submitted, info, resume, pc, verdict>>
  PROVE  IInv'
<1> USE DEF inputVars, batchVars, taskVars
<1>1. TypeInv /\ ReaderInv /\ FramingInv /\ BatchInv /\ OwnBatchInv
  BY DEF IInv
<1>2. /\ b.first \in Nat /\ b.frames \in Nat /\ taken \in Nat /\ submitted \in Nat
      /\ Len(file) = b.first + taken /\ writing = {b} /\ submitted <= b.frames
      /\ (ThreadCount = 1 => submitted = 0)
  BY <1>1 DEF TypeInv, BatchInv, Batches
<1>3. /\ file' \in Seq(Frames) /\ Len(file') = Len(file) + 1 /\ file'[Len(file) + 1] = f
      /\ \A i \in 1 .. Len(file) : file'[i] = file[i]
  BY <1>1 DEF TypeInv
<1>4. TypeInv'
  BY <1>1, <1>2, <1>3 DEF TypeInv
<1>5. FramesInOrder'
  <2>1. f = FrameAt(Len(file), LengthOf(input)) /\ LengthOf(input)' = LengthOf(input)
    BY <1>2 DEF Honest, LengthOf
  <2>2. \A i \in 1 .. Len(file') : i \in 1 .. Len(file) \/ i = Len(file) + 1
    BY <1>2, <1>3
  <2>3. (Len(file) + 1) - 1 = Len(file)
    BY <1>2
  <2>4. QED
    BY <1>3, <2>1, <2>2, <2>3 DEF IInv, FramesInOrder
<1>6. HonestInv' /\ TasksInv' /\ VerdictInv'
  BY DEF IInv, HonestInv, Honest, TasksInv, VerdictInv, LengthOf
<1>7. ReaderInv' /\ FramingInv'
  <2>1. Place' = Place
    BY DEF Place
  <2>2. QED
    BY <1>1, <2>1, WritingFraming DEF PCs
<1>8. BatchInv'
  <2>1. Place' = Place /\ Launched' = Launched
    BY DEF Place, Launched, FullBatch
  <2>2. Len(file') = b.first + taken' /\ taken' <= b.frames
    <3>1. Len(file') = Len(file) + 1 /\ taken' = taken + 1
      BY <1>3
    <3>2. Len(file) + 1 = b.first + (taken + 1) /\ taken + 1 <= b.frames
      BY <1>2, SMTT(20)
    <3>3. QED
      BY <3>1, <3>2, Zenon
  <2>3. QED
    BY <1>1, <1>2, <2>1, <2>2 DEF BatchInv
<1>9. OwnBatchInv'
  <2>1. ASSUME NEW g, InPool(g)' PROVE g.number \in b.first + taken' .. b.first + submitted - 1
    <3>1. InPool(g) /\ g # f
      BY <2>1
    <3>2. g.number \in b.first + taken .. b.first + submitted - 1
      BY <1>1, <1>2, <3>1 DEF OwnBatchInv
    <3>3. g.number # b.first + taken
      BY <3>1 DEF IInv, HonestInv, Honest
    <3>4. QED
      BY <1>2, <3>2, <3>3, SMTT(20)
  <2>2. QED
    BY <1>2, <2>1 DEF OwnBatchInv
<1>10. QED
  BY <1>4, <1>5, <1>6, <1>7, <1>8, <1>9, EmptyHand DEF IInv

LEMMA WriteInlineInv ==
  ASSUME IInv, NEW b \in writing, WriteInline(b)
  PROVE  IInv'
<1> USE DEF inputVars, batchVars, taskVars, writeVars, outputVars
<1>1. /\ TypeInv /\ pc = "submit" /\ ThreadCount = 1 /\ taken < b.frames
      /\ UNCHANGED <<poolVars, inputVars, batchVars, taskVars, writing, submitted,
                     encodedFrame, info, resume>>
      /\ \/ /\ file' = Append(file, FrameOf(b, taken)) /\ taken' = taken + 1
            /\ UNCHANGED <<pc, verdict>>
         \/ Throw /\ UNCHANGED <<file, taken>>
  BY DEF IInv, WriteInline
<1>2. verdict = "none" /\ ReaderInv /\ FramingInv /\ BatchInv /\ OwnBatchInv
  BY <1>1 DEF IInv, VerdictInv, Leaving
<1>3. PlaceTypes(Frames)' /\ PlacesInv' /\ \A f : InPool(f)' <=> InPool(f)
  BY <1>1, PoolSame DEF IInv, TypeInv
<1>4. CASE Throw /\ UNCHANGED <<file, taken>>
  <2>1. TypeInv' /\ TasksInv'
    BY <1>1, <1>3, <1>4 DEF TypeInv, IInv, TasksInv, Throw, PCs
  <2>2. QED
    BY <1>1, <1>3, <1>4, <2>1, ThrowInv
<1>5. CASE /\ file' = Append(file, FrameOf(b, taken)) /\ taken' = taken + 1
           /\ UNCHANGED <<pc, verdict>>
  <2>1. b.first \in Nat /\ taken \in Nat /\ submitted = 0
    BY <1>1, <1>2 DEF TypeInv, BatchInv, Batches
  <2>2. FrameOf(b, taken) \in Frames /\ Honest(FrameOf(b, taken))
    BY <1>1, <1>2, <2>1, OwnFramesHonest
  <2>3. FrameOf(b, taken).number = b.first + taken
    BY DEF FrameOf
  <2>4. \A g : ~InPool(g)
    <3>1. \A v \in writing : v = b
      BY <1>1, <1>2 DEF BatchInv
    <3>2. b.first + taken .. b.first + submitted - 1 = {}
      BY <2>1
    <3>3. QED
      BY <1>2, <3>1, <3>2 DEF OwnBatchInv
  <2>5. encodedFrame' = {}
    BY <1>1, <1>2 DEF IInv, HandInv
  <2>6. QED
    BY <1>1, <1>2, <1>3, <1>5, <2>2, <2>3, <2>4, <2>5, AppendInv
<1>6. QED
  BY <1>1, <1>4, <1>5

LEMMA TakeFrameInv ==
  ASSUME IInv, NEW b \in writing, TakeFrame(b)
  PROVE  IInv'
<1> USE DEF inputVars, batchVars, taskVars, writeVars, outputVars
<1>1. /\ TypeInv /\ pc = "submit" /\ ThreadCount # 1 /\ submitted = b.frames /\ taken < b.frames
      /\ UNCHANGED <<inputVars, batchVars, taskVars, writing, submitted, taken, outputVars,
                     resume>>
  BY DEF IInv, TakeFrame
<1>2. verdict = "none" /\ ReaderInv /\ FramingInv /\ BatchInv /\ OwnBatchInv
  BY <1>1 DEF IInv, VerdictInv, Leaving
<1>3. CASE ConsumerSleeps(b.first + taken) /\ UNCHANGED <<encodedFrame, pc, verdict>>
  <2>1. PlaceTypes(Frames)' /\ PlacesInv' /\ \A f : InPool(f)' <=> InPool(f)
    <3>1. UNCHANGED <<jobs, results, holding, worker>>
      BY <1>3 DEF ConsumerSleeps
    <3>2. QED
      BY <1>1, <3>1, PlacesStable DEF IInv, TypeInv, PlaceTypes
  <2>2. TypeInv' /\ TasksInv' /\ UNCHANGED mainVars
    BY <1>1, <1>3, <2>1 DEF TypeInv, IInv, TasksInv, mainVars
  <2>3. writing \cap (running' \cup broken') = {}
    BY <1>1, <1>2, WrittenIsAnalysed
  <2>4. QED
    BY <2>1, <2>2, <2>3, MainStable
<1>4. CASE Throw /\ UNCHANGED <<poolVars, encodedFrame>>
  <2>1. PlaceTypes(Frames)' /\ PlacesInv' /\ \A f : InPool(f)' <=> InPool(f)
    BY <1>4, PoolSame DEF IInv, TypeInv
  <2>2. TypeInv' /\ TasksInv'
    BY <1>1, <1>4, <2>1 DEF TypeInv, IInv, TasksInv, Throw, PCs
  <2>3. QED
    BY <1>1, <1>4, <2>1, <2>2, ThrowInv
<1>5. CASE \E frame \in Ready(b.first + taken) :
             Take(frame) /\ encodedFrame' = {frame} /\ UNCHANGED <<pc, verdict>>
  <2>1. PICK frame \in Ready(b.first + taken) :
          Take(frame) /\ encodedFrame' = {frame} /\ UNCHANGED <<pc, verdict>>
    BY <1>5
  <2>2. frame \in Frames /\ Honest(frame) /\ frame.number = b.first + taken
    <3>1. frame \in results /\ frame.number = b.first + taken
      BY DEF Ready
    <3>2. InPool(frame)
      BY <3>1 DEF InPool
    <3>3. QED
      BY <1>1, <3>1, <3>2 DEF IInv, TypeInv, PlaceTypes, HonestInv
  <2>3. PlaceTypes(Frames)' /\ PlacesInv' /\ \A g : InPool(g)' <=> InPool(g) /\ g # frame
    BY <2>1, TakePlaces DEF IInv, TypeInv
  <2>4. TypeInv' /\ TasksInv'
    BY <1>1, <2>1, <2>2, <2>3 DEF TypeInv, IInv, TasksInv
  <2>5. HonestInv' /\ FramesInOrder' /\ VerdictInv'
    BY <1>1, <2>1, <2>3 DEF IInv, HonestInv, Honest, FramesInOrder, VerdictInv, LengthOf
  <2>6. Place' = Place /\ Launched' = Launched
    BY <1>1, <2>1 DEF Place, Launched, FullBatch
  <2>7. ReaderInv' /\ FramingInv'
    BY <1>1, <1>2, <2>1, <2>6, WritingFraming DEF PCs
  <2>8. BatchInv'
    BY <1>1, <1>2, <2>1, <2>6 DEF BatchInv
  <2>9. OwnBatchInv'
    BY <1>1, <1>2, <2>3 DEF OwnBatchInv
  <2>10. HandInv'
    BY <1>1, <2>1, <2>2, <2>3 DEF HandInv, Honest, LengthOf
  <2>11. QED
    BY <2>3, <2>4, <2>5, <2>7, <2>8, <2>9, <2>10 DEF IInv
<1>6. QED
  BY <1>3, <1>4, <1>5 DEF TakeFrame

\* The frame in hand: where it comes from, and that it is the next one.
LEMMA FrameInHand ==
  ASSUME IInv, WriteTakenFrame
  PROVE  /\ TypeInv /\ verdict = "none" /\ pc = "submit" /\ ThreadCount # 1
         /\ \E f \in Frames, b \in writing :
              /\ Honest(f) /\ ~InPool(f)
              /\ submitted = b.frames /\ taken < b.frames /\ f.number = b.first + taken
              /\ \/ file' = Append(file, f) /\ taken' = taken + 1 /\ UNCHANGED <<pc, verdict>>
                 \/ Throw /\ UNCHANGED <<file, taken>>
<1>1. pc = "submit" /\ TypeInv /\ verdict = "none"
  BY DEF WriteTakenFrame, IInv, VerdictInv, Leaving
<1>2. PICK f \in encodedFrame :
        \/ file' = Append(file, f) /\ taken' = taken + 1 /\ UNCHANGED <<pc, verdict>>
        \/ Throw /\ UNCHANGED <<file, taken>>
  BY DEF WriteTakenFrame
<1>3. HandInv /\ f \in Frames
  BY <1>1 DEF IInv, TypeInv
<1>4. QED
  BY <1>1, <1>2, <1>3 DEF HandInv

LEMMA WriteTakenFrameInv ==
  ASSUME IInv, WriteTakenFrame
  PROVE  IInv'
<1> USE DEF inputVars, batchVars, taskVars, writeVars, outputVars
<1>1. /\ TypeInv /\ verdict = "none" /\ pc = "submit" /\ encodedFrame' = {}
      /\ UNCHANGED <<poolVars, inputVars, batchVars, taskVars, writing, submitted, info, resume>>
  BY FrameInHand DEF WriteTakenFrame
<1>2. PICK f \in Frames, b \in writing :
        /\ Honest(f) /\ ~InPool(f)
        /\ submitted = b.frames /\ taken < b.frames /\ f.number = b.first + taken
        /\ \/ file' = Append(file, f) /\ taken' = taken + 1 /\ UNCHANGED <<pc, verdict>>
           \/ Throw /\ UNCHANGED <<file, taken>>
  BY FrameInHand
<1>3. PlaceTypes(Frames)' /\ PlacesInv' /\ \A g : InPool(g)' <=> InPool(g)
  BY <1>1, PoolSame DEF IInv, TypeInv
<1>4. CASE Throw /\ UNCHANGED <<file, taken>>
  <2>1. TypeInv' /\ TasksInv'
    BY <1>1, <1>3, <1>4 DEF TypeInv, IInv, TasksInv, Throw, PCs
  <2>2. QED
    BY <1>1, <1>3, <1>4, <2>1, ThrowInv
<1>5. CASE file' = Append(file, f) /\ taken' = taken + 1 /\ UNCHANGED <<pc, verdict>>
  BY <1>1, <1>2, <1>3, <1>5, AppendInv
<1>6. QED
  BY <1>2, <1>4, <1>5

LEMMA SubmitFrameInv ==
  ASSUME IInv, NEW b \in writing, SubmitFrame(b)
  PROVE  IInv'
<1> USE DEF inputVars, batchVars, taskVars, writeVars, outputVars
<1>1. /\ TypeInv /\ pc = "submit" /\ ThreadCount # 1 /\ submitted < b.frames
      /\ UNCHANGED <<inputVars, batchVars, taskVars, writing, taken, encodedFrame,
                     outputVars, resume>>
      /\ \/ /\ Submit(FrameOf(b, submitted))
            /\ submitted' = submitted + 1
            /\ pc' = "notify" /\ UNCHANGED verdict
         \/ Throw /\ UNCHANGED <<poolVars, submitted>>
  BY DEF IInv, SubmitFrame
<1>2. verdict = "none" /\ ReaderInv /\ FramingInv /\ BatchInv /\ OwnBatchInv
  BY <1>1 DEF IInv, VerdictInv, Leaving
<1>3. CASE Throw /\ UNCHANGED <<poolVars, submitted>>
  <2>1. PlaceTypes(Frames)' /\ PlacesInv' /\ \A f : InPool(f)' <=> InPool(f)
    BY <1>3, PoolSame DEF IInv, TypeInv
  <2>2. TypeInv' /\ TasksInv'
    BY <1>1, <1>3, <2>1 DEF TypeInv, IInv, TasksInv, Throw, PCs
  <2>3. QED
    BY <1>1, <1>3, <2>1, <2>2, ThrowInv
<1>4. CASE /\ Submit(FrameOf(b, submitted))
           /\ submitted' = submitted + 1
           /\ pc' = "notify" /\ UNCHANGED verdict
  <2> DEFINE f == FrameOf(b, submitted)
  <2>1. /\ b.first \in Nat /\ b.frames \in Nat /\ taken \in Nat /\ submitted \in Nat
        /\ \A v \in writing : v = b
        /\ taken = 0
    <3>1. /\ b.first \in Nat /\ b.frames \in Nat /\ taken \in Nat /\ submitted \in Nat
          /\ \A v \in writing : v = b
          /\ taken > 0 => submitted = b.frames
      BY <1>1, <1>2 DEF TypeInv, BatchInv, Batches
    <3>2. QED
      BY <1>1, <3>1
  <2>2. f \in Frames /\ Honest(f)
    BY <1>1, <1>2, <2>1, OwnFramesHonest
  <2>3. f.number = b.first + submitted
    BY DEF FrameOf
  <2>4. ~InPool(f)
    BY <1>2, <2>1, <2>3 DEF OwnBatchInv
  <2> HIDE DEF f
  <2>5. PlaceTypes(Frames)' /\ PlacesInv' /\ \A g : InPool(g)' <=> InPool(g) \/ g = f
    BY <1>4, <2>2, <2>4, SubmitPlaces DEF IInv, TypeInv, f
  <2>6. TypeInv' /\ TasksInv'
    BY <1>1, <1>4, <2>1, <2>5 DEF TypeInv, IInv, TasksInv, PCs
  <2>7. HonestInv' /\ FramesInOrder'
    BY <1>1, <2>2, <2>5 DEF IInv, HonestInv, Honest, FramesInOrder, LengthOf
  <2>8. Place' = Place /\ Launched' = Launched
    BY <1>1, <1>4 DEF Place, Launched, FullBatch
  <2>9. ReaderInv' /\ FramingInv'
    BY <1>1, <1>2, <1>4, <2>8, WritingFraming DEF PCs
  <2>10. BatchInv'
    <3>1. submitted' <= b.frames /\ taken' = 0
      BY <1>1, <1>4, <2>1
    <3>2. QED
      BY <1>1, <1>2, <1>4, <2>1, <2>8, <3>1 DEF BatchInv
  <2>11. OwnBatchInv'
    <3>1. ASSUME NEW g, InPool(g)'
          PROVE  g.number \in b.first + taken .. b.first + submitted' - 1
      <4>1. CASE g = f
        BY <1>4, <2>1, <2>3, <4>1
      <4>2. CASE g # f
        <5>1. g.number \in b.first + taken .. b.first + submitted - 1
          BY <1>2, <2>1, <2>5, <3>1, <4>2 DEF OwnBatchInv
        <5>2. QED
          BY <1>4, <2>1, <5>1
      <4>3. QED
        BY <4>1, <4>2
    <3>2. QED
      BY <1>1, <3>1 DEF OwnBatchInv
  <2>12. VerdictInv'
    BY <1>1, <1>2, <1>4 DEF IInv, VerdictInv, Leaving
  <2>13. HandInv'
    <3>1. encodedFrame = {}
      BY <1>1, <1>2, <2>1 DEF IInv, HandInv
    <3>2. QED
      BY <1>1, <3>1, EmptyHand
  <2>14. QED
    BY <2>13, <2>5, <2>6, <2>7, <2>9, <2>10, <2>11, <2>12 DEF IInv
<1>5. QED
  BY <1>1, <1>3, <1>4

LEMMA NotifyWorkerInv ==
  ASSUME IInv, NotifyWorker
  PROVE  IInv'
<1> USE DEF inputVars, batchVars, taskVars, writeVars, outputVars
<1>1. /\ TypeInv /\ pc = "notify" /\ pc' = "submit" /\ NotifyOneWorker
      /\ UNCHANGED <<inputVars, batchVars, taskVars, writeVars, outputVars, verdict, resume>>
  BY DEF IInv, NotifyWorker
<1>2. verdict = "none" /\ ReaderInv /\ FramingInv /\ BatchInv /\ OwnBatchInv
  BY <1>1 DEF IInv, VerdictInv, Leaving
<1>3. PlaceTypes(Frames)' /\ PlacesInv' /\ \A f : InPool(f)' <=> InPool(f)
  BY <1>1, NotifyPlaces DEF IInv, TypeInv
<1>4. TypeInv' /\ TasksInv'
  BY <1>1, <1>3 DEF TypeInv, IInv, TasksInv, PCs
<1>5. HonestInv' /\ FramesInOrder' /\ OwnBatchInv'
  BY <1>1, <1>2, <1>3 DEF IInv, HonestInv, Honest, FramesInOrder, OwnBatchInv, LengthOf
<1>6. Place' = Place /\ Launched' = Launched
  BY <1>1 DEF Place, Launched, FullBatch
<1>7. ReaderInv' /\ FramingInv'
  BY <1>1, <1>2, <1>6, WritingFraming DEF PCs
<1>8. BatchInv' /\ VerdictInv'
  BY <1>1, <1>2, <1>6 DEF IInv, BatchInv, VerdictInv, Leaving
<1>9. HandInv'
  BY <1>1, <1>2, NothingInHand, EmptyHand
<1>10. QED
  BY <1>3, <1>4, <1>5, <1>7, <1>8, <1>9 DEF IInv

LEMMA FinishWriteInv ==
  ASSUME IInv, NEW b \in writing, FinishWrite(b)
  PROVE  IInv'
<1> USE DEF inputVars, batchVars, taskVars, writeVars, outputVars
<1>1. /\ TypeInv /\ pc = "submit" /\ taken = b.frames /\ writing' = {} /\ pc' = resume
      /\ UNCHANGED <<poolVars, inputVars, batchVars, taskVars, submitted, taken,
                     encodedFrame, outputVars, verdict, resume>>
  BY DEF IInv, FinishWrite
<1>2. verdict = "none" /\ ReaderInv /\ FramingInv /\ BatchInv /\ OwnBatchInv
  BY <1>1 DEF IInv, VerdictInv, Leaving
<1>3. PlaceTypes(Frames)' /\ PlacesInv' /\ \A f : InPool(f)' <=> InPool(f)
  BY <1>1, PoolSame DEF IInv, TypeInv
<1>4. /\ b.first \in Nat /\ b.frames \in Nat /\ submitted \in Nat /\ submitted <= b.frames
      /\ \A v \in writing : v = b
      /\ Len(file) = b.first + b.frames
      /\ \A p \in pending : p.first = b.first + b.frames
      /\ pending = {} => Launched = b.first + b.frames
  BY <1>1, <1>2 DEF TypeInv, BatchInv, Batches
<1>5. \A f : ~InPool(f)
  <2>1. b.first + taken .. b.first + submitted - 1 = {}
    BY <1>1, <1>4
  <2>2. QED
    BY <1>2, <1>4, <2>1 DEF OwnBatchInv
<1>6. TypeInv' /\ TasksInv'
  BY <1>1, <1>3 DEF TypeInv, IInv, TasksInv, PCs
<1>7. HonestInv' /\ FramesInOrder' /\ OwnBatchInv'
  BY <1>1, <1>3, <1>5 DEF IInv, HonestInv, FramesInOrder, OwnBatchInv, LengthOf
<1>8. Place' = Place /\ Launched' = Launched /\ pc' \in {"feed", "pending", "tail"}
  BY <1>1 DEF Place, Launched, FullBatch, TypeInv
<1>9. ReaderInv' /\ FramingInv'
  BY <1>1, <1>2, <1>8, WritingFraming DEF PCs
<1>10. BatchInv'
  BY <1>1, <1>2, <1>4, <1>8 DEF BatchInv
<1>11. VerdictInv'
  BY <1>1, <1>2, <1>8 DEF IInv, VerdictInv, Leaving
<1>12. HandInv'
  <2>1. encodedFrame = {}
    BY <1>1, <1>2, <1>4 DEF IInv, HandInv
  <2>2. QED
    BY <1>1, <2>1, EmptyHand
<1>13. QED
  BY <1>3, <1>6, <1>7, <1>9, <1>10, <1>11, <1>12 DEF IInv
-----------------------------------------------------------------------------
(* The end of the file, and leaving. *)

\* At the end of the input everything but the tail frame is in the file.
LEMMA AtTail ==
  ASSUME IInv, pc = "tail"
  PROVE  /\ pending = {} /\ writing = {} /\ running = {} /\ Len(file) \in Nat
         /\ start = Len(file) * FrameSamples /\ start \in Nat
         /\ batch + carry \in Nat /\ batch + carry < FrameSamples
         /\ start + (batch + carry) = LengthOf(input)
         /\ frameNumber = Len(file)
         /\ stream = "eof"
<1>1. /\ TypeInv /\ ReaderInv /\ FramingInv /\ BatchInv /\ Place = "tail"
  BY DEF IInv, VerdictInv, Leaving, Place
<1>2. pending = {} /\ writing = {} /\ running = {} /\ Launched = Len(file) /\ stream = "eof"
  BY <1>1 DEF BatchInv, IInv, TasksInv, ReaderInv
<1>3. /\ start \in Nat /\ batch \in Nat /\ carry \in Nat /\ frameNumber \in Nat
      /\ Len(file) \in Nat /\ FrameSamples \in Nat \ {0}
  BY <1>1, Sizes DEF TypeInv
<1>4. start = Len(file) * FrameSamples /\ batch + carry < FrameSamples
      /\ start + batch + carry = Fed * GroupSamples
  BY <1>1, <1>2 DEF FramingInv
<1>5. Fed * GroupSamples = LengthOf(input)
  <2>1. unread = 0 /\ fed = chunk
    BY <1>1, <1>2 DEF ReaderInv
  <2>2. QED
    BY <1>1, <2>1, InputLength
<1>6. frameNumber = Len(file)
  <2>1. batch \in 0 .. FrameSamples - 1
    BY <1>3, <1>4
  <2>2. batch \div FrameSamples = 0
    BY <1>3, <2>1, SmallAndWhole
  <2>3. Launched = frameNumber - (batch \div FrameSamples)
    BY DEF Launched, FullBatch
  <2>4. QED
    BY <1>2, <1>3, <2>2, <2>3
<1>7. QED
  BY <1>2, <1>3, <1>4, <1>5, <1>6

\* The tail frame is the last one of the input.
LEMMA TailFrame ==
  ASSUME IInv, pc = "tail", batch + carry # 0
  PROVE  /\ [number |-> frameNumber, first |-> start, count |-> batch + carry]
              = FrameAt(Len(file), LengthOf(input))
         /\ FrameAt(Len(file), LengthOf(input)) \in Frames
         /\ LengthOf(input) <= (Len(file) + 1) * FrameSamples
         /\ ~Stream!Complete
<1> DEFINE t == batch + carry
           l == Len(file)
           len == LengthOf(input)
<1>1. /\ l \in Nat /\ start = l * FrameSamples /\ start \in Nat /\ t \in Nat /\ t < FrameSamples
      /\ start + t = len /\ frameNumber = l /\ FrameSamples \in Nat \ {0} /\ t # 0
  BY AtTail, Sizes
<1> HIDE DEF t, l, len
<1>2. len - l * FrameSamples = t /\ l * FrameSamples < len
  BY <1>1
<1>3. Min2(FrameSamples, len - l * FrameSamples) = t
  BY <1>1, <1>2 DEF Min2
<1>4. FrameAt(l, len) = [number |-> l, first |-> start, count |-> t]
  BY <1>1, <1>3 DEF FrameAt
<1>5. len <= (l + 1) * FrameSamples
  <2>1. (l + 1) * FrameSamples = l * FrameSamples + FrameSamples
    BY <1>1, Distributive
  <2>2. QED
    BY <1>1, <2>1
<1>6. ~Stream!Complete
  <2>1. l * FrameSamples \in Nat /\ len \in Nat
    BY <1>1
  <2>2. QED
    BY <1>2, <2>1 DEF Stream!Complete, l, len
<1>7. [number |-> l, first |-> start, count |-> t] \in Frames
  BY <1>1 DEF Frames
<1>8. QED
  BY <1>1, <1>4, <1>5, <1>6, <1>7 DEF t, l, len

LEMMA WriteTailInv ==
  ASSUME IInv, WriteTail
  PROVE  IInv'
<1> USE DEF inputVars, taskVars, writeVars
<1>1. /\ TypeInv /\ pc = "tail"
      /\ UNCHANGED <<poolVars, inputVars, start, batch, carry, inFrame, taskVars,
                     writeVars, info, resume>>
  BY DEF IInv, WriteTail
<1>2. verdict = "none" /\ ReaderInv /\ BatchInv /\ OwnBatchInv /\ Place = "tail"
  BY <1>1 DEF IInv, VerdictInv, Leaving, Place
<1>3. PlaceTypes(Frames)' /\ PlacesInv' /\ \A f : InPool(f)' <=> InPool(f)
  BY <1>1, PoolSame DEF IInv, TypeInv
<1>4. CASE Throw /\ UNCHANGED <<file, frameNumber>>
  <2>1. TypeInv' /\ TasksInv'
    BY <1>1, <1>3, <1>4 DEF TypeInv, IInv, TasksInv, Throw, PCs
  <2>2. QED
    BY <1>1, <1>3, <1>4, <2>1, ThrowInv
<1>5. ASSUME pc' = "rewrite", UNCHANGED verdict, file' \in Seq(Frames), frameNumber' \in Nat,
             FramesInOrder', Stream!Complete'
      PROVE  IInv'
  <2>1. TypeInv' /\ TasksInv'
    BY <1>1, <1>3, <1>5 DEF TypeInv, IInv, TasksInv, PCs
  <2>2. HonestInv' /\ OwnBatchInv'
    BY <1>1, <1>2, <1>3 DEF IInv, HonestInv, Honest, OwnBatchInv, LengthOf
  <2>3. VerdictInv'
    BY <1>1, <1>2, <1>5, AtTail DEF IInv, VerdictInv, Leaving
  <2>4. Base' = Base /\ Fed' = Fed /\ Place' = "rewrite"
    BY <1>1, <1>5 DEF Base, Fed, Place
  <2>5. ReaderInv'
    BY <1>1, <1>2, <1>5, <2>4 DEF ReaderInv
  <2>6. FramingInv' /\ BatchInv'
    BY <1>5 DEF FramingInv, BatchInv
  <2>7. HandInv'
    BY <1>1, <1>2, NothingInHand, EmptyHand
  <2>8. QED
    BY <1>3, <1>5, <2>1, <2>2, <2>3, <2>5, <2>6, <2>7 DEF IInv
<1>6. CASE batch + carry = 0 /\ pc' = "rewrite" /\ UNCHANGED <<file, frameNumber, verdict>>
  <2>1. LengthOf(input) = Len(file) * FrameSamples /\ LengthOf(input) \in Nat
    BY <1>1, <1>6, AtTail
  <2>2. Stream!Complete'
    BY <1>1, <1>6, <2>1 DEF Stream!Complete, LengthOf
  <2>3. FramesInOrder' /\ file' \in Seq(Frames) /\ frameNumber' \in Nat
    BY <1>1, <1>6 DEF IInv, FramesInOrder, TypeInv, LengthOf
  <2>4. QED
    BY <1>5, <1>6, <2>2, <2>3
<1>7. CASE /\ batch + carry # 0
           /\ file' = Append(file, [number |-> frameNumber, first |-> start,
                                    count |-> batch + carry])
           /\ frameNumber' = frameNumber + 1
           /\ pc' = "rewrite" /\ UNCHANGED verdict
  <2> DEFINE f == FrameAt(Len(file), LengthOf(input))
  <2>1. /\ file' = Append(file, f) /\ f \in Frames
        /\ LengthOf(input) <= (Len(file) + 1) * FrameSamples
    BY <1>1, <1>7, TailFrame
  <2>2. file \in Seq(Frames) /\ frameNumber' \in Nat /\ LengthOf(input)' = LengthOf(input)
    BY <1>1, <1>7 DEF TypeInv, LengthOf
  <2> HIDE DEF f
  <2>3. /\ file' \in Seq(Frames) /\ Len(file') = Len(file) + 1 /\ file'[Len(file) + 1] = f
        /\ \A i \in 1 .. Len(file) : file'[i] = file[i] /\ Len(file) \in Nat
    BY <2>1, <2>2
  <2>4. Len(file) \in Nat
    BY <2>2
  <2>5. FramesInOrder'
    <3>1. \A i \in 1 .. Len(file') : i \in 1 .. Len(file) \/ i = Len(file) + 1
      BY <2>3, <2>4
    <3>2. (Len(file) + 1) - 1 = Len(file)
      BY <2>4
    <3>3. QED
      BY <2>2, <2>3, <3>1, <3>2 DEF IInv, FramesInOrder, f
  <2>6. Stream!Complete'
    BY <2>1, <2>2, <2>3 DEF Stream!Complete
  <2>7. QED
    BY <1>5, <1>7, <2>2, <2>3, <2>5, <2>6
<1>8. QED
  BY <1>4, <1>6, <1>7 DEF WriteTail

LEMMA RewriteStreamInfoInv ==
  ASSUME IInv, RewriteStreamInfo
  PROVE  IInv' /\ (pc' = "close" => info' = StreamInfo(LengthOf(input), LengthOf(input)))
<1> USE DEF inputVars, batchVars, taskVars, writeVars
<1>1. /\ TypeInv /\ pc = "rewrite"
      /\ UNCHANGED <<poolVars, inputVars, batchVars, taskVars, writeVars, file, resume>>
  BY DEF IInv, RewriteStreamInfo
<1>2. verdict = "none" /\ ReaderInv /\ OwnBatchInv /\ Place = "rewrite"
  BY <1>1 DEF IInv, VerdictInv, Leaving, Place
<1>3. PlaceTypes(Frames)' /\ PlacesInv' /\ \A f : InPool(f)' <=> InPool(f)
  BY <1>1, PoolSame DEF IInv, TypeInv
<1>4. CASE Throw /\ UNCHANGED info
  <2>1. TypeInv' /\ TasksInv'
    BY <1>1, <1>3, <1>4 DEF TypeInv, IInv, TasksInv, Throw, PCs
  <2>2. QED
    BY <1>1, <1>3, <1>4, <2>1, ThrowInv DEF Throw
<1>5. CASE info' = StreamInfo(samples, hashed) /\ pc' = "close" /\ UNCHANGED verdict
  <2>1. samples = LengthOf(input) /\ hashed = LengthOf(input)
    <3>1. samples = Fed * GroupSamples /\ hashed = Fed * GroupSamples /\ unread = 0 /\ fed = chunk
      BY <1>1, <1>2 DEF ReaderInv
    <3>2. QED
      BY <1>1, <1>2, <3>1, InputLength
  <2>2. info' = StreamInfo(LengthOf(input), LengthOf(input))
    BY <1>5, <2>1
  <2>3. TypeInv' /\ TasksInv'
    BY <1>1, <1>3, <1>5 DEF TypeInv, IInv, TasksInv, PCs
  <2>4. HonestInv' /\ FramesInOrder' /\ OwnBatchInv'
    BY <1>1, <1>2, <1>3 DEF IInv, HonestInv, Honest, FramesInOrder, OwnBatchInv, LengthOf
  <2>5. VerdictInv'
    BY <1>1, <1>2, <1>5, <2>2 DEF IInv, VerdictInv, Leaving, Stream!Complete, LengthOf
  <2>6. Base' = Base /\ Fed' = Fed /\ Place' = "close"
    BY <1>1, <1>5 DEF Base, Fed, Place
  <2>7. ReaderInv'
    BY <1>1, <1>2, <1>5, <2>6 DEF ReaderInv
  <2>8. FramingInv' /\ BatchInv'
    BY <1>5 DEF FramingInv, BatchInv
  <2>9. HandInv'
    BY <1>1, <1>2, NothingInHand, EmptyHand
  <2>10. QED
    BY <1>3, <2>2, <2>3, <2>4, <2>5, <2>7, <2>8, <2>9 DEF IInv
<1>6. QED
  BY <1>4, <1>5 DEF RewriteStreamInfo

LEMMA LeavingInv ==
  ASSUME IInv, CloseOutput \/ StopWorkers \/ WakeWorkers \/ JoinWorkers \/ AwaitTask
  PROVE  IInv'
<1> USE DEF inputVars, batchVars, taskVars, writeVars, outputVars
<1>1. /\ TypeInv /\ pc \in {"close", "stop", "wake", "join", "await"}
      /\ UNCHANGED <<inputVars, batchVars, taskVars, writeVars, outputVars, resume>>
  BY DEF IInv, CloseOutput, StopWorkers, WakeWorkers, JoinWorkers, AwaitTask
<1>2. PlaceTypes(Frames)' /\ PlacesInv' /\ \A f : InPool(f)' <=> InPool(f)
  <2>1. CASE StopPool
    <3>1. UNCHANGED <<jobs, results, holding, worker>>
      BY <2>1 DEF StopPool
    <3>2. QED
      BY <1>1, <3>1, PlacesStable DEF IInv, TypeInv, PlaceTypes
  <2>2. CASE NotifyAllWorkers
    BY <2>2, NotifyPlaces DEF IInv, TypeInv
  <2>3. CASE UNCHANGED poolVars
    BY <2>3, PoolSame DEF IInv, TypeInv
  <2>4. QED
    BY <2>1, <2>2, <2>3 DEF CloseOutput, StopWorkers, WakeWorkers, JoinWorkers, AwaitTask
<1>3. pc' \in Leaving /\ verdict' \in {"ok", "error"}
  BY <1>1 DEF CloseOutput, StopWorkers, WakeWorkers, JoinWorkers, AwaitTask, Throw, Leaving,
              TypeInv, IInv, VerdictInv
<1>4. TypeInv' /\ TasksInv'
  BY <1>1, <1>2, <1>3 DEF TypeInv, IInv, TasksInv, PCs, Leaving
<1>5. HonestInv' /\ FramesInOrder' /\ VerdictInv'
  BY <1>1, <1>2, <1>3 DEF IInv, HonestInv, Honest, FramesInOrder, VerdictInv, Leaving, LengthOf
<1>6. QED
  BY <1>2, <1>3, <1>4, <1>5 DEF IInv

-----------------------------------------------------------------------------
(* The other threads. *)

LEMMA TaskStepInv ==
  ASSUME IInv, TaskStep
  PROVE  IInv'
<1>1. PICK b \in running :
        /\ running' = running \ {b} /\ broken' \in {broken, broken \cup {b}}
        /\ UNCHANGED poolVars /\ UNCHANGED mainVars
  BY DEF TaskStep, AnalysisEnds
<1>2. PlaceTypes(Frames)' /\ PlacesInv' /\ \A f : InPool(f)' <=> InPool(f)
  BY <1>1, PoolSame DEF IInv, TypeInv
<1>3. TypeInv' /\ TasksInv'
  BY <1>1, <1>2 DEF IInv, TypeInv, TasksInv, mainVars, inputVars, batchVars, writeVars, outputVars
<1>4. verdict = "none" => writing \cap (running' \cup broken') = {}
  BY <1>1, WrittenIsAnalysed
<1>5. QED
  BY <1>1, <1>2, <1>3, <1>4, MainStable

LEMMA PoolStepInv ==
  ASSUME IInv, PoolStep
  PROVE  IInv'
<1>1. /\ SpuriousWakeup \/ \E w \in Workers : WorkerStep(w)
      /\ UNCHANGED mainVars /\ UNCHANGED <<running, broken>>
  BY DEF PoolStep
<1>2. PlaceTypes(Frames)' /\ PlacesInv' /\ \A f : InPool(f)' => InPool(f)
  BY <1>1, WorkersOnlyMove DEF IInv, TypeInv
<1>3. TypeInv' /\ TasksInv'
  BY <1>1, <1>2 DEF IInv, TypeInv, TasksInv, mainVars, inputVars, batchVars, writeVars, outputVars
<1>4. verdict = "none" => writing \cap (running' \cup broken') = {}
  BY <1>1, WrittenIsAnalysed
<1>5. QED
  BY <1>1, <1>2, <1>3, <1>4, MainStable

-----------------------------------------------------------------------------
(* The theorems. *)

LEMMA StepPreserves == IInv /\ [Next]_vars => IInv'
<1> SUFFICES ASSUME IInv, [Next]_vars PROVE IInv'
  OBVIOUS
<1>1. CASE UNCHANGED vars
  <2>1. UNCHANGED poolVars /\ UNCHANGED mainVars /\ UNCHANGED <<running, broken>>
    BY <1>1 DEF vars
  <2>2. PlaceTypes(Frames)' /\ PlacesInv' /\ \A f : InPool(f)' <=> InPool(f)
    BY <2>1, PoolSame DEF IInv, TypeInv
  <2>3. TypeInv' /\ TasksInv'
    BY <2>1, <2>2 DEF IInv, TypeInv, TasksInv, mainVars, inputVars, batchVars, writeVars,
                      outputVars
  <2>4. verdict = "none" => writing \cap (running' \cup broken') = {}
    BY <2>1, WrittenIsAnalysed
  <2>5. QED
    BY <2>1, <2>2, <2>3, <2>4, MainStable
<1>2. CASE MainStep
  <2>1. WriteStep => IInv'
    BY WriteInlineInv, SubmitFrameInv, TakeFrameInv, FinishWriteInv, WriteTakenFrameInv
       DEF WriteStep
  <2>2. QED
    BY <1>2, <2>1, ReadChunkInv, FeedGroupInv, FinishChunkInv, FinishReadingInv,
       FlushEmptyBatchInv, FlushFirstBatchInv, FlushNextBatchInv, WritePendingBatchInv,
       AnalysisThrowsInv, NotifyWorkerInv, WriteTailInv, RewriteStreamInfoInv,
       LeavingInv DEF MainStep
<1>3. CASE TaskStep \/ PoolStep
  BY <1>3, TaskStepInv, PoolStepInv
<1>4. CASE Returned
  BY <1>1, <1>4 DEF Returned
<1>5. QED
  BY <1>1, <1>2, <1>3, <1>4 DEF Next

\* The inductive invariant holds in every reachable state, and with it the
\* types of all the encoder's and the pool's variables.
THEOREM Invariance == Spec => []IInv
  BY InitEstablishes, StepPreserves, PTL DEF Spec

\* The device session, its buffers and the counters are never used by two tasks:
\* a task is launched only after the previous one's result was taken.
THEOREM OneTask == Spec => []OneAnalysisAtATime
<1>1. IInv => OneAnalysisAtATime
  <2> SUFFICES ASSUME IInv PROVE OneAnalysisAtATime
    OBVIOUS
  <2>1. running = {} \/ \E b : running = {b}
    BY DEF IInv, TasksInv
  <2>2. Cardinality({}) = 0
    BY FS_EmptySet
  <2>3. \A b : Cardinality({b}) = 1
    BY FS_Singleton
  <2>4. Cardinality(running) \in {0, 1}
    BY <2>1, <2>2, <2>3
  <2>5. QED
    BY <2>4 DEF OneAnalysisAtATime
<1>2. QED
  BY Invariance, <1>1, PTL

\* The frames of the batch in the file, of the batch in flight and of the next one
\* follow each other without a gap or an overlap.
THEOREM NoGapBetweenBatches == Spec => []BatchesContiguous
<1>1. IInv => BatchesContiguous
  <2> SUFFICES ASSUME IInv, verdict = "none" PROVE BatchesContiguous
    BY DEF BatchesContiguous
  <2>1. CASE pc \in {"rewrite", "close"}
    BY <2>1 DEF IInv, VerdictInv, BatchesContiguous
  <2>2. CASE pc \notin {"rewrite", "close"}
    <3>1. TypeInv /\ BatchInv /\ FramingInv
      BY DEF IInv
    <3>2. \A b \in writing : Len(file) = b.first + taken
      BY <2>2, <3>1 DEF BatchInv
    <3>3. ASSUME NEW p \in pending
          PROVE  /\ p.from = p.first * FrameSamples
                 /\ p.from + p.frames * FrameSamples = start
      <4>1. /\ p.from = p.first * FrameSamples /\ Launched = p.first + p.frames
            /\ start = Launched * FrameSamples
        BY <2>2, <3>1 DEF BatchInv, FramingInv
      <4>2. p.first \in Nat /\ p.frames \in Nat /\ FrameSamples \in Nat
        BY <3>1, Sizes DEF TypeInv, Batches
      <4>3. QED
        BY <4>1, <4>2, Distributive
    <3>4. ASSUME NEW p \in pending
          PROVE  p.first = Len(file) +
                   (IF writing = {} THEN 0 ELSE (CHOOSE v \in writing : TRUE).frames - taken)
      <4>1. CASE writing = {}
        <5>1. p.first = Len(file) /\ Len(file) \in Nat
          BY <2>2, <3>1, <4>1 DEF TypeInv, BatchInv
        <5>2. QED
          BY <4>1, <5>1
      <4>2. CASE writing # {}
        <5> DEFINE v == CHOOSE v \in writing : TRUE
        <5>1. v \in writing
          BY <4>2
        <5> HIDE DEF v
        <5>2. Len(file) = v.first + taken /\ p.first = v.first + v.frames
          BY <2>2, <3>1, <5>1 DEF BatchInv
        <5>3. v.first \in Nat /\ v.frames \in Nat /\ taken \in Nat
          BY <3>1, <5>1 DEF TypeInv, Batches
        <5>4. p.first = Len(file) + (v.frames - taken)
          BY <5>2, <5>3
        <5>5. QED
          BY <4>2, <5>4 DEF v
      <4>3. QED
        BY <4>1, <4>2
    <3>5. QED
      BY <3>2, <3>3, <3>4 DEF BatchesContiguous
  <2>3. QED
    BY <2>1, <2>2
<1>2. QED
  BY Invariance, <1>1, PTL

\* The pool only ever holds frames of the analysed batch being written, and none
\* of one whose analysis failed.
THEOREM PoolWithinBatch == Spec => []PoolHoldsOneBatch
<1>1. IInv => PoolHoldsOneBatch
  <2> SUFFICES ASSUME IInv, verdict = "none" PROVE PoolHoldsOneBatch
    BY DEF PoolHoldsOneBatch
  <2>1. writing \cap broken = {}
    BY WrittenIsAnalysed
  <2>2. ASSUME NEW f \in {jobs[i] : i \in 1 .. Len(jobs)} \cup HeldFrames \cup results
        PROVE  \E b \in writing : f.number \in (b.first + taken) .. (b.first + b.frames - 1)
    <3>1. InPool(f)
      BY DEF InPool, JobPlaces, HeldFrames
    <3>2. PICK b \in writing : f.number \in b.first + taken .. b.first + submitted - 1
      BY <3>1 DEF IInv, OwnBatchInv
    <3>3. submitted <= b.frames
      BY DEF IInv, BatchInv, VerdictInv
    <3>4. /\ b.first \in Nat /\ b.frames \in Nat /\ taken \in Nat /\ submitted \in Nat
      BY DEF IInv, TypeInv, Batches
    <3>5. f.number \in (b.first + taken) .. (b.first + b.frames - 1)
      BY <3>2, <3>3, <3>4, SMTT(20)
    <3>6. QED
      BY <3>5
  <2>3. QED
    BY <2>1, <2>2 DEF PoolHoldsOneBatch
<1>2. QED
  BY Invariance, <1>1, PTL

\* What is left to wait for: the workers until they are joined, then the task.
JoinedInv ==
  /\ pc \in {"await", "done"} => AllJoined
  /\ pc = "done" => running = {}

\* When the call returns every worker has ended and no analysis is running, so
\* nothing uses the caller's objects after it.
THEOREM NothingOutlivesCall == Spec => []NoThreadOutlivesCall
<1>1. Init => JoinedInv
  BY DEF Init, JoinedInv
<1>2. IInv /\ JoinedInv /\ [Next]_vars => JoinedInv'
  <2> SUFFICES ASSUME IInv, JoinedInv, [Next]_vars PROVE JoinedInv'
    OBVIOUS
  <2>1. CASE UNCHANGED vars \/ Returned
    BY <2>1 DEF Returned, JoinedInv, AllJoined, vars, poolVars, mainVars
  <2>2. CASE PoolStep
    <3>1. pc' = pc /\ running' = running
      BY <2>2 DEF PoolStep, mainVars
    <3>2. ASSUME AllJoined PROVE worker' = worker
      <4>1. ASSUME NEW w \in Workers PROVE ~WorkerStep(w)
        BY <3>2, <4>1 DEF AllJoined, WorkerStep, WorkerSleeps, WorkerPops, WorkerExits,
           WorkerEncodes, WorkerNotifiesResult, WorkerFails, WorkerWakesPool,
           WorkerSignalsFailure
      <4>2. In({"asleep"}) = {}
        BY <3>2 DEF AllJoined, In
      <4>3. QED
        BY <2>2, <4>1, <4>2 DEF PoolStep, SpuriousWakeup
    <3>3. QED
      BY <3>1, <3>2 DEF JoinedInv, AllJoined
  <2>3. CASE TaskStep
    BY <2>3 DEF TaskStep, AnalysisEnds, JoinedInv, AllJoined, poolVars, mainVars
  <2>4. CASE JoinWorkers
    BY <2>4 DEF JoinWorkers, JoinedInv, AllJoined, poolVars
  <2>5. CASE AwaitTask
    BY <2>5 DEF AwaitTask, JoinedInv, AllJoined, poolVars, taskVars, IInv, TasksInv
  <2>6. CASE MainStep /\ ~JoinWorkers /\ ~AwaitTask
    <3>1. pc' \notin {"await", "done"}
      BY <2>6 DEF MainStep, ReadChunk, FeedGroup, FinishChunk, FinishReading, FlushEmptyBatch,
         FlushFirstBatch, FlushNextBatch, WritePendingBatch, AnalysisThrows, WriteStep,
         WriteInline, SubmitFrame, TakeFrame, WriteTakenFrame, FinishWrite, NotifyWorker,
         WriteTail, RewriteStreamInfo, CloseOutput, StopWorkers, WakeWorkers, Throw, IInv, TypeInv
    <3>2. QED
      BY <3>1 DEF JoinedInv
  <2>7. QED
    BY <2>1, <2>2, <2>3, <2>4, <2>5, <2>6 DEF Next, MainStep
<1>3. JoinedInv => NoThreadOutlivesCall
  BY DEF JoinedInv, NoThreadOutlivesCall
<1>4. QED
  BY <1>1, <1>2, <1>3, Invariance, PTL DEF Spec
-----------------------------------------------------------------------------
(* The encoder implements FlacStream. *)

\* Writing the next frame is AppendFrame: a frame that is not empty starts
\* before the end of the input, so the file was not complete.
LEMMA WriteIsAppend ==
  ASSUME Len(file) \in Nat, LengthOf(input) \in Nat, NEW f, Honest(f), f.number = Len(file),
         info = Placeholder, verdict = "none",
         file' = Append(file, f), UNCHANGED <<input, info, verdict>>
  PROVE  Stream!AppendFrame
<1>1. f = FrameAt(Len(file), LengthOf(input)) /\ f.count > 0
  BY DEF Honest
<1>2. f.count = Min2(FrameSamples, LengthOf(input) - Len(file) * FrameSamples)
  BY <1>1 DEF FrameAt
<1>3. Len(file) * FrameSamples \in Nat /\ FrameSamples \in Nat
  BY Sizes
<1>4. Len(file) * FrameSamples < LengthOf(input)
  BY <1>1, <1>2, <1>3 DEF Min2
<1>5. ~Stream!Complete
  BY <1>3, <1>4 DEF Stream!Complete
<1>6. LengthOf(input)' = LengthOf(input)
  BY DEF LengthOf
<1>7. Stream!FrameAt(Len(file), LengthOf(input)) = FrameAt(Len(file), LengthOf(input))
      /\ Stream!Placeholder = Placeholder
  BY DEF Stream!FrameAt, FrameAt, Stream!Min2, Min2, Stream!Placeholder, Placeholder
<1>8. QED
  BY <1>1, <1>5, <1>6, <1>7 DEF Stream!AppendFrame

\* Throwing with the output untouched is Fail.
LEMMA ThrowIsFail ==
  ASSUME verdict = "none", Throw, UNCHANGED <<input, file, info>>
  PROVE  [Stream!StreamNext]_(Stream!streamVars)
  BY DEF Throw, Stream!Fail, Stream!StreamNext, LengthOf

LEMMA StutterIsStep ==
  ASSUME UNCHANGED <<input, file, info, verdict>>
  PROVE  [Stream!StreamNext]_(Stream!streamVars)
  BY DEF Stream!streamVars, LengthOf

LEMMA WriteStepRefines ==
  ASSUME IInv, NEW b \in writing,
         WriteInline(b) \/ SubmitFrame(b) \/ TakeFrame(b) \/ FinishWrite(b)
  PROVE  [Stream!StreamNext]_(Stream!streamVars)
<1> USE DEF inputVars, writeVars, outputVars
<1>1. /\ pc = "submit" /\ UNCHANGED <<input, info>>
  BY DEF WriteInline, SubmitFrame, TakeFrame, FinishWrite
<1>2. /\ TypeInv /\ verdict = "none" /\ info = Placeholder
      /\ ReaderInv /\ FramingInv /\ BatchInv
  BY <1>1 DEF IInv, VerdictInv, Leaving
<1>3. Len(file) \in Nat /\ LengthOf(input) \in Nat /\ Len(file) = b.first + taken /\ taken \in Nat
  BY <1>1, <1>2, InputLength DEF TypeInv, BatchInv
<1>4. CASE Throw /\ UNCHANGED file
  BY <1>1, <1>2, <1>4, ThrowIsFail
<1>5. CASE UNCHANGED <<file, verdict>>
  BY <1>1, <1>5, StutterIsStep
<1>6. CASE WriteInline(b) /\ file' = Append(file, FrameOf(b, taken)) /\ UNCHANGED verdict
  <2>1. taken < b.frames /\ FrameOf(b, taken).number = b.first + taken
    BY <1>6 DEF WriteInline, FrameOf
  <2>2. Honest(FrameOf(b, taken))
    BY <1>1, <1>2, <1>3, <2>1, OwnFramesHonest
  <2>3. Stream!AppendFrame
    BY <1>1, <1>2, <1>3, <1>6, <2>1, <2>2, WriteIsAppend
  <2>4. QED
    BY <2>3 DEF Stream!StreamNext
<1>7. QED
  BY <1>4, <1>5, <1>6 DEF WriteInline, SubmitFrame, TakeFrame, FinishWrite

LEMMA WriteTakenRefines ==
  ASSUME IInv, WriteTakenFrame
  PROVE  [Stream!StreamNext]_(Stream!streamVars)
<1>1. UNCHANGED <<input, info>>
  BY DEF WriteTakenFrame, inputVars
<1>2. /\ TypeInv /\ verdict = "none" /\ pc = "submit" /\ info = Placeholder
      /\ ReaderInv /\ BatchInv
  BY FrameInHand DEF IInv, VerdictInv
<1>3. PICK f \in Frames, b \in writing :
        /\ Honest(f) /\ f.number = b.first + taken
        /\ \/ file' = Append(file, f) /\ UNCHANGED verdict
           \/ Throw /\ UNCHANGED file
  BY FrameInHand
<1>4. Len(file) \in Nat /\ LengthOf(input) \in Nat /\ Len(file) = b.first + taken
  BY <1>2, InputLength DEF TypeInv, BatchInv
<1>5. CASE Throw /\ UNCHANGED file
  BY <1>1, <1>2, <1>5, ThrowIsFail
<1>6. CASE file' = Append(file, f) /\ UNCHANGED verdict
  <2>1. Stream!AppendFrame
    BY <1>1, <1>2, <1>3, <1>4, <1>6, WriteIsAppend
  <2>2. QED
    BY <2>1 DEF Stream!StreamNext
<1>7. QED
  BY <1>3, <1>5, <1>6

LEMMA WriteTailRefines ==
  ASSUME IInv, WriteTail
  PROVE  [Stream!StreamNext]_(Stream!streamVars)
<1>1. pc = "tail" /\ UNCHANGED <<input, info>>
  BY DEF WriteTail, inputVars
<1>2. verdict = "none" /\ info = Placeholder
  BY <1>1 DEF IInv, VerdictInv, Leaving
<1>3. CASE UNCHANGED <<file, verdict>>
  BY <1>1, <1>3, StutterIsStep
<1>4. CASE Throw /\ UNCHANGED file
  BY <1>1, <1>2, <1>4, ThrowIsFail
<1>5. CASE /\ batch + carry # 0
           /\ file' = Append(file, [number |-> frameNumber, first |-> start,
                                    count |-> batch + carry])
           /\ UNCHANGED verdict
  <2>1. file' = Append(file, FrameAt(Len(file), LengthOf(input))) /\ ~Stream!Complete
    BY <1>1, <1>5, TailFrame
  <2>2. LengthOf(input)' = LengthOf(input)
    BY <1>1 DEF LengthOf
  <2>3. Stream!FrameAt(Len(file), LengthOf(input)) = FrameAt(Len(file), LengthOf(input))
        /\ Stream!Placeholder = Placeholder
    BY DEF Stream!FrameAt, FrameAt, Stream!Min2, Min2, Stream!Placeholder, Placeholder
  <2>4. Stream!AppendFrame
    BY <1>1, <1>2, <1>5, <2>1, <2>2, <2>3 DEF Stream!AppendFrame
  <2>5. QED
    BY <2>4 DEF Stream!StreamNext
<1>6. QED
  BY <1>3, <1>4, <1>5 DEF WriteTail

LEMMA RewriteRefines ==
  ASSUME IInv, RewriteStreamInfo
  PROVE  [Stream!StreamNext]_(Stream!streamVars)
<1>1. pc = "rewrite" /\ UNCHANGED <<input, file>>
  BY DEF RewriteStreamInfo, inputVars
<1>2. verdict = "none" /\ Stream!Complete
  BY <1>1 DEF IInv, VerdictInv, Leaving
<1>3. CASE Throw /\ UNCHANGED info
  BY <1>1, <1>2, <1>3, ThrowIsFail
<1>4. CASE pc' = "close" /\ UNCHANGED verdict
  <2>1. info' = StreamInfo(LengthOf(input), LengthOf(input))
    BY <1>4, RewriteStreamInfoInv
  <2>2. Stream!StreamInfo(LengthOf(input), LengthOf(input))
          = StreamInfo(LengthOf(input), LengthOf(input))
    BY DEF Stream!StreamInfo, StreamInfo, Stream!KnownTotal, KnownTotal
  <2>3. QED
    BY <1>1, <1>2, <1>4, <2>1, <2>2 DEF Stream!RewriteInfo, Stream!StreamNext, LengthOf
<1>5. QED
  BY <1>3, <1>4 DEF RewriteStreamInfo

LEMMA CloseRefines ==
  ASSUME IInv, CloseOutput
  PROVE  [Stream!StreamNext]_(Stream!streamVars)
<1>1. pc = "close" /\ UNCHANGED <<input, file, info>>
  BY DEF CloseOutput, inputVars, outputVars
<1>2. /\ verdict = "none" /\ Stream!Complete
      /\ info = StreamInfo(LengthOf(input), LengthOf(input))
  BY <1>1 DEF IInv, VerdictInv, Leaving
<1>3. CASE Throw
  BY <1>1, <1>2, <1>3, ThrowIsFail
<1>4. CASE verdict' = "ok"
  <2>1. info = Stream!StreamInfo(LengthOf(input), LengthOf(input))
    BY <1>2 DEF Stream!StreamInfo, StreamInfo, Stream!KnownTotal, KnownTotal
  <2>2. QED
    BY <1>1, <1>2, <1>4, <2>1 DEF Stream!Succeed, Stream!StreamNext, LengthOf
<1>5. QED
  BY <1>3, <1>4 DEF CloseOutput

LEMMA StepRefines ==
  ASSUME IInv, [Next]_vars
  PROVE  [Stream!StreamNext]_(Stream!streamVars)
<1> USE DEF inputVars, batchVars, taskVars, writeVars, outputVars
<1>1. CASE UNCHANGED vars \/ PoolStep \/ TaskStep \/ Returned
  <2>1. UNCHANGED <<input, file, info, verdict>>
    BY <1>1 DEF vars, mainVars, PoolStep, TaskStep, AnalysisEnds, Returned
  <2>2. QED
    BY <2>1, StutterIsStep
<1>2. CASE ReadChunk \/ FeedGroup \/ FinishChunk \/ FinishReading \/ FlushEmptyBatch
           \/ FlushFirstBatch \/ FlushNextBatch \/ WritePendingBatch \/ AnalysisThrows
           \/ NotifyWorker \/ StopWorkers \/ WakeWorkers \/ JoinWorkers \/ AwaitTask
  <2>1. UNCHANGED <<input, file, info>>
    BY <1>2 DEF ReadChunk, FeedGroup, FinishChunk, FinishReading, FlushEmptyBatch,
       FlushFirstBatch, FlushNextBatch, WritePendingBatch, AnalysisThrows, NotifyWorker,
       StopWorkers, WakeWorkers, JoinWorkers, AwaitTask
  <2>2. \/ UNCHANGED verdict
        \/ Throw /\ pc \in {"read", "feed", "flush", "pending"}
    BY <1>2 DEF ReadChunk, FeedGroup, FinishChunk, FinishReading, FlushEmptyBatch,
       FlushFirstBatch, FlushNextBatch, WritePendingBatch, AnalysisThrows, NotifyWorker,
       StopWorkers, WakeWorkers, JoinWorkers, AwaitTask
  <2>3. pc \in {"read", "feed", "flush", "pending"} => verdict = "none"
    BY DEF IInv, VerdictInv, Leaving
  <2>4. QED
    BY <2>1, <2>2, <2>3, StutterIsStep, ThrowIsFail
<1>3. QED
  BY <1>1, <1>2, WriteStepRefines, WriteTakenRefines, WriteTailRefines, RewriteRefines,
     CloseRefines DEF Next, MainStep, WriteStep

\* The pipelined encoder implements FlacStream: seen from outside, the file grows
\* by whole frames in input order although batches are analysed while others are
\* written, and success is reported only for the whole input.
THEOREM PipelineImplementsStream == Spec => ImplementsStream
<1>1. Init => Stream!StreamInit
  <2>1. Init => LengthOf(input) \in Nat
    BY InitEstablishes, InputLength DEF IInv, Init
  <2>2. QED
    BY <2>1 DEF Init, Stream!StreamInit, Placeholder, Stream!Placeholder
<1>2. IInv /\ [Next]_vars => [Stream!StreamNext]_(Stream!streamVars)
  BY StepRefines
<1>3. QED
  BY <1>1, <1>2, Invariance, PTL DEF Spec, ImplementsStream, Stream!StreamSpec
=============================================================================
