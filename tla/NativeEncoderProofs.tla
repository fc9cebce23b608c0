------------------------- MODULE NativeEncoderProofs -------------------------
(***************************************************************************)
(* Proofs about NativeEncoder for every number of threads, every frame and *)
(* chunk size and every input: the frames reach the file in order, and the *)
(* threaded encoder implements FlacStream.  The second half is about the   *)
(* pool: a submitted frame is in exactly one place until it is taken, the  *)
(* backlog is bounded, no worker is left asleep in front of a job, and     *)
(* after a failure at most the frame already taken is written.             *)
(***************************************************************************)
EXTENDS NativeEncoder, FramePoolProofs, FiniteSetTheorems

-----------------------------------------------------------------------------
(* The inductive invariant.  None of the properties is inductive alone:    *)
(* that the frame taken is the right one rests on what the queue, the      *)
(* workers and the results hold (PoolHonest), and that rests on where the  *)
(* reader is in the input (ReaderInv, FramingInv).                         *)

InLoop == {"feed", "submit", "notify"}
PastTail == {"notifyTail", "drain", "rewrite", "close"}
Leaving == {"stop", "wake", "join", "done"}

\* A frame as the input determines it, and not an empty one.
Honest(f) == f = FrameAt(f.number, LengthOf(input)) /\ f.count > 0

PoolHonest ==
  /\ \A i \in 1 .. Len(jobs) : Honest(jobs[i])
  /\ \A w \in Workers : \A f \in holding[w] : Honest(f)
  /\ \A f \in results : Honest(f)

ReaderInv ==
  /\ hashed + (unread + (chunk - fed)) * GroupSamples = LengthOf(input)
  /\ fed <= chunk
  /\ stream = "eof" => unread = 0
  /\ pc \in InLoop => samples + fed * GroupSamples = hashed
  /\ pc \notin InLoop => samples = hashed /\ fed = chunk
  /\ pc \in PastTail \cup {"submitTail"} => stream = "eof"

FramingInv ==
  /\ cut + buffered = hashed
  /\ pc \notin PastTail => cut = frameNumber * FrameSamples
  /\ pc \in {"submit"} => FrameSamples <= buffered /\ buffered < 2 * FrameSamples
  /\ pc \in {"read", "feed", "notify", "submitTail"} => buffered < FrameSamples
  /\ pc = "submitTail" => buffered > 0
  /\ pc \in PastTail => buffered = 0 /\ cut <= frameNumber * FrameSamples

\* Number of the next frame to leave the pool: the one in hand has left it.
NextToTake == IF encodedFrame = {} THEN nextToWrite ELSE nextToWrite + 1

CountInv ==
  /\ NextToTake <= frameNumber
  /\ ThreadCount = 1 => nextToWrite = frameNumber
  /\ ThreadCount # 1 => inFlight = frameNumber - NextToTake

\* Between take and write the main thread stays in flush_next_threaded_frame.
HandInv ==
  encodedFrame # {} =>
    /\ ThreadCount # 1 /\ pc \in {"submit", "submitTail", "drain"}
    /\ \E f \in Frames : encodedFrame = {f} /\ Honest(f) /\ f.number = nextToWrite

OutputInv ==
  /\ nextToWrite = Len(file)
  /\ FramesInOrder

VerdictInv ==
  /\ verdict = "none" <=> pc \notin Leaving
  /\ pc = "close" => info = StreamInfo(LengthOf(input), LengthOf(input))
  /\ pc = "close" => nextToWrite = frameNumber
  /\ pc = "rewrite" => nextToWrite = frameNumber
  /\ verdict = "none" /\ pc # "close" => info = Placeholder

IInv ==
  /\ TypeOK
  /\ PoolHonest
  /\ OutputInv
  /\ VerdictInv
  /\ HandInv
  /\ verdict = "none" => ReaderInv /\ FramingInv /\ CountInv

-----------------------------------------------------------------------------
(* Facts about numbers, frames and the input. *)

\* Products of naturals, and one more or one fewer factor.
LEMMA Products ==
  ASSUME NEW x \in Int, NEW y \in Nat
  PROVE  /\ x \in Nat => x * y \in Nat
         /\ (x + 1) * y = x * y + y
         /\ (x - 1) * y = x * y - y
         /\ 0 * y = 0
  OBVIOUS

\* The length of an input is a natural number.
LEMMA LengthType ==
  ASSUME TypeOK
  PROVE  LengthOf(input) \in Nat /\ LengthOf(input) = input.groups * GroupSamples
  BY FramesAssumption DEF TypeOK, Inputs, LengthOf

\* What a read may deliver: no more than is left, and all of it at the end.
LEMMA ReadsType ==
  ASSUME NEW left \in Nat, NEW ragged \in BOOLEAN, NEW r \in Reads(left, ragged)
  PROVE  /\ r.groups \in 0 .. left
         /\ r.partial \in BOOLEAN
         /\ r.stream \in {"good", "eof", "bad"}
         /\ r.stream = "eof" => r.groups = left
<1>1. CASE r \in [groups : 0 .. Min2(left, ChunkGroups - 1), partial : BOOLEAN,
                  stream : {"bad"}]
  <2>1. r.groups \in 0 .. Min2(left, ChunkGroups - 1) /\ r.partial \in BOOLEAN
        /\ r.stream = "bad"
    BY <1>1
  <2>2. QED
    BY <2>1, FramesAssumption DEF Min2
<1>2. CASE /\ left >= ChunkGroups
           /\ r = [groups |-> ChunkGroups, partial |-> FALSE, stream |-> "good"]
  BY <1>2, FramesAssumption
<1>3. CASE /\ ~(left >= ChunkGroups)
           /\ r = [groups |-> left, partial |-> ragged, stream |-> "eof"]
  BY <1>3
<1>4. QED
  BY <1>1, <1>2, <1>3 DEF Reads

\* Frames have their type.
LEMMA FrameType ==
  ASSUME NEW f \in Frames
  PROVE  f.number \in Nat /\ f.first \in Nat /\ f.count \in Nat
  BY DEF Frames

-----------------------------------------------------------------------------
(* The initial state. *)

LEMMA InitEstablishes == Init => IInv
<1> SUFFICES ASSUME Init PROVE IInv
  OBVIOUS
<1> USE DEF Init, PoolInit
<1>1. TypeOK
  <2>1. input \in Inputs(MaxGroups) /\ unread \in Nat
    BY EncoderAssumption DEF Inputs
  <2>2. info \in [total : Nat, md5 : Nat]
    BY DEF Placeholder
  <2>3. /\ jobs \in Seq(Frames) /\ results \in SUBSET Frames /\ file \in Seq(Frames)
        /\ worker \in [Workers -> WorkerStates]
        /\ holding \in [Workers -> SUBSET Frames]
    BY DEF WorkerStates
  <2>4. QED
    BY <2>1, <2>2, <2>3 DEF TypeOK, PCs
<1>2. PoolHonest
  BY DEF PoolHonest
<1>3. OutputInv /\ VerdictInv
  BY DEF OutputInv, VerdictInv, FramesInOrder, Leaving
<1>4. ReaderInv
  <2>1. hashed + (unread + (chunk - fed)) * GroupSamples = LengthOf(input)
    BY <1>1, FramesAssumption DEF LengthOf, Inputs, TypeOK
  <2>2. fed * GroupSamples = 0
    BY FramesAssumption
  <2>3. QED
    BY <2>1, <2>2 DEF ReaderInv, InLoop, PastTail
<1>5. FramingInv
  BY FramesAssumption, Products DEF FramingInv, PastTail
<1>6. CountInv /\ HandInv
  BY DEF CountInv, HandInv, NextToTake
<1>7. QED
  BY <1>1, <1>2, <1>3, <1>4, <1>5, <1>6 DEF IInv

-----------------------------------------------------------------------------
(* Steps that do not touch the main thread's state. *)

\* What IInv says of the main thread depends on nothing else.
LEMMA MainInvStable ==
  ASSUME IInv, UNCHANGED mainVars, TypeOK', PoolHonest'
  PROVE  IInv'
<1> USE DEF mainVars, inputVars, frameVars, outputVars, flushVars
<1>1. OutputInv' /\ VerdictInv' /\ HandInv'
  BY DEF IInv, OutputInv, VerdictInv, FramesInOrder, LengthOf, HandInv, Honest
<1>2. verdict' = "none" => ReaderInv' /\ FramingInv' /\ CountInv'
  BY DEF IInv, ReaderInv, FramingInv, CountInv, NextToTake, LengthOf
<1>3. QED
  BY <1>1, <1>2 DEF IInv

\* Moving the main thread's part of TypeOK to the next state.
LEMMA PoolTypes ==
  ASSUME TypeOK, UNCHANGED mainVars,
         jobs' \in Seq(Frames), results' \in SUBSET Frames,
         exception' \in BOOLEAN, stopping' \in BOOLEAN,
         worker' \in [Workers -> WorkerStates],
         holding' \in [Workers -> SUBSET Frames],
         consumer' \in {"awake", "asleep"}
  PROVE  TypeOK'
  BY DEF TypeOK, mainVars, inputVars, frameVars, outputVars, flushVars

LEMMA WorkerStepInv ==
  ASSUME IInv, UNCHANGED mainVars, NEW w \in Workers, WorkerStep(w)
  PROVE  IInv'
<1> USE DEF Goto
<1>0. TypeOK /\ PoolHonest /\ input' = input
  BY DEF IInv, mainVars, flushVars, inputVars
<1> DEFINE Typed == /\ jobs' \in Seq(Frames) /\ results' \in SUBSET Frames
                    /\ exception' \in BOOLEAN /\ stopping' \in BOOLEAN
                    /\ worker' \in [Workers -> WorkerStates]
                    /\ holding' \in [Workers -> SUBSET Frames]
                    /\ consumer' \in {"awake", "asleep"}
<1>1. SUFFICES Typed /\ PoolHonest'
  BY <1>0, PoolTypes, MainInvStable
<1>2. CASE WorkerSleeps(w)
  BY <1>0, <1>2 DEF WorkerSleeps, TypeOK, WorkerStates, PoolHonest, Honest
<1>3. CASE WorkerPops(w)
  <2>1. jobs # <<>> /\ Head(jobs) = jobs[1] /\ 1 \in 1 .. Len(jobs)
    BY <1>0, <1>3 DEF WorkerPops, TypeOK
  <2>2. Typed
    <3>1. Tail(jobs) \in Seq(Frames) /\ jobs[1] \in Frames
      BY <1>0, <2>1 DEF TypeOK
    <3>2. holding' \in [Workers -> SUBSET Frames]
      BY <1>0, <1>3, <2>1, <3>1 DEF WorkerPops, TypeOK
    <3>3. worker' \in [Workers -> WorkerStates]
      BY <1>0, <1>3 DEF WorkerPops, TypeOK, WorkerStates
    <3>4. QED
      BY <1>0, <1>3, <3>1, <3>2, <3>3 DEF WorkerPops, TypeOK
  <2>3. \A i \in 1 .. Len(Tail(jobs)) :
           i + 1 \in 1 .. Len(jobs) /\ Tail(jobs)[i] = jobs[i + 1]
    BY <1>0, <2>1 DEF TypeOK
  <2>4. (\A i \in 1 .. Len(jobs) : Honest(jobs[i]))'
    BY <1>0, <1>3, <2>3 DEF WorkerPops, PoolHonest, Honest
  <2>5. (\A v \in Workers : \A f \in holding[v] : Honest(f))'
    BY <1>0, <1>3, <2>1 DEF WorkerPops, PoolHonest, Honest, TypeOK
  <2>6. (\A f \in results : Honest(f))'
    BY <1>0, <1>3 DEF WorkerPops, PoolHonest, Honest
  <2>7. PoolHonest'
    BY <2>4, <2>5, <2>6 DEF PoolHonest
  <2>8. QED
    BY <2>2, <2>7
<1>4. CASE WorkerExits(w)
  BY <1>0, <1>4 DEF WorkerExits, TypeOK, WorkerStates, PoolHonest, Honest
<1>5. CASE WorkerEncodes(w)
  BY <1>0, <1>5 DEF WorkerEncodes, TypeOK, WorkerStates, PoolHonest, Honest
<1>6. CASE WorkerNotifiesResult(w)
  BY <1>0, <1>6 DEF WorkerNotifiesResult, TypeOK, WorkerStates, PoolHonest, Honest
<1>7. CASE WorkerFails(w)
  BY <1>0, <1>7 DEF WorkerFails, TypeOK, WorkerStates, PoolHonest, Honest
<1>8. CASE WorkerWakesPool(w)
  BY <1>0, <1>8 DEF WorkerWakesPool, WakeAllWorkers, TypeOK, WorkerStates,
                    PoolHonest, Honest
<1>9. CASE WorkerSignalsFailure(w)
  BY <1>0, <1>9 DEF WorkerSignalsFailure, TypeOK, WorkerStates, PoolHonest, Honest
<1>10. QED
  BY <1>2, <1>3, <1>4, <1>5, <1>6, <1>7, <1>8, <1>9 DEF WorkerStep

LEMMA PoolStepInv ==
  ASSUME IInv, PoolStep
  PROVE  IInv'
<1>1. CASE SpuriousWakeup
  <2>1. TypeOK /\ PoolHonest /\ UNCHANGED mainVars
    BY DEF IInv, PoolStep
  <2>2. UNCHANGED <<jobs, results, exception, stopping, holding>>
    BY <1>1 DEF SpuriousWakeup
  <2>3. /\ worker' \in [Workers -> WorkerStates]
        /\ consumer' \in {"awake", "asleep"}
    BY <1>1, <2>1 DEF SpuriousWakeup, Goto, In, TypeOK, WorkerStates
  <2>4. TypeOK'
    BY <2>1, <2>2, <2>3, PoolTypes DEF TypeOK
  <2>5. PoolHonest'
    BY <2>1, <2>2 DEF PoolHonest, Honest, mainVars, flushVars, inputVars
  <2>6. QED
    BY <2>1, <2>4, <2>5, MainInvStable
<1>2. CASE \E w \in Workers : WorkerStep(w)
  BY <1>2, WorkerStepInv DEF PoolStep
<1>3. QED
  BY <1>1, <1>2 DEF PoolStep

-----------------------------------------------------------------------------
(* Steps of the main thread. *)

\* Away from take and write nothing is in hand.
LEMMA NothingInHand ==
  ASSUME IInv, \/ pc \notin {"submit", "submitTail", "drain"}
               \/ ThreadCount = 1
               \/ verdict = "none" /\ pc = "drain" /\ nextToWrite = frameNumber
  PROVE  encodedFrame = {}
<1>1. CASE verdict = "none" /\ pc = "drain" /\ nextToWrite = frameNumber
  BY <1>1 DEF IInv, CountInv, NextToTake, TypeOK
<1>2. QED
  BY <1>1 DEF IInv, HandInv

\* A step that ends in an exception only has to leave the output alone; the
\* frame in hand, a local variable, is gone.
LEMMA ThrowInv ==
  ASSUME IInv, Throw, TypeOK', PoolHonest', UNCHANGED outputVars, UNCHANGED input,
         encodedFrame' = {}
  PROVE  IInv'
<1> USE DEF outputVars, flushVars, Throw
<1>1. OutputInv'
  BY DEF IInv, OutputInv, FramesInOrder
<1>2. VerdictInv' /\ HandInv'
  BY DEF VerdictInv, Leaving, HandInv
<1>3. QED
  BY <1>1, <1>2 DEF IInv

LEMMA ReadChunkInv ==
  ASSUME IInv, ReadChunk
  PROVE  IInv'
<1> USE DEF inputVars, frameVars, outputVars, flushVars, poolVars
<1>0. encodedFrame = {} /\ encodedFrame' = {} /\ HandInv'
  BY NothingInHand DEF ReadChunk, HandInv
<1>1. PICK r \in Reads(unread, input.ragged) :
        /\ stream' = r.stream
        /\ IF r.partial
           THEN Throw /\ UNCHANGED <<unread, chunk, fed>>
           ELSE /\ unread' = unread - r.groups
                /\ chunk' = r.groups
                /\ fed' = 0
                /\ pc' = IF r.groups = 0 THEN "read" ELSE "feed"
                /\ UNCHANGED verdict
  BY DEF ReadChunk
<1>2. TypeOK /\ PoolHonest /\ OutputInv /\ VerdictInv
  BY DEF IInv
<1>3. input.ragged \in BOOLEAN /\ unread \in Nat
  BY <1>2 DEF TypeOK, Inputs
<1>4. /\ r.groups \in 0 .. unread /\ r.partial \in BOOLEAN
      /\ r.stream \in {"good", "eof", "bad"}
      /\ r.stream = "eof" => r.groups = unread
  BY <1>3, ReadsType
<1>5. pc = "read" /\ UNCHANGED <<poolVars, input, samples, hashed, frameVars, outputVars, flushVars>>
  BY DEF ReadChunk
<1>6. TypeOK'
  BY <1>1, <1>2, <1>4, <1>5 DEF TypeOK, Throw, PCs
<1>7. PoolHonest'
  BY <1>2, <1>5 DEF PoolHonest, Honest
<1>8. CASE r.partial
  BY <1>1, <1>5, <1>6, <1>7, <1>8, <1>0, ThrowInv
<1>9. CASE ~r.partial
  <2>1. OutputInv' /\ VerdictInv'
    BY <1>1, <1>2, <1>5, <1>9 DEF OutputInv, FramesInOrder, VerdictInv, Leaving
  <2>2. verdict = "none" /\ ReaderInv /\ FramingInv /\ CountInv
    BY <1>2, <1>5 DEF IInv, VerdictInv, Leaving
  <2>3. ReaderInv'
    <3>1. LengthOf(input)' = LengthOf(input)
      BY <1>5 DEF LengthOf
    <3>2. unread' + (chunk' - fed') = unread + (chunk - fed)
      BY <1>1, <1>2, <1>4, <1>5, <1>9, <2>2 DEF TypeOK, ReaderInv, InLoop
    <3>3. 0 * GroupSamples = 0
      BY FramesAssumption
    <3>4. /\ hashed' + (unread' + (chunk' - fed')) * GroupSamples = LengthOf(input)'
          /\ samples' + fed' * GroupSamples = hashed' /\ samples' = hashed'
      BY <1>1, <1>2, <1>5, <1>9, <2>2, <3>1, <3>2, <3>3 DEF ReaderInv, InLoop, TypeOK
    <3>5. fed' <= chunk' /\ (stream' = "eof" => unread' = 0)
      BY <1>1, <1>4, <1>9, <1>3
    <3>6. pc' \notin InLoop => fed' = chunk'
      BY <1>1, <1>9 DEF InLoop
    <3>7. pc' \in {"read", "feed"}
      BY <1>1, <1>9
    <3>8. QED
      BY <3>4, <3>5, <3>6, <3>7 DEF ReaderInv, PastTail
  <2>4. FramingInv' /\ CountInv'
    BY <1>0, <1>1, <1>5, <1>9, <2>2 DEF FramingInv, CountInv, NextToTake, PastTail
  <2>5. QED
    BY <1>0, <1>6, <1>7, <2>1, <2>3, <2>4 DEF IInv
<1>10. QED
  BY <1>4, <1>8, <1>9

LEMMA FinishReadingInv ==
  ASSUME IInv, FinishReading
  PROVE  IInv'
<1> USE DEF inputVars, frameVars, outputVars, flushVars, poolVars
<1>0. encodedFrame = {} /\ encodedFrame' = {} /\ HandInv'
  BY NothingInHand DEF FinishReading, HandInv
<1>1. /\ pc = "read" /\ stream # "good"
      /\ UNCHANGED <<poolVars, inputVars, frameVars, outputVars, flushVars>>
  BY DEF FinishReading
<1>2. TypeOK /\ PoolHonest /\ OutputInv /\ VerdictInv
  BY DEF IInv
<1>3. TypeOK'
  BY <1>1, <1>2 DEF FinishReading, TypeOK, Throw, PCs
<1>4. PoolHonest'
  BY <1>1, <1>2 DEF PoolHonest, Honest
<1>5. CASE stream = "bad"
  BY <1>1, <1>3, <1>4, <1>5, <1>0, ThrowInv DEF FinishReading
<1>6. CASE stream # "bad"
  <2>1. /\ pc' = IF buffered > 0 THEN "submitTail" ELSE "drain"
        /\ verdict' = verdict /\ stream = "eof"
    BY <1>1, <1>2, <1>6 DEF FinishReading, TypeOK
  <2>2. OutputInv' /\ VerdictInv'
    BY <1>1, <1>2, <2>1 DEF OutputInv, FramesInOrder, VerdictInv, Leaving
  <2>3. verdict = "none" /\ ReaderInv /\ FramingInv /\ CountInv
    BY <1>1, <1>2 DEF IInv, VerdictInv, Leaving
  <2>4. ReaderInv'
    BY <1>1, <2>1, <2>3 DEF ReaderInv, InLoop, LengthOf
  <2>5. FramingInv' /\ CountInv'
    BY <1>1, <1>2, <2>1, <2>3 DEF FramingInv, CountInv, NextToTake, PastTail, TypeOK
  <2>6. QED
    BY <1>0, <1>3, <1>4, <2>2, <2>4, <2>5 DEF IInv
<1>7. QED
  BY <1>5, <1>6

LEMMA FeedGroupInv ==
  ASSUME IInv, FeedGroup
  PROVE  IInv'
<1> USE DEF inputVars, frameVars, outputVars, flushVars, poolVars
<1>0. encodedFrame = {} /\ encodedFrame' = {} /\ HandInv'
  BY NothingInHand DEF FeedGroup, HandInv
<1>1. TypeOK /\ PoolHonest /\ OutputInv /\ VerdictInv
  BY DEF IInv
<1>2. TypeOK'
  BY <1>1, FramesAssumption DEF FeedGroup, TypeOK, PCs
<1>3. PoolHonest' /\ OutputInv' /\ VerdictInv'
  BY <1>1 DEF FeedGroup, PoolHonest, Honest, OutputInv, FramesInOrder, VerdictInv, Leaving
<1>4. verdict = "none" /\ ReaderInv /\ FramingInv /\ CountInv
  BY <1>1 DEF FeedGroup, IInv, VerdictInv, Leaving
<1>5. ReaderInv'
  <2>1. /\ (fed + 1) * GroupSamples = fed * GroupSamples + GroupSamples
        /\ (unread + (chunk - fed) - 1) * GroupSamples
             = (unread + (chunk - fed)) * GroupSamples - GroupSamples
    BY <1>1, Products, FramesAssumption DEF TypeOK
  <2>2. unread + (chunk - (fed + 1)) = unread + (chunk - fed) - 1
    BY <1>1 DEF TypeOK
  <2>3. pc' \in {"feed", "submit"} /\ pc = "feed"
    BY DEF FeedGroup
  <2>4. hashed' + (unread' + (chunk' - fed')) * GroupSamples = LengthOf(input)'
    <3>1. hashed' = hashed + GroupSamples
      BY DEF FeedGroup
    <3>2. (unread' + (chunk' - fed')) * GroupSamples
            = (unread + (chunk - fed)) * GroupSamples - GroupSamples
      BY <2>1, <2>2 DEF FeedGroup
    <3>3. hashed + (unread + (chunk - fed)) * GroupSamples = LengthOf(input)'
      BY <1>4 DEF ReaderInv, FeedGroup, LengthOf
    <3>4. (unread + (chunk - fed)) * GroupSamples \in Int
      BY <1>1, FramesAssumption DEF TypeOK
    <3>5. QED
      BY <3>1, <3>2, <3>3, <3>4, <1>1, FramesAssumption DEF TypeOK
  <2>5. samples' + fed' * GroupSamples = hashed'
    <3>1. samples + fed * GroupSamples = hashed
      BY <1>4, <2>3 DEF ReaderInv, InLoop
    <3>2. fed * GroupSamples \in Int
      BY <1>1, FramesAssumption DEF TypeOK
    <3>3. QED
      BY <3>1, <3>2, <2>1, <1>1, FramesAssumption DEF FeedGroup, TypeOK
  <2>6. fed' <= chunk' /\ (stream' = "eof" => unread' = 0)
    BY <1>1, <1>4 DEF FeedGroup, ReaderInv, TypeOK
  <2>7. QED
    BY <2>3, <2>4, <2>5, <2>6 DEF ReaderInv, InLoop, PastTail
<1>6. FramingInv'
  BY <1>1, <1>4, FramesAssumption DEF FeedGroup, FramingInv, TypeOK, PastTail
<1>7. CountInv'
  BY <1>0, <1>4 DEF FeedGroup, CountInv, NextToTake
<1>8. QED
  BY <1>0, <1>2, <1>3, <1>5, <1>6, <1>7 DEF IInv

LEMMA FinishChunkInv ==
  ASSUME IInv, FinishChunk
  PROVE  IInv'
<1> USE DEF inputVars, frameVars, outputVars, flushVars, poolVars
<1>0. encodedFrame = {} /\ encodedFrame' = {} /\ HandInv'
  BY NothingInHand DEF FinishChunk, HandInv
<1>1. TypeOK /\ PoolHonest /\ OutputInv /\ VerdictInv
  BY DEF IInv
<1>2. chunk * GroupSamples \in Nat
  BY <1>1, Products, FramesAssumption DEF TypeOK
<1>3. TypeOK'
  BY <1>1, <1>2 DEF FinishChunk, Throw, TypeOK, PCs
<1>4. PoolHonest' /\ OutputInv' /\ VerdictInv'
  BY <1>1 DEF FinishChunk, Throw, PoolHonest, Honest, OutputInv, FramesInOrder, VerdictInv, Leaving
<1>5. verdict = "none" /\ ReaderInv /\ FramingInv /\ CountInv
  BY <1>1 DEF FinishChunk, IInv, VerdictInv, Leaving
<1>6. ReaderInv'
  BY <1>1, <1>5 DEF FinishChunk, Throw, ReaderInv, InLoop, PastTail, LengthOf
<1>7. FramingInv' /\ CountInv'
  BY <1>0, <1>5 DEF FinishChunk, Throw, FramingInv, CountInv, NextToTake, PastTail, Leaving
<1>8. QED
  BY <1>0, <1>3, <1>4, <1>5, <1>6, <1>7 DEF IInv

\* The frame about to be submitted is the one the input determines.
LEMMA CutFrameHonest ==
  ASSUME TypeOK, ReaderInv, FramingInv, pc \in {"submit", "submitTail"}
  PROVE  /\ CutFrame \in Frames
         /\ CutFrame.number = frameNumber
         /\ Honest(CutFrame)
         /\ pc = "submit" => CutFrame.count = FrameSamples
         /\ pc = "submitTail" => CutFrame.count = buffered
<1> DEFINE left == (unread + (chunk - fed)) * GroupSamples
<1>1. unread + (chunk - fed) \in Nat
  BY DEF TypeOK, ReaderInv
<1>2. left \in Nat /\ hashed + left = LengthOf(input)
  BY <1>1, Products, FramesAssumption DEF ReaderInv
<1>3. cut = frameNumber * FrameSamples /\ cut + buffered = hashed
  BY DEF FramingInv, PastTail
<1>4. buffered > 0 /\ (pc = "submit" => buffered >= FrameSamples)
      /\ (pc = "submitTail" => buffered < FrameSamples /\ left = 0)
  <2>1. pc = "submitTail" => unread + (chunk - fed) = 0
    BY DEF ReaderInv, InLoop, PastTail, TypeOK
  <2>2. 0 * GroupSamples = 0
    BY FramesAssumption
  <2>3. QED
    BY <2>1, <2>2, FramesAssumption DEF FramingInv, TypeOK
<1> HIDE DEF left
<1>5. /\ CutFrame.number = frameNumber /\ CutFrame.first = cut
      /\ CutFrame.count = Min2(FrameSamples, buffered)
  BY DEF CutFrame
<1>6. Min2(FrameSamples, buffered) = Min2(FrameSamples, LengthOf(input) - cut)
  <2>1. LengthOf(input) - cut = buffered + left /\ buffered \in Nat /\ left \in Nat
    <3>1. cut + buffered = hashed /\ hashed + left = LengthOf(input) /\ left \in Nat
      BY <1>2, <1>3
    <3>2. cut \in Nat /\ buffered \in Nat /\ hashed \in Nat
      BY DEF TypeOK
    <3>3. QED
      BY <3>1, <3>2
  <2>2. buffered >= FrameSamples \/ left = 0
    BY <1>4
  <2>3. Min2(FrameSamples, buffered) = Min2(FrameSamples, buffered + left)
    BY <2>1, <2>2, FramesAssumption DEF Min2
  <2>4. QED
    BY <2>1, <2>3
<1>7. CutFrame = FrameAt(frameNumber, LengthOf(input))
  BY <1>3, <1>6 DEF CutFrame, FrameAt
<1>8. /\ CutFrame.count \in Nat /\ CutFrame.count > 0
      /\ pc = "submit" => CutFrame.count = FrameSamples
      /\ pc = "submitTail" => CutFrame.count = buffered
  BY <1>4, <1>5, FramesAssumption DEF Min2, TypeOK
<1>9. CutFrame \in Frames
  BY <1>5, <1>8 DEF CutFrame, Frames, TypeOK
<1>10. QED
  BY <1>5, <1>7, <1>8, <1>9 DEF Honest

\* Once it is cut, the reader's position is that of the next frame.
LEMMA CutDoneFraming ==
  ASSUME TypeOK, ReaderInv, FramingInv, CutDone, hashed' = hashed,
         \/ pc = "submit" /\ pc' \in {"feed", "notify"}
         \/ pc = "submitTail" /\ pc' \in {"drain", "notifyTail"}
  PROVE  FramingInv' /\ cut' \in Nat /\ buffered' \in Nat /\ frameNumber' \in Nat
<1>1. /\ cut' = cut + CutFrame.count
      /\ buffered' = buffered - CutFrame.count
      /\ frameNumber' = frameNumber + 1
  BY DEF CutDone
<1>2. (frameNumber + 1) * FrameSamples = frameNumber * FrameSamples + FrameSamples
      /\ frameNumber * FrameSamples \in Nat
  BY Products, FramesAssumption DEF TypeOK
<1>3. CASE pc = "submit"
  <2>1. CutFrame.count = FrameSamples /\ pc' \in {"feed", "notify"}
    BY <1>3, CutFrameHonest
  <2>2. /\ cut + buffered = hashed /\ cut = frameNumber * FrameSamples
        /\ FrameSamples <= buffered /\ buffered < 2 * FrameSamples
    BY <1>3 DEF FramingInv, PastTail
  <2>3. QED
    BY <1>1, <1>2, <2>1, <2>2, FramesAssumption DEF FramingInv, PastTail, TypeOK
<1>4. CASE pc = "submitTail"
  <2>1. CutFrame.count = buffered /\ pc' \in {"drain", "notifyTail"}
    BY <1>4, CutFrameHonest
  <2>2. /\ cut + buffered = hashed /\ cut = frameNumber * FrameSamples
        /\ buffered > 0 /\ buffered < FrameSamples
    BY <1>4 DEF FramingInv, PastTail
  <2>3. QED
    BY <1>1, <1>2, <2>1, <2>2, FramesAssumption DEF FramingInv, PastTail, TypeOK
<1>5. QED
  BY <1>3, <1>4

\* What a frame written in its place does to the output.
LEMMA WriteFrameOutput ==
  ASSUME TypeOK, OutputInv, NEW f \in Frames, Honest(f), f.number = nextToWrite,
         WriteFrame(f), UNCHANGED input
  PROVE  OutputInv' /\ file' \in Seq(Frames) /\ nextToWrite' \in Nat
<1>1. file' = Append(file, f) /\ nextToWrite' = nextToWrite + 1 /\ nextToWrite = Len(file)
  BY DEF WriteFrame, OutputInv
<1>2. file \in Seq(Frames) /\ nextToWrite \in Nat
  BY DEF TypeOK
<1>3. \A i \in 1 .. Len(file') :
         file'[i] = IF i = Len(file) + 1 THEN f ELSE file[i]
  BY <1>1, <1>2
<1>4. f = FrameAt(Len(file), LengthOf(input))
  BY <1>1 DEF Honest
<1>5. ASSUME NEW i \in 1 .. Len(file')
      PROVE  file'[i] = FrameAt(i - 1, LengthOf(input))
  <2>1. CASE i = Len(file) + 1
    <3>1. i - 1 = Len(file)
      BY <1>2, <2>1
    <3>2. QED
      BY <1>3, <1>4, <2>1, <3>1
  <2>2. CASE i # Len(file) + 1
    <3>1. i \in 1 .. Len(file) /\ file'[i] = file[i]
      BY <1>1, <1>2, <1>3, <2>2
    <3>2. QED
      BY <3>1 DEF OutputInv, FramesInOrder
  <2>3. QED
    BY <2>1, <2>2
<1>6. QED
  BY <1>1, <1>2, <1>5 DEF OutputInv, FramesInOrder, LengthOf

LEMMA TakeNextFrameInv ==
  ASSUME IInv, TakeNextFrame, ThreadCount # 1,
         \/ pc \in {"submit", "submitTail"} /\ BacklogFull
         \/ pc = "drain" /\ nextToWrite # frameNumber
  PROVE  IInv'
<1> USE DEF inputVars, frameVars, outputVars, mainVars, flushVars
<1>1. TypeOK /\ PoolHonest /\ OutputInv /\ VerdictInv /\ encodedFrame = {}
  BY DEF IInv, TakeNextFrame
<1>2. verdict = "none" /\ ReaderInv /\ FramingInv /\ CountInv
  BY <1>1 DEF IInv, VerdictInv, Leaving
<1>3. CASE ConsumerSleeps(nextToWrite) /\ UNCHANGED mainVars
  <2>1. TypeOK'
    BY <1>1, <1>3 DEF ConsumerSleeps, TypeOK
  <2>2. PoolHonest'
    BY <1>1, <1>3 DEF ConsumerSleeps, PoolHonest, Honest
  <2>3. QED
    BY <1>3, <2>1, <2>2, MainInvStable
<1>4. CASE /\ Throw
           /\ UNCHANGED <<poolVars, inputVars, frameVars, outputVars, flushVars>>
  <2>1. TypeOK' /\ PoolHonest'
    BY <1>1, <1>4 DEF poolVars, Throw, TypeOK, PCs, PoolHonest, Honest
  <2>2. QED
    BY <1>1, <2>1, <1>4, ThrowInv
<1>5. CASE /\ \E frame \in Ready(nextToWrite) :
                Take(frame) /\ encodedFrame' = {frame}
           /\ inFlight' = inFlight - 1
           /\ UNCHANGED <<inputVars, frameVars, outputVars, verdict, pc>>
  <2>1. PICK f \in Ready(nextToWrite) : Take(f) /\ encodedFrame' = {f}
    BY <1>5
  <2>2. f \in results /\ f \in Frames /\ Honest(f) /\ f.number = nextToWrite
    BY <1>1, <2>1 DEF Ready, PoolHonest, TypeOK
  <2>3. inFlight > 0 /\ nextToWrite < frameNumber /\ inFlight' \in Nat
    BY <1>1, <1>2, <1>5, EncoderAssumption
    DEF CountInv, NextToTake, BacklogFull, MaxPending, TypeOK
  <2>4. PoolHonest'
    BY <1>1, <1>5, <2>1 DEF Take, PoolHonest, Honest
  <2>5. /\ results' \in SUBSET Frames /\ encodedFrame' \in SUBSET Frames
        /\ UNCHANGED <<jobs, exception, stopping, worker, holding, consumer>>
    BY <1>1, <2>1, <2>2 DEF Take, TypeOK
  <2>6. TypeOK'
    BY <1>1, <1>5, <2>3, <2>5 DEF TypeOK
  <2>7. OutputInv' /\ VerdictInv'
    BY <1>1, <1>5 DEF OutputInv, FramesInOrder, VerdictInv, Leaving, LengthOf
  <2>8. HandInv'
    BY <1>5, <2>1, <2>2 DEF HandInv, Honest
  <2>9. ReaderInv' /\ FramingInv'
    BY <1>2, <1>5 DEF ReaderInv, FramingInv, LengthOf
  <2>10. CountInv'
    BY <1>1, <1>2, <1>5, <2>1, <2>3 DEF CountInv, NextToTake, TypeOK
  <2>11. QED
    BY <2>4, <2>6, <2>7, <2>8, <2>9, <2>10 DEF IInv
<1>6. QED
  BY <1>3, <1>4, <1>5 DEF TakeNextFrame

LEMMA WriteTakenFrameInv ==
  ASSUME IInv, WriteTakenFrame
  PROVE  IInv'
<1> USE DEF inputVars, frameVars
<1>1. TypeOK /\ PoolHonest /\ OutputInv /\ VerdictInv
  BY DEF IInv
<1>2. /\ encodedFrame # {} /\ encodedFrame' = {} /\ HandInv'
      /\ UNCHANGED <<poolVars, inputVars, frameVars, inFlight>>
  BY DEF WriteTakenFrame, HandInv
<1>3. /\ ThreadCount # 1 /\ pc \in {"submit", "submitTail", "drain"}
      /\ \E f \in Frames : encodedFrame = {f} /\ Honest(f) /\ f.number = nextToWrite
  BY <1>2 DEF IInv, HandInv
<1>4. PICK f \in Frames : encodedFrame = {f} /\ Honest(f) /\ f.number = nextToWrite
  BY <1>3
<1>5. verdict = "none" /\ ReaderInv /\ FramingInv /\ CountInv
  BY <1>1, <1>3 DEF IInv, VerdictInv, Leaving
<1>6. PoolHonest'
  BY <1>1, <1>2 DEF PoolHonest, Honest, poolVars
<1>7. CASE WriteFrame(f) /\ UNCHANGED <<verdict, pc>>
  <2>1. OutputInv' /\ file' \in Seq(Frames) /\ nextToWrite' \in Nat
    BY <1>1, <1>2, <1>4, <1>7, WriteFrameOutput
  <2>2. info' = info /\ nextToWrite' = nextToWrite + 1
    BY <1>7 DEF WriteFrame
  <2>3. TypeOK'
    BY <1>1, <1>2, <1>7, <2>1, <2>2 DEF TypeOK, poolVars
  <2>4. VerdictInv'
    BY <1>1, <1>2, <1>3, <1>5, <1>7, <2>2 DEF VerdictInv, Leaving
  <2>5. ReaderInv' /\ FramingInv'
    BY <1>2, <1>5, <1>7 DEF ReaderInv, FramingInv, LengthOf
  <2>6. CountInv'
    BY <1>1, <1>2, <1>3, <1>5, <2>2 DEF CountInv, NextToTake, TypeOK
  <2>7. QED
    BY <1>2, <1>6, <2>1, <2>3, <2>4, <2>5, <2>6 DEF IInv
<1>8. CASE Throw /\ UNCHANGED outputVars
  <2>1. TypeOK'
    BY <1>1, <1>2, <1>8 DEF TypeOK, poolVars, outputVars, Throw, PCs
  <2>2. QED
    BY <1>2, <1>6, <1>8, <2>1, ThrowInv
<1>9. QED
  BY <1>4, <1>7, <1>8 DEF WriteTakenFrame

LEMMA SubmitInlineInv ==
  ASSUME IInv, SubmitInline
  PROVE  IInv'
<1> USE DEF inputVars, outputVars, flushVars
<1>0. encodedFrame = {} /\ encodedFrame' = {} /\ HandInv'
  BY NothingInHand DEF SubmitInline, HandInv
<1>1. TypeOK /\ PoolHonest /\ OutputInv /\ VerdictInv
  BY DEF IInv
<1>2. /\ pc \in {"submit", "submitTail"} /\ ThreadCount = 1
      /\ UNCHANGED <<poolVars, inputVars, flushVars>>
  BY DEF SubmitInline
<1>3. verdict = "none" /\ ReaderInv /\ FramingInv /\ CountInv
  BY <1>1, <1>2 DEF IInv, VerdictInv, Leaving
<1>4. PoolHonest'
  BY <1>1, <1>2 DEF PoolHonest, Honest, poolVars
<1>5. CASE WriteFrame(CutFrame) /\ CutDone /\ pc' = Resume /\ UNCHANGED verdict
  <2>1. CutFrame \in Frames /\ Honest(CutFrame) /\ CutFrame.number = frameNumber
    BY <1>1, <1>2, <1>3, CutFrameHonest
  <2>2. nextToWrite = frameNumber
    BY <1>2, <1>3 DEF CountInv
  <2>3. OutputInv' /\ file' \in Seq(Frames) /\ nextToWrite' \in Nat
    BY <1>1, <1>2, <1>5, <2>1, <2>2, WriteFrameOutput
  <2>4. \/ pc = "submit" /\ pc' = "feed"
        \/ pc = "submitTail" /\ pc' = "drain"
    BY <1>2, <1>5 DEF Resume
  <2>5. FramingInv' /\ cut' \in Nat /\ buffered' \in Nat /\ frameNumber' \in Nat
    BY <1>1, <1>2, <1>3, <1>5, <2>4, CutDoneFraming
  <2>6. info' = info /\ nextToWrite' = nextToWrite + 1 /\ frameNumber' = frameNumber + 1
    BY <1>5 DEF WriteFrame, CutDone
  <2>7. TypeOK'
    BY <1>1, <1>2, <1>5, <2>3, <2>4, <2>5, <2>6 DEF TypeOK, poolVars, PCs
  <2>8. VerdictInv'
    BY <1>1, <1>3, <1>5, <2>4, <2>6 DEF VerdictInv, Leaving
  <2>9. ReaderInv'
    BY <1>2, <1>3, <2>4 DEF ReaderInv, InLoop, PastTail, LengthOf
  <2>10. CountInv'
    BY <1>0, <1>1, <1>2, <2>2, <2>3, <2>6 DEF CountInv, NextToTake, TypeOK
  <2>11. QED
    BY <1>0, <1>4, <2>3, <2>5, <2>7, <2>8, <2>9, <2>10 DEF IInv
<1>6. CASE Throw /\ UNCHANGED <<frameVars, outputVars>>
  <2>1. TypeOK'
    BY <1>1, <1>2, <1>6 DEF TypeOK, poolVars, frameVars, flushVars, Throw, PCs
  <2>2. QED
    BY <1>0, <1>2, <1>4, <1>6, <2>1, ThrowInv
<1>7. QED
  BY <1>5, <1>6 DEF SubmitInline

LEMMA SubmitFrameInv ==
  ASSUME IInv, SubmitFrame
  PROVE  IInv'
<1> USE DEF inputVars, outputVars, flushVars
<1>0. encodedFrame = {} /\ encodedFrame' = {} /\ HandInv'
  BY DEF SubmitFrame, HandInv
<1>1. TypeOK /\ PoolHonest /\ OutputInv /\ VerdictInv
  BY DEF IInv
<1>2. /\ pc \in {"submit", "submitTail"} /\ ThreadCount # 1
      /\ UNCHANGED <<inputVars, outputVars, encodedFrame>>
  BY DEF SubmitFrame
<1>3. verdict = "none" /\ ReaderInv /\ FramingInv /\ CountInv
  BY <1>1, <1>2 DEF IInv, VerdictInv, Leaving
<1>4. CASE /\ Submit(CutFrame)
           /\ inFlight' = inFlight + 1
           /\ CutDone
           /\ pc' = IF pc = "submit" THEN "notify" ELSE "notifyTail"
           /\ UNCHANGED verdict
  <2>1. CutFrame \in Frames /\ Honest(CutFrame)
    BY <1>1, <1>2, <1>3, CutFrameHonest
  <2>2. /\ jobs' = Append(jobs, CutFrame)
        /\ UNCHANGED <<results, exception, stopping, worker, holding, consumer>>
    BY <1>4 DEF Submit
  <2>3. jobs' \in Seq(Frames)
        /\ \A i \in 1 .. Len(jobs') : \/ jobs'[i] = CutFrame
                                      \/ i \in 1 .. Len(jobs) /\ jobs'[i] = jobs[i]
    <3>1. jobs \in Seq(Frames)
      BY <1>1 DEF TypeOK
    <3>2. QED
      BY <2>1, <2>2, <3>1
  <2>4. PoolHonest'
    <3>1. \A i \in 1 .. Len(jobs') : Honest(jobs'[i])
      BY <1>1, <2>1, <2>3 DEF PoolHonest
    <3>2. (\A i \in 1 .. Len(jobs) : Honest(jobs[i]))'
      BY <1>2, <3>1 DEF Honest
    <3>3. QED
      BY <1>1, <1>2, <2>2, <3>2 DEF PoolHonest, Honest
  <2>5. \/ pc = "submit" /\ pc' = "notify"
        \/ pc = "submitTail" /\ pc' = "notifyTail"
    BY <1>2, <1>4
  <2>6. FramingInv' /\ cut' \in Nat /\ buffered' \in Nat /\ frameNumber' \in Nat
    BY <1>1, <1>2, <1>3, <1>4, <2>5, CutDoneFraming
  <2>7. TypeOK'
    BY <1>1, <1>2, <1>4, <2>2, <2>3, <2>5, <2>6 DEF TypeOK, PCs
  <2>8. OutputInv' /\ VerdictInv'
    BY <1>1, <1>2, <1>3, <1>4, <2>5 DEF OutputInv, FramesInOrder, VerdictInv, Leaving, LengthOf
  <2>9. ReaderInv'
    BY <1>2, <1>3, <2>5 DEF ReaderInv, InLoop, PastTail, LengthOf
  <2>10. CountInv'
    BY <1>0, <1>1, <1>2, <1>3, <1>4 DEF CountInv, NextToTake, CutDone, TypeOK
  <2>11. QED
    BY <1>0, <2>4, <2>6, <2>7, <2>8, <2>9, <2>10 DEF IInv
<1>5. CASE exception /\ Throw /\ UNCHANGED <<poolVars, frameVars, inFlight>>
  <2>1. TypeOK' /\ PoolHonest'
    BY <1>1, <1>2, <1>5 DEF TypeOK, poolVars, frameVars, flushVars, Throw, PCs, PoolHonest, Honest
  <2>2. QED
    BY <1>0, <1>2, <1>5, <2>1, ThrowInv
<1>6. QED
  BY <1>4, <1>5 DEF SubmitFrame

LEMMA NotifyWorkerInv ==
  ASSUME IInv, NotifyWorker
  PROVE  IInv'
<1> USE DEF inputVars, frameVars, outputVars, flushVars
<1>0. encodedFrame = {} /\ encodedFrame' = {} /\ HandInv'
  BY NothingInHand DEF NotifyWorker, HandInv
<1>1. TypeOK /\ PoolHonest /\ OutputInv /\ VerdictInv
  BY DEF IInv
<1>2. /\ pc \in {"notify", "notifyTail"} /\ pc' = Resume
      /\ UNCHANGED <<inputVars, frameVars, outputVars, flushVars, verdict>>
      /\ UNCHANGED <<jobs, results, exception, stopping, holding, consumer>>
  BY DEF NotifyWorker, NotifyOneWorker
<1>3. worker' \in [Workers -> WorkerStates]
  BY <1>1 DEF NotifyWorker, NotifyOneWorker, Goto, In, TypeOK, WorkerStates
<1>4. \/ pc = "notify" /\ pc' = "feed"
      \/ pc = "notifyTail" /\ pc' = "drain"
  BY <1>2 DEF Resume
<1>5. verdict = "none" /\ ReaderInv /\ FramingInv /\ CountInv
  BY <1>1, <1>2 DEF IInv, VerdictInv, Leaving
<1>6. TypeOK' /\ PoolHonest'
  BY <1>1, <1>2, <1>3, <1>4 DEF TypeOK, PCs, PoolHonest, Honest
<1>7. OutputInv' /\ VerdictInv'
  BY <1>1, <1>2, <1>4 DEF OutputInv, FramesInOrder, VerdictInv, Leaving
<1>8. ReaderInv' /\ FramingInv' /\ CountInv'
  BY <1>0, <1>2, <1>4, <1>5 DEF ReaderInv, FramingInv, CountInv, NextToTake, InLoop, PastTail, LengthOf
<1>9. QED
  BY <1>0, <1>6, <1>7, <1>8 DEF IInv

LEMMA FinishDrainInv ==
  ASSUME IInv, FinishDrain
  PROVE  IInv'
<1> USE DEF FinishDrain, poolVars, inputVars, frameVars, outputVars, flushVars
<1>1. TypeOK /\ PoolHonest /\ OutputInv /\ VerdictInv
  BY DEF IInv
<1>2. verdict = "none" /\ ReaderInv /\ FramingInv /\ CountInv
  BY <1>1 DEF IInv, VerdictInv, Leaving
<1>0. encodedFrame = {} /\ encodedFrame' = {} /\ HandInv'
  BY <1>2, NothingInHand DEF HandInv
<1>3. TypeOK' /\ PoolHonest'
  BY <1>1 DEF TypeOK, PCs, PoolHonest, Honest
<1>4. OutputInv' /\ VerdictInv'
  BY <1>1, <1>2 DEF OutputInv, FramesInOrder, VerdictInv, Leaving
<1>5. ReaderInv' /\ FramingInv' /\ CountInv'
  BY <1>0, <1>2 DEF ReaderInv, FramingInv, CountInv, NextToTake, InLoop, PastTail, LengthOf
<1>6. QED
  BY <1>0, <1>3, <1>4, <1>5 DEF IInv

LEMMA RewriteStreamInfoInv ==
  ASSUME IInv, RewriteStreamInfo
  PROVE  IInv' /\ (pc' = "close" => info' = StreamInfo(LengthOf(input), LengthOf(input)))
<1> USE DEF inputVars, frameVars, outputVars, flushVars
<1>0. encodedFrame = {} /\ encodedFrame' = {} /\ HandInv'
  BY NothingInHand DEF RewriteStreamInfo, HandInv
<1>1. TypeOK /\ PoolHonest /\ OutputInv /\ VerdictInv
  BY DEF IInv
<1>2. /\ pc = "rewrite"
      /\ UNCHANGED <<poolVars, inputVars, frameVars, nextToWrite, file, flushVars>>
  BY DEF RewriteStreamInfo
<1>3. verdict = "none" /\ ReaderInv /\ FramingInv /\ CountInv
  BY <1>1, <1>2 DEF IInv, VerdictInv, Leaving
<1>4. PoolHonest'
  BY <1>1, <1>2 DEF PoolHonest, Honest, poolVars
<1>5. CASE info' = StreamInfo(samples, hashed) /\ pc' = "close" /\ UNCHANGED verdict
  <2>1. samples = LengthOf(input) /\ hashed = LengthOf(input)
    <3>1. samples = hashed /\ unread + (chunk - fed) = 0
      BY <1>1, <1>2, <1>3 DEF ReaderInv, InLoop, PastTail, TypeOK
    <3>2. 0 * GroupSamples = 0 /\ hashed \in Nat
      BY <1>1, FramesAssumption DEF TypeOK
    <3>3. QED
      BY <1>3, <3>1, <3>2 DEF ReaderInv
  <2>2. TypeOK'
    <3>1. StreamInfo(samples, hashed) \in [total : Nat, md5 : Nat]
      BY <1>1 DEF StreamInfo, KnownTotal, TypeOK
    <3>2. QED
      BY <1>1, <1>2, <1>5, <3>1 DEF TypeOK, PCs, poolVars
  <2>3. OutputInv' /\ VerdictInv'
    BY <1>1, <1>2, <1>3, <1>5, <2>1 DEF OutputInv, FramesInOrder, VerdictInv, Leaving, LengthOf
  <2>4. ReaderInv' /\ FramingInv' /\ CountInv'
    BY <1>0, <1>2, <1>3, <1>5 DEF ReaderInv, FramingInv, CountInv, NextToTake, InLoop, PastTail, LengthOf
  <2>5. QED
    BY <1>0, <1>4, <1>5, <2>1, <2>2, <2>3, <2>4 DEF IInv
<1>6. CASE Throw /\ UNCHANGED info
  <2>1. TypeOK'
    BY <1>1, <1>2, <1>6 DEF TypeOK, poolVars, Throw, PCs
  <2>2. QED
    BY <1>0, <1>2, <1>4, <1>6, <2>1, ThrowInv DEF Throw
<1>7. QED
  BY <1>5, <1>6 DEF RewriteStreamInfo

\* Closing the output and leaving through the destructor of the pool.
LEMMA LeavingInv ==
  ASSUME IInv, CloseOutput \/ StopWorkers \/ WakeWorkers \/ JoinWorkers
  PROVE  IInv'
<1> USE DEF inputVars, frameVars, outputVars, flushVars
<1>0. encodedFrame = {} /\ encodedFrame' = {} /\ HandInv'
  BY NothingInHand DEF CloseOutput, StopWorkers, WakeWorkers, JoinWorkers, HandInv
<1>1. TypeOK /\ PoolHonest /\ OutputInv /\ VerdictInv
  BY DEF IInv
<1>2. /\ UNCHANGED <<inputVars, frameVars, outputVars, flushVars>>
      /\ UNCHANGED <<jobs, results, exception, holding, consumer>>
      /\ pc \in {"close", "stop", "wake", "join"}
  BY DEF CloseOutput, StopWorkers, WakeWorkers, JoinWorkers, StopPool, NotifyAllWorkers, poolVars
<1>3. stopping' \in BOOLEAN /\ worker' \in [Workers -> WorkerStates]
  BY <1>1 DEF CloseOutput, StopWorkers, WakeWorkers, JoinWorkers, StopPool, NotifyAllWorkers,
              WakeAllWorkers, poolVars, TypeOK, WorkerStates
<1>4. /\ pc' \in Leaving /\ verdict' \in {"ok", "error"}
  BY <1>1 DEF CloseOutput, StopWorkers, WakeWorkers, JoinWorkers, Throw, Leaving, TypeOK, VerdictInv
<1>5. TypeOK'
  BY <1>1, <1>2, <1>3, <1>4 DEF TypeOK, PCs, Leaving
<1>6. PoolHonest' /\ OutputInv' /\ VerdictInv'
  BY <1>1, <1>2, <1>4 DEF PoolHonest, Honest, OutputInv, FramesInOrder, VerdictInv, Leaving
<1>7. QED
  BY <1>0, <1>4, <1>5, <1>6 DEF IInv

-----------------------------------------------------------------------------
(* The theorems. *)

LEMMA StepPreserves == IInv /\ [Next]_vars => IInv'
<1> SUFFICES ASSUME IInv, [Next]_vars PROVE IInv'
  OBVIOUS
<1>1. CASE UNCHANGED vars
  <2>1. UNCHANGED poolVars /\ UNCHANGED mainVars
    BY <1>1 DEF vars
  <2>2. TypeOK' /\ PoolHonest'
    BY <2>1 DEF IInv, poolVars, TypeOK, PoolHonest, Honest, mainVars, inputVars, frameVars,
                outputVars, flushVars
  <2>3. QED
    BY <2>1, <2>2, MainInvStable
<1>2. CASE MainStep
  <2>1. MakeRoom \/ Drain => IInv'
    BY TakeNextFrameInv
    DEF MakeRoom, Drain, TakeNextFrame, IInv, VerdictInv, CountInv, NextToTake, Leaving
  <2>2. QED
    BY <1>2, <2>1, WriteTakenFrameInv, ReadChunkInv, FinishReadingInv, FeedGroupInv, FinishChunkInv,
       SubmitInlineInv, SubmitFrameInv, NotifyWorkerInv, FinishDrainInv,
       RewriteStreamInfoInv, LeavingInv DEF MainStep
<1>3. CASE PoolStep
  BY <1>3, PoolStepInv
<1>4. CASE Returned
  BY <1>1, <1>4 DEF Returned
<1>5. QED
  BY <1>1, <1>2, <1>3, <1>4 DEF Next

\* The inductive invariant holds in every reachable state, and with it the
\* types of all the encoder's and the pool's variables.
THEOREM Invariance == Spec => []IInv
  BY InitEstablishes, StepPreserves, PTL DEF Spec

\* Types (TypeOK), for any number of workers, frames and groups.
THEOREM TypeCorrect == Spec => []TypeOK
<1>1. IInv => TypeOK
  BY DEF IInv
<1>2. QED
  BY Invariance, <1>1, PTL

\* The i-th frame of the output is the i-th frame of the input, whatever the
\* number of workers and the order they finish in: taking results by
\* next_frame_to_write restores the order.
THEOREM OutputOrder == Spec => []FramesInOrder
<1>1. IInv => FramesInOrder
  BY DEF IInv, OutputInv
<1>2. QED
  BY Invariance, <1>1, PTL

-----------------------------------------------------------------------------
(* The encoder implements FlacStream. *)

\* Writing the next frame is AppendFrame: a frame that is not empty starts
\* before the end of the input, so the file was not complete.
LEMMA WriteIsAppend ==
  ASSUME TypeOK, OutputInv, NEW f \in Frames, Honest(f), f.number = nextToWrite,
         info = Placeholder, verdict = "none",
         WriteFrame(f), UNCHANGED <<input, verdict>>
  PROVE  Stream!AppendFrame
<1>1. /\ file' = Append(file, f) /\ info' = info /\ f.number = Len(file)
  BY DEF WriteFrame, OutputInv
<1>2. Len(file) \in Nat /\ LengthOf(input) \in Nat
  BY LengthType DEF TypeOK
<1>3. f = FrameAt(Len(file), LengthOf(input)) /\ f.count > 0
  BY <1>1 DEF Honest
<1>4. f.count = Min2(FrameSamples, LengthOf(input) - Len(file) * FrameSamples)
  BY <1>3 DEF FrameAt
<1>5. Len(file) * FrameSamples \in Nat
  BY <1>2, FramesAssumption
<1>6. Len(file) * FrameSamples < LengthOf(input)
  BY <1>2, <1>3, <1>4, <1>5, FramesAssumption DEF Min2
<1>7. ~Stream!Complete
  BY <1>2, <1>5, <1>6 DEF Stream!Complete
<1>8. LengthOf(input)' = LengthOf(input)
  BY DEF LengthOf
<1>9. Stream!FrameAt(Len(file), LengthOf(input)) = FrameAt(Len(file), LengthOf(input))
      /\ Stream!Placeholder = Placeholder
  BY DEF Stream!FrameAt, FrameAt, Stream!Min2, Min2, Stream!Placeholder, Placeholder
<1>10. QED
  BY <1>1, <1>3, <1>7, <1>8, <1>9 DEF Stream!AppendFrame

\* Throwing with the output untouched is Fail.
LEMMA ThrowIsFail ==
  ASSUME verdict = "none", Throw, UNCHANGED outputVars, UNCHANGED input
  PROVE  Stream!Fail
  BY DEF Throw, outputVars, flushVars, Stream!Fail, LengthOf

\* At the rewrite of STREAMINFO and after it the file covers the input.
LEMMA WholeInputWritten ==
  ASSUME IInv, verdict = "none", pc \in {"rewrite", "close"}
  PROVE  Stream!Complete
<1>1. TypeOK /\ ReaderInv /\ FramingInv /\ nextToWrite = frameNumber /\ nextToWrite = Len(file)
  BY DEF IInv, VerdictInv, OutputInv
<1>2. cut = hashed /\ cut <= Len(file) * FrameSamples
  BY <1>1 DEF FramingInv, PastTail, TypeOK
<1>3. unread + (chunk - fed) = 0 /\ 0 * GroupSamples = 0 /\ hashed \in Nat
  BY <1>1, FramesAssumption DEF ReaderInv, InLoop, PastTail, TypeOK
<1>4. hashed = LengthOf(input)
  BY <1>1, <1>3 DEF ReaderInv
<1>5. QED
  BY <1>2, <1>4 DEF Stream!Complete

\* Writing the frame in hand is AppendFrame or Fail.
LEMMA WriteTakenRefines ==
  ASSUME IInv, WriteTakenFrame
  PROVE  Stream!StreamNext
<1>1. TypeOK /\ OutputInv /\ VerdictInv /\ HandInv
  BY DEF IInv
<1>2. encodedFrame # {} /\ UNCHANGED input
  BY DEF WriteTakenFrame, inputVars
<1>3. PICK f \in Frames : encodedFrame = {f} /\ Honest(f) /\ f.number = nextToWrite
  BY <1>1, <1>2 DEF HandInv
<1>4. verdict = "none" /\ info = Placeholder
  BY <1>1, <1>2 DEF HandInv, VerdictInv, Leaving
<1>5. CASE WriteFrame(f) /\ UNCHANGED verdict
  BY <1>1, <1>2, <1>3, <1>4, <1>5, WriteIsAppend DEF Stream!StreamNext
<1>6. CASE Throw /\ UNCHANGED outputVars
  BY <1>2, <1>4, <1>6, ThrowIsFail DEF Stream!StreamNext
<1>7. QED
  BY <1>3, <1>5, <1>6 DEF WriteTakenFrame

LEMMA StepRefines ==
  ASSUME IInv, IInv', [Next]_vars
  PROVE  [Stream!StreamNext]_(Stream!streamVars)
<1> USE DEF inputVars, frameVars, outputVars, flushVars
<1>1. TypeOK /\ PoolHonest /\ OutputInv /\ VerdictInv
  BY DEF IInv
<1> DEFINE Stutter == UNCHANGED <<input, file, info, verdict>>
<1>2. Stutter => UNCHANGED Stream!streamVars
  BY DEF Stream!streamVars, LengthOf
<1>3. CASE UNCHANGED vars \/ PoolStep \/ Returned
  BY <1>2, <1>3 DEF vars, mainVars, flushVars, PoolStep, Returned
<1>4. CASE ReadChunk \/ FinishReading \/ FinishChunk
  <2>1. verdict = "none"
    BY <1>1, <1>4 DEF VerdictInv, Leaving, ReadChunk, FinishReading, FinishChunk
  <2>2. CASE Throw /\ UNCHANGED <<input, outputVars>>
    BY <2>1, <2>2, ThrowIsFail DEF Stream!StreamNext
  <2>3. CASE Stutter
    BY <1>2, <2>3
  <2>4. QED
    BY <1>4, <2>2, <2>3 DEF ReadChunk, FinishReading, FinishChunk
<1>5. CASE FeedGroup \/ NotifyWorker \/ FinishDrain \/ StopWorkers
             \/ WakeWorkers \/ JoinWorkers
  BY <1>2, <1>5 DEF FeedGroup, NotifyWorker, FinishDrain, StopWorkers,
                    WakeWorkers, JoinWorkers
<1>6. CASE SubmitInline
  <2>1. verdict = "none" /\ info = Placeholder /\ ReaderInv /\ FramingInv /\ CountInv
    BY <1>1, <1>6 DEF IInv, VerdictInv, Leaving, SubmitInline
  <2>2. CutFrame \in Frames /\ Honest(CutFrame) /\ CutFrame.number = nextToWrite
    BY <1>1, <1>6, <2>1, CutFrameHonest DEF SubmitInline, CountInv
  <2>3. CASE WriteFrame(CutFrame) /\ UNCHANGED <<input, verdict>>
    BY <1>1, <2>1, <2>2, <2>3, WriteIsAppend DEF Stream!StreamNext
  <2>4. CASE Throw /\ UNCHANGED <<input, outputVars>>
    BY <2>1, <2>4, ThrowIsFail DEF Stream!StreamNext
  <2>5. QED
    BY <1>6, <2>3, <2>4 DEF SubmitInline
<1>7. CASE MakeRoom \/ Drain
  <2>1. verdict = "none" /\ TakeNextFrame
    BY <1>1, <1>7 DEF MakeRoom, Drain, VerdictInv, Leaving
  <2>2. CASE Throw /\ UNCHANGED <<input, outputVars>>
    BY <2>1, <2>2, ThrowIsFail DEF Stream!StreamNext
  <2>3. CASE Stutter
    BY <1>2, <2>3
  <2>4. QED
    BY <2>1, <2>2, <2>3 DEF TakeNextFrame, mainVars
<1>8. CASE SubmitFrame
  <2>1. verdict = "none"
    BY <1>1, <1>8 DEF VerdictInv, Leaving, SubmitFrame
  <2>2. CASE Throw /\ UNCHANGED <<input, outputVars>>
    BY <2>1, <2>2, ThrowIsFail DEF Stream!StreamNext
  <2>3. CASE Stutter
    BY <1>2, <2>3
  <2>4. QED
    BY <1>8, <2>2, <2>3 DEF SubmitFrame
<1>9. CASE RewriteStreamInfo
  <2>1. verdict = "none" /\ pc = "rewrite" /\ UNCHANGED <<input, file>>
    BY <1>1, <1>9 DEF VerdictInv, Leaving, RewriteStreamInfo
  <2>2. CASE Throw /\ UNCHANGED <<input, outputVars>>
    BY <2>1, <2>2, ThrowIsFail DEF Stream!StreamNext
  <2>3. CASE pc' = "close" /\ UNCHANGED verdict
    <3>1. info' = StreamInfo(LengthOf(input), LengthOf(input))
      BY <1>9, <2>3, RewriteStreamInfoInv
    <3>2. Stream!StreamInfo(LengthOf(input), LengthOf(input))
            = StreamInfo(LengthOf(input), LengthOf(input))
      BY DEF Stream!StreamInfo, StreamInfo, Stream!KnownTotal, KnownTotal
    <3>3. Stream!Complete
      BY <1>1, <2>1, WholeInputWritten
    <3>4. QED
      BY <2>1, <2>3, <3>1, <3>2, <3>3 DEF Stream!RewriteInfo, Stream!StreamNext, LengthOf
  <2>4. QED
    BY <1>9, <2>2, <2>3 DEF RewriteStreamInfo
<1>10. CASE CloseOutput
  <2>1. /\ verdict = "none" /\ pc = "close"
        /\ UNCHANGED <<input, outputVars>>
    BY <1>1, <1>10 DEF VerdictInv, Leaving, CloseOutput
  <2>2. CASE Throw
    BY <2>1, <2>2, ThrowIsFail DEF Stream!StreamNext
  <2>3. CASE verdict' = "ok"
    <3>1. info = Stream!StreamInfo(LengthOf(input), LengthOf(input))
      BY <1>1, <2>1 DEF VerdictInv, Stream!StreamInfo, StreamInfo, Stream!KnownTotal, KnownTotal
    <3>2. Stream!Complete
      BY <1>1, <2>1, WholeInputWritten
    <3>3. QED
      BY <2>1, <2>3, <3>1, <3>2 DEF Stream!Succeed, Stream!StreamNext, LengthOf
  <2>4. QED
    BY <1>10, <2>2, <2>3 DEF CloseOutput
<1>11. QED
  BY <1>3, <1>4, <1>5, <1>6, <1>7, <1>8, <1>9, <1>10, WriteTakenRefines DEF Next, MainStep

\* The threaded encoder implements FlacStream: seen from outside, whole frames
\* are appended in order, STREAMINFO is rewritten last, and success is reported
\* only when the file holds every sample of the input.
THEOREM EncoderImplementsStream == Spec => ImplementsStream
<1>1. Init => Stream!StreamInit
  <2>1. Init => TypeOK
    BY InitEstablishes DEF IInv
  <2>2. Init => LengthOf(input) \in Nat
    BY <2>1, LengthType
  <2>3. QED
    BY <2>2 DEF Init, Stream!StreamInit, Placeholder, Stream!Placeholder
<1>2. IInv /\ IInv' /\ [Next]_vars => [Stream!StreamNext]_(Stream!streamVars)
  BY StepRefines
<1>3. QED
  BY <1>1, <1>2, Invariance, PTL DEF Spec, ImplementsStream, Stream!StreamSpec

-----------------------------------------------------------------------------
(* The consumer never sleeps through its result or the exception. *)

\* While the main thread sleeps it stays where it called take.
SleepInv ==
  consumer = "asleep" =>
    /\ encodedFrame = {}
    /\ \/ pc \in {"submit", "submitTail"} /\ ThreadCount # 1 /\ BacklogFull
       \/ pc = "drain" /\ nextToWrite # frameNumber

WakeupInv == SleepInv /\ NoLostResultWakeup

LEMMA WakeupMainStep ==
  ASSUME TypeOK, WakeupInv, MainStep
  PROVE  WakeupInv'
<1> USE DEF WakeupInv, SleepInv, NoLostResultWakeup
<1>1. CASE consumer = "asleep"
  <2>1. FALSE
    BY <1>1 DEF MainStep, ReadChunk, FinishReading, FeedGroup, FinishChunk, SubmitInline,
       MakeRoom, SubmitFrame, NotifyWorker, Drain, FinishDrain, RewriteStreamInfo,
       CloseOutput, StopWorkers, WakeWorkers, JoinWorkers, TakeNextFrame,
       WriteTakenFrame, ConsumerSleeps, Take
  <2>2. QED
    BY <2>1
<1>2. CASE consumer # "asleep"
  <2>1. CASE (MakeRoom \/ Drain) /\ ConsumerSleeps(nextToWrite) /\ UNCHANGED mainVars
    <3>1. /\ UNCHANGED <<nextToWrite, frameNumber, inFlight, encodedFrame, pc, results, exception>>
          /\ ~exception /\ Ready(nextToWrite) = {} /\ encodedFrame = {}
      BY <2>1 DEF MakeRoom, Drain, TakeNextFrame, ConsumerSleeps, mainVars, frameVars, outputVars, flushVars
    <3>2. Ready(nextToWrite)' = Ready(nextToWrite)
      BY <3>1 DEF Ready
    <3>3. BacklogFull => BacklogFull'
      BY <3>1 DEF BacklogFull, MaxPending
    <3>4. SleepInv'
      BY <2>1, <3>1, <3>3 DEF MakeRoom, Drain
    <3>5. NoLostResultWakeup'
      BY <3>1, <3>2
    <3>6. QED
      BY <3>4, <3>5
  <2>2. CASE consumer' = consumer
    BY <1>2, <2>2
  <2>3. TakeNextFrame => \/ ConsumerSleeps(nextToWrite) /\ UNCHANGED mainVars
                         \/ consumer' = consumer
    BY DEF TakeNextFrame, Take, poolVars
  <2>4. ~(MakeRoom \/ Drain) => consumer' = consumer
    BY DEF MainStep, ReadChunk, FinishReading, FeedGroup, FinishChunk, SubmitInline,
       SubmitFrame, WriteTakenFrame, NotifyWorker, FinishDrain, RewriteStreamInfo, CloseOutput,
       StopWorkers, WakeWorkers, JoinWorkers, Submit, NotifyOneWorker, StopPool, NotifyAllWorkers, poolVars
  <2>5. QED
    BY <2>1, <2>2, <2>3, <2>4 DEF MakeRoom, Drain
<1>3. QED
  BY <1>1, <1>2

LEMMA WakeupPoolStep ==
  ASSUME TypeOK, WakeupInv, PoolStep
  PROVE  WakeupInv'
<1> USE DEF WakeupInv, SleepInv, NoLostResultWakeup, Ready, In, Goto
<1>1. UNCHANGED mainVars
  BY DEF PoolStep
<1>2. SleepInv'
  BY <1>1 DEF PoolStep, SpuriousWakeup, WorkerStep, WorkerSleeps, WorkerPops, WorkerExits,
     WorkerEncodes, WorkerNotifiesResult, WorkerFails, WorkerWakesPool, WorkerSignalsFailure,
     mainVars, frameVars, outputVars, flushVars, BacklogFull
<1>3. nextToWrite' = nextToWrite
  BY <1>1 DEF mainVars, outputVars, flushVars
<1>4. ASSUME NEW w \in Workers, WorkerStep(w)
      PROVE  NoLostResultWakeup'
  <2> USE <1>3, <1>4 DEF TypeOK
  <2>1. CASE WorkerSleeps(w) \/ WorkerPops(w) \/ WorkerExits(w)
    BY <2>1 DEF WorkerSleeps, WorkerPops, WorkerExits
  <2>2. CASE WorkerEncodes(w)
    BY <2>2 DEF WorkerEncodes
  <2>3. CASE WorkerNotifiesResult(w) \/ WorkerSignalsFailure(w)
    BY <2>3 DEF WorkerNotifiesResult, WorkerSignalsFailure
  <2>4. CASE WorkerFails(w)
    BY <2>4 DEF WorkerFails
  <2>5. CASE WorkerWakesPool(w)
    BY <2>5 DEF WorkerWakesPool, WakeAllWorkers
  <2>6. QED
    BY <2>1, <2>2, <2>3, <2>4, <2>5 DEF WorkerStep
<1>5. ASSUME SpuriousWakeup
      PROVE  NoLostResultWakeup'
  <2>1. /\ UNCHANGED <<results, exception>>
        /\ consumer' = "asleep" => consumer = "asleep"
    BY <1>5 DEF SpuriousWakeup
  <2>2. \A w \in Workers : worker[w] # "asleep" => worker'[w] = worker[w]
    BY <1>5 DEF SpuriousWakeup, TypeOK
  <2>3. QED
    BY <1>3, <2>1, <2>2
<1>6. QED
  BY <1>2, <1>4, <1>5 DEF PoolStep

\* A main thread asleep in take although its result or the exception is there
\* always has a worker about to notify it, so no wakeup is lost.
THEOREM ResultWakeups == Spec => []NoLostResultWakeup
<1>1. Init => WakeupInv
  BY DEF Init, PoolInit, WakeupInv, SleepInv, NoLostResultWakeup
<1>2. TypeOK /\ WakeupInv /\ [Next]_vars => WakeupInv'
  <2>1. WakeupInv /\ UNCHANGED vars => WakeupInv'
    BY DEF WakeupInv, SleepInv, NoLostResultWakeup, Ready, In, vars, poolVars, mainVars,
       frameVars, outputVars, flushVars, BacklogFull
  <2>2. QED
    BY <2>1, WakeupMainStep, WakeupPoolStep DEF Next, Returned
<1>3. WakeupInv => NoLostResultWakeup
  BY DEF WakeupInv
<1>4. QED
  BY <1>1, <1>2, <1>3, TypeCorrect, PTL DEF Spec

-----------------------------------------------------------------------------
(* The inductive invariant.  Counting alone is not inductive: a frame that *)
(* moves keeps the count only if it is not in its new place already, so    *)
(* the places must be disjoint (PlacesInv), and a frame that is submitted  *)
(* must differ from all the others (NewInv).  A frame in hand has left.    *)

NewInv == \A f : InPool(f) => f.number < frameNumber

Healthy == ~stopping /\ verdict # "error"
Total == Len(jobs) + Cardinality(HeldFrames) + Cardinality(results)

TotalInv ==
  /\ IsFiniteSet(HeldFrames) /\ IsFiniteSet(results)
  /\ Total <= inFlight /\ inFlight <= MaxPending
  /\ encodedFrame # {} => inFlight < MaxPending
  /\ Healthy => Total = inFlight

\* The number n is that of a frame in the pool.
IsOutstanding(n) == \E f : InPool(f) /\ f.number = n

Expected(n) == ThreadCount # 1 /\ n \in NextToTake .. frameNumber - 1

NumbersInv == Healthy => \A n : IsOutstanding(n) <=> Expected(n)

PoolInv == PlacesInv /\ NewInv /\ TotalInv /\ NumbersInv

LEMMA FramePoolTypes == TypeOK => PlaceTypes(Frames)
  BY DEF TypeOK, PlaceTypes

LEMMA PoolInvInit == Init => PoolInv
<1> SUFFICES ASSUME Init PROVE PoolInv
  OBVIOUS
<1> USE DEF Init, PoolInit
<1>1. PlacesInv /\ \A f : ~InPool(f)
  BY DEF PlacesInv, OnceInv, HeldInv, InPool, JobPlaces
<1>2. HeldFrames = {}
  BY DEF HeldFrames
<1>3. TotalInv
  BY <1>2, FS_EmptySet, EncoderAssumption DEF TotalInv, Total, MaxPending
<1>4. NewInv /\ NumbersInv
  BY <1>1 DEF NewInv, NumbersInv, IsOutstanding, Expected, NextToTake
<1>5. QED
  BY <1>1, <1>3, <1>4 DEF PoolInv

-----------------------------------------------------------------------------
(* Steps of the workers. *)

\* Frames that only move, or vanish from a pool that is stopping.
LEMMA MovesPoolInv ==
  ASSUME PoolInv, PlacesInv', TotalInv', UNCHANGED <<frameNumber, NextToTake>>,
         \A f : InPool(f)' => InPool(f),
         Healthy' => Healthy /\ \A f : InPool(f)' <=> InPool(f)
  PROVE  PoolInv'
<1>1. NewInv'
  BY DEF PoolInv, NewInv
<1>2. NumbersInv'
  BY DEF PoolInv, NumbersInv, IsOutstanding, Expected
<1>3. QED
  BY <1>1, <1>2 DEF PoolInv

\* Steps that leave every place alone.
LEMMA PoolInvStable ==
  ASSUME PoolInv, UNCHANGED <<jobs, results, holding, frameNumber, NextToTake, inFlight>>,
         encodedFrame' \subseteq encodedFrame,
         \A w \in Workers : worker'[w] = "encoding" <=> worker[w] = "encoding",
         Healthy' => Healthy
  PROVE  PoolInv'
<1>1. PlacesInv' /\ \A f : InPool(f)' <=> InPool(f)
  BY PlacesStable DEF PoolInv
<1>2. HeldFrames' = HeldFrames
  BY DEF HeldFrames
<1>3. TotalInv'
  BY <1>2 DEF PoolInv, TotalInv, Total, MaxPending
<1>4. QED
  BY <1>1, <1>3, MovesPoolInv

LEMMA PopsPoolInv ==
  ASSUME TypeOK, PoolInv, NEW w \in Workers, WorkerPops(w), UNCHANGED mainVars
  PROVE  PoolInv'
<1> DEFINE f == Head(jobs)
<1>1. /\ f = jobs[1] /\ 1 \in JobPlaces /\ Len(jobs) \in Nat /\ Len(jobs') = Len(jobs) - 1
  <2>1. jobs \in Seq(Frames) /\ jobs # <<>> /\ jobs' = Tail(jobs)
    BY DEF TypeOK, WorkerPops
  <2>2. QED
    BY <2>1, TailOfJobs
<1>2. /\ holding[w] = {} /\ holding'[w] = {f}
      /\ \A v \in Workers : v # w => holding'[v] = holding[v]
  BY DEF TypeOK, WorkerPops, Goto, PoolInv, PlacesInv, HeldInv
<1>3. UNCHANGED <<results, stopping, frameNumber, NextToTake, inFlight, encodedFrame, verdict>>
  BY DEF WorkerPops, mainVars, frameVars, outputVars, flushVars, NextToTake
<1>4. TotalInv'
  <2>1. f \notin HeldFrames /\ HeldFrames' = HeldFrames \cup {f}
    BY <1>1, <1>2 DEF HeldFrames, PoolInv, PlacesInv, OnceInv
  <2>2. /\ IsFiniteSet(HeldFrames') /\ Cardinality(HeldFrames') = Cardinality(HeldFrames) + 1
        /\ Cardinality(HeldFrames) \in Nat /\ Cardinality(results) \in Nat
    BY <2>1, FS_AddElement, FS_CardinalityType DEF PoolInv, TotalInv
  <2>3. Total' = Total
    BY <1>1, <1>3, <2>2 DEF Total
  <2>4. QED
    BY <1>3, <2>2, <2>3 DEF PoolInv, TotalInv, Healthy, MaxPending
<1>5. PlacesInv' /\ \A g : InPool(g)' <=> InPool(g)
  BY PopPlaces, FramePoolTypes DEF PoolInv
<1>6. QED
  BY <1>3, <1>4, <1>5, MovesPoolInv DEF Healthy

\* The frame a worker gives up is counted no more among the held ones.
LEMMA ReleasedCount ==
  ASSUME TypeOK, PoolInv, NEW w \in Workers, worker[w] = "encoding",
         holding' = [holding EXCEPT ![w] = {}]
  PROVE  \E f : /\ holding[w] = {f} /\ f \notin results
                /\ IsFiniteSet(HeldFrames')
                /\ Cardinality(HeldFrames') = Cardinality(HeldFrames) - 1
                /\ Cardinality(HeldFrames) \in Nat /\ Cardinality(results) \in Nat
<1>1. /\ \A v \in Workers : v # w => holding'[v] = holding[v]
      /\ holding'[w] = {}
  BY DEF TypeOK
<1>2. PICK f : holding[w] = {f}
  BY DEF PoolInv, PlacesInv, HeldInv
<1>3. f \notin results /\ f \in HeldFrames /\ \A v \in Workers : v # w => f \notin holding[v]
  BY <1>2 DEF PoolInv, PlacesInv, OnceInv, HeldFrames
<1>4. HeldFrames' = HeldFrames \ {f}
  BY <1>1, <1>2, <1>3 DEF HeldFrames
<1>5. /\ IsFiniteSet(HeldFrames') /\ Cardinality(HeldFrames') = Cardinality(HeldFrames) - 1
      /\ Cardinality(HeldFrames) \in Nat /\ Cardinality(results) \in Nat
  BY <1>3, <1>4, FS_RemoveElement, FS_CardinalityType DEF PoolInv, TotalInv
<1>6. QED
  BY <1>2, <1>3, <1>5

LEMMA EncodesPoolInv ==
  ASSUME TypeOK, PoolInv, NEW w \in Workers, WorkerEncodes(w), UNCHANGED mainVars
  PROVE  PoolInv'
<1>1. PICK f : /\ holding[w] = {f} /\ f \notin results
               /\ IsFiniteSet(HeldFrames')
               /\ Cardinality(HeldFrames') = Cardinality(HeldFrames) - 1
               /\ Cardinality(HeldFrames) \in Nat /\ Cardinality(results) \in Nat
  BY ReleasedCount DEF WorkerEncodes
<1>2. /\ results' = results \cup {f}
      /\ UNCHANGED <<jobs, stopping, frameNumber, NextToTake, inFlight, encodedFrame, verdict>>
  BY <1>1 DEF WorkerEncodes, mainVars, frameVars, outputVars, flushVars, NextToTake
<1>3. TotalInv'
  <2>1. IsFiniteSet(results') /\ Cardinality(results') = Cardinality(results) + 1
    BY <1>1, <1>2, FS_AddElement DEF PoolInv, TotalInv
  <2>2. Total' = Total
    BY <1>1, <1>2, <2>1 DEF Total, TypeOK
  <2>3. QED
    BY <1>1, <1>2, <2>1, <2>2 DEF PoolInv, TotalInv, Healthy, MaxPending
<1>4. PlacesInv' /\ \A g : InPool(g)' <=> InPool(g)
  BY EncodePlaces, FramePoolTypes DEF PoolInv
<1>5. QED
  BY <1>2, <1>3, <1>4, MovesPoolInv DEF Healthy

LEMMA FailsPoolInv ==
  ASSUME TypeOK, PoolInv, NEW w \in Workers, WorkerFails(w), UNCHANGED mainVars
  PROVE  PoolInv'
<1>1. /\ IsFiniteSet(HeldFrames')
      /\ Cardinality(HeldFrames') = Cardinality(HeldFrames) - 1
      /\ Cardinality(HeldFrames) \in Nat /\ Cardinality(results) \in Nat
  BY ReleasedCount DEF WorkerFails
<1>2. /\ UNCHANGED <<jobs, results, frameNumber, NextToTake, inFlight, encodedFrame>>
      /\ stopping'
  BY DEF WorkerFails, mainVars, frameVars, outputVars, flushVars, NextToTake
<1>3. TotalInv'
  BY <1>1, <1>2 DEF PoolInv, TotalInv, Total, Healthy, MaxPending, TypeOK
<1>4. PlacesInv' /\ \A f : InPool(f)' => InPool(f)
  BY FailPlaces, FramePoolTypes DEF PoolInv
<1>5. QED
  BY <1>2, <1>3, <1>4, MovesPoolInv DEF Healthy

LEMMA PoolStepPoolInv ==
  ASSUME TypeOK, PoolInv, PoolStep
  PROVE  PoolInv'
<1>1. /\ UNCHANGED mainVars
      /\ UNCHANGED <<frameNumber, NextToTake, inFlight, encodedFrame, verdict>>
  BY DEF PoolStep, mainVars, frameVars, outputVars, flushVars, NextToTake
<1>2. CASE SpuriousWakeup
  <2>1. /\ UNCHANGED <<jobs, results, holding, stopping>>
        /\ \A w \in Workers : worker'[w] = "encoding" <=> worker[w] = "encoding"
    BY <1>2 DEF SpuriousWakeup, Goto, In, TypeOK
  <2>2. QED
    BY <1>1, <2>1, PoolInvStable DEF Healthy
<1>3. ASSUME NEW w \in Workers, WorkerStep(w)
      PROVE  PoolInv'
  <2>1. CASE WorkerSleeps(w) \/ WorkerExits(w) \/ WorkerNotifiesResult(w)
             \/ WorkerWakesPool(w) \/ WorkerSignalsFailure(w)
    <3>1. /\ UNCHANGED <<jobs, results, holding, stopping>>
          /\ \A v \in Workers : worker'[v] = "encoding" <=> worker[v] = "encoding"
      BY <2>1 DEF WorkerSleeps, WorkerExits, WorkerNotifiesResult, WorkerWakesPool,
                  WorkerSignalsFailure, WakeAllWorkers, Goto, TypeOK
    <3>2. QED
      BY <1>1, <3>1, PoolInvStable DEF Healthy
  <2>2. QED
    BY <1>1, <1>3, <2>1, PopsPoolInv, EncodesPoolInv, FailsPoolInv DEF WorkerStep
<1>4. QED
  BY <1>2, <1>3 DEF PoolStep

-----------------------------------------------------------------------------
(* Steps of the main thread. *)

\* Whatever it does, the pool does not become healthy again.
LEMMA HealthIsLost ==
  ASSUME IInv, MainStep, Healthy'
  PROVE  Healthy
<1>1. VerdictInv /\ TypeOK
  BY DEF IInv
<1>2. verdict = "error" => verdict' = "error"
  BY <1>1 DEF VerdictInv, Leaving, MainStep, ReadChunk, FinishReading, FeedGroup, FinishChunk,
     SubmitInline, MakeRoom, SubmitFrame, NotifyWorker, Drain, FinishDrain, RewriteStreamInfo,
     CloseOutput, StopWorkers, WakeWorkers, JoinWorkers, WriteTakenFrame, Throw
<1>3. stopping => stopping'
  BY DEF MainStep, ReadChunk, FinishReading, FeedGroup, FinishChunk, SubmitInline, MakeRoom,
     SubmitFrame, NotifyWorker, Drain, FinishDrain, RewriteStreamInfo, CloseOutput, StopWorkers,
     WakeWorkers, JoinWorkers, TakeNextFrame, WriteTakenFrame, ConsumerSleeps, Take, Submit,
     NotifyOneWorker, StopPool, NotifyAllWorkers, poolVars
<1>4. QED
  BY <1>2, <1>3 DEF Healthy

LEMMA SubmitsPoolInv ==
  ASSUME TypeOK, PoolHonest, PoolInv, Submit(CutFrame), inFlight' = inFlight + 1, ~BacklogFull,
         frameNumber' = frameNumber + 1, UNCHANGED <<NextToTake, encodedFrame, verdict>>,
         CutFrame \in Frames, ThreadCount # 1, encodedFrame = {},
         Healthy => NextToTake <= frameNumber
  PROVE  PoolInv'
<1>1. CutFrame.number = frameNumber
  BY DEF CutFrame
<1>2. frameNumber \in Nat /\ NextToTake \in Nat /\ inFlight \in Nat
  BY DEF TypeOK, NextToTake
<1>3. ~InPool(CutFrame)
  BY <1>1, <1>2 DEF PoolInv, NewInv
<1>4. PlacesInv' /\ \A g : InPool(g)' <=> InPool(g) \/ g = CutFrame
  BY <1>3, SubmitPlaces, FramePoolTypes DEF PoolInv
<1>5. \A g : InPool(g) => g \in Frames /\ g.number \in Nat
  BY FrameType DEF InPool, TypeOK, JobPlaces
<1>6. NewInv'
  BY <1>1, <1>2, <1>4, <1>5 DEF PoolInv, NewInv
<1>7. TotalInv'
  <2>1. UNCHANGED <<results, stopping, holding>> /\ Len(jobs') = Len(jobs) + 1 /\ Len(jobs) \in Nat
    BY DEF Submit, TypeOK
  <2>2. HeldFrames' = HeldFrames
    BY <2>1 DEF HeldFrames
  <2>3. Cardinality(HeldFrames) \in Nat /\ Cardinality(results) \in Nat
    BY FS_CardinalityType DEF PoolInv, TotalInv
  <2>4. Total' = Total + 1 /\ Total \in Nat
    <3>1. /\ Cardinality(HeldFrames)' = Cardinality(HeldFrames)
          /\ Cardinality(results)' = Cardinality(results)
      BY <2>1, <2>2
    <3>2. Len(jobs)' = Len(jobs) + 1 /\ Len(jobs) \in Nat
      BY <2>1
    <3>3. QED
      BY <2>3, <3>1, <3>2, SMTT(20) DEF Total
  <2>5. inFlight' <= MaxPending' /\ MaxPending' = MaxPending
    BY <1>2, EncoderAssumption DEF BacklogFull, MaxPending
  <2>6. QED
    BY <1>2, <2>1, <2>2, <2>4, <2>5 DEF PoolInv, TotalInv, Healthy
<1>8. NumbersInv'
  <2>1. \A n : IsOutstanding(n)' <=> n = frameNumber \/ IsOutstanding(n)
    BY <1>1, <1>4 DEF IsOutstanding
  <2>2. Healthy => \A n : Expected(n)' <=> n = frameNumber \/ Expected(n)
    BY <1>2 DEF Expected
  <2>3. Healthy' <=> Healthy
    BY DEF Healthy, Submit
  <2>4. QED
    BY <2>1, <2>2, <2>3 DEF PoolInv, NumbersInv
<1>9. QED
  BY <1>4, <1>6, <1>7, <1>8 DEF PoolInv

\* Taking the next frame.
LEMMA TakesPoolInv ==
  ASSUME TypeOK, PoolHonest, PoolInv, NEW f \in Ready(nextToWrite), Take(f),
         encodedFrame = {}, encodedFrame' = {f},
         inFlight' = inFlight - 1, UNCHANGED <<frameNumber, nextToWrite, input, verdict>>
  PROVE  PoolInv'
<1>1. /\ f \in results /\ f.number = nextToWrite /\ results' = results \ {f}
      /\ UNCHANGED <<jobs, stopping, worker, holding>>
  BY DEF Ready, Take
<1>2. frameNumber \in Nat /\ nextToWrite \in Nat /\ inFlight \in Nat
  BY DEF TypeOK
<1>3. PlacesInv' /\ \A g : InPool(g)' <=> InPool(g) /\ g # f
  BY TakePlaces, FramePoolTypes DEF PoolInv
<1>4. /\ Healthy' => Healthy
      /\ NextToTake = nextToWrite /\ NextToTake' = nextToWrite + 1
  BY <1>1 DEF Healthy, NextToTake
<1>5. TotalInv'
  <2>1. HeldFrames' = HeldFrames
    BY <1>1 DEF HeldFrames
  <2>2. /\ Cardinality(HeldFrames) \in Nat /\ Cardinality(results) \in Nat
        /\ IsFiniteSet(results') /\ Cardinality(results') = Cardinality(results) - 1
    BY <1>1, FS_CardinalityType, FS_RemoveElement DEF PoolInv, TotalInv
  <2>3. Total' = Total - 1 /\ Total \in Int /\ MaxPending' = MaxPending /\ MaxPending \in Nat
    <3>1. /\ Cardinality(HeldFrames)' = Cardinality(HeldFrames)
          /\ Len(jobs)' = Len(jobs) /\ Len(jobs) \in Nat
      BY <1>1, <2>1 DEF TypeOK
    <3>2. Total' = Total - 1 /\ Total \in Int
      BY <2>2, <3>1, SMTT(20) DEF Total
    <3>3. QED
      BY <3>2, EncoderAssumption DEF MaxPending
  <2>4. inFlight <= MaxPending /\ Total <= inFlight /\ (Healthy => Total = inFlight)
    BY DEF PoolInv, TotalInv
  <2>5. inFlight' < MaxPending' /\ Total' <= inFlight' /\ (Healthy' => Total' = inFlight')
    BY <1>2, <1>4, <2>3, <2>4
  <2>6. inFlight' <= MaxPending'
    BY <1>2, <2>3, <2>5
  <2>7. QED
    BY <2>1, <2>2, <2>5, <2>6 DEF PoolInv, TotalInv
<1>6. NewInv'
  BY <1>3 DEF PoolInv, NewInv
<1>7. NumbersInv'
  <2>1. \A g : InPool(g) => Honest(g)
    BY DEF PoolHonest, InPool, JobPlaces
  <2>2. \A g : InPool(g) /\ g.number = nextToWrite => g = f
    BY <1>1, <2>1 DEF PoolHonest, Honest
  <2>3. \A n : IsOutstanding(n)' <=> n # nextToWrite /\ IsOutstanding(n)
    BY <1>1, <1>3, <2>2 DEF IsOutstanding
  <2>4. Healthy' => \A n : Expected(n)' <=> n # nextToWrite /\ Expected(n)
    BY <1>2, <1>4 DEF Expected
  <2>5. QED
    BY <1>4, <2>3, <2>4 DEF PoolInv, NumbersInv
<1>8. QED
  BY <1>3, <1>5, <1>6, <1>7 DEF PoolInv

\* One thread: nothing is in the pool, whatever the frames are numbered.
LEMMA InlinePoolInv ==
  ASSUME TypeOK, PoolInv, SubmitInline
  PROVE  PoolInv'
<1>1. /\ UNCHANGED <<jobs, results, stopping, worker, holding, inFlight, encodedFrame>>
      /\ ThreadCount = 1
      /\ frameNumber' \in {frameNumber, frameNumber + 1}
      /\ verdict' = verdict \/ verdict' = "error"
  BY DEF SubmitInline, poolVars, CutDone, Throw, frameVars, flushVars
<1>2. PlacesInv' /\ \A f : InPool(f)' <=> InPool(f)
  BY <1>1, PlacesStable DEF PoolInv
<1>3. NewInv'
  <2>1. frameNumber \in Nat /\ \A g : InPool(g) => g.number \in Nat
    BY FrameType DEF InPool, TypeOK, JobPlaces
  <2>2. QED
    BY <1>1, <1>2, <2>1 DEF PoolInv, NewInv
<1>4. TotalInv'
  <2>1. HeldFrames' = HeldFrames
    BY <1>1 DEF HeldFrames
  <2>2. QED
    BY <1>1, <2>1 DEF PoolInv, TotalInv, Total, MaxPending, Healthy
<1>5. NumbersInv'
  BY <1>1, <1>2 DEF PoolInv, NumbersInv, Healthy, IsOutstanding, Expected
<1>6. QED
  BY <1>2, <1>3, <1>4, <1>5 DEF PoolInv

LEMMA FlushPoolInv ==
  ASSUME IInv, PoolInv, TakeNextFrame, Healthy' => Healthy
  PROVE  PoolInv'
<1>1. TypeOK /\ PoolHonest /\ encodedFrame = {}
  BY DEF IInv, TakeNextFrame
<1>2. CASE \/ ConsumerSleeps(nextToWrite) /\ UNCHANGED mainVars
           \/ UNCHANGED <<poolVars, frameVars, outputVars, flushVars>>
  <2>1. UNCHANGED <<jobs, results, holding, worker, frameNumber, NextToTake, inFlight, encodedFrame>>
    BY <1>2 DEF ConsumerSleeps, mainVars, frameVars, outputVars, flushVars, poolVars, NextToTake
  <2>2. QED
    BY <2>1, PoolInvStable
<1>3. CASE /\ \E frame \in Ready(nextToWrite) :
                Take(frame) /\ encodedFrame' = {frame}
           /\ inFlight' = inFlight - 1
           /\ UNCHANGED <<inputVars, frameVars, outputVars, verdict, pc>>
  <2>1. PICK f \in Ready(nextToWrite) : Take(f) /\ encodedFrame' = {f}
    BY <1>3
  <2>2. inFlight' = inFlight - 1 /\ UNCHANGED <<frameNumber, nextToWrite, input, verdict>>
    BY <1>3 DEF inputVars, frameVars, outputVars
  <2>3. QED
    BY <1>1, <2>1, <2>2, TakesPoolInv
<1>4. QED
  BY <1>2, <1>3 DEF TakeNextFrame

\* Writing it: it had left the pool before, whether the write succeeds or not.
LEMMA WritesPoolInv ==
  ASSUME IInv, PoolInv, WriteTakenFrame, Healthy' => Healthy
  PROVE  PoolInv'
<1>1. /\ UNCHANGED <<jobs, results, holding, worker, frameNumber, inFlight>>
      /\ encodedFrame # {} /\ encodedFrame' = {}
      /\ \/ nextToWrite' = nextToWrite + 1
         \/ verdict' = "error"
  BY DEF WriteTakenFrame, WriteFrame, Throw, poolVars, frameVars
<1>2. CASE nextToWrite' = nextToWrite + 1
  <2>1. NextToTake' = NextToTake
    BY <1>1, <1>2 DEF NextToTake
  <2>2. QED
    BY <1>1, <2>1, PoolInvStable
<1>3. CASE verdict' = "error"
  <2>1. PlacesInv' /\ \A f : InPool(f)' <=> InPool(f)
    BY <1>1, PlacesStable DEF PoolInv
  <2>2. HeldFrames' = HeldFrames /\ ~Healthy'
    BY <1>1, <1>3 DEF HeldFrames, Healthy
  <2>3. TotalInv'
    BY <1>1, <2>2 DEF PoolInv, TotalInv, Total, MaxPending
  <2>4. NewInv' /\ NumbersInv'
    BY <1>1, <2>1, <2>2 DEF PoolInv, NewInv, NumbersInv
  <2>5. QED
    BY <2>1, <2>3, <2>4 DEF PoolInv
<1>4. QED
  BY <1>1, <1>2, <1>3

LEMMA MainStepPoolInv ==
  ASSUME IInv, PoolInv, MainStep
  PROVE  PoolInv'
<1>1. TypeOK /\ PoolHonest /\ VerdictInv /\ (Healthy' => Healthy)
  BY HealthIsLost DEF IInv
<1>2. CASE MakeRoom \/ Drain \/ WriteTakenFrame
  BY <1>1, <1>2, FlushPoolInv, WritesPoolInv DEF MakeRoom, Drain
<1>3. CASE SubmitInline
  BY <1>1, <1>3, InlinePoolInv
<1>4. CASE SubmitFrame
  <2>1. verdict = "none" /\ ReaderInv /\ FramingInv /\ CountInv
    BY <1>4 DEF SubmitFrame, IInv, VerdictInv, Leaving
  <2>2. CASE exception /\ UNCHANGED <<poolVars, frameVars, outputVars, flushVars>>
    <3>1. UNCHANGED <<jobs, results, holding, worker, frameNumber, NextToTake, inFlight, encodedFrame>>
      BY <1>4, <2>2 DEF SubmitFrame, poolVars, frameVars, outputVars, flushVars, NextToTake
    <3>2. QED
      BY <1>1, <3>1, PoolInvStable
  <2>3. CASE Submit(CutFrame) /\ inFlight' = inFlight + 1 /\ CutDone /\ UNCHANGED verdict
    <3>1. CutFrame \in Frames
      BY <1>1, <1>4, <2>1, CutFrameHonest DEF SubmitFrame
    <3>2. /\ ThreadCount # 1 /\ ~BacklogFull /\ encodedFrame = {}
          /\ frameNumber' = frameNumber + 1 /\ UNCHANGED <<nextToWrite, encodedFrame, verdict>>
      BY <1>4, <2>3 DEF SubmitFrame, CutDone, outputVars
    <3>3. UNCHANGED NextToTake /\ NextToTake <= frameNumber
      BY <2>1, <3>2 DEF NextToTake, CountInv
    <3>4. QED
      BY <1>1, <2>3, <3>1, <3>2, <3>3, SubmitsPoolInv
  <2>4. QED
    BY <1>4, <2>2, <2>3 DEF SubmitFrame, flushVars
<1>5. CASE NotifyWorker \/ WakeWorkers
  <2>1. /\ UNCHANGED <<jobs, results, holding, frameNumber, NextToTake, inFlight, encodedFrame>>
        /\ \A w \in Workers : worker'[w] = "encoding" <=> worker[w] = "encoding"
    BY <1>1, <1>5 DEF NotifyWorker, WakeWorkers, NotifyOneWorker, NotifyAllWorkers, In, Goto,
       WakeAllWorkers, TypeOK, frameVars, outputVars, flushVars, NextToTake
  <2>2. QED
    BY <1>1, <2>1, PoolInvStable
<1>6. CASE ReadChunk \/ FinishReading \/ FeedGroup \/ FinishChunk \/ FinishDrain
           \/ RewriteStreamInfo \/ CloseOutput \/ StopWorkers \/ JoinWorkers
  <2>1. UNCHANGED <<jobs, results, holding, worker, frameNumber, NextToTake, inFlight, encodedFrame>>
    BY <1>6 DEF ReadChunk, FinishReading, FeedGroup, FinishChunk, FinishDrain, RewriteStreamInfo,
       CloseOutput, StopWorkers, JoinWorkers, StopPool, poolVars, frameVars, outputVars, flushVars,
       NextToTake
  <2>2. QED
    BY <1>1, <2>1, PoolInvStable
<1>7. QED
  BY <1>2, <1>3, <1>4, <1>5, <1>6 DEF MainStep

\* The places of the frames, in every reachable state.
THEOREM PoolInvariance == Spec => []PoolInv
<1>1. IInv /\ PoolInv /\ [Next]_vars => PoolInv'
  <2> SUFFICES ASSUME IInv, PoolInv, [Next]_vars PROVE PoolInv'
    OBVIOUS
  <2>1. CASE UNCHANGED vars
    <3>1. UNCHANGED <<jobs, results, holding, worker, stopping, verdict,
                      frameNumber, NextToTake, inFlight, encodedFrame>>
      BY <2>1 DEF vars, poolVars, mainVars, frameVars, outputVars, flushVars, NextToTake
    <3>2. QED
      BY <3>1, PoolInvStable DEF Healthy
  <2>2. QED
    BY <2>1, MainStepPoolInv, PoolStepPoolInv DEF Next, Returned, IInv
<1>2. QED
  BY <1>1, PoolInvInit, Invariance, PTL DEF Spec

-----------------------------------------------------------------------------
(* What follows from it. *)

\* While the pool is healthy the frames submitted and not yet written are each in one
\* place: in the queue, with one worker, among the results, or in the hands of the main
\* thread.
THEOREM NothingLost == Spec => []NoFrameLost
<1>1. IInv /\ PoolInv => NoFrameLost
  <2> SUFFICES ASSUME IInv, PoolInv, Healthy
               PROVE  /\ {f.number : f \in Outstanding} =
                           IF ThreadCount = 1 THEN {} ELSE nextToWrite .. (frameNumber - 1)
                      /\ Total = inFlight
    BY DEF NoFrameLost, Healthy, Total
  <2>1. /\ nextToWrite \in Nat /\ frameNumber \in Nat /\ HandInv
        /\ encodedFrame # {} => NextToTake <= frameNumber
    BY DEF IInv, TypeOK, HandInv, VerdictInv, Leaving, CountInv
  <2>2. \A n : n \in {f.number : f \in Outstanding} <=>
               IsOutstanding(n) \/ \E f \in encodedFrame : f.number = n
    BY DEF Outstanding, IsOutstanding, HeldFrames, InPool, JobPlaces
  <2>3. \A n : IsOutstanding(n) <=> Expected(n)
    BY DEF PoolInv, NumbersInv
  <2>4. CASE encodedFrame = {}
    BY <2>2, <2>3, <2>4 DEF Expected, NextToTake, PoolInv, TotalInv
  <2>5. CASE encodedFrame # {}
    <3>1. ThreadCount # 1 /\ \A n : (\E f \in encodedFrame : f.number = n) <=> n = nextToWrite
      BY <2>1, <2>5 DEF HandInv
    <3>2. NextToTake = nextToWrite + 1 /\ nextToWrite + 1 <= frameNumber
      BY <2>1, <2>5 DEF NextToTake
    <3>3. \A n : n \in nextToWrite .. (frameNumber - 1) <=> Expected(n) \/ n = nextToWrite
      BY <2>1, <3>1, <3>2 DEF Expected
    <3>4. {f.number : f \in Outstanding} = nextToWrite .. (frameNumber - 1)
      BY <2>2, <2>3, <3>1, <3>3
    <3>5. QED
      BY <3>1, <3>4 DEF PoolInv, TotalInv
  <2>6. QED
    BY <2>4, <2>5
<1>2. QED
  BY <1>1, Invariance, PoolInvariance, PTL

\* A union has at most the elements of its parts.
LEMMA UnionBound ==
  ASSUME NEW S, NEW T, IsFiniteSet(S), IsFiniteSet(T)
  PROVE  /\ IsFiniteSet(S \cup T) /\ Cardinality(S \cup T) \in Nat
         /\ Cardinality(S \cup T) <= Cardinality(S) + Cardinality(T)
<1>1. /\ IsFiniteSet(S \cup T)
      /\ Cardinality(S \cup T) = Cardinality(S) + Cardinality(T) - Cardinality(S \cap T)
  BY FS_Union
<1>2. Cardinality(S) \in Nat /\ Cardinality(T) \in Nat
  BY FS_CardinalityType
<1>3. IsFiniteSet(S \cap T)
  BY FS_Intersection
<1>4. Cardinality(S \cap T) \in Nat /\ Cardinality(S \cup T) \in Nat
  BY <1>1, <1>3, FS_CardinalityType
<1>5. QED
  BY <1>1, <1>2, <1>4

\* At most 2 * ThreadCount frames are in the pool or in hand, after a failure too.
THEOREM BacklogStaysBounded == Spec => []BacklogBounded
<1>1. IInv /\ PoolInv => BacklogBounded
  <2> SUFFICES ASSUME IInv, PoolInv PROVE Cardinality(Outstanding) <= MaxPending
    BY DEF BacklogBounded
  <2>0. TypeOK /\ HandInv
    BY DEF IInv
  <2> DEFINE Queued == {jobs[i] : i \in 1 .. Len(jobs)}
  <2>1. Len(jobs) \in Nat /\ IsFiniteSet(1 .. Len(jobs)) /\ Cardinality(1 .. Len(jobs)) = Len(jobs)
    <3>1. Len(jobs) \in Nat
      BY <2>0 DEF TypeOK
    <3>2. /\ IsFiniteSet(1 .. Len(jobs))
          /\ Cardinality(1 .. Len(jobs)) = IF 1 > Len(jobs) THEN 0 ELSE Len(jobs) - 1 + 1
      BY <3>1, FS_Interval, SMTT(20)
    <3>3. QED
      BY <3>1, <3>2
  <2>2. [i \in 1 .. Len(jobs) |-> jobs[i]] \in Surjection(1 .. Len(jobs), Queued)
    BY DEF Surjection
  <2> HIDE DEF Queued
  <2>3. IsFiniteSet(Queued) /\ Cardinality(Queued) <= Len(jobs) /\ Cardinality(Queued) \in Nat
    <3>1. IsFiniteSet(Queued) /\ Cardinality(Queued) <= Cardinality(1 .. Len(jobs))
      BY <2>1, <2>2, FS_Surjection
    <3>2. QED
      BY <2>1, <3>1, FS_CardinalityType
  <2>4. /\ IsFiniteSet(HeldFrames) /\ IsFiniteSet(results)
        /\ Cardinality(HeldFrames) \in Nat /\ Cardinality(results) \in Nat
    BY FS_CardinalityType DEF PoolInv, TotalInv
  <2>5. /\ IsFiniteSet(Queued \cup HeldFrames)
        /\ Cardinality(Queued \cup HeldFrames) <= Cardinality(Queued) + Cardinality(HeldFrames)
        /\ Cardinality(Queued \cup HeldFrames) \in Nat
    BY <2>3, <2>4, UnionBound
  <2>6. Cardinality((Queued \cup HeldFrames) \cup results)
          <= Cardinality(Queued \cup HeldFrames) + Cardinality(results)
        /\ Cardinality((Queued \cup HeldFrames) \cup results) \in Nat
    BY <2>4, <2>5, UnionBound
  <2>7. /\ IsFiniteSet((Queued \cup HeldFrames) \cup results)
        /\ IsFiniteSet(encodedFrame) /\ Cardinality(encodedFrame) \in {0, 1}
        /\ encodedFrame = {} => Cardinality(encodedFrame) = 0
    <3>1. IsFiniteSet((Queued \cup HeldFrames) \cup results)
      BY <2>4, <2>5, UnionBound
    <3>2. IsFiniteSet({}) /\ Cardinality({}) = 0
      BY FS_EmptySet
    <3>3. ASSUME NEW f PROVE IsFiniteSet({f}) /\ Cardinality({f}) = 1
      BY FS_Singleton
    <3>4. encodedFrame = {} \/ \E f : encodedFrame = {f}
      BY <2>0 DEF HandInv
    <3>5. QED
      BY <3>1, <3>2, <3>3, <3>4
  <2>8. Cardinality(((Queued \cup HeldFrames) \cup results) \cup encodedFrame)
          <= Cardinality((Queued \cup HeldFrames) \cup results) + Cardinality(encodedFrame)
        /\ Cardinality(((Queued \cup HeldFrames) \cup results) \cup encodedFrame) \in Nat
    BY <2>7, UnionBound
  <2>9. Outstanding = ((Queued \cup HeldFrames) \cup results) \cup encodedFrame
    BY DEF Outstanding, Queued
  <2>10. inFlight \in Nat /\ MaxPending \in Nat /\ Total \in Nat /\ Total <= inFlight
         /\ inFlight <= MaxPending /\ (encodedFrame # {} => inFlight < MaxPending)
    BY <2>0, <2>1, <2>4, EncoderAssumption DEF PoolInv, TotalInv, Total, MaxPending, TypeOK
  <2>11. Total + Cardinality(encodedFrame) <= MaxPending
    BY <2>7, <2>10
  <2>12. QED
    BY <2>1, <2>3, <2>4, <2>5, <2>6, <2>7, <2>8, <2>9, <2>10, <2>11, SMTT(20) DEF Total
<1>2. QED
  BY <1>1, Invariance, PoolInvariance, PTL

-----------------------------------------------------------------------------
(* No worker sleeps in front of a job, nor through the end of the pool. *)

Checking == In({"checking"})
OneNotification == IF pc \in {"notify", "notifyTail"} THEN 1 ELSE 0

\* The checking workers after one of them left, or another joined them.
LEMMA CheckingCount ==
  ASSUME TypeOK, NEW w \in Workers, NEW s \in WorkerStates, Goto(w, s)
  PROVE  /\ Cardinality(Checking) \in Nat /\ Cardinality(Checking') \in Nat
         /\ s # "checking" => Cardinality(Checking') >= Cardinality(Checking) - 1
         /\ s = "checking" /\ worker[w] # "checking" =>
              Cardinality(Checking') = Cardinality(Checking) + 1
         /\ s # "checking" /\ worker[w] # "checking" => Checking' = Checking
         /\ s # "asleep" => In({"asleep"})' \subseteq In({"asleep"})
<1> USE DEF Checking, In
<1>1. worker' = [v \in Workers |-> IF v = w THEN s ELSE worker[v]]
  BY DEF TypeOK, Goto
<1>2. IsFiniteSet(Checking)
  BY FS_Subset, EncoderAssumption
<1>3. Cardinality(Checking) \in Nat /\ Cardinality({}) = 0
  BY <1>2, FS_CardinalityType, FS_EmptySet
<1>4. CASE s = "checking"
  <2>1. Checking' = Checking \cup {w}
    BY <1>1, <1>4
  <2>2. w \in Checking <=> worker[w] = "checking"
    OBVIOUS
  <2> HIDE DEF Checking
  <2>3. Cardinality(Checking') =
          IF w \in Checking THEN Cardinality(Checking) ELSE Cardinality(Checking) + 1
    BY <1>2, <2>1, FS_AddElement
  <2>4. Cardinality(Checking') \in Nat
    BY <1>3, <2>3
  <2>5. In({"asleep"})' \subseteq In({"asleep"})
    BY <1>1, <1>4
  <2>6. QED
    BY <1>3, <1>4, <2>2, <2>3, <2>4, <2>5
<1>5. CASE s # "checking"
  <2>1. Checking' = Checking \ {w}
    BY <1>1, <1>5
  <2>2. w \in Checking <=> worker[w] = "checking"
    OBVIOUS
  <2> HIDE DEF Checking
  <2>3. /\ IsFiniteSet(Checking')
        /\ Cardinality(Checking') =
             IF w \in Checking THEN Cardinality(Checking) - 1 ELSE Cardinality(Checking)
    BY <1>2, <2>1, FS_RemoveElement
  <2>4. Cardinality(Checking') \in Nat
    BY <2>3, FS_CardinalityType
  <2>5. s # "asleep" => In({"asleep"})' \subseteq In({"asleep"})
    BY <1>1
  <2>6. QED
    BY <1>3, <1>5, <2>1, <2>2, <2>3, <2>4, <2>5
<1>6. QED
  BY <1>4, <1>5

\* The two halves of NoStrandedWorker.
NoIdleJob ==
  In({"asleep"}) # {} /\ jobs # <<>> /\ ~stopping =>
    Len(jobs) <= Cardinality(Checking) + OneNotification

NoDeafWorker ==
  In({"asleep"}) # {} /\ stopping => In({"failed"}) # {} \/ pc \in {"stop", "wake"}

LEMMA StrandedWorkerStep ==
  ASSUME TypeOK, NoIdleJob, NoDeafWorker, NEW w \in Workers, WorkerStep(w), pc' = pc
  PROVE  NoIdleJob' /\ NoDeafWorker'
<1> USE DEF NoIdleJob, NoDeafWorker
<1>1. Len(jobs) \in Nat /\ OneNotification \in Nat /\ OneNotification' = OneNotification
  BY DEF TypeOK, OneNotification
<1>2. CASE WorkerSleeps(w)
  BY <1>2 DEF WorkerSleeps
<1>3. CASE WorkerWakesPool(w)
  BY <1>3 DEF WorkerWakesPool, WakeAllWorkers, In, TypeOK
<1>4. CASE WorkerFails(w)
  <2>1. stopping' /\ w \in In({"failed"})'
    BY <1>4 DEF WorkerFails, Goto, In, TypeOK
  <2>2. QED
    BY <2>1
<1>5. CASE WorkerPops(w)
  <2>1. /\ In({"asleep"})' \subseteq In({"asleep"}) /\ Cardinality(Checking') >= Cardinality(Checking) - 1
        /\ Cardinality(Checking) \in Nat /\ Cardinality(Checking') \in Nat
    BY <1>5, CheckingCount DEF WorkerPops, WorkerStates
  <2>2. ~stopping' /\ ~stopping /\ jobs # <<>> /\ Len(jobs') = Len(jobs) - 1
    BY <1>5 DEF WorkerPops, TypeOK
  <2> HIDE DEF Checking
  <2>3. QED
    BY <1>1, <2>1, <2>2
<1>6. CASE WorkerExits(w) \/ WorkerEncodes(w) \/ WorkerNotifiesResult(w) \/ WorkerSignalsFailure(w)
  <2>1. /\ UNCHANGED <<jobs, stopping>>
        /\ worker[w] # "failed" /\ worker[w] # "asleep"
        /\ \E s \in WorkerStates \ {"asleep"} : Goto(w, s) /\ (worker[w] = "checking" => stopping)
                                               /\ (s = "checking" => worker[w] # "checking")
    BY <1>6 DEF WorkerExits, WorkerEncodes, WorkerNotifiesResult, WorkerSignalsFailure, WorkerStates
  <2>2. PICK s \in WorkerStates \ {"asleep"} :
          Goto(w, s) /\ (worker[w] = "checking" => stopping)
                     /\ (s = "checking" => worker[w] # "checking")
    BY <2>1
  <2>3. /\ In({"asleep"})' \subseteq In({"asleep"})
        /\ Cardinality(Checking) \in Nat /\ Cardinality(Checking') \in Nat
        /\ worker[w] # "checking" => Cardinality(Checking') >= Cardinality(Checking)
    BY <2>2, CheckingCount
  <2>4. In({"failed"}) \subseteq In({"failed"})'
    BY <2>1, <2>2 DEF In, Goto, TypeOK
  <2>5. QED
    BY <1>1, <2>1, <2>2, <2>3, <2>4
<1>7. QED
  BY <1>2, <1>3, <1>4, <1>5, <1>6 DEF WorkerStep

LEMMA StrandedSpuriousWakeup ==
  ASSUME TypeOK, NoIdleJob, NoDeafWorker, SpuriousWakeup, pc' = pc
  PROVE  NoIdleJob' /\ NoDeafWorker'
<1> USE DEF NoIdleJob, NoDeafWorker
<1>1. /\ UNCHANGED <<jobs, stopping>> /\ Len(jobs) \in Nat
      /\ OneNotification \in Nat /\ OneNotification' = OneNotification
  BY DEF SpuriousWakeup, TypeOK, OneNotification
<1>2. CASE worker' = worker
  BY <1>1, <1>2 DEF In, Checking
<1>3. ASSUME NEW w \in In({"asleep"}), Goto(w, "checking")
      PROVE  NoIdleJob' /\ NoDeafWorker'
  <2>1. w \in Workers /\ worker[w] = "asleep"
    BY DEF In
  <2>2. /\ In({"asleep"})' \subseteq In({"asleep"})
        /\ Cardinality(Checking) \in Nat /\ Cardinality(Checking') = Cardinality(Checking) + 1
    BY <1>3, <2>1, CheckingCount DEF WorkerStates
  <2>3. In({"failed"}) \subseteq In({"failed"})'
    BY <1>3, <2>1 DEF In, Goto, TypeOK
  <2>4. QED
    BY <1>1, <2>2, <2>3
<1>4. QED
  BY <1>2, <1>3 DEF SpuriousWakeup

LEMMA StrandedMainStep ==
  ASSUME TypeOK, HandInv, NoIdleJob, NoDeafWorker, MainStep
  PROVE  NoIdleJob' /\ NoDeafWorker'
<1> USE DEF NoIdleJob, NoDeafWorker
<1>1. Len(jobs) \in Nat
  BY DEF TypeOK
<1>2. CASE WakeWorkers
  BY <1>2 DEF WakeWorkers, NotifyAllWorkers, WakeAllWorkers, In, TypeOK
<1>3. CASE NotifyWorker
  <2>1. /\ pc \in {"notify", "notifyTail"} /\ pc' \notin {"notify", "notifyTail"}
        /\ UNCHANGED <<jobs, stopping>>
    BY <1>3 DEF NotifyWorker, NotifyOneWorker, Resume
  <2>2. OneNotification = 1 /\ OneNotification' = 0
    BY <2>1 DEF OneNotification
  <2>3. CASE In({"asleep"}) = {} /\ worker' = worker
    BY <2>3 DEF In
  <2>4. ASSUME NEW w \in In({"asleep"}), Goto(w, "checking")
        PROVE  NoIdleJob' /\ NoDeafWorker'
    <3>1. w \in Workers /\ worker[w] = "asleep"
      BY DEF In
    <3>2. /\ In({"asleep"})' \subseteq In({"asleep"})
          /\ Cardinality(Checking) \in Nat /\ Cardinality(Checking') = Cardinality(Checking) + 1
      BY <2>4, <3>1, CheckingCount DEF WorkerStates
    <3>3. In({"failed"}) \subseteq In({"failed"})'
      BY <2>4, <3>1 DEF In, Goto, TypeOK
    <3>4. QED
      BY <1>1, <2>1, <2>2, <3>2, <3>3
  <2>5. QED
    BY <1>3, <2>3, <2>4 DEF NotifyWorker, NotifyOneWorker
<1>4. CASE SubmitFrame /\ Submit(CutFrame) /\ pc' \in {"notify", "notifyTail"}
  <2>1. /\ UNCHANGED <<stopping, worker>> /\ Len(jobs') = Len(jobs) + 1
        /\ pc \in {"submit", "submitTail"}
    BY <1>4 DEF SubmitFrame, Submit, TypeOK
  <2>2. /\ Cardinality(Checking)' = Cardinality(Checking) /\ UNCHANGED <<In({"asleep"}), In({"failed"})>>
    BY <2>1 DEF In, Checking
  <2>3. IsFiniteSet(Checking)
    BY FS_Subset, EncoderAssumption DEF Checking, In
  <2>4. Cardinality(Checking) \in Nat
    BY <2>3, FS_CardinalityType
  <2>5. OneNotification = 0 /\ OneNotification' = 1
    BY <1>4, <2>1 DEF OneNotification
  <2>6. jobs # <<>> \/ Len(jobs) = 0
    BY DEF TypeOK
  <2>7. NoIdleJob'
    BY <1>1, <2>1, <2>2, <2>4, <2>5, <2>6
  <2>8. QED
    BY <2>1, <2>2, <2>7
<1>5. CASE /\ UNCHANGED <<jobs, worker>> /\ stopping' = (stopping \/ pc' = "wake")
           /\ pc \notin {"notify", "notifyTail", "wake"}
           /\ pc = "stop" => pc' = "wake"
  <2>1. /\ Cardinality(Checking)' = Cardinality(Checking) /\ UNCHANGED <<In({"asleep"}), In({"failed"})>>
    BY <1>5 DEF In, Checking
  <2>2. IsFiniteSet(Checking)
    BY FS_Subset, EncoderAssumption DEF Checking, In
  <2>3. Cardinality(Checking) \in Nat
    BY <2>2, FS_CardinalityType
  <2>4. OneNotification = 0 /\ OneNotification' \in {0, 1}
    BY <1>5 DEF OneNotification
  <2>5. stopping' <=> stopping \/ pc' = "wake"
    BY <1>5
  <2>6. NoDeafWorker'
    BY <1>5, <2>1, <2>5
  <2>7. Cardinality(Checking') = Cardinality(Checking)
    BY <2>1
  <2>8. NoIdleJob'
    BY <1>1, <1>5, <2>1, <2>3, <2>4, <2>5, <2>7
  <2>9. QED
    BY <2>6, <2>8
<1>6. CASE \/ ReadChunk \/ FinishReading \/ FeedGroup \/ FinishChunk \/ SubmitInline
           \/ MakeRoom \/ Drain \/ WriteTakenFrame \/ FinishDrain \/ RewriteStreamInfo
           \/ CloseOutput \/ JoinWorkers
  <2>1. UNCHANGED <<jobs, worker, stopping>>
    BY <1>6 DEF ReadChunk, FinishReading, FeedGroup, FinishChunk, SubmitInline, MakeRoom, Drain,
       FinishDrain, RewriteStreamInfo, CloseOutput, JoinWorkers, TakeNextFrame, WriteTakenFrame,
       ConsumerSleeps, Take, poolVars
  <2>2. /\ pc \notin {"notify", "notifyTail", "wake", "stop"} /\ pc' # "wake"
    BY <1>6 DEF ReadChunk, FinishReading, FeedGroup, FinishChunk, SubmitInline, MakeRoom, Drain,
       FinishDrain, RewriteStreamInfo, CloseOutput, JoinWorkers, TakeNextFrame, WriteTakenFrame,
       Throw, Resume, mainVars, HandInv, flushVars
  <2>3. stopping \in BOOLEAN
    BY DEF TypeOK
  <2>4. QED
    BY <1>5, <2>1, <2>2, <2>3
<1>7. CASE StopWorkers
  BY <1>5, <1>7 DEF StopWorkers, StopPool
<1>8. CASE SubmitFrame /\ UNCHANGED poolVars /\ Throw
  <2>1. stopping \in BOOLEAN
    BY DEF TypeOK
  <2>2. QED
    BY <1>5, <1>8, <2>1 DEF SubmitFrame, poolVars, Throw
<1>9. SubmitFrame => \/ Submit(CutFrame) /\ pc' \in {"notify", "notifyTail"}
                     \/ UNCHANGED poolVars /\ Throw
  BY DEF SubmitFrame
<1>10. QED
  BY <1>2, <1>3, <1>4, <1>6, <1>7, <1>8, <1>9 DEF MainStep

\* Jobs never outnumber the workers about to look at the queue while others sleep, and
\* nobody sleeps through the end of the pool: notify_one per job and two notify_all
\* are enough.
THEOREM WorkersWoken == Spec => []NoStrandedWorker
<1>1. Init => NoIdleJob /\ NoDeafWorker
  BY DEF Init, PoolInit, In, NoIdleJob, NoDeafWorker
<1>2. IInv /\ NoIdleJob /\ NoDeafWorker /\ [Next]_vars => NoIdleJob' /\ NoDeafWorker'
  <2>1. NoIdleJob /\ NoDeafWorker /\ UNCHANGED vars => NoIdleJob' /\ NoDeafWorker'
    BY DEF NoIdleJob, NoDeafWorker, In, Checking, OneNotification, vars, poolVars, mainVars, flushVars
  <2>2. IInv /\ NoIdleJob /\ NoDeafWorker /\ PoolStep => NoIdleJob' /\ NoDeafWorker'
    BY StrandedWorkerStep, StrandedSpuriousWakeup DEF IInv, PoolStep, mainVars, flushVars
  <2>3. QED
    BY <2>1, <2>2, StrandedMainStep DEF Next, Returned, IInv
<1>3. NoIdleJob /\ NoDeafWorker => NoStrandedWorker
  BY DEF NoIdleJob, NoDeafWorker, NoStrandedWorker, Checking, OneNotification
<1>4. QED
  BY <1>1, <1>2, <1>3, Invariance, PTL DEF Spec

-----------------------------------------------------------------------------
(* A failure ends the output, but for the frame in hand. *)

\* With one thread there is no worker to fail.
NoFailureInline == exception => ThreadCount # 1

LEMMA NoFailureInlineStep ==
  ASSUME NoFailureInline, [Next]_vars
  PROVE  NoFailureInline'
<1>1. CASE MainStep \/ Returned \/ UNCHANGED vars
  BY <1>1 DEF NoFailureInline, Returned, vars, poolVars, MainStep, ReadChunk, FinishReading,
     FeedGroup, FinishChunk, SubmitInline, MakeRoom, SubmitFrame, NotifyWorker, Drain,
     FinishDrain, RewriteStreamInfo, CloseOutput, StopWorkers, WakeWorkers, JoinWorkers,
     TakeNextFrame, WriteTakenFrame, ConsumerSleeps, Take, Submit, NotifyOneWorker, StopPool,
     NotifyAllWorkers
<1>2. CASE PoolStep
  <2>1. CASE SpuriousWakeup
    BY <2>1 DEF SpuriousWakeup, NoFailureInline
  <2>2. CASE \E w \in Workers : WorkerStep(w)
    BY <2>2, EncoderAssumption DEF NoFailureInline
  <2>3. QED
    BY <1>2, <2>1, <2>2 DEF PoolStep
<1>3. QED
  BY <1>1, <1>2 DEF Next

\* Once a worker has stored an exception, take rethrows it even when the next frame is
\* there, and submit accepts no frame: at most the one frame taken before the failure, whose
\* write the mutex does not cover, still reaches the file.
THEOREM FailureEndsOutput == Spec => OnlyTakenFrameAfterFailure
<1>1. Init => NoFailureInline
  BY DEF Init, PoolInit, NoFailureInline
<1>2. NoFailureInline /\ [Next]_vars => NoFailureInline'
  BY NoFailureInlineStep
<1> DEFINE Nothing == UNCHANGED <<encodedFrame, file, frameNumber>>
           Written == /\ \E frame \in encodedFrame : file' = Append(file, frame)
                      /\ encodedFrame' = {}
           Quiet == /\ encodedFrame' \subseteq encodedFrame
                    /\ file' # file => Written
                    /\ frameNumber' = frameNumber
<1>3. NoFailureInline /\ [Next]_vars => [exception => Quiet]_vars
  <2> SUFFICES ASSUME NoFailureInline, Next, exception PROVE Quiet
    BY DEF vars
  <2>1. Nothing => Quiet
    OBVIOUS
  <2>2. CASE WriteTakenFrame
    BY <2>2 DEF WriteTakenFrame, WriteFrame, Throw, outputVars, frameVars
  <2>3. CASE PoolStep \/ Returned
    BY <2>1, <2>3 DEF PoolStep, Returned, vars, mainVars, outputVars, frameVars, flushVars
  <2>4. ASSUME MainStep, ~WriteTakenFrame PROVE Nothing
    BY <2>4 DEF NoFailureInline, MainStep, ReadChunk, FinishReading, FeedGroup, FinishChunk,
       SubmitInline, MakeRoom, SubmitFrame, NotifyWorker, Drain, FinishDrain, RewriteStreamInfo,
       CloseOutput, StopWorkers, WakeWorkers, JoinWorkers, TakeNextFrame, Take, Submit,
       outputVars, frameVars, flushVars, mainVars
  <2>5. QED
    BY <2>1, <2>2, <2>3, <2>4 DEF Next
<1>4. QED
  BY <1>1, <1>2, <1>3, PTL DEF Spec, OnlyTakenFrameAfterFailure
==============================================================================
