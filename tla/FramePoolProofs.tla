--------------------------- MODULE FramePoolProofs ---------------------------
(***************************************************************************)
(* What the steps of FramePool do to the places a frame can be in, for the *)
(* proofs about the encoders that own a pool: a worker only moves frames,  *)
(* and a frame is never in two places.                                     *)
(***************************************************************************)
EXTENDS FramePool, TLAPS

PlaceTypes(F) ==
  /\ jobs \in Seq(F)
  /\ results \in SUBSET F
  /\ worker \in [Workers -> WorkerStates]
  /\ holding \in [Workers -> SUBSET F]

JobPlaces == 1 .. Len(jobs)

\* The frame f is somewhere in the pool.
InPool(f) ==
  \/ \E i \in JobPlaces : jobs[i] = f
  \/ \E w \in Workers : f \in holding[w]
  \/ f \in results

\* No frame is in two places.
OnceInv ==
  /\ \A i, j \in JobPlaces : jobs[i] = jobs[j] => i = j
  /\ \A i \in JobPlaces : jobs[i] \notin results /\ \A w \in Workers : jobs[i] \notin holding[w]
  /\ \A w \in Workers : \A f \in holding[w] :
       f \notin results /\ \A v \in Workers : f \in holding[v] => v = w

\* A worker holds one frame while it encodes and none otherwise.
HeldInv ==
  \A w \in Workers : IF worker[w] = "encoding" THEN \E f : holding[w] = {f} ELSE holding[w] = {}

PlacesInv == OnceInv /\ HeldInv

-----------------------------------------------------------------------------
\* Steps that move no frame.
LEMMA PlacesStable ==
  ASSUME PlacesInv, UNCHANGED <<jobs, results, holding>>,
         \A w \in Workers : worker'[w] = "encoding" <=> worker[w] = "encoding"
  PROVE  PlacesInv' /\ \A f : InPool(f)' <=> InPool(f)
<1>1. OnceInv' /\ \A f : InPool(f)' <=> InPool(f)
  BY DEF PlacesInv, OnceInv, InPool, JobPlaces
<1>2. HeldInv'
  BY DEF PlacesInv, HeldInv
<1>3. QED
  BY <1>1, <1>2 DEF PlacesInv

\* The queue without its first job.
LEMMA TailOfJobs ==
  ASSUME NEW F, jobs \in Seq(F), jobs # <<>>, jobs' = Tail(jobs)
  PROVE  /\ jobs' \in Seq(F) /\ Head(jobs) \in F /\ Head(jobs) = jobs[1] /\ 1 \in JobPlaces
         /\ Len(jobs) \in Nat /\ Len(jobs') = Len(jobs) - 1
         /\ \A i \in JobPlaces' : i + 1 \in JobPlaces /\ jobs'[i] = jobs[i + 1]
         /\ \A i \in JobPlaces : i # 1 => i - 1 \in JobPlaces' /\ jobs'[i - 1] = jobs[i]
  BY DEF JobPlaces

LEMMA PopPlaces ==
  ASSUME NEW F, PlaceTypes(F), PlacesInv, NEW w \in Workers, WorkerPops(w)
  PROVE  PlaceTypes(F)' /\ PlacesInv' /\ \A f : InPool(f)' <=> InPool(f)
<1> DEFINE f == Head(jobs)
<1>1. /\ f \in F /\ f = jobs[1] /\ 1 \in JobPlaces /\ jobs' \in Seq(F)
      /\ \A i \in JobPlaces' : i + 1 \in JobPlaces /\ jobs'[i] = jobs[i + 1]
      /\ \A i \in JobPlaces : i # 1 => i - 1 \in JobPlaces' /\ jobs'[i - 1] = jobs[i]
  <2>1. jobs \in Seq(F) /\ jobs # <<>> /\ jobs' = Tail(jobs)
    BY DEF PlaceTypes, WorkerPops
  <2>2. QED
    BY <2>1, TailOfJobs
<1>2. /\ holding[w] = {} /\ holding'[w] = {f}
      /\ \A v \in Workers : v # w => holding'[v] = holding[v]
      /\ worker'[w] = "encoding" /\ \A v \in Workers : v # w => worker'[v] = worker[v]
      /\ UNCHANGED results
  BY DEF PlaceTypes, WorkerPops, Goto, PlacesInv, HeldInv
<1>3. PlaceTypes(F)'
  BY <1>1, <1>2 DEF PlaceTypes, WorkerPops, Goto, WorkerStates
<1>4. \A i \in JobPlaces' : jobs'[i] # f
  BY <1>1 DEF PlacesInv, OnceInv, JobPlaces
<1>5. OnceInv'
  <2>1. (\A i, j \in JobPlaces : jobs[i] = jobs[j] => i = j)'
    BY <1>1 DEF PlacesInv, OnceInv, JobPlaces
  <2>2. (\A i \in JobPlaces : jobs[i] \notin results /\ \A v \in Workers : jobs[i] \notin holding[v])'
    BY <1>1, <1>2, <1>4 DEF PlacesInv, OnceInv
  <2>3. (\A v \in Workers : \A g \in holding[v] :
           g \notin results /\ \A u \in Workers : g \in holding[u] => u = v)'
    BY <1>1, <1>2 DEF PlacesInv, OnceInv
  <2>4. QED
    BY <2>1, <2>2, <2>3 DEF OnceInv
<1>6. HeldInv'
  BY <1>2 DEF PlacesInv, HeldInv
<1>7. ASSUME NEW g PROVE InPool(g)' <=> InPool(g)
  <2>1. (\E i \in JobPlaces' : jobs'[i] = g) \/ f = g <=> (\E i \in JobPlaces : jobs[i] = g)
    <3>1. ASSUME NEW i \in JobPlaces', jobs'[i] = g PROVE \E j \in JobPlaces : jobs[j] = g
      BY <1>1, <3>1
    <3>2. ASSUME NEW i \in JobPlaces, jobs[i] = g, i # 1 PROVE \E j \in JobPlaces' : jobs'[j] = g
      BY <1>1, <3>2
    <3>3. QED
      BY <1>1, <3>1, <3>2
  <2>2. (\E v \in Workers : g \in holding'[v]) <=> f = g \/ (\E v \in Workers : g \in holding[v])
    BY <1>2
  <2>3. QED
    BY <2>1, <2>2, <1>2 DEF InPool
<1>8. QED
  BY <1>3, <1>5, <1>6, <1>7 DEF PlacesInv

\* A worker that stops encoding gives up its frame.
LEMMA Released ==
  ASSUME NEW F, PlaceTypes(F), PlacesInv, NEW w \in Workers, worker[w] = "encoding",
         holding' = [holding EXCEPT ![w] = {}], NEW s \in WorkerStates \ {"encoding"}, Goto(w, s)
  PROVE  /\ HeldInv' /\ holding'[w] = {}
         /\ worker' \in [Workers -> WorkerStates] /\ holding' \in [Workers -> SUBSET F]
         /\ \A v \in Workers : v # w => holding'[v] = holding[v]
         /\ \E f : holding[w] = {f} /\ f \in F
<1>1. /\ \A v \in Workers : v # w => holding'[v] = holding[v] /\ worker'[v] = worker[v]
      /\ holding'[w] = {} /\ worker'[w] = s
      /\ worker' \in [Workers -> WorkerStates] /\ holding' \in [Workers -> SUBSET F]
  BY DEF PlaceTypes, Goto
<1>2. PICK f : holding[w] = {f}
  BY DEF PlacesInv, HeldInv
<1>3. f \in F
  BY <1>2 DEF PlaceTypes
<1>4. HeldInv'
  BY <1>1 DEF PlacesInv, HeldInv
<1>5. QED
  BY <1>1, <1>2, <1>3, <1>4

LEMMA EncodePlaces ==
  ASSUME NEW F, PlaceTypes(F), PlacesInv, NEW w \in Workers, WorkerEncodes(w)
  PROVE  PlaceTypes(F)' /\ PlacesInv' /\ \A f : InPool(f)' <=> InPool(f)
<1>1. /\ HeldInv' /\ holding'[w] = {}
      /\ worker' \in [Workers -> WorkerStates] /\ holding' \in [Workers -> SUBSET F]
      /\ \A v \in Workers : v # w => holding'[v] = holding[v]
      /\ \E f : holding[w] = {f} /\ f \in F
  BY Released DEF WorkerEncodes, WorkerStates
<1>2. PICK f : holding[w] = {f} /\ f \in F
  BY <1>1
<1>3. results' = results \cup {f} /\ jobs' = jobs
  BY <1>2 DEF WorkerEncodes
<1>4. PlaceTypes(F)'
  BY <1>1, <1>2, <1>3 DEF PlaceTypes
<1>5. OnceInv'
  BY <1>1, <1>2, <1>3 DEF PlacesInv, OnceInv, JobPlaces
<1>6. \A g : InPool(g)' <=> InPool(g)
  BY <1>1, <1>2, <1>3 DEF InPool, JobPlaces
<1>7. QED
  BY <1>1, <1>4, <1>5, <1>6 DEF PlacesInv

LEMMA FailPlaces ==
  ASSUME NEW F, PlaceTypes(F), PlacesInv, NEW w \in Workers, WorkerFails(w)
  PROVE  PlaceTypes(F)' /\ PlacesInv' /\ \A f : InPool(f)' => InPool(f)
<1>1. /\ HeldInv' /\ holding'[w] = {}
      /\ worker' \in [Workers -> WorkerStates] /\ holding' \in [Workers -> SUBSET F]
      /\ \A v \in Workers : v # w => holding'[v] = holding[v]
  BY Released DEF WorkerFails, WorkerStates
<1>2. UNCHANGED <<jobs, results>>
  BY DEF WorkerFails
<1>3. PlaceTypes(F)' /\ OnceInv' /\ \A f : InPool(f)' => InPool(f)
  BY <1>1, <1>2 DEF PlaceTypes, PlacesInv, OnceInv, InPool, JobPlaces
<1>4. QED
  BY <1>1, <1>3 DEF PlacesInv

\* A worker or a spurious wakeup puts no frame into the pool.
LEMMA WorkersOnlyMove ==
  ASSUME NEW F, PlaceTypes(F), PlacesInv, SpuriousWakeup \/ \E w \in Workers : WorkerStep(w)
  PROVE  PlaceTypes(F)' /\ PlacesInv' /\ \A f : InPool(f)' => InPool(f)
<1>1. CASE SpuriousWakeup
  <2>1. /\ UNCHANGED <<jobs, results, holding>> /\ worker' \in [Workers -> WorkerStates]
        /\ \A w \in Workers : worker'[w] = "encoding" <=> worker[w] = "encoding"
    BY <1>1 DEF SpuriousWakeup, Goto, In, PlaceTypes, WorkerStates
  <2>2. QED
    BY <2>1, PlacesStable DEF PlaceTypes
<1>2. ASSUME NEW w \in Workers, WorkerStep(w)
      PROVE  PlaceTypes(F)' /\ PlacesInv' /\ \A f : InPool(f)' => InPool(f)
  <2>1. CASE WorkerSleeps(w) \/ WorkerExits(w) \/ WorkerNotifiesResult(w)
             \/ WorkerWakesPool(w) \/ WorkerSignalsFailure(w)
    <3>1. /\ UNCHANGED <<jobs, results, holding>> /\ worker' \in [Workers -> WorkerStates]
          /\ \A v \in Workers : worker'[v] = "encoding" <=> worker[v] = "encoding"
      BY <2>1 DEF WorkerSleeps, WorkerExits, WorkerNotifiesResult, WorkerWakesPool,
                  WorkerSignalsFailure, WakeAllWorkers, Goto, PlaceTypes, WorkerStates
    <3>2. QED
      BY <3>1, PlacesStable DEF PlaceTypes
  <2>2. QED
    BY <1>2, <2>1, PopPlaces, EncodePlaces, FailPlaces DEF WorkerStep
<1>3. QED
  BY <1>1, <1>2

\* The consumer wakes workers and moves nothing.
LEMMA NotifyPlaces ==
  ASSUME NEW F, PlaceTypes(F), PlacesInv, NotifyOneWorker \/ NotifyAllWorkers
  PROVE  PlaceTypes(F)' /\ PlacesInv' /\ \A f : InPool(f)' <=> InPool(f)
<1>1. /\ UNCHANGED <<jobs, results, holding>> /\ worker' \in [Workers -> WorkerStates]
      /\ \A w \in Workers : worker'[w] = "encoding" <=> worker[w] = "encoding"
  BY DEF NotifyOneWorker, NotifyAllWorkers, WakeAllWorkers, Goto, In, PlaceTypes, WorkerStates
<1>2. QED
  BY <1>1, PlacesStable DEF PlaceTypes

\* A job that is new to the pool.
LEMMA SubmitPlaces ==
  ASSUME NEW F, PlaceTypes(F), PlacesInv, NEW f \in F, Submit(f), ~InPool(f)
  PROVE  PlaceTypes(F)' /\ PlacesInv' /\ \A g : InPool(g)' <=> InPool(g) \/ g = f
<1>1. UNCHANGED <<results, worker, holding>>
  BY DEF Submit
<1>2. /\ Len(jobs) \in Nat /\ Len(jobs') = Len(jobs) + 1 /\ jobs'[Len(jobs) + 1] = f
      /\ \A i \in JobPlaces : jobs'[i] = jobs[i]
      /\ JobPlaces' = JobPlaces \cup {Len(jobs) + 1}
      /\ jobs' \in Seq(F)
  BY DEF PlaceTypes, JobPlaces, Submit
<1>3. PlaceTypes(F)' /\ HeldInv'
  BY <1>1, <1>2 DEF PlaceTypes, PlacesInv, HeldInv
<1>4. OnceInv'
  <2>1. (\A i, j \in JobPlaces : jobs[i] = jobs[j] => i = j)'
    BY <1>2 DEF PlacesInv, OnceInv, InPool
  <2>2. (\A i \in JobPlaces : jobs[i] \notin results /\ \A w \in Workers : jobs[i] \notin holding[w])'
    BY <1>1, <1>2 DEF PlacesInv, OnceInv, InPool
  <2>3. (\A w \in Workers : \A g \in holding[w] :
           g \notin results /\ \A v \in Workers : g \in holding[v] => v = w)'
    BY <1>1 DEF PlacesInv, OnceInv
  <2>4. QED
    BY <2>1, <2>2, <2>3 DEF OnceInv
<1>5. \A g : InPool(g)' <=> InPool(g) \/ g = f
  BY <1>1, <1>2 DEF InPool
<1>6. QED
  BY <1>3, <1>4, <1>5 DEF PlacesInv

\* A frame that is taken is gone.
LEMMA TakePlaces ==
  ASSUME NEW F, PlaceTypes(F), PlacesInv, NEW f, Take(f)
  PROVE  PlaceTypes(F)' /\ PlacesInv' /\ \A g : InPool(g)' <=> InPool(g) /\ g # f
<1>1. f \in results /\ results' = results \ {f} /\ UNCHANGED <<jobs, worker, holding>>
  BY DEF Take
<1>2. PlaceTypes(F)' /\ HeldInv'
  BY <1>1 DEF PlaceTypes, PlacesInv, HeldInv
<1>3. OnceInv'
  BY <1>1 DEF PlacesInv, OnceInv, JobPlaces
<1>4. \A g : InPool(g)' <=> InPool(g) /\ g # f
  BY <1>1 DEF PlacesInv, OnceInv, InPool, JobPlaces
<1>5. QED
  BY <1>2, <1>3, <1>4 DEF PlacesInv
=============================================================================
