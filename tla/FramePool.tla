------------------------------ MODULE FramePool ------------------------------
(***************************************************************************)
(* The worker pool of the encoders: FrameEncoderPool in                    *)
(* native_flac_encoder.cpp and SelectedFrameWriterPool in                  *)
(* accelerated_native_backend.cpp, which share their protocol.  One mutex  *)
(* guards the job queue, the results, the first exception and the stop     *)
(* flag; workers sleep on jobs_available_, the one consumer (the thread    *)
(* that owns the pool) on results_available_.  A critical section is one   *)
(* step; a notification, made after the unlock, is a step of its own.      *)
(*                                                                         *)
(* This module has no next-state relation: the encoders that own a pool    *)
(* build theirs from its steps.                                            *)
(***************************************************************************)
EXTENDS Integers, Sequences, FiniteSets

CONSTANT Workers      \* the pool's threads

VARIABLES jobs,       \* jobs_: frames to encode, oldest first
          results,    \* results_: encoded frames not yet taken
          exception,  \* exception_ is set
          stopping,   \* stopping_
          worker,     \* where each worker is in worker_loop
          holding,    \* the frame each worker has popped, if any
          consumer    \* is the consumer blocked in results_available_.wait?

poolVars == <<jobs, results, exception, stopping, worker, holding, consumer>>

WorkerStates ==
  { "checking",     \* about to evaluate the predicate of jobs_available_.wait
    "asleep",       \* blocked in it
    "encoding",     \* outside the mutex with a popped job
    "publishing",   \* result stored, results_available_ not yet notified
    "failed",       \* exception stored, jobs_available_ not yet notified
    "signalling",   \* results_available_ not yet notified of the exception
    "exited" }

In(states) == {w \in Workers : worker[w] \in states}
HeldFrames == UNION {holding[w] : w \in Workers}

PoolInit ==
  /\ jobs = <<>>
  /\ results = {}
  /\ exception = FALSE
  /\ stopping = FALSE
  /\ worker = [w \in Workers |-> "checking"]
  /\ holding = [w \in Workers |-> {}]
  /\ consumer = "awake"

Goto(w, state) == worker' = [worker EXCEPT ![w] = state]

WakeAllWorkers(states) ==
  [v \in Workers |-> IF states[v] = "asleep" THEN "checking" ELSE states[v]]

-----------------------------------------------------------------------------
(* The worker threads. *)

WorkerSleeps(w) ==
  /\ worker[w] = "checking"
  /\ ~stopping /\ jobs = <<>>
  /\ Goto(w, "asleep")
  /\ UNCHANGED <<jobs, results, exception, stopping, holding, consumer>>

WorkerPops(w) ==
  /\ worker[w] = "checking"
  /\ ~stopping /\ jobs # <<>>
  /\ holding' = [holding EXCEPT ![w] = {Head(jobs)}]
  /\ jobs' = Tail(jobs)
  /\ Goto(w, "encoding")
  /\ UNCHANGED <<results, exception, stopping, consumer>>

WorkerExits(w) ==
  /\ worker[w] = "checking"
  /\ stopping
  /\ Goto(w, "exited")
  /\ UNCHANGED <<jobs, results, exception, stopping, holding, consumer>>

WorkerEncodes(w) ==
  /\ worker[w] = "encoding"
  /\ results' = results \cup holding[w]
  /\ holding' = [holding EXCEPT ![w] = {}]
  /\ Goto(w, "publishing")
  /\ UNCHANGED <<jobs, exception, stopping, consumer>>

\* Mutant: the result is stored and nobody is told.
WorkerForgetsNotification(w) ==
  /\ worker[w] = "publishing"
  /\ Goto(w, "checking")
  /\ UNCHANGED <<jobs, results, exception, stopping, holding, consumer>>

WorkerNotifiesResult(w) ==
  /\ worker[w] = "publishing"
  /\ consumer' = "awake"
  /\ Goto(w, "checking")
  /\ UNCHANGED <<jobs, results, exception, stopping, holding>>

\* Any exception of the encoder: the first one is kept, and the pool stops.
WorkerFails(w) ==
  /\ worker[w] = "encoding"
  /\ exception' = TRUE
  /\ stopping' = TRUE
  /\ holding' = [holding EXCEPT ![w] = {}]
  /\ Goto(w, "failed")
  /\ UNCHANGED <<jobs, results, consumer>>

WorkerWakesPool(w) ==
  /\ worker[w] = "failed"
  /\ worker' = WakeAllWorkers([worker EXCEPT ![w] = "signalling"])
  /\ UNCHANGED <<jobs, results, exception, stopping, holding, consumer>>

WorkerSignalsFailure(w) ==
  /\ worker[w] = "signalling"
  /\ consumer' = "awake"
  /\ Goto(w, "exited")
  /\ UNCHANGED <<jobs, results, exception, stopping, holding>>

WorkerStep(w) ==
  \/ WorkerSleeps(w) \/ WorkerPops(w) \/ WorkerExits(w)
  \/ WorkerEncodes(w) \/ WorkerNotifiesResult(w)
  \/ WorkerFails(w) \/ WorkerWakesPool(w) \/ WorkerSignalsFailure(w)

\* A condition variable may wake a thread for no reason; both waits re-check.
SpuriousWakeup ==
  \/ /\ \E w \in In({"asleep"}) : Goto(w, "checking")
     /\ UNCHANGED <<jobs, results, exception, stopping, holding, consumer>>
  \/ /\ consumer = "asleep"
     /\ consumer' = "awake"
     /\ UNCHANGED <<jobs, results, exception, stopping, worker, holding>>

-----------------------------------------------------------------------------
(* The operations of the owning thread; each is part of a step of its own. *)

\* submit, up to the unlock; it throws instead when exception_ is set.
Submit(frame) ==
  /\ ~exception
  /\ jobs' = Append(jobs, frame)
  /\ UNCHANGED <<results, exception, stopping, worker, holding, consumer>>

\* Mutant: notify only for the job that made the queue non-empty.
NotifyOnFirstJobOnly ==
  /\ IF In({"asleep"}) = {} \/ Len(jobs) # 1
     THEN UNCHANGED worker
     ELSE \E w \in In({"asleep"}) : Goto(w, "checking")
  /\ UNCHANGED <<jobs, results, exception, stopping, holding, consumer>>

\* jobs_available_.notify_one()
NotifyOneWorker ==
  /\ IF In({"asleep"}) = {}
     THEN UNCHANGED worker
     ELSE \E w \in In({"asleep"}) : Goto(w, "checking")
  /\ UNCHANGED <<jobs, results, exception, stopping, holding, consumer>>

\* Mutant: any finished frame will do.
ReadyInAnyOrder(number) == results

Ready(number) == {r \in results : r.number = number}

\* take, when its predicate does not hold: block on results_available_.
ConsumerSleeps(number) ==
  /\ consumer = "awake"
  /\ ~exception /\ Ready(number) = {}
  /\ consumer' = "asleep"
  /\ UNCHANGED <<jobs, results, exception, stopping, worker, holding>>

\* Mutant: the exception is not rethrown when the result is there.
TakeDespiteException(frame) ==
  /\ consumer = "awake"
  /\ frame \in results
  /\ results' = results \ {frame}
  /\ UNCHANGED <<jobs, exception, stopping, worker, holding, consumer>>

\* Mutant: the result is copied but not erased.
TakeWithoutErase(frame) ==
  /\ consumer = "awake"
  /\ ~exception
  /\ frame \in results
  /\ UNCHANGED poolVars

\* take, when the predicate holds and no exception is rethrown.
Take(frame) ==
  /\ consumer = "awake"
  /\ ~exception
  /\ frame \in results
  /\ results' = results \ {frame}
  /\ UNCHANGED <<jobs, exception, stopping, worker, holding, consumer>>

\* ~FrameEncoderPool: set the flag, notify all, join all.
StopPool ==
  /\ stopping' = TRUE
  /\ UNCHANGED <<jobs, results, exception, worker, holding, consumer>>

\* Mutant: the destructor joins without waking the sleeping workers.
NotifyNobody == UNCHANGED poolVars

NotifyAllWorkers ==
  /\ worker' = WakeAllWorkers(worker)
  /\ UNCHANGED <<jobs, results, exception, stopping, holding, consumer>>

AllJoined == \A w \in Workers : worker[w] = "exited"
=============================================================================
