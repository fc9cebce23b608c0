------------------------- MODULE StagedOutputProofs -------------------------
(***************************************************************************)
(* Proofs about StagedOutput for every set of helper threads and signals:  *)
(* the destination changes as AtomicOutput promises, and, as long as a     *)
(* command with helpers gets one signal at most, no staging data stays     *)
(* behind and no signal is outrun.                                         *)
(***************************************************************************)
EXTENDS StagedOutput, TLAPS, FiniteSetTheorems

Places == {"check", "block", "mkdtemp", "register", "unblock", "open", "start", "encode",
           "publish", "link", "remove", "rmdir", "unregister", "exit", "gone"}

-----------------------------------------------------------------------------
(* The destination. *)

\* Before anything is published the verdict is open, and what is published is
\* either complete or already taken away by the handler.
OutcomeInv ==
  /\ pc \in {"check", "block", "mkdtemp", "register", "open", "start", "encode", "publish",
             "link"} => verdict = "none"
  /\ payload \in {"none", "partial", "complete"}
  /\ pc \in {"publish", "link"} => payload \in {"none", "complete"}
  /\ pc = "unblock" => verdict \in {"none", "failed"}
  /\ pc \in Places

\* What a step of the main thread does to the outcome.
LEMMA MainOutcome ==
  ASSUME OutcomeInv, MainStep, UNCHANGED command
  PROVE  OutcomeInv' /\ [Output!OutputNext]_(Output!outputVars)
<1> USE DEF command, fileVars, signalVars, Fail, Goto, OutcomeInv, Places
<1>1. fate = "running" /\ overwrite' = overwrite
  BY DEF MainStep, MainRuns
<1>2. CASE EnsureOutputAllowed \/ BlockSignals \/ MakeDirectory \/ Register \/ OpenPayload
           \/ StartHelpers \/ FinishEncoding
  <2>1. /\ verdict = "none" /\ verdict' \in {"none", "failed"} /\ UNCHANGED <<dest, fate>>
        /\ OutcomeInv'
    BY <1>1, <1>2 DEF EnsureOutputAllowed, BlockSignals, MakeDirectory, Register, OpenPayload,
       StartHelpers, FinishEncoding
  <2>2. QED
    BY <1>1, <2>1 DEF Output!OutputNext, Output!GiveUp, Output!outputVars
<1>3. CASE Publish \/ PublishByLink
  <2>1. verdict = "none" /\ UNCHANGED fate /\ OutcomeInv'
    BY <1>1, <1>3 DEF Publish, PublishByLink, RenameWorks, RenameNoReplaceWorks
  <2>2. \/ UNCHANGED dest /\ verdict' \in {"none", "failed"}
        \/ dest' = "complete" /\ verdict' = "published" /\ (overwrite \/ dest = "absent")
    BY <1>3 DEF Publish, PublishByLink, RenameWorks, RenameNoReplaceWorks
  <2>3. QED
    BY <1>1, <2>1, <2>2 DEF Output!OutputNext, Output!GiveUp, Output!Publish, Output!outputVars
<1>4. CASE UnblockSignals \/ RemovePayload \/ RemoveDirectory \/ Unregister
  <2>1. UNCHANGED <<dest, verdict, fate>> /\ OutcomeInv'
    BY <1>1, <1>4 DEF UnblockSignals, RemovePayload, RemoveDirectory, Unregister
  <2>2. QED
    BY <1>1, <2>1 DEF Output!outputVars
<1>5. CASE Exit
  <2>1. UNCHANGED <<dest, verdict>> /\ fate' = "exited" /\ OutcomeInv'
    BY <1>5 DEF Exit
  <2>2. QED
    BY <1>1, <2>1 DEF Output!OutputNext, Output!End
<1>6. QED
  BY <1>2, <1>3, <1>4, <1>5 DEF MainStep

LEMMA OtherOutcome ==
  ASSUME OutcomeInv, [Next]_vars, ~MainStep
  PROVE  OutcomeInv' /\ [Output!OutputNext]_(Output!outputVars)
<1> USE DEF command, fileVars, OutcomeInv, Places
<1>1. CASE UNCHANGED vars \/ Ended
  BY <1>1 DEF vars, Ended, Output!outputVars
<1>2. CASE (\E s \in Signals : Send(s)) /\ UNCHANGED command
  BY <1>2 DEF Send, Output!outputVars
<1>3. CASE (\E s \in Signals : \E t \in Threads : Deliver(t, s)) /\ UNCHANGED command
  <2>1. /\ UNCHANGED <<overwrite, dest, payload, verdict, pc>> /\ fate = "running"
        /\ fate' = "killed" \/ fate' = fate
    BY <1>3 DEF Deliver
  <2>2. OutcomeInv'
    BY <2>1
  <2>3. QED
    BY <2>1, <2>2 DEF Output!OutputNext, Output!End, Output!outputVars
<1>4. CASE (\E t \in Threads : HandlerStep(t)) /\ UNCHANGED command
  <2>1. /\ UNCHANGED <<overwrite, dest, verdict, pc>> /\ fate = "running"
        /\ fate' = "aborted" \/ fate' = fate
        /\ payload' \in {payload, "none"}
    BY <1>4 DEF HandlerStep, HandlerCheck, HandlerMark, HandlerUnlink, HandlerRmdir,
       HandlerRestore, HandlerRaise, Handler
  <2>2. OutcomeInv'
    BY <2>1
  <2>3. QED
    BY <2>1, <2>2 DEF Output!OutputNext, Output!End, Output!outputVars
<1>5. CASE OtherProcess /\ UNCHANGED command
  <2>1. UNCHANGED <<overwrite, payload, verdict, pc, fate>> /\ dest' \in {"absent", "foreign"}
    BY <1>5 DEF OtherProcess
  <2>2. OutcomeInv'
    BY <2>1
  <2>3. QED
    BY <2>1, <2>2 DEF Output!OutputNext, Output!Others, Output!NobodysFile
<1>6. QED
  BY <1>1, <1>2, <1>3, <1>4, <1>5 DEF Next, Step

\* However many signals arrive, on whatever threads, and whatever other processes
\* do, the destination goes at most once from what it was to a complete output,
\* and the exit code says whether it did.
THEOREM PublicationIsAtomic == Spec => PublishesAtomically
<1>1. Init => OutcomeInv
  BY DEF Init, OutcomeInv, Places
<1>2. OutcomeInv /\ [Next]_vars => OutcomeInv'
  <2>1. OutcomeInv /\ MainStep /\ UNCHANGED command => OutcomeInv'
    BY MainOutcome
  <2>2. [Next]_vars /\ MainStep => UNCHANGED command
    BY DEF Next, Ended, vars, command, MainStep, MainRuns
  <2>3. QED
    BY <2>1, <2>2, OtherOutcome
<1>3. OutcomeInv /\ [Next]_vars => [Output!OutputNext]_(Output!outputVars)
  <2>1. [Next]_vars /\ MainStep => UNCHANGED command
    BY DEF Next, Ended, vars, command, MainStep, MainRuns
  <2>2. QED
    BY <2>1, MainOutcome, OtherOutcome
<1>4. Init => Output!OutputInit
  BY DEF Init, Output!OutputInit, Output!NobodysFile
<1>5. QED
  BY <1>1, <1>2, <1>3, <1>4, PTL DEF Spec, PublishesAtomically, Output!OutputSpec

-----------------------------------------------------------------------------
(* Staging data.  The main thread stands still from the moment a handler   *)
(* has set the flag: the handler is on top of it, or on a helper it is     *)
(* about to join, or the signal raised again is pending and fatal.         *)

HandlerPlaces == {"none", "check", "mark", "unlink", "rmdir", "restore", "raise", "gone"}
Working == {"unlink", "rmdir", "restore", "raise"}

ThreadsInv ==
  /\ pc \in Places
  /\ helpers \in {{}, Helpers} /\ live \in {{}, helpers}
  /\ at \in [Threads -> HandlerPlaces] /\ handling \in [Threads -> SUBSET Signals]
  /\ live # {} => pc = "encode"
  /\ \A t \in Threads : at[t] # "none" /\ t # Main => t \in live
  /\ blocked => pc \in {"mkdtemp", "register", "unblock"} /\ at[Main] = "none"
  /\ pc \in {"mkdtemp", "register"} => blocked

\* Which signals there are, and that one handler runs at most.
SignalsInv ==
  /\ pending \subseteq sent /\ IsFiniteSet(sent)
  /\ helpers # {} => \A a, b \in sent : a = b
  /\ \A t, u \in Threads : at[t] # "none" /\ at[u] # "none" => t = u
  /\ \A t \in Threads : at[t] # "none" => \E s \in sent : handling[t] = {s} /\ s \notin pending
  /\ \A t \in Threads : at[t] = "raise" => handling[t] \subseteq defaulted

CleaningInv ==
  /\ defaulted # {} => cleaning
  /\ \A t \in Threads : at[t] \in Working => cleaning
  /\ cleaning /\ fate = "running" =>
       /\ ~blocked
       /\ (\E t \in Threads : at[t] \in Working) \/ pending \cap defaulted # {}

StagingInv ==
  /\ dir => active \/ ec \/ pc = "register"
  /\ pc \in {"exit", "gone"} => ~dir \/ ec
  /\ pc = "unblock" /\ verdict = "failed" => ~dir \/ ec
  /\ pc \in {"check", "block", "mkdtemp", "unregister"} => ~dir
  /\ \A t \in Threads : at[t] = "rmdir" => payload = "none"
  /\ cleaning /\ (\A t \in Threads : at[t] \notin {"unlink", "rmdir"}) => ~dir \/ ec

IInv ==
  /\ OutcomeInv /\ ThreadsInv /\ SignalsInv /\ CleaningInv /\ StagingInv
  /\ StagingRemoved /\ SignalNotOutrun

LEMMA InitEstablishes == Init => IInv
<1> SUFFICES ASSUME Init PROVE IInv
  OBVIOUS
<1>1. OutcomeInv /\ ThreadsInv
  BY DEF Init, OutcomeInv, ThreadsInv, Places, HandlerPlaces, Threads
<1>2. SignalsInv /\ CleaningInv
  BY FS_EmptySet DEF Init, SignalsInv, CleaningInv, Working
<1>3. StagingInv /\ StagingRemoved /\ SignalNotOutrun
  BY DEF Init, StagingInv, StagingRemoved, SignalNotOutrun
<1>4. QED
  BY <1>1, <1>2, <1>3 DEF IInv

\* A cleanup that has begun holds the main thread where it is.
LEMMA MainStandsStill ==
  ASSUME IInv, cleaning
  PROVE  ~MainStep
<1> SUFFICES ASSUME MainStep PROVE FALSE
  OBVIOUS
<1>1. fate = "running" /\ at[Main] = "none" /\ (blocked \/ pending \cap defaulted = {})
  BY DEF MainStep, MainRuns
<1>2. PICK t \in Threads : at[t] \in Working
  BY <1>1 DEF IInv, CleaningInv
<1>3. t # Main /\ at[t] # "none"
  BY <1>1, <1>2 DEF Working
<1>4. t \in live /\ pc = "encode"
  BY <1>3 DEF IInv, ThreadsInv
<1>5. QED
  BY <1>3, <1>4 DEF MainStep, EnsureOutputAllowed, BlockSignals, MakeDirectory, Register,
     UnblockSignals, OpenPayload, StartHelpers, FinishEncoding, Publish, PublishByLink,
     RemovePayload, RemoveDirectory, Unregister, Exit

LEMMA MainStepInv ==
  ASSUME IInv, MainStep, UNCHANGED command
  PROVE  IInv'
<1> USE DEF command, fileVars, signalVars, Fail, Goto
<1>1. ~cleaning /\ defaulted = {} /\ fate = "running" /\ at[Main] = "none"
  BY MainStandsStill DEF IInv, CleaningInv, MainStep, MainRuns
<1>2. UNCHANGED <<helpers, cleaning, defaulted, pending, sent, at, handling>>
  BY DEF MainStep, EnsureOutputAllowed, BlockSignals, MakeDirectory, Register,
     UnblockSignals, OpenPayload, StartHelpers, FinishEncoding, Publish, PublishByLink,
     RemovePayload, RemoveDirectory, Unregister, Exit
<1>3. OutcomeInv'
  BY MainOutcome DEF IInv
<1>4. ThreadsInv'
  BY <1>1, <1>2 DEF IInv, ThreadsInv, Places, Threads, MainStep, EnsureOutputAllowed, BlockSignals,
     MakeDirectory, Register, UnblockSignals, OpenPayload, StartHelpers, FinishEncoding, Publish,
     PublishByLink, RemovePayload, RemoveDirectory, Unregister, Exit
<1>5. SignalsInv' /\ CleaningInv'
  BY <1>1, <1>2 DEF IInv, SignalsInv, CleaningInv
<1>6. StagingInv'
  <2>1. \A t \in Threads : at[t] # "rmdir"
    BY <1>1 DEF IInv, CleaningInv, Working
  <2>2. QED
    BY <1>1, <1>2, <2>1 DEF IInv, OutcomeInv, StagingInv, Places, MainStep, EnsureOutputAllowed,
       BlockSignals, MakeDirectory, Register, UnblockSignals, OpenPayload, StartHelpers,
       FinishEncoding, Publish, PublishByLink, RemovePayload, RemoveDirectory, Unregister, Exit
<1>7. StagingRemoved' /\ SignalNotOutrun'
  BY <1>1, <1>2 DEF IInv, StagingInv, StagingRemoved, SignalNotOutrun, MainStep,
     EnsureOutputAllowed, BlockSignals, MakeDirectory, Register, UnblockSignals, OpenPayload,
     StartHelpers, FinishEncoding, Publish, PublishByLink, RemovePayload, RemoveDirectory,
     Unregister, Exit
<1>8. QED
  BY <1>3, <1>4, <1>5, <1>6, <1>7 DEF IInv

LEMMA SendInv ==
  ASSUME IInv, MaxSignals <= 1, NEW s \in Signals, Send(s), UNCHANGED command
  PROVE  IInv'
<1> USE DEF command, fileVars
<1>1. /\ fate = "running" /\ s \notin sent /\ sent' = sent \cup {s} /\ pending' = pending \cup {s}
      /\ helpers = {} \/ Cardinality(sent) < MaxSignals
      /\ UNCHANGED <<helpers, fileVars, active, cleaning, defaulted, blocked, at, handling, live,
                     ec, verdict, fate, pc>>
  BY DEF Send
<1>2. helpers # {} => sent = {}
  <2>1. IsFiniteSet(sent)
    BY DEF IInv, SignalsInv
  <2>2. Cardinality(sent) \in Nat /\ (Cardinality(sent) = 0 => sent = {})
    BY <2>1, FS_CardinalityType, FS_EmptySet
  <2>3. MaxSignals \in Nat
    BY StagedAssumption
  <2>4. QED
    BY <1>1, <2>2, <2>3
<1>3. SignalsInv'
  <2>1. IsFiniteSet(sent')
    BY <1>1, FS_AddElement DEF IInv, SignalsInv
  <2>2. (\A t \in Threads : at[t] # "none" => \E x \in sent : handling[t] = {x} /\ x \notin pending)'
    BY <1>1 DEF IInv, SignalsInv
  <2>3. QED
    BY <1>1, <1>2, <2>1, <2>2 DEF IInv, SignalsInv
<1>4. OutcomeInv' /\ ThreadsInv' /\ CleaningInv'
  BY <1>1 DEF IInv, OutcomeInv, ThreadsInv, CleaningInv
<1>5. StagingInv' /\ StagingRemoved' /\ SignalNotOutrun'
  BY <1>1 DEF IInv, StagingInv, StagingRemoved, SignalNotOutrun
<1>6. QED
  BY <1>3, <1>4, <1>5 DEF IInv

\* A signal can be delivered only where no handler is running.
LEMMA DeliverInv ==
  ASSUME IInv, NEW s \in Signals, NEW t \in Threads, Deliver(t, s), UNCHANGED command
  PROVE  IInv'
<1> USE DEF command, fileVars
<1>1. /\ fate = "running" /\ (t = Main \/ t \in live) /\ (t = Main => ~blocked)
      /\ at[t] = "none" /\ s \in pending /\ pending' = pending \ {s}
      /\ UNCHANGED <<helpers, fileVars, active, cleaning, defaulted, sent, blocked, live, ec,
                     verdict, pc>>
  BY DEF Deliver
<1>2. \A u \in Threads : at[u] = "none"
  <2> SUFFICES ASSUME NEW u \in Threads, at[u] # "none" PROVE FALSE
    OBVIOUS
  <2>1. PICK x \in sent : handling[u] = {x} /\ x \notin pending
    BY DEF IInv, SignalsInv
  <2>2. helpers = {}
    BY <1>1, <2>1 DEF IInv, SignalsInv
  <2>3. live = {} /\ u = Main /\ t = Main
    BY <1>1, <2>2 DEF IInv, ThreadsInv
  <2>4. QED
    BY <1>1, <2>3
<1>3. OutcomeInv'
  BY <1>1 DEF IInv, OutcomeInv
<1>4. CASE s \in defaulted /\ fate' = "killed" /\ UNCHANGED <<at, handling>>
  <2>1. ThreadsInv' /\ SignalsInv' /\ CleaningInv'
    BY <1>1, <1>2, <1>4 DEF IInv, ThreadsInv, SignalsInv, CleaningInv, Working
  <2>2. cleaning /\ (~dir \/ ec)
    BY <1>2, <1>4 DEF IInv, CleaningInv, StagingInv
  <2>3. StagingInv' /\ StagingRemoved' /\ SignalNotOutrun'
    BY <1>1, <1>4, <2>2 DEF IInv, StagingInv, StagingRemoved, SignalNotOutrun
  <2>4. QED
    BY <1>3, <2>1, <2>3 DEF IInv
<1>5. CASE /\ s \notin defaulted
           /\ at' = [at EXCEPT ![t] = "check"]
           /\ handling' = [handling EXCEPT ![t] = {s}]
           /\ UNCHANGED fate
  <2>1. /\ at'[t] = "check" /\ handling'[t] = {s}
        /\ \A u \in Threads : u # t => at'[u] = "none" /\ handling'[u] = handling[u]
        /\ at' \in [Threads -> HandlerPlaces] /\ handling' \in [Threads -> SUBSET Signals]
    BY <1>2, <1>5 DEF IInv, ThreadsInv, HandlerPlaces
  <2>2. ThreadsInv'
    <3>1. blocked => t # Main
      BY <1>1
    <3>2. blocked => at'[Main] = "none"
      BY <2>1, <3>1 DEF Threads
    <3>3. \A u \in Threads : at'[u] # "none" /\ u # Main => u \in live
      BY <1>1, <2>1
    <3>4. QED
      BY <1>1, <2>1, <3>2, <3>3 DEF IInv, ThreadsInv
  <2>3. SignalsInv'
    <3>1. \A u, v \in Threads : at'[u] # "none" /\ at'[v] # "none" => u = v
      BY <2>1
    <3>2. \A u \in Threads : at'[u] # "none" => \E x \in sent' : handling'[u] = {x} /\ x \notin pending'
      BY <1>1, <2>1 DEF IInv, SignalsInv
    <3>3. \A u \in Threads : at'[u] # "raise"
      BY <2>1
    <3>4. QED
      BY <1>1, <3>1, <3>2, <3>3 DEF IInv, SignalsInv
  <2>4. CleaningInv'
    <3>1. \A u \in Threads : at[u] \notin Working /\ at'[u] \notin Working
      BY <1>2, <2>1 DEF Working
    <3>2. pending \cap defaulted # {} => pending' \cap defaulted # {}
      BY <1>1, <1>5
    <3>3. QED
      BY <1>1, <1>5, <3>1, <3>2 DEF IInv, CleaningInv
  <2>5. StagingInv'
    BY <1>1, <1>2, <2>1 DEF IInv, StagingInv
  <2>6. StagingRemoved' /\ SignalNotOutrun'
    BY <1>1, <1>5 DEF StagingRemoved, SignalNotOutrun
  <2>7. QED
    BY <1>3, <2>2, <2>3, <2>4, <2>5, <2>6 DEF IInv
<1>6. QED
  BY <1>4, <1>5 DEF Deliver

\* What all steps of a handler have in common.
LEMMA HandlerFacts ==
  ASSUME IInv, NEW t \in Threads, NEW here, here # "none", NEW next \in HandlerPlaces,
         Handler(t, here, next)
  PROVE  /\ fate = "running" /\ at[t] = here /\ at'[t] = next /\ ~blocked /\ pc # "register"
         /\ at' \in [Threads -> HandlerPlaces]
         /\ \A u \in Threads : u # t => at[u] = "none" /\ at'[u] = "none"
         /\ t # Main => t \in live
         /\ \E s \in sent : handling[t] = {s} /\ s \notin pending
<1>1. fate = "running" /\ at[t] = here /\ at' = [at EXCEPT ![t] = next] /\ at[t] # "none"
  BY DEF Handler
<1>2. \A u \in Threads : u # t => at[u] = "none"
  BY <1>1 DEF IInv, SignalsInv
<1>3. at'[t] = next /\ at' \in [Threads -> HandlerPlaces] /\ \A u \in Threads : u # t => at'[u] = "none"
  BY <1>1, <1>2 DEF IInv, ThreadsInv
<1>4. t # Main => t \in live
  BY <1>1 DEF IInv, ThreadsInv
<1>5. ~blocked /\ pc # "register"
  BY <1>1, <1>4 DEF IInv, ThreadsInv
<1>6. \E s \in sent : handling[t] = {s} /\ s \notin pending
  BY <1>1 DEF IInv, SignalsInv
<1>7. QED
  BY <1>1, <1>2, <1>3, <1>4, <1>5, <1>6

LEMMA HandlerStepInv ==
  ASSUME IInv, NEW t \in Threads, HandlerStep(t), UNCHANGED command
  PROVE  IInv'
<1> USE DEF command, fileVars
<1>1. /\ UNCHANGED <<helpers, dest, active, sent, blocked, live, ec, verdict, pc>>
      /\ fate = "running"
  BY DEF HandlerStep, HandlerCheck, HandlerMark, HandlerUnlink, HandlerRmdir, HandlerRestore,
     HandlerRaise, Handler
<1> DEFINE Shape(here, next) ==
             /\ at[t] = here /\ at'[t] = next /\ ~blocked /\ pc # "register"
             /\ at' \in [Threads -> HandlerPlaces]
             /\ \A u \in Threads : u # t => at[u] = "none" /\ at'[u] = "none"
             /\ t # Main => t \in live
             /\ \E s \in sent : handling[t] = {s} /\ s \notin pending
<1>2. \E here, next \in HandlerPlaces : here # "none" /\ Handler(t, here, next)
  BY DEF HandlerStep, HandlerCheck, HandlerMark, HandlerUnlink, HandlerRmdir, HandlerRestore,
     HandlerRaise, HandlerPlaces
<1>3. OutcomeInv'
  <2>1. payload' \in {payload, "none"} /\ (fate' = "running" \/ pc \in Places)
    BY DEF HandlerStep, HandlerCheck, HandlerMark, HandlerUnlink, HandlerRmdir, HandlerRestore,
       HandlerRaise, IInv, OutcomeInv
  <2>2. QED
    BY <1>1, <2>1 DEF IInv, OutcomeInv
<1>4. ThreadsInv'
  <2>1. /\ at' \in [Threads -> HandlerPlaces]
        /\ \A u \in Threads : at'[u] # "none" /\ u # Main => u \in live
        /\ ~blocked
    BY <1>2, HandlerFacts
  <2>2. handling' \in [Threads -> SUBSET Signals]
    BY DEF HandlerStep, HandlerCheck, HandlerMark, HandlerUnlink, HandlerRmdir, HandlerRestore,
       HandlerRaise, IInv, ThreadsInv
  <2>3. QED
    BY <1>1, <2>1, <2>2 DEF IInv, ThreadsInv
<1>5. CASE HandlerCheck(t)
  <2>1. PICK next \in {"mark", "gone"} :
          /\ Handler(t, "check", next)
          /\ \/ next = "mark" /\ ~cleaning /\ UNCHANGED fate
             \/ next = "gone" /\ cleaning /\ fate' = "aborted"
    BY <1>5 DEF HandlerCheck
  <2>2. Shape("check", next)
    BY <2>1, HandlerFacts DEF HandlerPlaces
  <2>3. UNCHANGED <<dir, payload, cleaning, defaulted, pending, handling>>
    BY <1>5 DEF HandlerCheck
  <2>4. SignalsInv'
    BY <1>1, <2>1, <2>2, <2>3 DEF IInv, SignalsInv
  <2>5. CleaningInv'
    BY <1>1, <2>1, <2>2, <2>3 DEF IInv, CleaningInv, Working
  <2>6. cleaning => ~dir \/ ec
    BY <2>2 DEF IInv, StagingInv
  <2>7. StagingInv' /\ StagingRemoved' /\ SignalNotOutrun'
    BY <1>1, <2>1, <2>2, <2>3, <2>6 DEF IInv, StagingInv, StagingRemoved, SignalNotOutrun
  <2>8. QED
    BY <1>3, <1>4, <2>4, <2>5, <2>7 DEF IInv
<1>6. CASE HandlerMark(t)
  <2>1. PICK next \in {"unlink", "restore"} :
          Handler(t, "mark", next) /\ (next = "restore" => ~active)
    BY <1>6 DEF HandlerMark
  <2>2. Shape("mark", next)
    BY <2>1, HandlerFacts DEF HandlerPlaces
  <2>3. UNCHANGED <<dir, payload, defaulted, pending, handling, fate>> /\ cleaning' = TRUE
    BY <1>6 DEF HandlerMark
  <2>4. SignalsInv'
    BY <1>1, <2>1, <2>2, <2>3 DEF IInv, SignalsInv
  <2>5. CleaningInv'
    BY <1>1, <2>1, <2>2, <2>3 DEF IInv, CleaningInv, Working
  <2>6. StagingInv' /\ StagingRemoved' /\ SignalNotOutrun'
    BY <1>1, <2>1, <2>2, <2>3 DEF IInv, StagingInv, StagingRemoved, SignalNotOutrun
  <2>7. QED
    BY <1>3, <1>4, <2>4, <2>5, <2>6 DEF IInv
<1>7. CASE HandlerUnlink(t)
  <2>1. Handler(t, "unlink", "rmdir")
    BY <1>7 DEF HandlerUnlink
  <2>2. Shape("unlink", "rmdir")
    BY <2>1, HandlerFacts DEF HandlerPlaces
  <2>3. UNCHANGED <<dir, cleaning, defaulted, pending, handling, fate>> /\ payload' = "none"
    BY <1>7 DEF HandlerUnlink
  <2>4. SignalsInv'
    BY <1>1, <2>2, <2>3 DEF IInv, SignalsInv
  <2>5. CleaningInv'
    BY <1>1, <2>2, <2>3 DEF IInv, CleaningInv, Working
  <2>6. StagingInv' /\ StagingRemoved' /\ SignalNotOutrun'
    BY <1>1, <2>2, <2>3 DEF IInv, StagingInv, StagingRemoved, SignalNotOutrun
  <2>7. QED
    BY <1>3, <1>4, <2>4, <2>5, <2>6 DEF IInv
<1>8. CASE HandlerRmdir(t)
  <2>1. Handler(t, "rmdir", "restore")
    BY <1>8 DEF HandlerRmdir
  <2>2. Shape("rmdir", "restore")
    BY <2>1, HandlerFacts DEF HandlerPlaces
  <2>3. UNCHANGED <<payload, cleaning, defaulted, pending, handling, fate>>
    BY <1>8 DEF HandlerRmdir
  <2>4. ~dir'
    BY <1>8, <2>2 DEF HandlerRmdir, IInv, StagingInv
  <2>5. SignalsInv'
    BY <1>1, <2>2, <2>3 DEF IInv, SignalsInv
  <2>6. CleaningInv'
    BY <1>1, <2>2, <2>3 DEF IInv, CleaningInv, Working
  <2>7. StagingInv' /\ StagingRemoved' /\ SignalNotOutrun'
    BY <1>1, <2>2, <2>3, <2>4 DEF IInv, StagingInv, StagingRemoved, SignalNotOutrun
  <2>8. QED
    BY <1>3, <1>4, <2>5, <2>6, <2>7 DEF IInv
<1>9. CASE HandlerRestore(t)
  <2>1. Handler(t, "restore", "raise")
    BY <1>9 DEF HandlerRestore
  <2>2. Shape("restore", "raise")
    BY <2>1, HandlerFacts DEF HandlerPlaces
  <2>3. UNCHANGED <<dir, payload, cleaning, pending, handling, fate>>
        /\ defaulted' = defaulted \cup handling[t] /\ cleaning
    BY <1>9, <2>2 DEF HandlerRestore, IInv, CleaningInv, Working
  <2>4. SignalsInv'
    BY <1>1, <2>2, <2>3 DEF IInv, SignalsInv
  <2>5. CleaningInv'
    BY <1>1, <2>2, <2>3 DEF IInv, CleaningInv, Working
  <2>6. StagingInv' /\ StagingRemoved' /\ SignalNotOutrun'
    BY <1>1, <2>2, <2>3 DEF IInv, StagingInv, StagingRemoved, SignalNotOutrun
  <2>7. QED
    BY <1>3, <1>4, <2>4, <2>5, <2>6 DEF IInv
<1>10. CASE HandlerRaise(t)
  <2>1. Handler(t, "raise", "none")
    BY <1>10 DEF HandlerRaise
  <2>2. Shape("raise", "none")
    BY <2>1, HandlerFacts DEF HandlerPlaces
  <2>3. UNCHANGED <<dir, payload, cleaning, defaulted, fate>>
        /\ pending' = pending \cup handling[t]
    BY <1>10 DEF HandlerRaise
  <2>4. PICK s \in sent : handling[t] = {s} /\ s \in defaulted
    BY <2>2 DEF IInv, SignalsInv
  <2>5. \A u \in Threads : at'[u] = "none"
    BY <2>2
  <2>6. SignalsInv'
    BY <1>1, <2>3, <2>4, <2>5 DEF IInv, SignalsInv
  <2>7. CleaningInv'
    BY <1>1, <2>2, <2>3, <2>4, <2>5 DEF IInv, CleaningInv, Working
  <2>8. StagingInv' /\ StagingRemoved' /\ SignalNotOutrun'
    BY <1>1, <2>2, <2>3, <2>5 DEF IInv, StagingInv, StagingRemoved, SignalNotOutrun
  <2>9. QED
    BY <1>3, <1>4, <2>6, <2>7, <2>8 DEF IInv
<1>11. QED
  BY <1>5, <1>6, <1>7, <1>8, <1>9, <1>10 DEF HandlerStep

LEMMA StepPreserves ==
  ASSUME MaxSignals <= 1, IInv, [Next]_vars
  PROVE  IInv'
<1>1. CASE UNCHANGED vars \/ Ended
  BY <1>1 DEF vars, Ended, command, fileVars, signalVars, IInv, OutcomeInv, ThreadsInv, SignalsInv,
     CleaningInv, StagingInv, StagingRemoved, SignalNotOutrun
<1>2. CASE OtherProcess /\ UNCHANGED command
  BY <1>2 DEF OtherProcess, command, signalVars, IInv, OutcomeInv, ThreadsInv, SignalsInv,
     CleaningInv, StagingInv, StagingRemoved, SignalNotOutrun
<1>3. QED
  BY <1>1, <1>2, MainStepInv, SendInv, DeliverInv, HandlerStepInv DEF Next, Step

\* With one signal at most for a command with helpers, and any number of them for
\* one without, the process never ends and leaves its staging directory behind,
\* unless removing it failed.
THEOREM StagingNeverStays ==
  ASSUME MaxSignals <= 1
  PROVE  Spec => []StagingRemoved
<1>1. IInv /\ [Next]_vars => IInv'
  BY StepPreserves
<1>2. IInv => StagingRemoved
  BY DEF IInv
<1>3. QED
  BY <1>1, <1>2, InitEstablishes, PTL DEF Spec

\* Nor does it exit with a code of its own while a signal's cleanup is under way.
THEOREM SignalsAreNotOutrun ==
  ASSUME MaxSignals <= 1
  PROVE  Spec => []SignalNotOutrun
<1>1. IInv /\ [Next]_vars => IInv'
  BY StepPreserves
<1>2. IInv => SignalNotOutrun
  BY DEF IInv
<1>3. QED
  BY <1>1, <1>2, InitEstablishes, PTL DEF Spec
=============================================================================
