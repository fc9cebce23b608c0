---------------------------- MODULE StagedOutput ----------------------------
(***************************************************************************)
(* How a command of main.cpp produces its output: into a private staging   *)
(* directory that the signal handler knows about, then published under the *)
(* destination's name.  Termination signals arrive at any moment, on any   *)
(* thread that does not block them, and other processes use the same path. *)
(* The handler runs on top of the thread it interrupts: that thread does   *)
(* nothing else until the handler returns, the other threads go on.        *)
(***************************************************************************)
EXTENDS Integers, FiniteSets

CONSTANTS Main,         \* the thread that runs main()
          Helpers,      \* the threads of an encoder that has any
          Signals,      \* SIGINT, SIGTERM, SIGHUP
          MaxSignals    \* bound: how many are sent to a command with helpers

ASSUME StagedAssumption ==
  /\ IsFiniteSet(Helpers) /\ Main \notin Helpers
  /\ MaxSignals \in Nat

VARIABLES
  overwrite,   \* the --overwrite option
  helpers,     \* the threads the command is going to start
  dest,        \* the file at the destination path
  dir,         \* does the staging directory exist?
  payload,     \* the file in it
  active,      \* g_signal_safe_staging_output.active
  cleaning,    \* g_termination_cleanup_in_progress
  defaulted,   \* signals whose action is SIG_DFL again
  pending,     \* signals sent to the process and not delivered
  sent,        \* signals sent so far
  blocked,     \* the main thread blocks them (BlockTerminationSignals)
  live,        \* helper threads that run
  at,          \* where each thread is in the signal handler, if it is
  handling,    \* the signal it handles there
  ec,          \* remove_all failed
  verdict,     \* outcome of the command
  fate,        \* how the process ended
  pc           \* where the main thread is

command    == <<overwrite, helpers>>
fileVars   == <<dest, dir, payload>>
signalVars == <<active, cleaning, defaulted, pending, sent, blocked, at, handling>>
vars       == <<command, fileVars, signalVars, live, ec, verdict, fate, pc>>

Threads == {Main} \cup Helpers

Init ==
  /\ overwrite \in BOOLEAN /\ helpers \in {{}, Helpers}
  /\ dest \in {"absent", "foreign"}
  /\ dir = FALSE /\ payload = "none"
  /\ active = FALSE /\ cleaning = FALSE
  /\ defaulted = {} /\ pending = {} /\ sent = {}
  /\ blocked = FALSE
  /\ live = {}
  /\ at = [t \in Threads |-> "none"]
  /\ handling = [t \in Threads |-> {}]
  /\ ec = FALSE
  /\ verdict = "none" /\ fate = "running"
  /\ pc = "check"

-----------------------------------------------------------------------------
(* The main thread. *)

\* It runs: no handler on top of it, and no fatal signal has hit the process.
MainRuns ==
  /\ fate = "running"
  /\ at[Main] = "none"
  /\ blocked \/ pending \cap defaulted = {}

Fail(next) == verdict' = "failed" /\ pc' = next
Goto(next) == verdict' = verdict /\ pc' = next

\* ensure_output_allowed: a look at the path, long before it is used.
EnsureOutputAllowed ==
  /\ pc = "check"
  /\ IF ~overwrite /\ dest # "absent" THEN Fail("exit") ELSE Goto("block")
  /\ UNCHANGED <<fileVars, signalVars, live, ec, fate>>

(* TemporaryOutput(): signals wait from mkdtemp until the handler knows. *)

\* Mutant: signals stay unblocked.
BlockNothing ==
  /\ pc = "block"
  /\ Goto("mkdtemp")
  /\ UNCHANGED <<fileVars, signalVars, live, ec, fate>>

BlockSignals ==
  /\ pc = "block"
  /\ \/ blocked' = TRUE /\ Goto("mkdtemp")
     \/ Fail("exit") /\ UNCHANGED blocked
  /\ UNCHANGED <<fileVars, active, cleaning, defaulted, pending, sent, at,
                 handling, live, ec, fate>>

MakeDirectory ==
  /\ pc = "mkdtemp"
  /\ \/ dir' = TRUE /\ Goto("register")
     \/ Fail("unblock") /\ UNCHANGED dir
  /\ UNCHANGED <<dest, payload, signalVars, live, ec, fate>>

\* register_signal_safe_staging_output, which refuses paths that do not fit.
Register ==
  /\ pc = "register"
  /\ \/ active' = TRUE /\ Goto("unblock") /\ UNCHANGED <<dir, ec>>
     \/ /\ Fail("unblock")
        /\ \/ dir' = FALSE /\ UNCHANGED ec
           \/ ec' = TRUE /\ UNCHANGED dir
        /\ UNCHANGED active
  /\ UNCHANGED <<dest, payload, cleaning, defaulted, pending, sent, blocked, at,
                 handling, live, fate>>

UnblockSignals ==
  /\ pc = "unblock"
  /\ blocked' = FALSE
  /\ Goto(IF verdict = "failed" THEN "exit" ELSE "open")
  /\ UNCHANGED <<fileVars, active, cleaning, defaulted, pending, sent, at,
                 handling, live, ec, fate>>

(* Producing the payload. *)

OpenPayload ==
  /\ pc = "open"
  /\ \/ dir /\ payload' = "partial" /\ Goto("start")
     \/ Fail("remove") /\ UNCHANGED payload
  /\ UNCHANGED <<dest, dir, signalVars, live, ec, fate>>

StartHelpers ==
  /\ pc = "start"
  /\ live' = helpers
  /\ Goto("encode")
  /\ UNCHANGED <<fileVars, signalVars, ec, fate>>

\* Mutant: the threads are left running.
AbandonHelpers ==
  /\ pc = "encode"
  /\ \/ payload' = (IF payload = "partial" THEN "complete" ELSE payload) /\ Goto("publish")
     \/ Fail("remove") /\ UNCHANGED payload
  /\ UNCHANGED <<dest, dir, signalVars, live, ec, fate>>

\* The encoder returns or throws when its threads are joined, hence not while
\* one of them is in the signal handler.
FinishEncoding ==
  /\ pc = "encode"
  /\ \A h \in live : at[h] = "none"
  /\ live' = {}
  /\ \/ payload' = (IF payload = "partial" THEN "complete" ELSE payload) /\ Goto("publish")
     \/ Fail("remove") /\ UNCHANGED payload
  /\ UNCHANGED <<dest, dir, signalVars, ec, fate>>

(* publish_temporary_output *)

\* Mutant: trust the check made at the start.
RenameIfAllowed == payload # "none"

\* The conditions under which each way of publishing can succeed.
RenameWorks          == payload # "none"
RenameNoReplaceWorks == payload # "none" /\ dest = "absent"

Publish ==
  /\ pc = "publish"
  /\ \/ /\ IF overwrite THEN RenameWorks ELSE RenameNoReplaceWorks
        /\ dest' = payload /\ payload' = "none"
        /\ verdict' = "published" /\ pc' = "remove"
     \/ /\ ~overwrite                  \* no such system call or file system
        /\ Goto("link")
        /\ UNCHANGED <<dest, payload>>
     \/ Fail("remove") /\ UNCHANGED <<dest, payload>>
  /\ UNCHANGED <<dir, signalVars, live, ec, fate>>

\* The fallback: link(), which leaves the payload where it is.
PublishByLink ==
  /\ pc = "link"
  /\ \/ /\ RenameNoReplaceWorks
        /\ dest' = payload
        /\ verdict' = "published" /\ pc' = "remove"
     \/ Fail("remove") /\ UNCHANGED dest
  /\ UNCHANGED <<dir, payload, signalVars, live, ec, fate>>

(* ~TemporaryOutput(): remove_all, then unregister unless it failed. *)

RemovePayload ==
  /\ pc = "remove"
  /\ \/ payload' = "none" /\ Goto("rmdir") /\ UNCHANGED ec
     \/ ec' = TRUE /\ Goto("exit") /\ UNCHANGED payload
  /\ UNCHANGED <<dest, dir, signalVars, live, fate>>

RemoveDirectory ==
  /\ pc = "rmdir"
  /\ \/ dir' = FALSE /\ Goto("unregister") /\ UNCHANGED ec
     \/ ec' = TRUE /\ Goto("exit") /\ UNCHANGED dir
  /\ UNCHANGED <<dest, payload, signalVars, live, fate>>

Unregister ==
  /\ pc = "unregister"
  /\ active' = FALSE
  /\ Goto("exit")
  /\ UNCHANGED <<fileVars, cleaning, defaulted, pending, sent, blocked, at,
                 handling, live, ec, fate>>

Exit ==
  /\ pc = "exit"
  /\ fate' = "exited" /\ Goto("gone")
  /\ UNCHANGED <<fileVars, signalVars, live, ec>>

MainStep ==
  /\ MainRuns
  /\ \/ EnsureOutputAllowed
     \/ BlockSignals \/ MakeDirectory \/ Register \/ UnblockSignals
     \/ OpenPayload \/ StartHelpers \/ FinishEncoding
     \/ Publish \/ PublishByLink
     \/ RemovePayload \/ RemoveDirectory \/ Unregister \/ Exit

-----------------------------------------------------------------------------
(* Signals and their handler, cleanup_staging_output_on_termination. *)

Send(s) ==
  /\ fate = "running"
  /\ s \notin sent /\ (helpers = {} \/ Cardinality(sent) < MaxSignals)
  /\ sent' = sent \cup {s}
  /\ pending' = pending \cup {s}
  /\ UNCHANGED <<fileVars, active, cleaning, defaulted, blocked, at, handling,
                 live, ec, verdict, fate, pc>>

\* Thread t takes signal s; its handler blocks all of Signals for t.
Deliver(t, s) ==
  /\ fate = "running"
  /\ t = Main \/ t \in live
  /\ t = Main => ~blocked
  /\ at[t] = "none" /\ s \in pending
  /\ pending' = pending \ {s}
  /\ IF s \in defaulted
     THEN fate' = "killed" /\ UNCHANGED <<at, handling>>
     ELSE /\ at' = [at EXCEPT ![t] = "check"]
          /\ handling' = [handling EXCEPT ![t] = {s}]
          /\ UNCHANGED fate
  /\ UNCHANGED <<fileVars, active, cleaning, defaulted, sent, blocked, live, ec,
                 verdict, pc>>

Handler(t, here, next) ==
  /\ fate = "running"
  /\ at[t] = here
  /\ at' = [at EXCEPT ![t] = next]

HandlerCheck(t) ==
  /\ \/ ~cleaning /\ Handler(t, "check", "mark") /\ UNCHANGED fate
     \/ /\ cleaning /\ Handler(t, "check", "gone")
        /\ fate' = "aborted"           \* _exit
  /\ UNCHANGED <<fileVars, active, cleaning, defaulted, pending, sent, blocked,
                 handling, live, ec, verdict, pc>>

HandlerMark(t) ==
  /\ Handler(t, "mark", IF active THEN "unlink" ELSE "restore")
  /\ cleaning' = TRUE
  /\ UNCHANGED <<fileVars, active, defaulted, pending, sent, blocked, handling,
                 live, ec, verdict, fate, pc>>

HandlerUnlink(t) ==
  /\ Handler(t, "unlink", "rmdir")
  /\ payload' = "none"
  /\ UNCHANGED <<dest, dir, active, cleaning, defaulted, pending, sent, blocked,
                 handling, live, ec, verdict, fate, pc>>

HandlerRmdir(t) ==
  /\ Handler(t, "rmdir", "restore")
  /\ dir' = (dir /\ payload # "none")
  /\ UNCHANGED <<dest, payload, active, cleaning, defaulted, pending, sent,
                 blocked, handling, live, ec, verdict, fate, pc>>

HandlerRestore(t) ==
  /\ Handler(t, "restore", "raise")
  /\ defaulted' = defaulted \cup handling[t]
  /\ UNCHANGED <<fileVars, active, cleaning, pending, sent, blocked, handling,
                 live, ec, verdict, fate, pc>>

HandlerRaise(t) ==
  /\ Handler(t, "raise", "none")
  /\ pending' = pending \cup handling[t]
  /\ handling' = [handling EXCEPT ![t] = {}]
  /\ UNCHANGED <<fileVars, active, cleaning, defaulted, sent, blocked, live, ec,
                 verdict, fate, pc>>

HandlerStep(t) ==
  \/ HandlerCheck(t) \/ HandlerMark(t) \/ HandlerUnlink(t) \/ HandlerRmdir(t)
  \/ HandlerRestore(t) \/ HandlerRaise(t)

-----------------------------------------------------------------------------
\* Other processes at the destination path.
OtherProcess ==
  /\ fate = "running"
  /\ dest' \in {"absent", "foreign"} \ {dest}
  /\ UNCHANGED <<dir, payload, signalVars, live, ec, verdict, fate, pc>>

Ended == fate # "running" /\ UNCHANGED vars

Step ==
  \/ MainStep
  \/ \E s \in Signals : Send(s) \/ \E t \in Threads : Deliver(t, s)
  \/ \E t \in Threads : HandlerStep(t)
  \/ OtherProcess

Next ==
  \/ Step /\ UNCHANGED command
  \/ Ended

Spec == Init /\ [][Next]_vars
-----------------------------------------------------------------------------
(* Properties. *)

\* However the process ends, by return, error or signal, its staging directory
\* is gone, unless removing it failed.
StagingRemoved == fate # "running" => ~dir \/ ec

\* A termination signal that has begun to clean up is never outrun by the main
\* thread: the process does not go on to return an exit code of its own.
SignalNotOutrun == fate = "exited" => ~cleaning

\* The destination seen from outside.
Output == INSTANCE AtomicOutput WITH ended <- fate # "running"
PublishesAtomically == Output!OutputSpec
=============================================================================
