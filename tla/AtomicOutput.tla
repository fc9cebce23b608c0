---------------------------- MODULE AtomicOutput ----------------------------
(***************************************************************************)
(* What compress, decompress and convert promise about the destination,    *)
(* whatever fails and whoever else uses the path: this process changes it  *)
(* at most once, from what it was to the complete output, and it reports   *)
(* success only if it did.  Without --overwrite it never takes the path    *)
(* from somebody else.                                                     *)
(***************************************************************************)
VARIABLES overwrite,    \* the --overwrite option; never changes
          dest,         \* what is at the destination path
          verdict,      \* "none", "published" (exit 0) or "failed" (exit 1)
          ended         \* the process is gone

outputVars == <<overwrite, dest, verdict, ended>>

NobodysFile == {"absent", "foreign"}

OutputInit ==
  /\ overwrite \in BOOLEAN
  /\ dest \in NobodysFile
  /\ verdict = "none"
  /\ ended = FALSE

Publish ==
  /\ ~ended /\ verdict = "none"
  /\ overwrite \/ dest = "absent"
  /\ dest' = "complete"
  /\ verdict' = "published"
  /\ UNCHANGED <<overwrite, ended>>

GiveUp ==
  /\ ~ended /\ verdict = "none"
  /\ verdict' = "failed"
  /\ UNCHANGED <<overwrite, dest, ended>>

\* An exit, or a signal at any point.
End ==
  /\ ended' = TRUE
  /\ UNCHANGED <<overwrite, dest, verdict>>

\* Other processes create, replace and remove files at the same path.
Others ==
  /\ dest' \in NobodysFile
  /\ UNCHANGED <<overwrite, verdict, ended>>

OutputNext == Publish \/ GiveUp \/ End \/ Others

OutputSpec == OutputInit /\ [][OutputNext]_outputVars
=============================================================================
