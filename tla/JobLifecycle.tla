---------------------------- MODULE JobLifecycle ----------------------------
(***************************************************************************)
(* What the job table promises to the code that enqueues jobs, with no     *)
(* workers, leases or clocks in it: a job is tried at most MaxAttempts     *)
(* times (a try that asks to be rescheduled is not counted), it leaves the *)
(* pending and active phases only to be over, and a job that is over stays *)
(* over, save that an operator may revive a failed cleanup job.            *)
(*                                                                         *)
(* JobQueue implements this specification; Transcription uses its phases.  *)
(***************************************************************************)
EXTENDS Naturals

CONSTANTS Jobs,          \* the rows the jobs table may come to hold
          CleanupJobs,   \* those of type cleanup_audio
          MaxAttempts    \* max_attempts of every job

VARIABLES phase,   \* phase[j]: where job j stands
          tries    \* tries[j]: how many of its attempts are used or in use

vars == <<phase, tries>>

Phases == {"absent", "pending", "active", "succeeded", "failed", "deleted"}

TypeOK ==
  /\ phase \in [Jobs -> Phases]
  /\ tries \in [Jobs -> 0..MaxAttempts]

Init ==
  /\ phase = [j \in Jobs |-> "absent"]
  /\ tries = [j \in Jobs |-> 0]

Move(j, from, to) ==
  /\ phase[j] = from
  /\ phase' = [phase EXCEPT ![j] = to]

Submit(j) ==
  /\ Move(j, "absent", "pending")
  /\ UNCHANGED tries

Start(j) ==
  /\ Move(j, "pending", "active")
  /\ tries[j] < MaxAttempts
  /\ tries' = [tries EXCEPT ![j] = @ + 1]

\* The try asked to be resumed later, and is not counted.
Defer(j) ==
  /\ Move(j, "active", "pending")
  /\ tries' = [tries EXCEPT ![j] = @ - 1]

Succeed(j) ==
  /\ Move(j, "active", "succeeded")
  /\ UNCHANGED tries

\* The error is one no other try can cure.
GiveUp(j) ==
  /\ Move(j, "active", "failed")
  /\ UNCHANGED tries

\* Tries that ended badly: a job with a try left is pending again.
AfterInterrupt(j) == IF tries[j] < MaxAttempts THEN "pending" ELSE "failed"

Interrupt(S) ==
  /\ S # {} /\ \A j \in S : phase[j] = "active"
  /\ phase' = [j \in Jobs |-> IF j \in S THEN AfterInterrupt(j) ELSE phase[j]]
  /\ UNCHANGED tries

\* An operator gives a failed cleanup job a fresh budget.
Revive(j) ==
  /\ j \in CleanupJobs
  /\ Move(j, "failed", "pending")
  /\ tries' = [tries EXCEPT ![j] = 0]

\* Retention forgets jobs that are over.
Forget(S) ==
  /\ S # {} /\ \A j \in S : phase[j] \in {"succeeded", "failed"}
  /\ phase' = [j \in Jobs |-> IF j \in S THEN "deleted" ELSE phase[j]]
  /\ UNCHANGED tries

Next ==
  \/ \E j \in Jobs :
       Submit(j) \/ Start(j) \/ Defer(j) \/ Succeed(j) \/ GiveUp(j) \/ Revive(j)
  \/ \E S \in SUBSET Jobs : Interrupt(S) \/ Forget(S)

Spec == Init /\ [][Next]_vars
=============================================================================
