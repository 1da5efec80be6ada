-------------------------- MODULE TranscriptOutcome --------------------------
(***************************************************************************)
(* What a transcription run promises to the user who asked for it: each    *)
(* chunk of audio is billed at most once by the ASR service, the           *)
(* transcript is published at most once, only when every chunk has been    *)
(* transcribed, and a run that has published or failed is over.  No jobs,  *)
(* workers, objects or intermediate stages appear here.                    *)
(*                                                                         *)
(* Transcription implements this specification.                            *)
(***************************************************************************)
EXTENDS Naturals

CONSTANT Chunks      \* the windows the audio is cut into

VARIABLES outcome,   \* "open", "published" or "failed"
          bills,     \* bills[c]: how often the service has accepted chunk c
          done       \* the chunks whose normalized result is stored

vars == <<outcome, bills, done>>

TypeOK ==
  /\ outcome \in {"open", "published", "failed"}
  /\ bills \in [Chunks -> Nat]
  /\ done \in SUBSET Chunks

Init ==
  /\ outcome = "open"
  /\ bills = [c \in Chunks |-> 0]
  /\ done = {}

\* A submission in flight when the run fails is billed all the same.
Bill(c) ==
  /\ bills[c] = 0
  /\ bills' = [bills EXCEPT ![c] = 1]
  /\ UNCHANGED <<outcome, done>>

Transcribe(c) ==
  /\ outcome = "open" /\ bills[c] = 1 /\ c \notin done
  /\ done' = done \cup {c}
  /\ UNCHANGED <<outcome, bills>>

Publish ==
  /\ outcome = "open" /\ done = Chunks
  /\ outcome' = "published"
  /\ UNCHANGED <<bills, done>>

Fail ==
  /\ outcome = "open"
  /\ outcome' = "failed"
  /\ UNCHANGED <<bills, done>>

Next == Publish \/ Fail \/ \E c \in Chunks : Bill(c) \/ Transcribe(c)

Spec == Init /\ [][Next]_vars
=============================================================================
