------------------------------- MODULE RunRows -------------------------------
(***************************************************************************)
(* The rows of one transcription run, the statements of                    *)
(* queries/transcription.sql that write them, and what must be true of     *)
(* them: common to RunSerial, where a transaction is one step, and to      *)
(* RunTransactions, where it is several.                                   *)
(*                                                                         *)
(* Of a row there is what a WHERE or a handler asks for.  A statement is a *)
(* function of the row it addresses, as the transaction sees it: the set   *)
(* of the rows it RETURNs, which is empty when its WHERE does not match.   *)
(*                                                                         *)
(* A definition whose name ends in _<mistake> is the one of that name with *)
(* a mistake in it; no specification uses it, and TLC refutes a property   *)
(* when it takes the place of the right one.  So it is in RunTransactions. *)
(***************************************************************************)
EXTENDS Naturals, FiniteSets

CONSTANTS Chunk,    \* what domain.Plan cuts the audio into
          MaxCopies \* bound: how many jobs of a kind are told apart

ASSUME RunRowsAssumption ==
  /\ Chunk # {} /\ IsFiniteSet(Chunk)
  /\ {"run", "episode", "transcripts", "source", "prepared", "audio", "chunks"} \cap Chunk = {}
  /\ MaxCopies \in Nat \ {0, 1}

VARIABLES
  row,      \* the rows, as committed
  enqueued  \* enqueued[j]: how often job j has been enqueued

rows == <<row, enqueued>>

RunStatuses == {"queued", "downloading", "preparing", "transcribing",
                "aligning", "merging", "completed", "failed"}
ChunkStatuses == {"absent", "planned", "rendering", "ready", "submitting",
                  "submitted", "running", "completed", "failed"}

Runs     == [status : RunStatuses, total : 0..Cardinality(Chunk),
             completed : 0..Cardinality(Chunk), prepared : BOOLEAN]
ChunkRow == [status : ChunkStatuses, object : BOOLEAN, task : BOOLEAN,
             result : BOOLEAN, map : BOOLEAN]
Episodes == [status : {"queued", "running", "completed", "failed"}]

\* The transcript versions of the episode, and how many of them are active.
Transcripts == [versions : {0, 1, 2}, active : {0, 1}]

\* Kind and entity; for a clean_audio job what it cleans.
Jobs ==
  ({"download", "prepare", "plan", "align", "merge"} \X {"run"})
    \cup ({"render", "submit", "poll", "ingest"} \X Chunk)
    \cup ({"clean"} \X ({"source", "prepared", "audio", "chunks"} \cup Chunk))

Rows == {"run", "episode", "transcripts"} \cup Chunk

TypeOK ==
  /\ DOMAIN row = Rows
  /\ row["run"] \in Runs /\ row["episode"] \in Episodes
  /\ row["transcripts"] \in Transcripts
  /\ \A c \in Chunk : row[c] \in ChunkRow
  /\ enqueued \in [Jobs -> 0..MaxCopies]

Absent == [status |-> "absent", object |-> FALSE, task |-> FALSE,
           result |-> FALSE, map |-> FALSE]

\* What Create has committed, for an episode without or with a transcript.
Init ==
  /\ \E n \in {0, 1} :
       row = [x \in Rows |->
         CASE x = "run"         -> [status |-> "queued", total |-> 0, completed |-> 0,
                                    prepared |-> FALSE]
           [] x = "episode"     -> [status |-> "queued"]
           [] x = "transcripts" -> [versions |-> n, active |-> n]
           [] OTHER             -> Absent]
  /\ enqueued = [j \in Jobs |-> IF j = <<"download", "run">> THEN 1 ELSE 0]

\* enqueue, for each of the jobs.
Enqueue(jobs) ==
  enqueued' = [j \in Jobs |->
    IF j \in jobs /\ enqueued[j] < MaxCopies THEN enqueued[j] + 1 ELSE enqueued[j]]

-----------------------------------------------------------------------------
(* transcription_runs                                                      *)

Where(condition, new) == IF condition THEN {new} ELSE {}

SetRunDownloadStarted(r) ==
  Where(r.status = "queued", [r EXCEPT !.status = "downloading"])

SetRunDownloaded(r) ==
  Where(r.status = "downloading", [r EXCEPT !.status = "preparing"])

SetRunPrepared(r) ==
  Where(r.status = "preparing", [r EXCEPT !.prepared = TRUE])

SetRunTranscribing(r, total) ==
  Where(r.status = "preparing" /\ r.total = 0,
        [r EXCEPT !.status = "transcribing", !.total = total])

IncrementRunCompletedChunks(r) ==
  Where(r.status = "transcribing" /\ r.completed < r.total,
        [r EXCEPT !.completed = @ + 1])

SetRunAligning(r) ==
  Where(/\ r.status \in {"transcribing", "aligning"}
        /\ r.completed = r.total /\ r.total > 0,
        [r EXCEPT !.status = "aligning"])

SetRunMerging(r) ==
  Where(r.status = "aligning", [r EXCEPT !.status = "merging"])

CompleteTranscriptionRun(r) ==
  Where(r.status = "merging", [r EXCEPT !.status = "completed"])

Final == {"completed", "failed"}

FailTranscriptionRun(r) ==
  Where(r.status \notin Final, [r EXCEPT !.status = "failed"])

-----------------------------------------------------------------------------
(* transcription_chunks                                                    *)

CreateTranscriptionChunk(c) ==
  Where(c.status = "absent", [c EXCEPT !.status = "planned"])

StartChunkRender(c) ==
  Where(c.status = "planned", [c EXCEPT !.status = "rendering"])

SetChunkRendered(c) ==
  Where(c.status = "rendering", [c EXCEPT !.status = "ready", !.object = TRUE])

StartChunkSubmit(c) ==
  Where(c.status = "ready", [c EXCEPT !.status = "submitting"])

ResetChunkSubmit(c) ==
  Where(c.status = "submitting" /\ ~c.task, [c EXCEPT !.status = "ready"])

SetChunkSubmitted(c) ==
  Where(c.status = "submitting" /\ ~c.task,
        [c EXCEPT !.status = "submitted", !.task = TRUE])

AtService(c) == c.status \in {"submitted", "running"}

SetChunkPolling(c) == Where(AtService(c), [c EXCEPT !.status = "running"])

SetChunkResultReady(c) ==
  Where(AtService(c), [c EXCEPT !.status = "running", !.result = TRUE])

ClearChunkExternalTask(c) ==
  Where(AtService(c), [c EXCEPT !.task = FALSE, !.result = FALSE])

SetChunkIngested(c) ==
  Where(c.status = "running" /\ c.result, [c EXCEPT !.status = "completed"])

SetChunkSpeakerMap(c) == Where(c.status = "completed", [c EXCEPT !.map = TRUE])

FailTranscriptionChunk_AlsoCompleted(c) ==
  Where(c.status # "failed", [c EXCEPT !.status = "failed"])

FailTranscriptionChunk(c) ==
  Where(c.status \notin Final, [c EXCEPT !.status = "failed"])

-----------------------------------------------------------------------------
(* episodes, transcript_versions                                           *)

SetEpisodeTranscriptionStatus(e, status) == [e EXCEPT !.status = status]

DeactivateTranscriptVersions_None(t) == t

DeactivateTranscriptVersions(t) == [t EXCEPT !.active = 0]

\* With its speakers and segments, of the number NextTranscriptVersion gives.
CreateTranscriptVersion(t) == [t EXCEPT !.versions = @ + 1, !.active = @ + 1]

-----------------------------------------------------------------------------
(* Properties, of the committed rows.                                      *)

Completed == {c \in Chunk : row[c].status = "completed"}

Rendered == {c \in Chunk : row[c].object}

\* The counter that decides when alignment starts is the number of chunks that
\* have been ingested, whatever executions ingest them, twice or at once; the
\* align_speakers job is there from the last on, and is enqueued once.
AlignedOnce ==
  /\ row["run"].completed = Cardinality(Completed)
  /\ enqueued[<<"align", "run">>] = IF Completed = Chunk THEN 1 ELSE 0

\* The prepared audio is given up once, by the last chunk to be rendered: no
\* earlier, since a chunk still needs it, and not never, when two are the last.
PreparedFreedOnce ==
  enqueued[<<"clean", "prepared">>] = IF Rendered = Chunk THEN 1 ELSE 0

\* A run that is merged has the speaker map of every chunk: FinishAlignment
\* passes over a chunk silently that is not completed.
MapsSaved ==
  row["run"].status \in {"merging", "completed"} => \A c \in Chunk : row[c].map

\* The episode shows what its run has come to, and a completed run has left one
\* active transcript.
EpisodeAgrees ==
  /\ row["run"].status \in Final => row["episode"].status = row["run"].status
  /\ row["run"].status \in {"transcribing", "aligning", "merging"} =>
       row["episode"].status = "running"
  /\ row["transcripts"].active = IF row["transcripts"].versions = 0 THEN 0 ELSE 1
  /\ row["run"].status = "completed" => row["transcripts"].active = 1
=============================================================================
