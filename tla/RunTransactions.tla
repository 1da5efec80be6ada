--------------------------- MODULE RunTransactions ---------------------------
(***************************************************************************)
(* The transactions of internal/repository/transcription.go on the rows of *)
(* one run, statement by statement, as PostgreSQL executes them READ       *)
(* COMMITTED in several sessions:                                          *)
(*   - a statement sees what is committed when it starts, and what its own *)
(*     transaction has written;                                            *)
(*   - an UPDATE whose WHERE matches waits for the transaction that has    *)
(*     the row locked, and then asks its WHERE again; one whose WHERE does *)
(*     not match has no row, and does not wait;                            *)
(*   - SELECT FOR UPDATE waits in the same way;                            *)
(*   - the locks are held to the end of the transaction.                   *)
(* A statement that touches no row of another transaction, an INSERT of a  *)
(* job, an event or a segment, goes with the COMMIT.  The foreign keys of  *)
(* these refer to rows that the transaction has locked by then.            *)
(***************************************************************************)
EXTENDS RunRows, Sequences

CONSTANTS Windows,  \* the chunks, in the order of their sequence
          Session   \* database sessions of the workers

ASSUME RunTransactionsAssumption ==
  /\ Windows \in Seq(Chunk) /\ {Windows[n] : n \in 1..Len(Windows)} = Chunk
  /\ Len(Windows) = Cardinality(Chunk)

VARIABLES
  doing,  \* doing[s]: the transaction of s, what it is about, the statement that
          \* comes next, how many chunks are done, and what ListRunChunks has shown
  write   \* write[s]: the rows that s has locked, as it has written them

session == <<doing, write>>
vars    == <<rows, session>>

Idle == [tx |-> "none", of |-> "run", at |-> "none", done |-> 0, all |-> FALSE]

On(tx, of, at) == [Idle EXCEPT !.tx = tx, !.of = of, !.at = at]

SInit ==
  /\ Init
  /\ doing = [s \in Session |-> Idle]
  /\ write = [s \in Session |-> <<>>]

Locked(s) == DOMAIN write[s]

\* What a statement of s sees of row x.
Seen(s, x) == IF x \in Locked(s) THEN write[s][x] ELSE row[x]

Free(s, x) == \A v \in Session \ {s} : x \notin Locked(v)

-----------------------------------------------------------------------------
(* A step of a session.                                                    *)

\* A session takes up a transaction of a job that was enqueued, now or before.
Begin(s, job) == doing[s] = Idle /\ enqueued[job] > 0

At(s, tx, at) == doing[s].tx = tx /\ doing[s].at = at

Of(s) == doing[s].of

Set(s, next) == doing' = [doing EXCEPT ![s] = next] /\ UNCHANGED rows

Then(s, at) == [doing[s] EXCEPT !.at = at]

Writes(s, x, new) ==
  /\ Free(s, x)
  /\ \E v \in new :
       write' = [write EXCEPT ![s] =
                   [y \in Locked(s) \cup {x} |-> IF y = x THEN v ELSE write[s][y]]]

Rollback(s) == Set(s, Idle) /\ write' = [write EXCEPT ![s] = <<>>]

\* :one, for which no row is an error.
One(s, x, new, next) ==
  IF new = {} THEN Rollback(s) ELSE Writes(s, x, new) /\ Set(s, next)

\* :exec, for which it is not.
Exec(s, x, new, next) ==
  IF new = {} THEN UNCHANGED write /\ Set(s, next) ELSE Writes(s, x, new) /\ Set(s, next)

Commit(s, jobs) ==
  /\ row' = [x \in Rows |-> Seen(s, x)]
  /\ Enqueue(jobs)
  /\ doing' = [doing EXCEPT ![s] = Idle]
  /\ write' = [write EXCEPT ![s] = <<>>]

\* One statement outside of a transaction.
AutoCommit(s, x, new) ==
  /\ Free(s, x)
  /\ \E v \in new : row' = [row EXCEPT ![x] = v]
  /\ doing' = [doing EXCEPT ![s] = Idle]
  /\ UNCHANGED <<enqueued, write>>

LockTranscriptionRun_WithoutForUpdate(s, next) == Set(s, next) /\ UNCHANGED write

\* FOR UPDATE, of the row of the run.  The handlers ask its status right after it,
\* and return when there is nothing to do: a guard of the transactions below.
LockTranscriptionRun(s, next) ==
  Writes(s, "run", {Seen(s, "run")}) /\ Set(s, next)

GetTranscriptionRunForJob == row["run"]

GetTranscriptionChunkForJob(c) == [chunk |-> row[c], run |-> row["run"]]

ListRunChunks(s) == [c \in Chunk |-> Seen(s, c)]

-----------------------------------------------------------------------------
(* download_audio, prepare_audio, plan_transcription                       *)

BeginDownload(s) ==
  \/ /\ Begin(s, <<"download", "run">>)
     /\ GetTranscriptionRunForJob.status = "queued"
     /\ Set(s, On("BeginDownload", "run", "SetRunDownloadStarted"))
     /\ UNCHANGED write
  \/ /\ At(s, "BeginDownload", "SetRunDownloadStarted")
     /\ One(s, "run", SetRunDownloadStarted(row["run"]), Then(s, "COMMIT"))
  \/ At(s, "BeginDownload", "COMMIT") /\ Commit(s, {})

FinishDownload(s) ==
  \/ /\ Begin(s, <<"download", "run">>)
     /\ One(s, "run", SetRunDownloaded(row["run"]), On("FinishDownload", "run", "COMMIT"))
  \/ At(s, "FinishDownload", "COMMIT") /\ Commit(s, {<<"prepare", "run">>})

FinishPrepare(s) ==
  \/ /\ Begin(s, <<"prepare", "run">>)
     /\ One(s, "run", SetRunPrepared(row["run"]), On("FinishPrepare", "run", "COMMIT"))
  \/ /\ At(s, "FinishPrepare", "COMMIT")
     /\ Commit(s, {<<"plan", "run">>, <<"clean", "source">>})

Plan(s) ==
  \/ /\ Begin(s, <<"plan", "run">>)
     /\ row["run"].total = 0 /\ row["run"].status = "preparing" /\ row["run"].prepared
     /\ LockTranscriptionRun(s, On("Plan", "run", "CreateTranscriptionChunk"))
  \/ /\ At(s, "Plan", "CreateTranscriptionChunk")
     /\ LET n == doing[s].done + 1 IN
        One(s, Windows[n], CreateTranscriptionChunk(Seen(s, Windows[n])),
            [doing[s] EXCEPT !.done = n,
               !.at = IF n = Len(Windows) THEN "SetRunTranscribing" ELSE @])
  \/ /\ At(s, "Plan", "SetRunTranscribing")
     /\ One(s, "run", SetRunTranscribing(Seen(s, "run"), Len(Windows)),
            Then(s, "SetEpisodeTranscriptionStatus"))
  \/ /\ At(s, "Plan", "SetEpisodeTranscriptionStatus")
     /\ Exec(s, "episode", {SetEpisodeTranscriptionStatus(row["episode"], "running")},
             Then(s, "COMMIT"))
  \/ At(s, "Plan", "COMMIT") /\ Commit(s, {"render"} \X Chunk)

-----------------------------------------------------------------------------
(* render_audio_chunk, submit_asr, poll_asr, ingest_asr_result             *)

BeginRender(s, c) ==
  \/ /\ Begin(s, <<"render", c>>)
     /\ GetTranscriptionChunkForJob(c).run.status = "transcribing"
     /\ GetTranscriptionChunkForJob(c).chunk.status = "planned"
     /\ Set(s, On("BeginRender", c, "StartChunkRender")) /\ UNCHANGED write
  \/ /\ At(s, "BeginRender", "StartChunkRender") /\ Of(s) = c
     /\ IF StartChunkRender(row[c]) = {} THEN Rollback(s)
        ELSE AutoCommit(s, c, StartChunkRender(row[c]))

FinishRender_ListsBeforeLock(s, c) ==
  \/ /\ Begin(s, <<"render", c>>)
     /\ One(s, c, SetChunkRendered(row[c]), On("FinishRender", c, "ListRunChunks"))
  \/ /\ At(s, "FinishRender", "ListRunChunks") /\ Of(s) = c
     /\ Set(s, [Then(s, "LockTranscriptionRun")
                 EXCEPT !.all = \A d \in Chunk : ListRunChunks(s)[d].object])
     /\ UNCHANGED write
  \/ /\ At(s, "FinishRender", "LockTranscriptionRun") /\ Of(s) = c
     /\ LockTranscriptionRun(s, Then(s, "COMMIT"))
  \/ /\ At(s, "FinishRender", "COMMIT") /\ Of(s) = c
     /\ Commit(s, {<<"submit", c>>} \cup
                    IF doing[s].all THEN {<<"clean", "prepared">>} ELSE {})

FinishRender(s, c) ==
  \/ /\ Begin(s, <<"render", c>>)
     /\ One(s, c, SetChunkRendered(row[c]), On("FinishRender", c, "LockTranscriptionRun"))
  \/ /\ At(s, "FinishRender", "LockTranscriptionRun") /\ Of(s) = c
     /\ LockTranscriptionRun(s, Then(s, "ListRunChunks"))
  \/ /\ At(s, "FinishRender", "ListRunChunks") /\ Of(s) = c
     /\ Set(s, [Then(s, "COMMIT") EXCEPT !.all = \A d \in Chunk : ListRunChunks(s)[d].object])
     /\ UNCHANGED write
  \/ /\ At(s, "FinishRender", "COMMIT") /\ Of(s) = c
     /\ Commit(s, {<<"submit", c>>} \cup
                    IF doing[s].all THEN {<<"clean", "prepared">>} ELSE {})

BeginSubmit(s, c) ==
  \/ /\ Begin(s, <<"submit", c>>)
     /\ GetTranscriptionChunkForJob(c).run.status = "transcribing"
     /\ GetTranscriptionChunkForJob(c).chunk.status = "ready"
     /\ Set(s, On("BeginSubmit", c, "StartChunkSubmit")) /\ UNCHANGED write
  \/ /\ At(s, "BeginSubmit", "StartChunkSubmit") /\ Of(s) = c
     /\ IF StartChunkSubmit(row[c]) = {} THEN Rollback(s)
        ELSE AutoCommit(s, c, StartChunkSubmit(row[c]))

ResetSubmit(s, c) ==
  Begin(s, <<"submit", c>>) /\ AutoCommit(s, c, ResetChunkSubmit(row[c]))

\* The transactions of a chunk that lock the run before they enqueue a job of it.
Hands(s, c, tx, job, new, jobs) ==
  \/ Begin(s, job) /\ One(s, c, new, On(tx, c, "LockTranscriptionRun"))
  \/ /\ At(s, tx, "LockTranscriptionRun") /\ Of(s) = c
     /\ LockTranscriptionRun(s, Then(s, "COMMIT"))
  \/ At(s, tx, "COMMIT") /\ Of(s) = c /\ Commit(s, jobs)

FinishSubmit(s, c) ==
  Hands(s, c, "FinishSubmit", <<"submit", c>>, SetChunkSubmitted(row[c]), {<<"poll", c>>})

MarkPolling(s, c) ==
  Begin(s, <<"poll", c>>) /\ AutoCommit(s, c, SetChunkPolling(row[c]))

FinishPoll(s, c) ==
  Hands(s, c, "FinishPoll", <<"poll", c>>, SetChunkResultReady(row[c]), {<<"ingest", c>>})

ClearExternalTask(s, c) ==
  Begin(s, <<"poll", c>>) /\ AutoCommit(s, c, ClearChunkExternalTask(row[c]))

FinishIngest_CountsWhatItRead(s, c) ==
  \/ /\ Begin(s, <<"ingest", c>>)
     /\ One(s, c, SetChunkIngested(row[c]),
            [On("FinishIngest", c, "IncrementRunCompletedChunks")
               EXCEPT !.done = row["run"].completed + 1])
  \/ /\ At(s, "FinishIngest", "IncrementRunCompletedChunks") /\ Of(s) = c
     /\ One(s, "run", {[r EXCEPT !.completed = doing[s].done] :
                          r \in IncrementRunCompletedChunks(row["run"])}, Then(s, "COMMIT"))
  \/ /\ At(s, "FinishIngest", "COMMIT") /\ Of(s) = c
     /\ Commit(s, {<<"clean", c>>} \cup
                    IF Seen(s, "run").completed = Seen(s, "run").total
                    THEN {<<"align", "run">>} ELSE {})

FinishIngest(s, c) ==
  \/ /\ Begin(s, <<"ingest", c>>)
     /\ One(s, c, SetChunkIngested(row[c]), On("FinishIngest", c, "IncrementRunCompletedChunks"))
  \/ /\ At(s, "FinishIngest", "IncrementRunCompletedChunks") /\ Of(s) = c
     /\ One(s, "run", IncrementRunCompletedChunks(row["run"]), Then(s, "COMMIT"))
  \/ /\ At(s, "FinishIngest", "COMMIT") /\ Of(s) = c
     /\ Commit(s, {<<"clean", c>>} \cup
                    IF Seen(s, "run").completed = Seen(s, "run").total
                    THEN {<<"align", "run">>} ELSE {})

-----------------------------------------------------------------------------
(* align_speakers, merge_transcript                                        *)

BeginAlignment(s) ==
  \/ /\ Begin(s, <<"align", "run">>)
     /\ row["run"].status \in {"transcribing", "aligning"}
     /\ LockTranscriptionRun(s, On("BeginAlignment", "run", "SetRunAligning"))
  \/ /\ At(s, "BeginAlignment", "SetRunAligning")
     /\ One(s, "run", SetRunAligning(Seen(s, "run")), Then(s, "COMMIT"))
  \/ At(s, "BeginAlignment", "COMMIT") /\ Commit(s, {})

FinishAlignment_AllButLast(s) ==
  \/ /\ Begin(s, <<"align", "run">>)
     /\ row["run"].status = "aligning"
     /\ LockTranscriptionRun(s, On("FinishAlignment", "run", "SetChunkSpeakerMap"))
  \/ /\ At(s, "FinishAlignment", "SetChunkSpeakerMap")
     /\ LET n == doing[s].done + 1 IN
        Exec(s, Windows[n], SetChunkSpeakerMap(row[Windows[n]]),
             [doing[s] EXCEPT !.done = n,
                !.at = IF n + 1 = Len(Windows) THEN "SetRunMerging" ELSE @])
  \/ /\ At(s, "FinishAlignment", "SetRunMerging")
     /\ One(s, "run", SetRunMerging(Seen(s, "run")), Then(s, "COMMIT"))
  \/ At(s, "FinishAlignment", "COMMIT") /\ Commit(s, {<<"merge", "run">>})

FinishAlignment(s) ==
  \/ /\ Begin(s, <<"align", "run">>)
     /\ row["run"].status = "aligning"
     /\ LockTranscriptionRun(s, On("FinishAlignment", "run", "SetChunkSpeakerMap"))
  \/ /\ At(s, "FinishAlignment", "SetChunkSpeakerMap")
     /\ LET n == doing[s].done + 1 IN
        Exec(s, Windows[n], SetChunkSpeakerMap(row[Windows[n]]),
             [doing[s] EXCEPT !.done = n,
                !.at = IF n = Len(Windows) THEN "SetRunMerging" ELSE @])
  \/ /\ At(s, "FinishAlignment", "SetRunMerging")
     /\ One(s, "run", SetRunMerging(Seen(s, "run")), Then(s, "COMMIT"))
  \/ At(s, "FinishAlignment", "COMMIT") /\ Commit(s, {<<"merge", "run">>})

ActivateTranscript(s) ==
  \/ /\ Begin(s, <<"merge", "run">>)
     /\ row["run"].status = "merging"
     /\ LockTranscriptionRun(s, On("ActivateTranscript", "run", "CreateTranscriptVersion"))
  \/ /\ At(s, "ActivateTranscript", "CreateTranscriptVersion")
     /\ One(s, "transcripts",
            {CreateTranscriptVersion(DeactivateTranscriptVersions(row["transcripts"]))},
            Then(s, "CompleteTranscriptionRun"))
  \/ /\ At(s, "ActivateTranscript", "CompleteTranscriptionRun")
     /\ One(s, "run", CompleteTranscriptionRun(Seen(s, "run")),
            Then(s, "SetEpisodeTranscriptionStatus"))
  \/ /\ At(s, "ActivateTranscript", "SetEpisodeTranscriptionStatus")
     /\ Exec(s, "episode", {SetEpisodeTranscriptionStatus(row["episode"], "completed")},
             Then(s, "COMMIT"))
  \/ /\ At(s, "ActivateTranscript", "COMMIT")
     /\ Commit(s, {<<"clean", "audio">>, <<"clean", "chunks">>})

-----------------------------------------------------------------------------
(* Any of them may fail for good.                                          *)

FailJob_AlwaysSetsEpisode(s, x) ==
  \/ /\ x \in Chunk /\ Begin(s, <<"render", x>>)
     /\ Exec(s, x, FailTranscriptionChunk(row[x]), On("FailJob", x, "FailTranscriptionRun"))
  \/ /\ x = "run" /\ Begin(s, <<"download", x>>)
     /\ Set(s, On("FailJob", x, "FailTranscriptionRun")) /\ UNCHANGED write
  \/ /\ At(s, "FailJob", "FailTranscriptionRun") /\ Of(s) = x
     /\ Exec(s, "run", FailTranscriptionRun(row["run"]), Then(s, "SetEpisodeTranscriptionStatus"))
  \/ /\ At(s, "FailJob", "SetEpisodeTranscriptionStatus") /\ Of(s) = x
     /\ Exec(s, "episode", {SetEpisodeTranscriptionStatus(row["episode"], "failed")},
             Then(s, "COMMIT"))
  \/ At(s, "FailJob", "COMMIT") /\ Of(s) = x /\ Commit(s, {})

FailJob(s, x) ==
  \/ /\ x \in Chunk /\ Begin(s, <<"render", x>>)
     /\ Exec(s, x, FailTranscriptionChunk(row[x]), On("FailJob", x, "FailTranscriptionRun"))
  \/ /\ x = "run" /\ Begin(s, <<"download", x>>)
     /\ Set(s, On("FailJob", x, "FailTranscriptionRun")) /\ UNCHANGED write
  \/ /\ At(s, "FailJob", "FailTranscriptionRun") /\ Of(s) = x
     /\ LET new == FailTranscriptionRun(row["run"]) IN
        Exec(s, "run", new,
             Then(s, IF new = {} THEN "COMMIT" ELSE "SetEpisodeTranscriptionStatus"))
  \/ /\ At(s, "FailJob", "SetEpisodeTranscriptionStatus") /\ Of(s) = x
     /\ Exec(s, "episode", {SetEpisodeTranscriptionStatus(row["episode"], "failed")},
             Then(s, "COMMIT"))
  \/ At(s, "FailJob", "COMMIT") /\ Of(s) = x /\ Commit(s, {})

\* An error of any statement, the end of the lease, or the crash of the worker.
Abort(s) == doing[s] # Idle /\ Rollback(s)

SNext ==
  \E s \in Session :
    \/ BeginDownload(s) \/ FinishDownload(s) \/ FinishPrepare(s) \/ Plan(s)
    \/ BeginAlignment(s) \/ FinishAlignment(s) \/ ActivateTranscript(s)
    \/ \E c \in Chunk :
         \/ BeginRender(s, c) \/ FinishRender(s, c)
         \/ BeginSubmit(s, c) \/ ResetSubmit(s, c) \/ FinishSubmit(s, c)
         \/ MarkPolling(s, c) \/ FinishPoll(s, c) \/ ClearExternalTask(s, c)
         \/ FinishIngest(s, c)
    \/ \E x \in Chunk \cup {"run"} : FailJob(s, x)
    \/ Abort(s)

SSpec == SInit /\ [][SNext]_vars

-----------------------------------------------------------------------------
(* Properties.                                                             *)

\* The transactions are serializable: whatever statements overlap, each has the
\* effect of being executed whole when it commits, or none.
Serial == INSTANCE RunSerial
ImplementsSerial == Serial!Spec

\* The row for which the next statement of s waits, while another has it locked.
\* A statement that has locked nothing yet keeps nobody waiting.
Wanted(s) ==
  CASE doing[s].at \in {"LockTranscriptionRun", "SetRunDownloadStarted", "SetRunTranscribing",
                        "SetRunAligning", "SetRunMerging", "CompleteTranscriptionRun"} -> {"run"}
    [] doing[s].at = "IncrementRunCompletedChunks" ->
         IF IncrementRunCompletedChunks(row["run"]) = {} THEN {} ELSE {"run"}
    [] doing[s].at = "FailTranscriptionRun" ->
         IF FailTranscriptionRun(row["run"]) = {} THEN {} ELSE {"run"}
    [] doing[s].at = "CreateTranscriptionChunk" -> {Windows[doing[s].done + 1]}
    [] doing[s].at = "SetChunkSpeakerMap" ->
         LET c == Windows[doing[s].done + 1] IN
         IF SetChunkSpeakerMap(row[c]) = {} THEN {} ELSE {c}
    [] doing[s].at = "SetEpisodeTranscriptionStatus" -> {"episode"}
    [] OTHER -> {}

\* No deadlock: chunks are locked before their run, except by FinishAlignment,
\* which locks them after it, but only when FailJob leaves them alone.
NoWaitCycle ==
  \A S \in (SUBSET Session) \ {{}} :
    \E s \in S : \A v \in S \ {s} : Wanted(s) \cap Locked(v) = {}
=============================================================================
