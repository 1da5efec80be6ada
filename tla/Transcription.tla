---------------------------- MODULE Transcription ----------------------------
(***************************************************************************)
(* One transcription run: the handlers of internal/service/transcription.go*)
(* over the transactions of internal/repository/transcription.go and       *)
(* queries/transcription.sql, from a queued run to a published transcript. *)
(*                                                                         *)
(* One action per transaction or external call of a handler: between two   *)
(* of them other executions, of other jobs or of the same one, may step.   *)
(* The jobs table is reduced to what JobQueue shows of it: a live row is   *)
(* queued or held, and is gone when it is over.                            *)
(*                                                                         *)
(* A definition whose name ends in _<mistake> is the one of that name with *)
(* a mistake in it; no specification uses it, and TLC refutes a property   *)
(* when it takes the place of the right one.                               *)
(***************************************************************************)
EXTENDS Naturals, FiniteSets

CONSTANTS Chunks,       \* what domain.Plan cuts the audio into
          Runners,      \* goroutines that run a handler: of a worker that waits
                        \* for it, or that abandoned it when its heartbeat failed
          MaxAttempts,  \* max_attempts of every job
          Faults,       \* the faults that may happen, see AllFaults
          MaxTrouble,   \* bound: how many of them may happen
          Nobody, NoJob

AllFaults ==
  { "error",     \* a call of a handler fails, and no harm is done
    "lease",     \* the lease of an execution under way expires
    "crash",     \* a worker process dies, or is shut down, with a job
    "panic",     \* a handler panics
    "database" } \* a commit or its answer is lost

ASSUME TranscriptionAssumption ==
  /\ Chunks # {} /\ IsFiniteSet(Chunks)
  /\ {"source", "prepared", "audio", "chunks", "run"} \cap Chunks = {}
  /\ MaxAttempts \in Nat \ {0}
  /\ Faults \subseteq AllFaults
  /\ MaxTrouble \in Nat
  /\ Nobody \notin Runners

VARIABLES
  run,        \* transcription_runs.status
  chunk,      \* chunk[c]: transcription_chunks.status, "absent" before the INSERT
  keys,       \* the object keys that are recorded: source, prepared, or a chunk's
  tasked,     \* the chunks with an external_task_id
  resulted,   \* the chunks with a result_url
  completed,  \* completed_chunks of the run
  versions,   \* transcript versions the run has created
  cleaned,    \* the scopes marked by MarkCleaned
  jobs,       \* jobs[id]: how often the live row was tried, and who holds it
  doing,      \* doing[r]: the job runner r executes
  step,       \* step[r]: where in its handler, or in process, it stands
  last,       \* last[r]: job.Attempt >= job.MaxAttempts, as of its claim
  trouble,    \* how many faults have happened
  objects,    \* the objects in the bucket
  asr,        \* asr[c]: what has become of the task the service accepted
  accepted    \* accepted[c]: how many submissions the service has accepted

runRow    == <<run, completed, versions, cleaned>>
chunkRows == <<chunk, tasked, resulted>>
runner    == <<doing, step, last, trouble>>
external  == <<objects, asr, accepted>>
database  == <<runRow, chunkRows, keys>>
vars      == <<database, jobs, runner, external>>

RunStatuses == {"queued", "downloading", "preparing", "transcribing",
                "aligning", "merging", "completed", "failed"}
ChunkStatuses == {"absent", "planned", "rendering", "ready", "submitting",
                  "submitted", "running", "completed", "failed"}
RunKinds   == {"download", "prepare", "plan", "align", "merge", "clean"}
ChunkKinds == {"render", "submit", "poll", "ingest"}
Objects    == {"source", "prepared"} \cup Chunks
Scopes     == {"audio", "chunks"}
Ids        == [kind : RunKinds \cup ChunkKinds,
               of   : {"run"} \cup Objects \cup Scopes,
               copy : Nat]
Steps      == {"idle", "begin", "start", "work", "finish", "ok", "again",
               "retryable", "record", "giveup"}

TypeOK ==
  /\ run \in RunStatuses
  /\ chunk \in [Chunks -> ChunkStatuses]
  /\ keys \subseteq Objects
  /\ tasked \subseteq Chunks /\ resulted \subseteq Chunks
  /\ completed \in Nat /\ versions \in Nat
  /\ cleaned \subseteq Scopes
  /\ DOMAIN jobs \subseteq Ids
  /\ \A id \in DOMAIN jobs :
       /\ jobs[id].tries \in 0..MaxAttempts
       /\ jobs[id].by \in Runners \cup {Nobody}
       /\ id.kind \in ChunkKinds => id.of \in Chunks
  /\ doing \in [Runners -> Ids \cup {NoJob}]
  /\ step \in [Runners -> Steps]
  /\ last \in [Runners -> BOOLEAN]
  /\ trouble \in 0..MaxTrouble
  /\ objects \subseteq Objects
  /\ asr \in [Chunks -> {"none", "pending", "succeeded", "failed"}]
  /\ accepted \in [Chunks -> Nat]

-----------------------------------------------------------------------------
(* The jobs table.                                                         *)

\* A copy of a job that is not among the live rows: duplicates can coexist.
NewId(kind, of) ==
  [kind |-> kind, of |-> of,
   copy |-> CHOOSE n \in 0..Cardinality(DOMAIN jobs) :
              /\ [kind |-> kind, of |-> of, copy |-> n] \notin DOMAIN jobs
              /\ \A m \in 0..(n - 1) :
                   [kind |-> kind, of |-> of, copy |-> m] \in DOMAIN jobs]

\* enqueue, in the transaction of its caller.
Enqueue(new) ==
  jobs' = [id \in DOMAIN jobs \cup {NewId(n[1], n[2]) : n \in new} |->
             IF id \in DOMAIN jobs THEN jobs[id] ELSE [tries |-> 0, by |-> Nobody]]

Clean(S) == {<<"clean", o>> : o \in S}

Remove(id) == jobs' = [i \in DOMAIN jobs \ {id} |-> jobs[i]]

Requeue(id, tries) == jobs' = [jobs EXCEPT ![id] = [tries |-> tries, by |-> Nobody]]

\* The attempt is used up: the job is queued again, or has failed.
Spend(id) ==
  IF jobs[id].tries < MaxAttempts THEN Requeue(id, jobs[id].tries) ELSE Remove(id)

\* Nobody executes the row any more, though it is still locked.
Orphaned(id) == jobs[id].by # Nobody /\ doing[jobs[id].by] # id

Holds(r, id) == id \in DOMAIN jobs /\ jobs[id].by = r

-----------------------------------------------------------------------------
Init ==
  /\ run = "queued"
  /\ chunk = [c \in Chunks |-> "absent"]
  /\ keys = {} /\ tasked = {} /\ resulted = {} /\ cleaned = {} /\ objects = {}
  /\ completed = 0 /\ versions = 0
  /\ jobs = [id \in {[kind |-> "download", of |-> "run", copy |-> 0]} |->
               [tries |-> 0, by |-> Nobody]]
  /\ doing = [r \in Runners |-> NoJob]
  /\ step = [r \in Runners |-> "idle"]
  /\ last = [r \in Runners |-> FALSE]
  /\ trouble = 0
  /\ asr = [c \in Chunks |-> "none"]
  /\ accepted = [c \in Chunks |-> 0]

-----------------------------------------------------------------------------
(* An execution: its claim, its way through the handler, its settlement.   *)

Fault(f) ==
  /\ f \in Faults /\ trouble < MaxTrouble
  /\ trouble' = trouble + 1

At(r, kind, s) == step[r] = s /\ doing[r].kind = kind

Of(r) == doing[r].of

StepTo(r, s) ==
  /\ step' = [step EXCEPT ![r] = s]
  /\ UNCHANGED <<doing, last>>

Go(r, s) == StepTo(r, s) /\ UNCHANGED trouble

Wrapped_OnlyExhausted(r, outcome) ==
  IF outcome = "retryable" /\ last[r] THEN "record" ELSE outcome

\* wrap: an error that no retry will follow is recorded by FailJob.
Wrapped(r, outcome) ==
  IF outcome = "permanent" \/ (outcome = "retryable" /\ last[r]) THEN "record" ELSE outcome

Return(r, outcome) == Go(r, Wrapped(r, outcome))

\* A transaction has committed, and its answer arrives or is lost.
Committed(r, s) ==
  \/ Go(r, s)
  \/ Fault("database") /\ StepTo(r, Wrapped(r, "retryable"))

Idle(r) ==
  /\ doing' = [doing EXCEPT ![r] = NoJob]
  /\ step' = [step EXCEPT ![r] = "idle"]
  /\ last' = [last EXCEPT ![r] = FALSE]

ClaimRow(r, id) ==
  /\ step[r] = "idle"
  /\ id \in DOMAIN jobs /\ jobs[id].by = Nobody /\ jobs[id].tries < MaxAttempts
  /\ jobs' = [jobs EXCEPT ![id] = [tries |-> @.tries + 1, by |-> r]]
  /\ UNCHANGED <<database, external>>

Claim(r, id) ==
  /\ ClaimRow(r, id)
  /\ doing' = [doing EXCEPT ![r] = id]
  /\ step' = [step EXCEPT ![r] = "begin"]
  /\ last' = [last EXCEPT ![r] = jobs[id].tries + 1 >= MaxAttempts]
  /\ UNCHANGED trouble

ClaimAnswerLost(r, id) ==
  /\ Fault("database")
  /\ ClaimRow(r, id)
  /\ UNCHANGED <<doing, step, last>>

\* Any call of a handler may fail without effect: a read, a transaction that
\* rolls back, a download, an upload.  After a submission see SubmitFails.
Fails(r) ==
  /\ step[r] \in {"begin", "start", "work", "finish"}
  /\ ~At(r, "submit", "work")
  /\ Fault("error")
  /\ StepTo(r, Wrapped(r, "retryable"))
  /\ UNCHANGED <<database, jobs, external>>

\* runHandler recovers it: an error, but one that wrap never saw.
Panic(r) ==
  /\ Fault("panic")
  /\ step[r] \in {"begin", "start", "work", "finish"}
  /\ StepTo(r, "retryable")
  /\ UNCHANGED <<database, jobs, external>>

Record_AlsoCompletedRun(r) ==
  /\ step[r] = "record"
  /\ run' = "failed"
  /\ chunk' = [c \in Chunks |->
       IF doing[r].kind \in ChunkKinds /\ c = Of(r) /\ chunk[c] \notin {"completed", "failed"}
       THEN "failed" ELSE chunk[c]]
  /\ Go(r, "giveup")
  /\ UNCHANGED <<completed, versions, cleaned, tasked, resulted, keys, jobs, external>>

\* FailJob: whatever the job, and whoever holds its row by now.
Record(r) ==
  /\ step[r] = "record"
  /\ run' = IF run = "completed" THEN run ELSE "failed"
  /\ chunk' = [c \in Chunks |->
       IF doing[r].kind \in ChunkKinds /\ c = Of(r) /\ chunk[c] \notin {"completed", "failed"}
       THEN "failed" ELSE chunk[c]]
  /\ Go(r, "giveup")
  /\ UNCHANGED <<completed, versions, cleaned, tasked, resulted, keys, jobs, external>>

RecordFails(r) ==
  /\ Fault("database")
  /\ step[r] = "record"
  /\ StepTo(r, "giveup")
  /\ UNCHANGED <<database, jobs, external>>

Settled(r) ==
  LET id == doing[r] IN
  CASE step[r] = "ok"        -> Remove(id)
    [] step[r] = "again"     -> Requeue(id, jobs[id].tries - 1)
    [] step[r] = "retryable" -> Spend(id)
    [] step[r] = "giveup"    -> Remove(id)

\* Complete, Reschedule or RetryOrFail; they match no row that r lost.
Settle(r) ==
  /\ step[r] \in {"ok", "again", "retryable", "giveup"}
  /\ IF Holds(r, doing[r]) THEN Settled(r) ELSE UNCHANGED jobs
  /\ Idle(r)
  /\ UNCHANGED <<trouble, database, external>>

\* The settlement is not written: a database failure, or the worker has
\* abandoned the handler and nobody waits for its result.
SettleFails(r) ==
  /\ Fault("database")
  /\ step[r] \in {"ok", "again", "retryable", "giveup"}
  /\ Idle(r)
  /\ UNCHANGED <<database, jobs, external>>

Crash(r) ==
  /\ Fault("crash")
  /\ step[r] # "idle"
  /\ Idle(r)
  /\ UNCHANGED <<database, jobs, external>>

\* RequeueStale recovers a row: nobody executes it any more, or the fault
\* "lease", whoever executes it.
Recover(id) ==
  /\ id \in DOMAIN jobs /\ jobs[id].by # Nobody
  /\ IF Orphaned(id) THEN UNCHANGED trouble ELSE Fault("lease")
  /\ Spend(id)
  /\ UNCHANGED <<database, doing, step, last, external>>

\* A handler that finds nothing to do, or a reason to give up.
Leaves(r, kind, s, outcome, condition) ==
  /\ At(r, kind, s) /\ condition
  /\ Return(r, outcome)
  /\ UNCHANGED <<database, jobs, external>>

\* A read that finds the work still to be done.
Passes(r, kind, s, next, condition) ==
  /\ At(r, kind, s) /\ condition
  /\ Go(r, next)
  /\ UNCHANGED <<database, jobs, external>>

-----------------------------------------------------------------------------
(* download, prepare, plan.                                                *)

BeginDownload(r) ==
  \/ Passes(r, "download", "begin", "start", run = "queued")
  \/ Passes(r, "download", "begin", "work", run = "downloading" /\ "source" \notin keys)
  \/ Leaves(r, "download", "begin", "ok",
            ~(run = "queued" \/ (run = "downloading" /\ "source" \notin keys)))
  \/ Leaves(r, "download", "start", "retryable", run # "queued")
  \/ /\ At(r, "download", "start") /\ run = "queued"
     /\ run' = "downloading"
     /\ Committed(r, "work")
     /\ UNCHANGED <<completed, versions, cleaned, chunkRows, keys, jobs, external>>

\* The upload at the end of download, prepare and render.
Put(r, kind, object) ==
  /\ At(r, kind, "work")
  /\ objects' = objects \cup {object}
  /\ Go(r, "finish")
  /\ UNCHANGED <<database, jobs, asr, accepted>>

Download(r) ==
  \/ Put(r, "download", "source")
  \/ Leaves(r, "download", "work", "permanent", TRUE)

FinishDownload_CleansSource(r) ==
  \/ Leaves(r, "download", "finish", "ok", run # "downloading")
  \/ /\ At(r, "download", "finish") /\ run = "downloading"
     /\ run' = "preparing"
     /\ keys' = keys \cup {"source"}
     /\ Enqueue({<<"prepare", "run">>} \cup Clean({"source"}))
     /\ Committed(r, "ok")
     /\ UNCHANGED <<completed, versions, cleaned, chunkRows, external>>

FinishDownload(r) ==
  \/ Leaves(r, "download", "finish", "ok", run # "downloading")
  \/ /\ At(r, "download", "finish") /\ run = "downloading"
     /\ run' = "preparing"
     /\ keys' = keys \cup {"source"}
     /\ Enqueue({<<"prepare", "run">>})
     /\ Committed(r, "ok")
     /\ UNCHANGED <<completed, versions, cleaned, chunkRows, external>>

\* No prepare job exists before the source is recorded, so the error for a
\* missing one cannot happen.
BeginPrepare(r) ==
  LET todo == run = "preparing" /\ "prepared" \notin keys IN
  \/ Leaves(r, "prepare", "begin", "ok", ~todo)
  \/ Passes(r, "prepare", "begin", "work", todo /\ "source" \in keys)

\* ffmpeg reads the source object.
Prepare(r) ==
  \/ "source" \in objects /\ Put(r, "prepare", "prepared")
  \/ Leaves(r, "prepare", "work", "retryable", "source" \notin objects)

FinishPrepare(r) ==
  \/ Leaves(r, "prepare", "finish", "ok", run # "preparing")
  \/ /\ At(r, "prepare", "finish") /\ run = "preparing"
     /\ keys' = keys \cup {"prepared"}
     /\ Enqueue({<<"plan", "run">>} \cup Clean({"source"} \cap keys))
     /\ Committed(r, "ok")
     /\ UNCHANGED <<runRow, chunkRows, external>>

Planned == \E c \in Chunks : chunk[c] # "absent"

BeginPlan(r) ==
  LET todo == run = "preparing" /\ ~Planned IN
  \/ Leaves(r, "plan", "begin", "ok", ~todo)
  \/ Leaves(r, "plan", "begin", "permanent", todo)
  \/ Passes(r, "plan", "begin", "finish", todo /\ "prepared" \in keys)

Plan(r) ==
  \/ Leaves(r, "plan", "finish", "ok", Planned)
  \/ Leaves(r, "plan", "finish", "retryable", ~Planned /\ run # "preparing")
  \/ /\ At(r, "plan", "finish") /\ ~Planned /\ run = "preparing"
     /\ chunk' = [c \in Chunks |-> "planned"]
     /\ run' = "transcribing"
     /\ Enqueue({<<"render", c>> : c \in Chunks})
     /\ Committed(r, "ok")
     /\ UNCHANGED <<completed, versions, cleaned, tasked, resulted, keys, external>>

-----------------------------------------------------------------------------
(* render, submit, poll, ingest: the chunk c of the job.                   *)

\* UPDATE transcription_chunks SET status = s.
SetChunk(c, s) ==
  /\ chunk' = [chunk EXCEPT ![c] = s]
  /\ UNCHANGED runRow

BeginRender_NeverResumes(r) ==
  LET c == Of(r) IN
  \/ Leaves(r, "render", "begin", "ok",
            run # "transcribing" \/ chunk[c] # "planned")
  \/ Passes(r, "render", "begin", "start", run = "transcribing" /\ chunk[c] = "planned")
  \/ Leaves(r, "render", "start", "retryable", chunk[c] # "planned")
  \/ /\ At(r, "render", "start") /\ chunk[c] = "planned"
     /\ SetChunk(c, "rendering")
     /\ Committed(r, "work")
     /\ UNCHANGED <<tasked, resulted, keys, jobs, external>>

BeginRender(r) ==
  LET c == Of(r) IN
  \/ Leaves(r, "render", "begin", "ok",
            run # "transcribing" \/ chunk[c] \notin {"planned", "rendering"})
  \/ Passes(r, "render", "begin", "start", run = "transcribing" /\ chunk[c] = "planned")
  \/ Passes(r, "render", "begin", "work", run = "transcribing" /\ chunk[c] = "rendering")
  \/ Leaves(r, "render", "start", "retryable", chunk[c] # "planned")
  \/ /\ At(r, "render", "start") /\ chunk[c] = "planned"
     /\ SetChunk(c, "rendering")
     /\ Committed(r, "work")
     /\ UNCHANGED <<tasked, resulted, keys, jobs, external>>

\* ffmpeg reads the prepared object.
Render(r) ==
  \/ "prepared" \in objects /\ Put(r, "render", Of(r))
  \/ Leaves(r, "render", "work", "retryable", "prepared" \notin objects)

FinishRender_CleansAtOnce(r) ==
  LET c == Of(r) IN
  \/ Leaves(r, "render", "finish", "ok", chunk[c] # "rendering")
  \/ /\ At(r, "render", "finish") /\ chunk[c] = "rendering"
     /\ SetChunk(c, "ready")
     /\ keys' = keys \cup {c}
     /\ Enqueue({<<"submit", c>>} \cup Clean({"prepared"} \cap keys))
     /\ Committed(r, "ok")
     /\ UNCHANGED <<tasked, resulted, external>>

FinishRender(r) ==
  LET c == Of(r)
      allRendered == Chunks \subseteq keys \cup {c}
  IN
  \/ Leaves(r, "render", "finish", "ok", chunk[c] # "rendering")
  \/ /\ At(r, "render", "finish") /\ chunk[c] = "rendering"
     /\ SetChunk(c, "ready")
     /\ keys' = keys \cup {c}
     /\ Enqueue({<<"submit", c>>}
                  \cup Clean(IF allRendered THEN {"prepared"} \cap keys ELSE {}))
     /\ Committed(r, "ok")
     /\ UNCHANGED <<tasked, resulted, external>>

BeginSubmit_ResumesSubmitting(r) ==
  LET c == Of(r) IN
  \/ Leaves(r, "submit", "begin", "ok",
            run # "transcribing" \/ chunk[c] \notin {"ready", "submitting"})
  \/ Passes(r, "submit", "begin", "start", run = "transcribing" /\ chunk[c] = "ready")
  \/ Passes(r, "submit", "begin", "work", run = "transcribing" /\ chunk[c] = "submitting")
  \/ Leaves(r, "submit", "start", "retryable", chunk[c] # "ready")
  \/ /\ At(r, "submit", "start") /\ chunk[c] = "ready"
     /\ SetChunk(c, "submitting")
     /\ Committed(r, "work")
     /\ UNCHANGED <<tasked, resulted, keys, jobs, external>>

\* A chunk already submitting may have been submitted: ErrSubmissionAmbiguous.
BeginSubmit(r) ==
  LET c == Of(r) IN
  \/ Leaves(r, "submit", "begin", "ok",
            \/ run # "transcribing" \/ chunk[c] \notin {"ready", "submitting"}
            \/ chunk[c] = "submitting" /\ c \in tasked)
  \/ Passes(r, "submit", "begin", "start", run = "transcribing" /\ chunk[c] = "ready")
  \/ Leaves(r, "submit", "begin", "permanent",
            run = "transcribing" /\ chunk[c] = "submitting" /\ c \notin tasked)
  \/ Leaves(r, "submit", "start", "retryable", chunk[c] # "ready")
  \/ /\ At(r, "submit", "start") /\ chunk[c] = "ready"
     /\ SetChunk(c, "submitting")
     /\ Committed(r, "work")
     /\ UNCHANGED <<tasked, resulted, keys, jobs, external>>

Accept(c) ==
  /\ accepted' = [accepted EXCEPT ![c] = @ + 1]
  /\ asr' = [asr EXCEPT ![c] = "pending"]
  /\ UNCHANGED objects

Submit(r) ==
  /\ At(r, "submit", "work")
  /\ Accept(Of(r))
  /\ Go(r, "finish")
  /\ UNCHANGED <<database, jobs>>

SubmitAmbiguous_Resets(r) ==
  /\ At(r, "submit", "work")
  /\ Accept(Of(r)) \/ UNCHANGED external
  /\ chunk' = [chunk EXCEPT ![Of(r)] = "ready"]
  /\ Return(r, "retryable")
  /\ UNCHANGED <<runRow, tasked, resulted, keys, jobs>>

\* No usable answer (AmbiguousCost): the service may have accepted.
SubmitAmbiguous(r) ==
  /\ At(r, "submit", "work")
  /\ Accept(Of(r)) \/ UNCHANGED external
  /\ Return(r, "permanent")
  /\ UNCHANGED <<database, jobs>>

\* The request was refused, or never sent: ResetSubmit, whose own error is ignored.
SubmitFails(r) ==
  /\ At(r, "submit", "work")
  /\ \E outcome \in {"retryable", "permanent"} : StepTo(r, Wrapped(r, outcome))
  /\ \/ /\ Fault("error")
        /\ chunk' = [chunk EXCEPT ![Of(r)] =
                       IF @ = "submitting" /\ Of(r) \notin tasked THEN "ready" ELSE @]
     \/ Fault("database") /\ UNCHANGED chunk
  /\ UNCHANGED <<runRow, tasked, resulted, keys, jobs, external>>

FinishSubmit(r) ==
  LET c == Of(r) IN
  \/ Leaves(r, "submit", "finish", "retryable", chunk[c] # "submitting" \/ c \in tasked)
  \/ /\ At(r, "submit", "finish") /\ chunk[c] = "submitting" /\ c \notin tasked
     /\ SetChunk(c, "submitted")
     /\ tasked' = tasked \cup {c}
     /\ Enqueue({<<"poll", c>>})
     /\ Committed(r, "ok")
     /\ UNCHANGED <<resulted, keys, external>>

InFlight(c) == chunk[c] \in {"submitted", "running"}

BeginPoll(r) ==
  LET c    == Of(r)
      todo == run = "transcribing" /\ InFlight(c) /\ c \notin resulted
  IN
  \/ Leaves(r, "poll", "begin", "ok", ~todo)
  \/ Leaves(r, "poll", "begin", "permanent", todo /\ c \notin tasked)
  \/ Passes(r, "poll", "begin", "work", todo /\ c \in tasked)

\* ClearExternalTask
ClearTask(c) ==
  /\ tasked'   = IF InFlight(c) THEN tasked \ {c} ELSE tasked
  /\ resulted' = IF InFlight(c) THEN resulted \ {c} ELSE resulted
  /\ UNCHANGED chunk

\* The task is pending: MarkPolling, and RescheduleAfter.
PollPending(r) ==
  LET c == Of(r) IN
  /\ At(r, "poll", "work") /\ asr[c] = "pending"
  /\ chunk' = [chunk EXCEPT ![c] = IF InFlight(c) THEN "running" ELSE @]
  /\ Committed(r, "again")
  /\ UNCHANGED <<runRow, tasked, resulted, keys, jobs, external>>

PollFailed(r) ==
  /\ At(r, "poll", "work") /\ asr[Of(r)] = "failed"
  /\ ClearTask(Of(r))
  /\ Committed(r, Wrapped(r, "permanent"))
  /\ UNCHANGED <<runRow, keys, jobs, external>>

\* The answer is unusable, or the task succeeded.
PollAnswered(r) ==
  \/ Leaves(r, "poll", "work", "permanent", TRUE)
  \/ Passes(r, "poll", "work", "finish", asr[Of(r)] = "succeeded")

\* SetChunkResultReady does not ask whether a result is there already.
FinishPoll(r) ==
  LET c == Of(r) IN
  \/ Leaves(r, "poll", "finish", "retryable", ~InFlight(c))
  \/ /\ At(r, "poll", "finish") /\ InFlight(c)
     /\ SetChunk(c, "running")
     /\ resulted' = resulted \cup {c}
     /\ Enqueue({<<"ingest", c>>})
     /\ Committed(r, "ok")
     /\ UNCHANGED <<tasked, keys, external>>

BeginIngest(r) ==
  LET c     == Of(r)
      todo  == run = "transcribing" /\ chunk[c] # "completed"
      ready == chunk[c] = "running" /\ c \in resulted
  IN
  \/ Leaves(r, "ingest", "begin", "ok", ~todo)
  \/ Leaves(r, "ingest", "begin", "permanent", todo /\ ~ready)
  \/ Passes(r, "ingest", "begin", "work", todo /\ ready)

\* FetchResult: a result that has expired, one without segments, or a good one.
FetchResult(r) ==
  \/ /\ At(r, "ingest", "work")
     /\ ClearTask(Of(r))
     /\ Committed(r, Wrapped(r, "permanent"))
     /\ UNCHANGED <<runRow, keys, jobs, external>>
  \/ Leaves(r, "ingest", "work", "permanent", TRUE)
  \/ Passes(r, "ingest", "work", "finish", TRUE)

\* SetChunkIngested and IncrementRunCompletedChunks: no row is a no-op for the
\* first, and an error that rolls both back for the second.
FinishIngest(r) ==
  LET c      == Of(r)
      stored == chunk[c] = "running" /\ c \in resulted
      counts == run = "transcribing" /\ completed < Cardinality(Chunks)
      all    == completed + 1 = Cardinality(Chunks)
  IN
  \/ Leaves(r, "ingest", "finish", "ok", ~stored)
  \/ Leaves(r, "ingest", "finish", "retryable", stored /\ ~counts)
  \/ /\ At(r, "ingest", "finish") /\ stored /\ counts
     /\ chunk' = [chunk EXCEPT ![c] = "completed"]
     /\ completed' = completed + 1
     /\ Enqueue((IF all THEN {<<"align", "run">>} ELSE {}) \cup Clean({c} \cap keys))
     /\ Committed(r, "ok")
     /\ UNCHANGED <<run, versions, cleaned, tasked, resulted, keys, external>>

-----------------------------------------------------------------------------
(* align, merge, cleanup.                                                  *)

\* The error for missing chunks cannot happen: no align job exists
\* before all are completed (AlignedOnce of RunRows).
BeginAlignment(r) ==
  LET todo == run \in {"transcribing", "aligning"}
      all  == Planned /\ completed = Cardinality(Chunks)
  IN
  \/ Leaves(r, "align", "begin", "ok", ~todo)
  \/ /\ At(r, "align", "begin") /\ todo /\ all
     /\ run' = "aligning"
     /\ Committed(r, "finish")
     /\ UNCHANGED <<completed, versions, cleaned, chunkRows, keys, jobs, external>>

FinishAlignment(r) ==
  \/ Leaves(r, "align", "finish", "permanent", TRUE)   \* Align fails
  \/ Leaves(r, "align", "finish", "ok", run \in {"merging", "completed"})
  \/ Leaves(r, "align", "finish", "retryable", run \notin {"aligning", "merging", "completed"})
  \/ /\ At(r, "align", "finish") /\ run = "aligning"
     /\ run' = "merging"
     /\ Enqueue({<<"merge", "run">>})
     /\ Committed(r, "ok")
     /\ UNCHANGED <<completed, versions, cleaned, chunkRows, keys, external>>

BeginMerge(r) ==
  \/ Leaves(r, "merge", "begin", "ok", run # "merging")
  \/ Leaves(r, "merge", "begin", "permanent", run = "merging")   \* Merge fails
  \/ Passes(r, "merge", "begin", "finish", run = "merging")

ActivateTranscript(r) ==
  \/ Leaves(r, "merge", "finish", "ok", run = "completed")
  \/ Leaves(r, "merge", "finish", "retryable", run \notin {"merging", "completed"})
  \/ /\ At(r, "merge", "finish") /\ run = "merging"
     /\ run' = "completed"
     /\ versions' = versions + 1
     /\ Enqueue(Clean(Scopes))
     /\ Committed(r, "ok")
     /\ UNCHANGED <<completed, cleaned, chunkRows, keys, external>>

\* The objects a cleanup job is to delete: one by name, or those recorded.
Doomed(of) ==
  CASE of = "audio"  -> keys \cap {"source", "prepared"}
    [] of = "chunks" -> keys \cap Chunks
    [] OTHER         -> {of}

Cleanup_MarksPartial(r) ==
  /\ At(r, "clean", "begin")
  /\ \E gone \in SUBSET Doomed(Of(r)) :
       /\ objects' = objects \ gone
       /\ Go(r, IF Of(r) \in Scopes THEN "finish" ELSE "ok")
  /\ UNCHANGED <<database, jobs, asr, accepted>>

\* Objects are deleted one after the other until a Delete fails.
Cleanup(r) ==
  /\ At(r, "clean", "begin")
  /\ \E gone \in SUBSET Doomed(Of(r)) :
       /\ objects' = objects \ gone
       /\ IF gone = Doomed(Of(r))
          THEN Go(r, IF Of(r) \in Scopes THEN "finish" ELSE "ok")
          ELSE Fault("error") /\ StepTo(r, Wrapped(r, "retryable"))
  /\ UNCHANGED <<database, jobs, asr, accepted>>

MarkCleaned(r) ==
  /\ At(r, "clean", "finish")
  /\ cleaned' = cleaned \cup {Of(r)}
  /\ Committed(r, "ok")
  /\ UNCHANGED <<run, completed, versions, chunkRows, keys, jobs, external>>

-----------------------------------------------------------------------------
\* The ASR service finishes a task some day.
Resolve(c) ==
  /\ asr[c] = "pending"
  /\ \E s \in {"succeeded", "failed"} : asr' = [asr EXCEPT ![c] = s]
  /\ UNCHANGED <<database, jobs, runner, objects, accepted>>

Handle(r) ==
  \/ BeginDownload(r) \/ Download(r) \/ FinishDownload(r)
  \/ BeginPrepare(r) \/ Prepare(r) \/ FinishPrepare(r)
  \/ BeginPlan(r) \/ Plan(r)
  \/ BeginRender(r) \/ Render(r) \/ FinishRender(r)
  \/ BeginSubmit(r) \/ Submit(r) \/ SubmitAmbiguous(r) \/ SubmitFails(r) \/ FinishSubmit(r)
  \/ BeginPoll(r) \/ PollPending(r) \/ PollFailed(r) \/ PollAnswered(r) \/ FinishPoll(r)
  \/ BeginIngest(r) \/ FetchResult(r) \/ FinishIngest(r)
  \/ BeginAlignment(r) \/ FinishAlignment(r)
  \/ BeginMerge(r) \/ ActivateTranscript(r)
  \/ Cleanup(r) \/ MarkCleaned(r) \/ Fails(r) \/ Panic(r)

Execute(r) == Handle(r) \/ Record(r) \/ RecordFails(r) \/ Settle(r) \/ SettleFails(r)

Next ==
  \/ \E r \in Runners :
       \/ Execute(r) \/ Crash(r)
       \/ \E id \in DOMAIN jobs : Claim(r, id) \/ ClaimAnswerLost(r, id)
  \/ \E id \in DOMAIN jobs : Recover(id)
  \/ \E c \in Chunks : Resolve(c)

Spec == Init /\ [][Next]_vars

(***************************************************************************)
(* Fairness.  An execution goes on to its end, an idle worker claims while *)
(* there is something to claim, expired leases are recovered, and the ASR  *)
(* service comes to an end with every task.                                *)
(***************************************************************************)
Fairness ==
  /\ \A r \in Runners :
       /\ WF_vars(Execute(r))
       /\ WF_vars(\E id \in DOMAIN jobs : Claim(r, id))
  /\ WF_vars(\E id \in DOMAIN jobs : Orphaned(id) /\ Recover(id))
  /\ \A c \in Chunks : WF_vars(Resolve(c))

FairSpec == Spec /\ Fairness

-----------------------------------------------------------------------------
(* Properties.                                                             *)

\* The ASR service never bills a chunk twice, whatever duplicate jobs, lost
\* leases, crashes and lost answers there are: status submitting without an
\* external_task_id is a one-way door (ErrSubmissionAmbiguous), save for the
\* one execution that knows its request was refused.
AtMostOneSubmission == \A c \in Chunks : accepted[c] <= 1

\* No cleanup job deletes an object that a step still to come, or its retry,
\* has to read: the source until the prepared audio is recorded, the prepared
\* audio until every chunk is rendered, a chunk until its result is known.
NeededObjectsPresent ==
  /\ run = "preparing" /\ "prepared" \notin keys => "source" \in objects
  /\ run = "transcribing" =>
       \A c \in Chunks :
         /\ chunk[c] \in {"planned", "rendering"} => "prepared" \in objects
         /\ \/ chunk[c] \in {"ready", "submitting"}
            \/ InFlight(c) /\ c \notin resulted
            => c \in objects

Outcome == INSTANCE TranscriptOutcome
  WITH outcome <- CASE run = "completed" -> "published"
                    [] run = "failed"    -> "failed"
                    [] OTHER             -> "open",
       bills <- accepted,
       done <- {c \in Chunks : chunk[c] = "completed"}

\* Every step of the handlers is a step of what a run promises its user, or
\* leaves it unchanged: billed once, published once and complete, over when over.
ImplementsOutcome == Outcome!Spec

Over == run \in {"completed", "failed"}

\* Polling get_transcription comes to an end: a run completes or fails.
RunSettles == <>Over

\* A scope marked as cleaned has no objects left in the bucket.
CleanedIsGone ==
  /\ "audio" \in cleaned => objects \cap {"source", "prepared"} = {}
  /\ "chunks" \in cleaned => objects \cap Chunks = {}

\* A cleanup that fails is the business of its job, and no failure of the run.
CleanupNeverFailsRun ==
  [][\A r \in Runners :
       step[r] = "record" /\ step'[r] = "giveup" /\ doing[r].kind = "clean" => run' = run]_vars

\* The run, or the chunk, still stands where the job has work to do.
Awaited(id) ==
  CASE id.kind = "download" -> run \in {"queued", "downloading"}
    [] id.kind = "prepare"  -> run = "preparing" /\ "prepared" \notin keys
    [] id.kind = "plan"     -> run = "preparing"
    [] id.kind = "render"   -> chunk[id.of] \in {"planned", "rendering"}
    [] id.kind = "submit"   -> chunk[id.of] \in {"ready", "submitting"}
    [] id.kind = "poll"     -> InFlight(id.of) /\ id.of \notin resulted
    [] id.kind = "ingest"   -> InFlight(id.of)
    [] id.kind = "align"    -> run \in {"transcribing", "aligning"}
    [] id.kind = "merge"    -> run = "merging"
    [] id.kind = "clean"    -> TRUE

\* A job whose work another execution has done already changes nothing.
DuplicateIsNoOp ==
  [][\A r \in Runners :
       step[r] = "record" /\ step'[r] = "giveup" /\ ~Awaited(doing[r]) => run' = run]_vars
=============================================================================
