# EchoNote: a TLA+ verification development

EchoNote turns a link to a podcast episode into a transcript with speakers. This directory
models the part of it that decides whether that works: the PostgreSQL job queue, the workers
that drain it, the import that gives an episode its run, the run they carry from a queued
download to a published transcript, down to the statements of its transactions, and the cutting
and merging of what the windows of the audio contain. Paths below are relative to the
repository; `internal/` stands for `apps/server/internal/`.

1. [The system](#1-the-system) – inventory, hard behaviours, what must hold
2. [Modules and code](#2-modules-and-code)
3. [Runs, bounds, fairness](#3-runs-bounds-fairness)
4. [Proofs](#4-proofs)
5. [Where code and documents disagree](#5-where-code-and-documents-disagree)
6. [What is not modelled](#6-what-is-not-modelled)
7. [Plan](#7-plan)

## 1. The system

```
 MCP client ── apps/mcp ── HTTP on loopback ── internal/http ──┐
                                                               ▼
            internal/worker (n processes) ── claim, settle ── PostgreSQL: jobs, imports, episodes,
                 │                                             transcription_runs, _chunks, versions
                 └─ handlers (internal/service) ── transactions (internal/repository)
                        │
                        └─ podcast resolver, audio download, ffmpeg, OSS bucket, ASR service
```

Nothing but the database is shared. The API only writes rows and enqueues jobs; every further
step is a job, and a handler's last transaction changes the run and enqueues the next jobs
together. Workers are single-threaded processes (plus one goroutine per handler and its
heartbeat); several run at once, and any of them may die at any point.

| Component | State it keeps | Operations | Hard about it | Must hold |
|---|---|---|---|---|
| Job queue (`repository/jobqueue.go`, `queries/jobs.sql`) | `jobs`: status, attempt, max_attempts, locked_by, locked_at, run_after | enqueue, claim, heartbeat, complete, reschedule, retry or fail, recover stale leases, manual retry, retention | every statement races with those of other workers; a claim's answer may be lost; attempt goes up and down | only the holder settles a job; no job is stranded; no attempt is lost; the order is fair |
| Worker (`worker/worker.go`) | the job it processes, its heartbeat | loop of claim, process, select | panics, shutdowns, crashes, heartbeat failures that abandon a running handler | every claimed job is settled, or its lease is recovered; a worker settles only what it still holds |
| Transcription run (`service/transcription.go`, `repository/transcription.go`) | run status, chunk statuses, recorded object keys, external task, result URL, `completed_chunks` | ten handlers: download, prepare, plan, render, submit, poll, ingest, align, merge, cleanup; FailJob | two executions of one job after a lost lease, repeated and reordered jobs, ambiguous submissions that cost money, joins over chunks; transactions that lock run, chunks and episode in different orders | a chunk is billed once; chunks are joined once; a transcript is published once and complete; needed objects are there; the episode agrees with its run; no deadlock; a run ends |
| Chunk planning and ownership (`domain/transcription`: Plan, ownedByCore) | none | cut audio, attribute segments | boundaries | cores tile the audio, every segment has one owner |
| Speaker alignment and merge (`domain/transcription`: Align, Merge, SpeakersFromChunks) | none | match the speakers of neighbouring chunks, concatenate | greedy matching with ties and thresholds; speech at a boundary is transcribed twice | the matching is stable, follows who is heard in both windows, and what is merged is merged once |
| Imports and episode identity (`repository/imports.go`, `service/import.go`) | imports, episodes, identity keys | create an import, resolve it, attach it to an episode | concurrent imports of one episode under several URLs; advisory locks; a retry in the middle | one episode per identity; a run for every resolved import, and another one only after a failure; no deadlock. The last two hold with an exception, see section 5 |
| Internal API (`internal/http`) | none | tasks, results, derived task status | status derived from rows others change or delete | a completed task stays completed |
| MCP server (`apps/mcp`) | none | two tools, token check | – | – |
| Users (`repository/users.go`, `cmd`) | users, identities | upserts | – | – |
| Providers: ASR, audio, OSS, podcast | external | submit, query, fetch; download, ffmpeg; put, delete; resolve | answers lost, late or never | only the outcomes their callers tell apart matter |
| Database access, migrations, configuration, logging | – | start-up | – | – |

The hazards behind the third column are listed one by one, with the line where each bites and
the property that would catch it, in `PROJECT.json` (`hazards`).

## 2. Modules and code

```
JobLifecycle  ◄─ refined by ─ JobQueue ◄─ proved about by ─ JobQueueProofs
                                 ▲ MCJobQueue
TranscriptOutcome ◄─ refined by ─ Transcription ◄─ MCTranscription
                                 ▲ proved about by ─ TranscriptionProofs ◄─ CleanupProofs
                                 (its transactions: those of RunSerial, each one action)
RunRows ◄─ RunSerial ◄─ refined by ─ RunTransactions ◄─ MCRunTransactions
               ▲ RunProofs              ▲ proved about by ─ RunTransactionsProofs
Imports ◄─ MCImports             (its jobs: JobLifecycle; its runs: TranscriptOutcome)
    ▲ proved about by ─ ImportsProofs
Chunking ◄─ Alignment ◄─ MCAlignment
    ▲               ▲ proved about by ─ AlignmentProofs (with ChunkingProofs)
    ▲ proved about by ─ ChunkingProofs
```

**JobLifecycle** is what the queue promises to code that enqueues: a job is pending, active or
over, is tried at most `MaxAttempts` times, and stays over. It has no workers, leases or clocks.

**JobQueue** is the table with the loops of its workers. One action is one SQL statement (each
runs in a transaction of its own) or one step of `Run`/`process`.

| Code | TLA+ |
|---|---|
| columns status, attempt, locked_by | `status`, `attempt`, `lockedBy` |
| locked_at against now() − lease | `expired[j]`: the one comparison the SQL makes; `LeaseExpires` is time passing |
| run_after against now(), ORDER BY run_after | `due` and `earlier[j]`, the due jobs that come before j; no caller sets a priority |
| EnqueueJob with run_after = now(), the time of `BEGIN` | `EnqueueDue`: the job may come before jobs that became due meanwhile |
| EnqueueJob, ClaimJob, HeartbeatJob, CompleteJob, RescheduleJob, RetryOrFailJob, RequeueStaleJobs, ManualRetryCleanupJob, retention | `Enqueue`, `ClaimRow`, `Heartbeat`, `Complete`, `Reschedule`, `RetryOrFail`, `RequeueStale`, `RetryFailedCleanup`, `Retain` |
| Run: recovery at start, claim, select on poll or recovery | `Start`, `Claim`, `ClaimNothing`, `Poll`, `RecoverLeases` |
| process: handler returns, heartbeat fails, transition fails | `HandlerReturns`, `HeartbeatFails`, `SettleFails` |
| the claim commits, its answer does not arrive | `ClaimAnswerLost` |
| shutdown or crash | `Stop` |

`spent` is a history variable: executions that ended without being rescheduled.

**TranscriptOutcome** is what a run promises its user: a chunk is billed at most once, the
transcript is published at most once and only when every chunk has its result, and a run that
has published or failed is over.

**Transcription** is a run with all its jobs. The actions of a handler are named for the
repository's transactions (`BeginRender`, `FinishRender`, `ActivateTranscript`, …) or for the
external call between two of them (`Download`, `Submit`, `Cleanup`, …). Between two actions
of an execution anything else may happen.

* A *runner* is a goroutine that executes a handler. When its row is recovered meanwhile, the
  runner goes on beside its successor, as the code does: a handler checks neither lease nor
  attempt, only the status of run and chunk. Its settlement then matches no row.
* `step[r]` is where it stands: `begin`/`start` (first reads and transactions), `work` (external
  call), `finish` (last transaction), then an outcome. `record` is FailJob, which `wrap` calls
  for permanent errors and for the last attempt; a panic passes it by.
* A job of the queue is a live row: how often it was tried and who holds it. A job that is over
  is gone. Duplicates are told apart by the smallest free `copy` number.
* `Orphaned` rows, whose holder is not executing them (a crash, a lost claim or settlement),
  are recovered at no cost. Recovering a row whose holder *is* at work is the fault `lease`.
* Failures happen where the code can meet them, and every one of these counts in `trouble`:
  `error` (a call fails, nothing changed), `lease`, `crash` (also a shutdown), `panic`, `database`
  (a commit without its answer, a failing FailJob, settlement or reset). Errors that are part of
  normal operation are always possible and not counted: an unusable download, an ambiguous
  submission, a failed ASR task, an expired or empty result, a failing alignment.
* `objects` is the bucket, `keys` the columns that record an object. `asr` and `accepted` are
  the ASR service, known by how `internal/service` uses it: what becomes of a task, and how many
  submissions of a chunk it has accepted, each of which is paid for.
* Abstracted: stage texts, events, hashes, URLs, segments; episode status, speaker maps and the
  versions of the episode, which RunRows has. The
  upload at the end of prepare and render is one step with ffmpeg's read. `total_chunks` is
  `Cardinality(Chunks)` once chunks are planned. `Claim` takes any queued row, since the order of
  `run_after` depends on delays; JobQueue shows that due jobs are not starved. Error branches that no
  execution can take are left out and named where they would stand: a NULL key beside a status
  that was written together with it (`BeginPrepare`, `BeginRender`, `BeginSubmit`), an align job
  of a run with chunks missing (`BeginAlignment`).

Transcription takes each transaction of the repository as one action. The next three modules show
that it may.

**RunRows** has the rows of one run (`row["run"]`, `row["episode"]`, `row["transcripts"]` and one
row per chunk), the jobs that were enqueued, and the statements of `queries/transcription.sql`: a
statement is a function from the row it addresses to the set of the rows it returns, empty when
its `WHERE` does not match. What must hold of the committed rows is stated here, for both modules
that change them.

**RunSerial** executes each transaction in one step. A job that was enqueued once may be executed
again at any time, so duplicates, late executions and executions beside one another need no
actors: they are steps that may be taken again.

**RunTransactions** executes the same transactions statement by statement in several sessions, by
the rules of READ COMMITTED: a statement sees what is committed when it starts; an `UPDATE` waits
for the holder of the row and then asks its `WHERE` again; locks are kept until `COMMIT`.

| Code | TLA+ |
|---|---|
| committed rows; rows written and locked by a transaction | `row`; `write[s]` |
| the transaction a session is in, and its next statement | `doing[s]` |
| `:one` without a row is an error, `:exec` is not | `One`, `Exec` |
| LockTranscriptionRun and the handler's return on a status | `LockTranscriptionRun` after the guard on `row["run"]` |
| ListRunChunks after that lock, in FinishRender | `doing[s].all`, what the snapshot has shown |
| error, cancelled context, crash | `Abort` |

`ImplementsSerial` maps a `COMMIT` to the transaction of RunSerial and every other statement to a
stutter: the transactions are serializable although the isolation level does not make them so.

**Imports** goes from a submitted link to a run. SaveResolved and Create are taken apart into their
statements as above, with the locks they wait for: import, advisory identity locks in sorted
order, episode, and the unique index on active runs. `exec[w]` is an execution of
the resolve job; as in Transcription, one that has lost its lease goes on. `Resolutions[i]` are
the key lists a resolver may answer for a link, several when its answer changes between two
attempts.

The latest run of an episode is the one with the greatest `created_at` (`Latest`), and that is the
time of `BEGIN`. `Begin` is therefore a step of its own, before `LockEpisode`, and `runs[e]` a set of
dated runs, not a list in the order of insertion. A Create may begin, stall, and insert its run
behind one that began later and has failed meanwhile; such a run is `Hidden`. Only the order of
times matters: `Begin` takes one after those of the rows and open transactions of the episode. Two
transactions that begin in the same microsecond, whose runs `id DESC` would order, are left out.
A run is three statuses, as TranscriptOutcome has it. `Plan` and `EndRun` are the transactions of a
run that write its row and then that of the episode: `writing[e]` is what one under way has
written, `RunCommits` and `RollBack` its end.
`ImportStatus` and `TaskStatus` are GetImportStatus and `taskStatus` of
`internal/http/transcription.go`.

**Chunking** is the loop of `Plan`, one action per iteration, so that an invariant can be proved
about its result for audio of any length, and the ownership rule that `Merge` and
`SpeakersFromChunks` share.

**Alignment** goes on from the windows of Chunking. `Ingest` normalizes what was recognised in a
window (`ToEpisodeTime`). `Align` is taken one speaker at a time, as its loops do: `Recognise` is
the next candidate the loop over the sorted candidates takes, which is the best that is still
eligible, `NewSpeaker` the next round of the loop over local speakers, `EndWindow` the end of an
iteration of the outer loop. `Merge` is one step. The lists of the code are sets here: segments in
a window are told apart by `LocalSequence` (the assumption on `Answers`, from
`provider/asr/aliyun.go:341`), and a sort by a total order is the number of those before (`Place`).
Sums of interval lengths are the numbers of pairs of segments and instants they count (`Evidence`,
`Matched`). Times are integers, so the ratio of match and evidence is compared by cross
multiplication; the threshold of one half is `2 * matched >= evidence`. Keys of more than 999
speakers would be ordered as strings, which only breaks ties.

A definition whose name ends in `_<mistake>` is the definition before the underscore with a
plausible mistake in it. No specification uses them; each makes TLC refute a property when it
takes the place of the right one, which shows that the property depends on that piece of code.

## 3. Runs, bounds, fairness

| Run | Module, configuration | Instance | What it shows |
|---|---|---|---|
| job_queue | MCJobQueue, MCJobQueue.cfg | 2 jobs (1 cleanup), 2 workers, 2 attempts, fair | the CHECK constraints and attempts are consistent; only the holder or the clock takes a running job away; the table implements JobLifecycle; a due job is claimed, every job is over some day |
| transcription | MCTranscription, MCTranscription.cfg | 1 chunk, 2 runners, any 1 fault | from the first job to the last cleanup, TranscriptOutcome is implemented; the source outlives the step that reads it |
| transcription_parallel | …Parallel.cfg | 2 chunks, 2 runners; 1 expired lease from planned chunks on, 2 from rendered chunks on | the prepared audio outlives every render, concurrent renders included; one submission per chunk; TranscriptOutcome |
| transcription_settles | …Settles.cfg | 2 chunks, 1 runner, 2 failing calls | the run completes or fails; a scope marked cleaned is empty |
| transcription_one_fault | …OneFault.cfg, from planned chunks | 1 chunk, 2 runners, any 1 fault but `database` | no single fault strands a run |
| run_transactions | MCRunTransactions, MCRunTransactions.cfg | 2 chunks, 2 sessions | transactions are serializable and never wait in a circle; alignment is enqueued and the prepared audio given up once, no speaker map is missing, the episode agrees with its run |
| imports | MCImports, MCImports.cfg | a feed and a direct link, 3 keys, 2 workers, 2 attempts, 1 failed run | one episode per identity; a live or completed run is hidden by a failed one only; a resolved task has its run; no deadlock but behind a hidden run; a completed task stays so |
| alignment | MCAlignment, MCAlignment.cfg | core 4, overlap 2, audio of 1 to 42; transcribed at lengths 3, 8 and 12 | tiling, ownership, renders, overlap for every remainder modulo the core; stable matching that follows the voices, merge without loss or repetition |
| transcription_crashes, _cleanup_fails, _duplicate, imports_duplicate_run | …Crashes.cfg, …CleanupFails.cfg, …Duplicate.cfg, MCImportsDuplicateRun.cfg | 1 chunk, 1 or 2 runners; 2 workers | the disagreements of section 5 |

**Bounds.** `MaxAttempts` is 2 where the code has 3: it is the least number with a first, a
retried and a last attempt, and the code only compares attempts with it. Two workers or runners
are what a lost lease needs: the old and the new execution. Two expired leases allow a third
execution, or one duplicate each of two jobs. A lost lease beside a refused submission, which
`ResetSubmit` takes back, is two faults of different kinds and in no run; the theorem `SubmittedOnce` has it. Two chunks are what a join needs, one that is last
and one that is not. In JobQueue every variable is bounded by the columns; in
Transcription `MaxTrouble` bounds the faults, and since each execution enqueues a bounded number
of jobs it bounds everything else. `MaxDuration` (Chunking) exceeds ten cores, so first, middle
and last windows occur with every length of the rest.

`MaxCopies` (RunRows) stops counting how often a job was enqueued; 2 tells once from more often,
which is what the invariants ask. Two sessions in RunTransactions are every pair of transactions
that can interleave on the rows of a run; two chunks give the two last renders and the two last
ingestions that must not miss each other. In Imports the direct link shares a key with the feed by
one of its answers and none by the other; that its answer changes stands for a resolver that sees
another address at the retry. `MaxFailedRuns` bounds how many runs of an episode
fail: with one failed run there may be one after it, one hidden behind it, and, once that has completed, another. In Alignment the lengths 3, 8 and 12 give one, two and three windows. `MinAlignment` 2
and segments of two to four units lie below, at and above both thresholds; two voices make ties,
swaps and one voice heard as two possible.

`InitPlanned` and `InitRendered` (MCTranscription) are reachable states of `Spec`, those after
an undisturbed start. Starting there leaves out late duplicates of the earlier steps, which the
run `transcription` has. `SpecParallel` starts in either: from planned chunks the count of faults
begins at one of two. Symmetry over chunks, runners, workers and plain jobs is used in safety
runs only.

Deadlock is checked in job_queue. It is not in the other runs, where everything stops when the
work is done: in Transcription when the run is over and its jobs are gone, in Imports when the
runs are over and retention has been, in Alignment after the merge, in RunTransactions when no job
is left whose `WHERE` matches. That Transcription does not stop earlier under its faults is
`RunSettles`; that transactions do not wait for each other for ever is `NoWaitCycle`, in
RunTransactions and Imports.

**Fairness.** JobQueue (`FairSpec`): clocks advance; a stopped worker is started again by whoever
operates it (the repository assumes this, and RequeueStale at start is written for it); a handler
returns, and its worker settles or fails to; polls and empty claims return. Strong fairness only
of claiming and of lease recovery, which a worker reaches over and over: the database does not
refuse them for ever, and Go's `select` chooses at random among ready channels. Nothing is assumed
of crashes, lost answers or heartbeats, which may go on for ever; JobsSettle then excludes only
jobs that ask to be rescheduled for ever and operators that revive cleanups for ever.
Transcription: an execution proceeds, an idle runner claims, orphaned rows are recovered, the ASR
service ends each task. The last is an assumption the code needs: it polls a pending task without
any deadline. Imports has safety properties only, and no fairness.

`CleanedIsGone` is checked with failing calls only, and proved for every fault but an expired lease
(CleanupProofs). With an expired lease it fails: the old
execution may upload a chunk after the cleanup. `docs/architecture/transcription.md:174` accepts
such orphans and leaves them to the bucket's lifecycle.

## 4. Proofs

TLAPS checks the following for all values of the constants, from the assumption each model states
of its constants (`JobQueueAssumption`, `ChunkingAssumption`, `RunRowsAssumption`,
`RunTransactionsAssumption`, `TranscriptionAssumption`, `ImportsAssumption`, `AlignmentAssumption`) and nothing else.
They say that chunks, links and workers of the imports are finite sets, that names are distinct,
that bounds are numbers, that a resolver returns a key (`repository/imports.go:87` refuses an answer
without one), and that what is recognised in a window is a finite set of numbered segments. Each inductive invariant was an invariant of a TLC run before it was proved.

**JobQueueProofs.** Any sets of jobs and workers, finite or not, and any `MaxAttempts` ≥ 1. The
inductive invariant is

    IInv = TypeOK /\ RowConsistent /\ QueuedIsClaimable /\ AttemptsAccounted
                  /\ AtWork /\ FreshRows

The properties need each other: types of `spent` need `AttemptsAccounted`; that `attempt` stays
within `MaxAttempts` needs the claim's guard; a settlement is about `cur[w]`, which is a job only
by `AtWork`, which only keeps the books of the model; a row about to be inserted has attempt 0 by `FreshRows`, without which
the first claim might overrun. `InitIInv`, `TableStepIInv`, `RequeueStaleIInv` and
`WorkerStepIInv` do one action each; `Invariance` puts them together.

| Theorem | States |
|---|---|
| TypeCorrect, RowsConsistent, NoJobStranded, EveryAttemptCounted | the four invariants of run job_queue |
| HoldersAreSafe | `OnlyHolderOrExpiry`: a running job is taken from its holder by its own settlement or after its lease expired. The core is that settling needs `Held(w, cur[w])` |
| QueueImplementsLifecycle | every step maps to a step of JobLifecycle or a stutter. Recovery maps to `Interrupt` of all stale jobs at once; the other steps touch one job |

**ChunkingProofs.** Any core window, any overlap up to it, any duration. Its
`IInv = TypeOK /\ Chained /\ CoresTile`: `Chained` says that each window has the fields `Plan`
gives it for its start, begins where the one before it ends, and that the last one ends where
the loop stands. With it, one more iteration extends the tiling by one core that no earlier
window reaches (`CutIInv`). `OneOwner` adds that a midpoint lies inside its segment
(`MidpointInside`); `Rendering` and `Overlapping` are read off `Chained`.

**RunProofs.** Any finite set of chunks, any `MaxCopies` ≥ 2, transactions executed in any order
and any number of times (`Spec` of RunSerial). The inductive invariant is

    IInv = TypeOK /\ AlignedOnce /\ PreparedFreedOnce /\ MapsSaved /\ EpisodeAgrees
                  /\ Planned /\ ObjectsAreRendered /\ JoinedAll /\ OneTranscript

The counter is what makes it hard: `completed_chunks` is compared with `total_chunks`, and what is
wanted is that *all chunks* are completed. `AlignedOnce` says that the counter is the cardinality
of the completed chunks, `Planned` that the total is that of `Chunk` once chunks exist, and the
lemma `ChunkCount` that equal cardinalities then mean equal sets. `JoinedAll` keeps what follows
for the rest of the run: a run that is aligning or further has all chunks completed, and FailJob
does not undo it, since it passes over completed chunks; hence SetChunkSpeakerMap of
FinishAlignment reaches every chunk (`MapsSaved`). `ObjectsAreRendered` says that only a chunk
past its render has an object, so that the last render adds the last one and a repeated render
adds none (`PreparedFreedOnce`). `OneTranscript` ties the active version to the end of the run.
`RunActions`, `ChunkActions` and one lemma for each action that touches several rows show that
steps preserve it; `NextIInv` puts them together.

| Theorem | States |
|---|---|
| RowsTyped, RunAlignedOnce, RunFreesPreparedOnce, RunMapsSaved, RunEpisodeAgrees | `Spec => []` of `TypeOK`, `AlignedOnce`, `PreparedFreedOnce`, `MapsSaved`, `EpisodeAgrees` |

**RunTransactionsProofs.** Any finite set of chunks, any set of sessions, each executing its
transactions statement by statement and aborting anywhere. Its
`IInv = RowsOK /\ SessionsOK /\ Planned /\ Exclusive /\ \A s : Stands(s)` says, for each transaction
and each of its statements, which rows the session has locked and what it has written there, *in
terms of the committed rows*: `write[s]["run"] \in SetRunAligning(row["run"])`. That is what makes
a `COMMIT` the transaction of RunSerial. Three things need an argument.

* What a session has written has to stay what the statements would write now. Others commit in
  between, but no row this session has locked (`Exclusive`); the guards it has read before they
  were locked survive because nothing undoes them (`OthersStand`).
* `FinishRender` decides on the chunks its snapshot showed. No chunk gets its first object between
  that read and the `COMMIT`, since whoever records one holds the run (`Locks`).
* `FinishAlignment` and `Plan` write the chunks one by one, the serial transaction all at once:
  `Visited(s)` is what the loop has done, and at its end it is `Chunk` (`VisitsNext`).

No deadlock: a session that waits for a chunk has the run locked and wants a chunk that is absent or
completed; the others lock such a chunk only with the run in hand (`ChunkWaits`), so nobody does.
Who has locked the episode is at `COMMIT` (`EpisodeLast`). If everybody waits for the run, its
holder is not among them.

| Theorem | States |
|---|---|
| Serializable | `ImplementsSerial`: under READ COMMITTED every `COMMIT` is a step of RunSerial, every other statement a stutter |
| NoDeadlock | `[]NoWaitCycle` |

By `Serializable` a behaviour of the statements is one of RunSerial, of which `RunProofs` has its
five invariants. They are about the committed rows alone, so they hold at statement level, too: for
all chunks and sessions.

**TranscriptionProofs.** Any finite set of chunks, any set of runners, any faults in any number.

    IInv = TypeOK /\ Rows /\ Executions /\ OneSubmits /\ Billed /\ Counted /\ JoinedAll /\ Kept

A handler asks only for the status of run and chunk, never for its lease, so the invariant cannot
say that an execution owns anything. What it has is *why a job may exist* (`Justified`: a cleanup
of the source exists only once the prepared audio is recorded, of a chunk once it is completed, and so
on) and *what an execution relies on at its step* (`Placed`); both only speak of facts that no step
undoes (`JustifiedForGood`), which is what lets a second execution go on beside the first. The
exception is a submission: status submitting can be taken back by the execution that knows its
request was refused. `OneSubmits` says that there is one execution between SetChunkSubmitting and
the answer, `Billed` what the ASR service has accepted in each status, and they need each other:
`ResetSubmit` returns a chunk to ready, which is harmless only if nobody else has submitted it.
`Counted` and `JoinedAll` carry the join as in RunProofs. `Kept` says which objects are recorded
and which are in the bucket in each status. One lemma per action proves the invariant and the
step of TranscriptOutcome together (`Promised`).

| Theorem | States |
|---|---|
| TypeCorrect | `[]TypeOK` |
| SubmittedOnce | `[]AtMostOneSubmission`: a chunk is billed once |
| NeededObjects | `[]NeededObjectsPresent`: no cleanup deletes what a step to come reads |
| RunImplementsOutcome | `ImplementsOutcome`: published once, from all chunks; over when over |

**CleanupProofs.** Any finite set of chunks, any set of runners, any number of failing calls,
crashes, panics and lost commits, but no lost lease (`"lease" \notin Faults`, the hypothesis of the
theorem). To the invariant of TranscriptionProofs, whose executions own nothing, `Alone` adds what
they own as long as their lease holds:

    Alone = IInv /\ Owned /\ OnlyRow /\ Enqueued /\ Recorded /\ Uploading /\ Marked

An execution holds its row (`Owned`), and an object is uploaded by one job (`OnlyRow`), because
that job was enqueued when run or chunk left a status they do not return to (`Enqueued`).
Hence nobody else has done the work of an execution that is to upload (`Unfinished`), while a
cleanup exists only once it is done: what a cleanup has emptied stays empty until it marks its scope
(`Emptied`), and a marked scope belongs to a completed run, which nobody uploads for (`Marked`). A
lost commit is the delicate case: the repeated execution must find its work done before it uploads
again, which is what the recorded keys are for (`Recorded`).

| Theorem | States |
|---|---|
| CleanedStaysEmpty | `[]CleanedIsGone`, unless leases are lost |

**ImportsProofs.** Any finite sets of links and workers, any keys and answers of the resolver.

    IInv = TypeOK /\ (\A w : Placed(exec[w]) /\ Ordered(exec[w])) /\ Exclusive /\ Attempted
                  /\ EpisodesCounted /\ RunsDated
                  /\ OwnsItsIdentity /\ HiddenByFailureOnly /\ Succeeded

`Placed` is what each statement may rely on: at `save` the import is still without an episode and
the episode found is still the owner of its keys, because the import's row and all identity locks
are held (`Ordered`, `Exclusive`); at `insert` the latest run is still absent or failed, because
the episode's row is held. `RunsDated` and the last part of `Exclusive` say that `created_at` tells
the runs of an episode and the Creates that are to add one apart, whatever the order in which they
insert (`BeginsLast`); that an episode has one active run is the unique index, not the order
(`CreateRunIInv`). `HiddenByFailureOnly` survives an insertion because what is in front of the new
run then is the failed run that Create has read, or nothing. `Succeeded` is the part of
`SucceededHasRun` that other steps do not disturb: a source, and some run.

`Ordered` says that the keys held are the least of those wanted, from which `NoDeadlock` follows:
locks come in the order import, keys, episode, run; of the workers that wait for a key the one whose
key is greatest waits for none of the others (`FurthestAhead`, `SomeoneGoesOn`). The transactions
of a run lock the other way round, run before episode. A Create that waits for one at the index has read a failed
run under the lock of the episode, so the active run is hidden behind it (`WaitsBehindFailure`):
this is the exception in `NoWaitCycle`. Two
things were found on the way and are now part of the model: the assumption that workers, episodes and
statuses are told apart, and that a key list is not empty.

| Theorem | States |
|---|---|
| TypeCorrect, IdentityOwned, HiddenByFailure, RunLeft | `[]` of `TypeOK`, `OwnsItsIdentity`, `HiddenByFailureOnly`, `SucceededHasRun` |
| StaysAttached, StaysCompleted | the action properties `AttachedForGood`, `CompletedStays` |
| NoDeadlock | `[]NoWaitCycle`: no deadlock, except behind a hidden run |

**AlignmentProofs.** Audio of any length, any thresholds, any number of windows, whatever is
recognised in them.

    AIInv = IInv /\ Ingested /\ Mapped /\ Matching /\ StableMatching /\ Result

where `IInv` is that of ChunkingProofs. `Matching` is what makes the greedy choice stable: while a
window is aligned, a candidate with enough evidence is still eligible, or taken, or displaced by
one that is taken, matches at least as well and shares exactly one of its two speakers with it.
`Recognise` keeps it because the one it takes comes before all others that are eligible
(`Before`), and `EndWindow` turns it into `StableMatching`, because then no local speaker is left.
That no two speakers of a window become one (`Distinct`) needs `speakers` to exceed every number
given before. `VoiceFollowed` follows from stability: whoever is heard at the same times and alone is
a candidate with as much match as evidence (`VoiceCounts`, by an injection), and a candidate that
would displace it would need somebody else who speaks then. For `Merge`, places are distinct
because `MergedBefore` is a total order, so each is taken (`Ranking`), and what is merged is a
permutation of what the cores own; that one window owns it is `CoresTile`, that it is one of
two neighbours which have both rendered it is `NeighboursOverlap`. `MergedOnce` speaks of segments whose
midpoint both have rendered: of a time a recogniser puts outside of its window the code promises nothing.

| Theorem | States |
|---|---|
| Stable, VoiceFollowed | `[]` of `StableMatching`, `FollowsTheVoice` |
| Once, Listed | `[]` of `MergedOnce`, `SpeakersListed` |

**Only model-checked:** liveness (`DueIsClaimed`, `JobsSettle`, `RunSettles`), which the proof
system has no support for here, as it has none for ENABLED or RECURSIVE operators (none is used).
Every invariant, action property and refinement that a passing run checks is also a theorem.

## 5. Where code and documents disagree

* **A run whose job dies with its worker never ends** (run transcription_crashes). `wrap` is the
  only caller of FailJob. When the last attempt of a job loses its lease, RequeueStale fails
  the job by SQL, and when a handler panics on its last attempt, RetryOrFail does; the run keeps
  its status with no job left. A FailJob that fails itself leaves a run the same way: `wrap` hands both
  errors to the worker, which ends the job (`RecordFails`; the fault `database`, without which the passing
  runs check RunSettles). `apps/mcp/src/index.ts:40` tells the client to poll until the task
  returns a transcript or an error; it does neither, and new tasks of that episode get the same run.
* **A cleanup can fail a healthy run** (transcription_cleanup_fails). Cleanup is wrapped as any
  handler, so the last failed deletion calls FailJob while the run is being transcribed.
  `docs/architecture/transcription.md:171` has deletions retried by the cleanup job.
* **A duplicate can fail a run that has moved on** (transcription_duplicate). By
  `docs/architecture/transcription.md:156` a duplicate is a no-op; FailJob looks neither at the
  lease nor at whether the job's work is done.
* **An episode can be transcribed, and paid for, twice** (imports_duplicate_run).
  `GetLatestTranscriptionRunForEpisode` orders by `created_at`, the time of `BEGIN`; Create begins
  before it waits for the episode (`repository/transcription.go:62-63`). A Create that stalls in between
  finds that a later one has left a run that failed, and inserts a run that reads as older.
  1. While that run is under way, a Create of the episode reads the failed run and inserts: it fails at the unique index
     (`ErrTranscriptionRunning`, and a retry), or, if a transaction of the run is waiting for
     the episode meanwhile, PostgreSQL breaks a deadlock. This is the exception in `NoWaitCycle`.
  2. When it has completed, its tasks still read failed, and a Create inserts a third run. No task
     falls back from completed (`CompletedStays` holds), but the transcript is made again.

  `TestTranscriptionWorkflowCompletesLongAudioWithSwappedSpeakers`
  (`service/transcription_integration_test.go:129-135`) asserts that Create of a transcribed episode returns
  the run it has. What does hold is `HiddenByFailureOnly`: Create returns that run unless a failed one
  that began after it is in front.

## 6. What is not modelled

* Liveness of Imports. Read off `ImportStatus` and `TaskStatus`, a task can be left without an answer:
  when the last attempt of its resolve job ends between SaveResolved and Create, it reads failed, from
  the job; when retention has deleted that job, GetImportStatus goes by the episode, which is resolved, and
  the task reads resolving, for ever. `apps/mcp/src/index.ts:40` promises a transcript or an error.
* Which keys a resolver derives from a page or feed: `Resolutions` is an input. Two links of one
  episode without a common key are two episodes, in the code as in the model.
* Users: every statement of Imports is restricted to one, so there is one.
* The transcripts' readers and their rendering, authentication and routing of the API: no state.
* Words and speaker labels in Alignment: they follow segments and speakers.
* Read-only transactions and the log of events in RunTransactions. A transaction is left out of a
  session's choices when its guard says that it returns without writing.
* The HTTP exchange with ASR, OSS and podcast sites, ffmpeg, parsing and rendering of text: pure
  I/O or formatting. Their outcomes are choices in Transcription.
* MCP server, users, configuration, migrations, logging: no state of their own, or single
  statements without interleaving.
* A claim that rolls back after `FOR UPDATE SKIP LOCKED` has skipped its row for others: they claim
  the next job, or nothing, and poll again. Claims of JobQueue take the first due job.
* A queue that never empties, whose workers never reach the select that recovers leases
  (`worker.go:115`): with finitely many jobs it takes jobs that are rescheduled for ever, which
  `JobsSettle` excludes by its hypothesis.
* Two live workers with one ID (`hostname-pid`): excluded by deployment only. A worker
  that comes back under its old ID is modelled.

## 7. Plan

Done: JobLifecycle, JobQueue, JobQueueProofs; TranscriptOutcome, Transcription,
TranscriptionProofs, CleanupProofs; RunRows, RunSerial, RunTransactions, RunProofs,
RunTransactionsProofs; Imports, ImportsProofs; Chunking, Alignment, ChunkingProofs, AlignmentProofs. Next:

1. AtMostOneSubmission of Transcription with the statements of RunTransactions underneath.
2. The classification of errors in `provider/asr`, by which `service` tells an ambiguous
   submission from a refused one.
