------------------------------- MODULE Imports -------------------------------
(***************************************************************************)
(* From a submitted link to a run of its episode: the resolve_episode job  *)
(* (internal/service/import.go) over SaveResolved and Create               *)
(* (internal/repository/imports.go, transcription.go), and the task status *)
(* that internal/http derives from import, job and run.                    *)
(*                                                                         *)
(* SaveResolved and Create are taken apart into their statements: a lock   *)
(* is taken at one, held through the next, and released at the commit.     *)
(* All imports are of one user, since every statement is restricted to a   *)
(* user.  Runs are what TranscriptOutcome leaves of them, the jobs table   *)
(* what JobLifecycle does.  created_at of a run is now(), which in         *)
(* PostgreSQL is the time of BEGIN: of two transactions the one that       *)
(* inserts first need not insert the older row.                            *)
(*                                                                         *)
(* A definition whose name ends in _<mistake> is the one of that name with *)
(* a mistake in it; no specification uses it, and TLC refutes a property   *)
(* when it takes the place of the right one.                               *)
(***************************************************************************)
EXTENDS Integers, FiniteSets, Sequences, SequencesExt

CONSTANTS Import,       \* submitted links
          Key,          \* episode identity keys, as numbers in the order of sort.Strings
          Resolutions,  \* Resolutions[i]: the key lists a resolver may answer for i
          Worker,       \* executions of the resolve job that may overlap
          MaxAttempts,  \* max_attempts of the resolve job
          MaxFailedRuns,\* bound: how many runs of an episode may fail
          None

ASSUME ImportsAssumption ==
  /\ Key \subseteq Nat /\ IsFiniteSet(Import) /\ IsFiniteSet(Worker)
  /\ \A i \in Import : Resolutions[i] \subseteq Seq(Key) \ {<<>>}
  /\ MaxAttempts \in Nat \ {0} /\ MaxFailedRuns \in Nat
  /\ Worker \cap Nat = {}
  /\ None \notin Import \cup Worker \cup Nat
  /\ None \notin {"import", "episode", "open", "completed", "failed"}

VARIABLES
  job,        \* job[i]: status of the resolve job, "none" before, "deleted" after
  attempt,    \* attempt[i]
  lease,      \* lease[i]: the worker whose lease the running job has
  episodeOf,  \* episodeOf[i]: imports.episode_id
  episodes,   \* how many episodes there are
  owner,      \* owner[k]: the episode that episode_identity_keys gives key k
  sources,    \* sources[e]: the imports that have given episode e a source
  runs,       \* runs[e]: the committed runs of episode e
  writing,    \* writing[e]: the status that a transaction under way gives its active run
  exec        \* exec[w]: what worker w executes

table == <<job, attempt, lease>>
saved == <<episodeOf, episodes, owner, sources>>
run   == <<runs, writing>>
vars  == <<table, saved, run, exec>>

Episode == 1..Cardinality(Import)

\* "open" stands for the statuses of the index on active runs.
RunStatuses == {"open", "completed", "failed"}

Run == [created : Nat \ {0}, status : RunStatuses]

JobStatuses == {"none", "queued", "running", "succeeded", "failed", "deleted"}

\* In order: Get, Resolve, GetImportForResolve, AcquireEpisodeIdentityLock,
\* FindEpisodeByIdentityKeys, the writes of SaveResolved, the BEGIN of Create, its
\* LockEpisode, GetLatest and INSERT, the settlement.
Steps == {"idle", "get", "resolve", "import", "identity", "find", "save", "begin", "create",
          "latest", "insert", "ok", "retryable", "permanent"}

KeyLists == UNION {Resolutions[i] : i \in Import}

Execution ==
  [at : Steps, import : Import \cup {None},
   keys : KeyLists \cup {<<>>},                              \* identityKeys
   row : {"import", "episode", None},                         \* row lock held
   locked : SUBSET Key,                                       \* advisory locks held
   episode : Episode \cup {None},
   began : Nat]                                               \* now() of Create

\* An execution that stands at s, outside of any transaction.
Outside(s, i, e) == [at |-> s, import |-> i, keys |-> <<>>,
                     row |-> None, locked |-> {}, episode |-> e, began |-> 0]

Idle == Outside("idle", None, None)

TypeOK ==
  /\ job \in [Import -> JobStatuses]
  /\ attempt \in [Import -> 0..MaxAttempts]
  /\ lease \in [Import -> Worker \cup {None}]
  /\ episodeOf \in [Import -> Episode \cup {None}]
  /\ episodes \in 0..Cardinality(Import)
  /\ owner \in [Key -> Episode \cup {None}]
  /\ sources \in [Episode -> SUBSET Import]
  /\ runs \in [Episode -> SUBSET Run]
  /\ writing \in [Episode -> RunStatuses \cup {None}]
  /\ exec \in [Worker -> Execution]

Init ==
  /\ job = [i \in Import |-> "none"]
  /\ attempt = [i \in Import |-> 0]
  /\ lease = [i \in Import |-> None]
  /\ episodeOf = [i \in Import |-> None]
  /\ episodes = 0
  /\ owner = [k \in Key |-> None]
  /\ sources = [e \in Episode |-> {}]
  /\ runs = [e \in Episode |-> {}]
  /\ writing = [e \in Episode |-> None]
  /\ exec = [w \in Worker |-> Idle]

-----------------------------------------------------------------------------
(* What the API shows of a task.                                           *)

\* ORDER BY created_at DESC LIMIT 1.
Latest(e) == CHOOSE r \in runs[e] : \A q \in runs[e] : q.created <= r.created

\* Status of GetLatestTranscriptionRunForEpisode, and of the lateral join of
\* GetImportStatus.
LatestRun(e) == IF e = None \/ runs[e] = {} THEN None ELSE Latest(e).status

\* import_status of GetImportStatus: that of the job, or after its deletion a
\* guess from the episode, whose resolve_status is always completed.
ImportStatus(i) ==
  IF job[i] # "deleted" THEN job[i]
  ELSE IF episodeOf[i] # None THEN "succeeded" ELSE "failed"

\* taskStatus.
TaskStatus(i) ==
  IF LatestRun(episodeOf[i]) # None THEN LatestRun(episodeOf[i])
  ELSE CASE ImportStatus(i) = "queued" -> "queued"
         [] ImportStatus(i) = "failed" -> "failed"
         [] OTHER                      -> "resolving"

-----------------------------------------------------------------------------
(* The jobs table.                                                         *)

\* POST /api/v1/transcriptions: import and job in one transaction.
CreateImport(i) ==
  /\ job[i] = "none"
  /\ job' = [job EXCEPT ![i] = "queued"]
  /\ UNCHANGED <<attempt, lease, saved, run, exec>>

Claim(w, i) ==
  /\ exec[w] = Idle /\ job[i] = "queued"
  /\ job' = [job EXCEPT ![i] = "running"]
  /\ attempt' = [attempt EXCEPT ![i] = @ + 1]
  /\ lease' = [lease EXCEPT ![i] = w]
  /\ exec' = [exec EXCEPT ![w] = Outside("get", i, None)]
  /\ UNCHANGED <<saved, run>>

AfterFailure_OffByOne(i) == IF attempt[i] <= MaxAttempts THEN "queued" ELSE "failed"

AfterFailure(i) == IF attempt[i] < MaxAttempts THEN "queued" ELSE "failed"

\* Complete or RetryOrFail; no row of a lost lease matches.
Settle(w) ==
  LET i == exec[w].import IN
  /\ exec[w].at \in {"ok", "retryable", "permanent"}
  /\ IF lease[i] = w
     THEN /\ job' = [job EXCEPT ![i] = CASE exec[w].at = "ok"        -> "succeeded"
                                         [] exec[w].at = "permanent" -> "failed"
                                         [] OTHER                    -> AfterFailure(i)]
          /\ lease' = [lease EXCEPT ![i] = None]
     ELSE UNCHANGED <<job, lease>>
  /\ exec' = [exec EXCEPT ![w] = Idle]
  /\ UNCHANGED <<attempt, saved, run>>

\* The lease expires, whether or not its holder is still at work.
RequeueStale(i) ==
  /\ job[i] = "running"
  /\ job' = [job EXCEPT ![i] = AfterFailure(i)]
  /\ lease' = [lease EXCEPT ![i] = None]
  /\ UNCHANGED <<attempt, saved, run, exec>>

\* A crash, or a heartbeat without lease that cancels the handler: the open
\* transaction rolls back.
Abandon(w) ==
  /\ exec[w].at \notin {"idle", "ok", "retryable", "permanent"}
  /\ exec' = [exec EXCEPT ![w] = Idle]
  /\ UNCHANGED <<table, saved, run>>

\* Months later, when no execution of the job can be left.
Retain(i) ==
  /\ job[i] \in {"succeeded", "failed"}
  /\ \A w \in Worker : exec[w].import # i
  /\ job' = [job EXCEPT ![i] = "deleted"]
  /\ UNCHANGED <<attempt, lease, saved, run, exec>>

-----------------------------------------------------------------------------
(* The handler.                                                            *)

To(w, s) == exec' = [exec EXCEPT ![w].at = s]

Lock(w, row, s) == exec' = [exec EXCEPT ![w].at = s, ![w].row = row]

\* The handler returns; a transaction it has open rolls back.
Return(w, outcome) == exec' = [exec EXCEPT ![w] = Outside(outcome, exec[w].import, None)]

\* On to Create, with the episode of the import.
ToCreate(w, e) == exec' = [exec EXCEPT ![w] = Outside("begin", exec[w].import, e)]

\* Any call of it may fail, and its transaction rolls back.  An unclassified
\* error is retried; a resolver may also refuse for good.
Fails(w) ==
  /\ exec[w].at \in Steps \ {"idle", "ok", "retryable", "permanent"}
  /\ \/ Return(w, "retryable")
     \/ exec[w].at = "resolve" /\ Return(w, "permanent")
  /\ UNCHANGED <<table, saved, run>>

Get_DoneIfResolved(w) ==
  LET e == episodeOf[exec[w].import] IN
  /\ exec[w].at = "get"
  /\ IF e = None THEN To(w, "resolve") ELSE Return(w, "ok")
  /\ UNCHANGED <<table, saved, run>>

Get(w) ==
  LET e == episodeOf[exec[w].import] IN
  /\ exec[w].at = "get"
  /\ IF e = None THEN To(w, "resolve") ELSE ToCreate(w, e)
  /\ UNCHANGED <<table, saved, run>>

Resolve(w) ==
  /\ exec[w].at = "resolve"
  /\ \E ks \in Resolutions[exec[w].import] :
       exec' = [exec EXCEPT ![w].at = "import", ![w].keys = ks]
  /\ UNCHANGED <<table, saved, run>>

HoldsImport(w, i) == exec[w].row = "import" /\ exec[w].import = i

\* SaveResolved, from here to Save.
ImportFree(i) == \A v \in Worker : ~HoldsImport(v, i)

LockImport_KeepsResolving(w) ==
  /\ exec[w].at = "import" /\ ImportFree(exec[w].import)
  /\ Lock(w, "import", "identity")
  /\ UNCHANGED <<table, saved, run>>

LockImport(w) ==
  LET e == episodeOf[exec[w].import] IN
  /\ exec[w].at = "import" /\ ImportFree(exec[w].import)
  /\ IF e = None THEN Lock(w, "import", "identity") ELSE ToCreate(w, e)
  /\ UNCHANGED <<table, saved, run>>

\* The next advisory lock, in sorted order.
NextKey(w) == CHOOSE k \in ToSet(exec[w].keys) \ exec[w].locked :
                \A l \in ToSet(exec[w].keys) \ exec[w].locked : k <= l

KeyFree(w, k) == \A v \in Worker \ {w} : k \notin exec[v].locked

LockIdentity_Unlocked(w) ==
  /\ exec[w].at = "identity"
  /\ To(w, "find")
  /\ UNCHANGED <<table, saved, run>>

LockIdentity(w) ==
  /\ exec[w].at = "identity"
  /\ IF ToSet(exec[w].keys) = exec[w].locked
     THEN To(w, "find")
     ELSE /\ KeyFree(w, NextKey(w))
          /\ exec' = [exec EXCEPT ![w].locked = @ \cup {NextKey(w)}]
  /\ UNCHANGED <<table, saved, run>>

\* ORDER BY requested.ordinality LIMIT 1.
FirstOwner(ks) ==
  LET owned == {n \in DOMAIN ks : owner[ks[n]] # None}
  IN  IF owned = {} THEN None ELSE owner[ks[Min(owned)]]

FindEpisode(w) ==
  /\ exec[w].at = "find"
  /\ exec' = [exec EXCEPT ![w].at = "save", ![w].episode = FirstOwner(exec[w].keys)]
  /\ UNCHANGED <<table, saved, run>>

HoldsEpisode(w, e) == exec[w].row = "episode" /\ exec[w].episode = e

EpisodeFree(e) == \A v \in Worker : ~HoldsEpisode(v, e)

CreateEpisode == episodes' = episodes + 1

\* Waits for the row of the episode.
EnrichEpisode(e) == EpisodeFree(e) /\ UNCHANGED episodes

\* ON CONFLICT DO NOTHING.
AddEpisodeIdentityKeys(ks, e) ==
  owner' = [k \in Key |-> IF k \in ToSet(ks) /\ owner[k] = None THEN e ELSE owner[k]]

AddEpisodeSource(e, i) == sources' = [sources EXCEPT ![e] = @ \cup {i}]

SetImportEpisode(i, e) == episodeOf' = [episodeOf EXCEPT ![i] = e]

\* The writes of SaveResolved, and its commit.
Save(w) ==
  LET found == exec[w].episode
      e     == IF found = None THEN episodes + 1 ELSE found
      i     == exec[w].import
  IN
  /\ exec[w].at = "save"
  /\ IF found = None THEN CreateEpisode ELSE EnrichEpisode(found)
  /\ AddEpisodeIdentityKeys(exec[w].keys, e)
  /\ AddEpisodeSource(e, i)
  /\ SetImportEpisode(i, e)
  /\ ToCreate(w, e)
  /\ UNCHANGED <<table, run>>

\* The times that rows and transactions have from episode e.  Only their order
\* matters, so a time that nobody has any more may come again.
Times(e) == {r.created : r \in runs[e]}
            \cup {exec[v].began : v \in {u \in Worker : exec[u].episode = e}}

\* BEGIN of Create, which fixes now(), and so created_at, before any lock.
Begin(w) ==
  /\ exec[w].at = "begin"
  /\ exec' = [exec EXCEPT ![w].at = "create", ![w].began = Max(Times(exec[w].episode)) + 1]
  /\ UNCHANGED <<table, saved, run>>

LockEpisode_WithoutWaiting(w) ==
  /\ exec[w].at = "create"
  /\ To(w, "latest")
  /\ UNCHANGED <<table, saved, run>>

\* Create, first statement; an episode without source is ErrEpisodeNotReady.
LockEpisode(w) ==
  /\ exec[w].at = "create"
  /\ EpisodeFree(exec[w].episode)
  /\ IF sources[exec[w].episode] = {} THEN Return(w, "retryable")
     ELSE Lock(w, "episode", "latest")
  /\ UNCHANGED <<table, saved, run>>

GetLatest_ReplacesActive(w) ==
  /\ exec[w].at = "latest"
  /\ IF LatestRun(exec[w].episode) = "completed" THEN Return(w, "ok") ELSE To(w, "insert")
  /\ UNCHANGED <<table, saved, run>>

GetLatest_ReplacesCompleted(w) ==
  /\ exec[w].at = "latest"
  /\ IF LatestRun(exec[w].episode) = "open" THEN Return(w, "ok") ELSE To(w, "insert")
  /\ UNCHANGED <<table, saved, run>>

\* Second statement: a run that has not failed is the run of this task, too.
GetLatest(w) ==
  /\ exec[w].at = "latest"
  /\ IF LatestRun(exec[w].episode) \in {"open", "completed"}
     THEN Return(w, "ok") ELSE To(w, "insert")
  /\ UNCHANGED <<table, saved, run>>

\* The rows of the unique index on active runs.
Active(e) == {r \in runs[e] : r.status = "open"}

\* The INSERT waits for a transaction that has written the active run.
IndexFree(e) == writing[e] = None

\* The rest of Create, download_audio job included, or ErrTranscriptionRunning.
CreateRun(w) ==
  LET e == exec[w].episode IN
  /\ exec[w].at = "insert" /\ IndexFree(e)
  /\ IF Active(e) # {}
     THEN Return(w, "retryable") /\ UNCHANGED runs
     ELSE /\ Return(w, "ok")
          /\ runs' = [runs EXCEPT ![e] = @ \cup {[created |-> exec[w].began, status |-> "open"]}]
  /\ UNCHANGED <<table, saved, writing>>

-----------------------------------------------------------------------------
(* The transactions of a run that show on its episode: they update its     *)
(* row first, and then the row of the episode.                             *)

Write(e, status) ==
  /\ Active(e) # {} /\ writing[e] = None
  /\ writing' = [writing EXCEPT ![e] = status]
  /\ UNCHANGED <<table, saved, runs, exec>>

\* Plan: the run goes on, and the episode is running.
Plan(e) == Write(e, "open")

Failed(e) == {r \in runs[e] : r.status = "failed"}

\* ActivateTranscript or FailJob.
EndRun(e) ==
  \/ Write(e, "completed")
  \/ Cardinality(Failed(e)) < MaxFailedRuns /\ Write(e, "failed")

\* SetEpisodeTranscriptionStatus, and the commit.
RunCommits(e) ==
  /\ writing[e] # None /\ EpisodeFree(e)
  /\ runs' = [runs EXCEPT ![e] =
               (@ \ Active(e)) \cup {[r EXCEPT !.status = writing[e]] : r \in Active(e)}]
  /\ writing' = [writing EXCEPT ![e] = None]
  /\ UNCHANGED <<table, saved, exec>>

\* An error, a crash, or PostgreSQL that has found a deadlock.
RollBack(e) ==
  /\ writing[e] # None
  /\ writing' = [writing EXCEPT ![e] = None]
  /\ UNCHANGED <<table, saved, runs, exec>>

Handle(w) ==
  \/ Get(w) \/ Resolve(w)
  \/ LockImport(w) \/ LockIdentity(w) \/ FindEpisode(w) \/ Save(w)
  \/ Begin(w) \/ LockEpisode(w) \/ GetLatest(w) \/ CreateRun(w)

Next ==
  \/ \E i \in Import :
       \/ CreateImport(i) \/ RequeueStale(i) \/ Retain(i)
       \/ \E w \in Worker : Claim(w, i)
  \/ \E w \in Worker : Handle(w) \/ Fails(w) \/ Settle(w) \/ Abandon(w)
  \/ \E e \in Episode : Plan(e) \/ EndRun(e) \/ RunCommits(e) \/ RollBack(e)

Spec == Init /\ [][Next]_vars

-----------------------------------------------------------------------------
(* Properties.                                                             *)

\* Two imports that resolve to the same identity get one episode, however their
\* SaveResolved overlap: the first key of an import, which FindEpisode asks for
\* first, belongs to the episode of the import.
OwnsItsIdentity ==
  \A i \in Import : episodeOf[i] # None =>
    \E ks \in Resolutions[i] : owner[Head(ks)] = episodeOf[i]

\* What an import or a key has been attached to is never replaced, not even by
\* a second execution of the job to which the resolver gave another answer.
AttachedForGood ==
  [][/\ \A i \in Import : episodeOf[i] # None => episodeOf'[i] = episodeOf[i]
     /\ \A k \in Key : owner[k] # None => owner'[k] = owner[k]]_vars

Newer(e, r) == {q \in runs[e] : q.created > r.created}

\* A run that has not failed is the latest of its episode, or a run that began
\* after it has failed: what Create has read is still so when it inserts, and no
\* run is put in front of one that is under way or completed.
HiddenByFailureOnly ==
  \A e \in Episode : \A r \in runs[e] :
    r.status = "failed" \/ Newer(e, r) = {} \/ \E q \in Newer(e, r) : q.status = "failed"

\* A second Create of an episode that has been transcribed returns the run that
\* did it (sameRun at the end of
\* TestTranscriptionWorkflowCompletesLongAudioWithSwappedSpeakers in
\* internal/service/transcription_integration_test.go): it is not transcribed,
\* and paid for, twice.
CompletedRunIsReturned ==
  [][\A e \in Episode : (\E r \in runs[e] : r.status = "completed")
       => {r.created : r \in runs'[e]} = {r.created : r \in runs[e]}]_vars

\* A resolve job that has succeeded has left its task a run, and a source to
\* download: the task does not read resolving for ever.
SucceededHasRun ==
  \A i \in Import : job[i] = "succeeded" =>
    /\ LatestRun(episodeOf[i]) # None
    /\ sources[episodeOf[i]] # {}

\* A task that has been reported completed stays so, whatever other tasks of
\* its episode do and retention deletes.
CompletedStays ==
  [][\A i \in Import : TaskStatus(i) = "completed" => TaskStatus(i)' = "completed"]_vars

\* The transactions that wait for a lock of another: SaveResolved, Create, and
\* by the number of their episode those that end a run.
Waits(x, y) ==
  \/ /\ x \in Worker /\ y \in Worker \ {x}
     /\ \/ exec[x].at = "import" /\ HoldsImport(y, exec[x].import)
        \/ /\ exec[x].at = "identity" /\ ToSet(exec[x].keys) # exec[x].locked
           /\ NextKey(x) \in exec[y].locked
        \/ exec[x].at \in {"save", "create"} /\ HoldsEpisode(y, exec[x].episode)
  \/ /\ x \in Worker /\ y \in Episode
     /\ exec[x].at = "insert" /\ exec[x].episode = y /\ ~IndexFree(y)
  \/ /\ x \in Episode /\ y \in Worker
     /\ writing[x] # None /\ HoldsEpisode(y, x)

\* The active run of the episode is not its latest.
Hidden(e) == \E r \in Active(e) : Newer(e, r) # {}

\* No deadlock among the locks on imports, identity keys, episodes and runs: of
\* any transactions, one waits for none of the others.  There is one exception,
\* which PostgreSQL has to break: a Create has seen a failed run that began after
\* the active one, and inserts while a transaction of the active run waits for
\* the episode.
NoWaitCycle ==
  \A T \in (SUBSET (Worker \cup Episode)) \ {{}} :
    \/ \E x \in T : \A y \in T : ~Waits(x, y)
    \/ \E e \in T \cap Episode : Hidden(e)
=============================================================================
