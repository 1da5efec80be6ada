------------------------------ MODULE RunSerial ------------------------------
(***************************************************************************)
(* The transactions of internal/repository/transcription.go on the rows of *)
(* one run, each in one step: what a handler may rely on, however many     *)
(* executions of its jobs overlap.  RunTransactions shows that the         *)
(* statements keep this promise, RunProofs what it is worth.               *)
(*                                                                         *)
(* A job that was enqueued once may be executed again at any time, also    *)
(* when it is over: by a worker that has lost its lease.  What rolls back  *)
(* or writes nothing is no step.                                           *)
(***************************************************************************)
EXTENDS RunRows

Ran(job) == enqueued[job] > 0

\* A transaction that writes one row.
Update(x, new, jobs) ==
  /\ \E v \in new : row' = [row EXCEPT ![x] = v]
  /\ Enqueue(jobs)

BeginDownload ==
  /\ Ran(<<"download", "run">>)
  /\ Update("run", SetRunDownloadStarted(row["run"]), {})

FinishDownload ==
  /\ Ran(<<"download", "run">>)
  /\ Update("run", SetRunDownloaded(row["run"]), {<<"prepare", "run">>})

FinishPrepare ==
  /\ Ran(<<"prepare", "run">>)
  /\ Update("run", SetRunPrepared(row["run"]), {<<"plan", "run">>, <<"clean", "source">>})

Plan ==
  /\ Ran(<<"plan", "run">>)
  /\ row["run"].total = 0 /\ row["run"].prepared
  /\ \E r \in SetRunTranscribing(row["run"], Cardinality(Chunk)) :
       row' = [x \in Rows |-> CASE x = "run"     -> r
                                [] x = "episode" -> SetEpisodeTranscriptionStatus(row[x], "running")
                                [] x \in Chunk   -> [Absent EXCEPT !.status = "planned"]
                                [] OTHER         -> row[x]]
  /\ Enqueue({"render"} \X Chunk)

\* BeginRender and BeginSubmit read the status of the run in an earlier statement.
BeginRender(c) ==
  /\ Ran(<<"render", c>>)
  /\ Update(c, StartChunkRender(row[c]), {})

FinishRender(c) ==
  /\ Ran(<<"render", c>>)
  /\ Update(c, SetChunkRendered(row[c]),
       {<<"submit", c>>} \cup
         IF Rendered \cup {c} = Chunk THEN {<<"clean", "prepared">>} ELSE {})

BeginSubmit(c) ==
  /\ Ran(<<"submit", c>>)
  /\ Update(c, StartChunkSubmit(row[c]), {})

ResetSubmit(c) == Ran(<<"submit", c>>) /\ Update(c, ResetChunkSubmit(row[c]), {})

FinishSubmit(c) ==
  /\ Ran(<<"submit", c>>)
  /\ Update(c, SetChunkSubmitted(row[c]), {<<"poll", c>>})

MarkPolling(c) == Ran(<<"poll", c>>) /\ Update(c, SetChunkPolling(row[c]), {})

FinishPoll(c) ==
  /\ Ran(<<"poll", c>>)
  /\ Update(c, SetChunkResultReady(row[c]), {<<"ingest", c>>})

\* By poll, or by ingest.
ClearExternalTask(c) ==
  /\ Ran(<<"poll", c>>)
  /\ Update(c, ClearChunkExternalTask(row[c]), {})

FinishIngest(c) ==
  /\ Ran(<<"ingest", c>>)
  /\ \E new \in SetChunkIngested(row[c]) :
     \E r \in IncrementRunCompletedChunks(row["run"]) :
       /\ row' = [row EXCEPT ![c] = new, !["run"] = r]
       /\ Enqueue({<<"clean", c>>} \cup
                    IF r.completed = r.total THEN {<<"align", "run">>} ELSE {})

BeginAlignment ==
  /\ Ran(<<"align", "run">>)
  /\ Update("run", SetRunAligning(row["run"]), {})

FinishAlignment ==
  /\ Ran(<<"align", "run">>)
  /\ \E r \in SetRunMerging(row["run"]) :
       row' = [x \in Rows |->
         CASE x = "run" -> r
           [] x \in Chunk /\ row[x].status = "completed" -> [row[x] EXCEPT !.map = TRUE]
           [] OTHER -> row[x]]
  /\ Enqueue({<<"merge", "run">>})

ActivateTranscript ==
  /\ Ran(<<"merge", "run">>)
  /\ \E r \in CompleteTranscriptionRun(row["run"]) :
       row' = [row EXCEPT !["run"] = r,
         !["episode"] = SetEpisodeTranscriptionStatus(@, "completed"),
         !["transcripts"] = CreateTranscriptVersion(DeactivateTranscriptVersions(@))]
  /\ Enqueue({<<"clean", "audio">>, <<"clean", "chunks">>})

\* The row a statement leaves of an old one.
After(new, old) == IF new = {} THEN old ELSE CHOOSE v \in new : TRUE

\* Of a job of chunk x, or of the run.  A run that is over stays as it is.
FailJob(x) ==
  LET r == FailTranscriptionRun(row["run"]) IN
  /\ x \in Chunk => Ran(<<"render", x>>)
  /\ row' = [y \in Rows |->
       CASE y = "run"               -> After(r, row[y])
         [] y = "episode" /\ r # {} -> SetEpisodeTranscriptionStatus(row[y], "failed")
         [] y \in Chunk /\ y = x    -> After(FailTranscriptionChunk(row[y]), row[y])
         [] OTHER                   -> row[y]]
  /\ UNCHANGED enqueued

Next ==
  \/ BeginDownload \/ FinishDownload \/ FinishPrepare \/ Plan
  \/ BeginAlignment \/ FinishAlignment \/ ActivateTranscript
  \/ \E c \in Chunk :
       \/ BeginRender(c) \/ FinishRender(c)
       \/ BeginSubmit(c) \/ ResetSubmit(c) \/ FinishSubmit(c)
       \/ MarkPolling(c) \/ FinishPoll(c) \/ ClearExternalTask(c) \/ FinishIngest(c)
  \/ \E x \in Chunk \cup {"run"} : FailJob(x)

Spec == Init /\ [][Next]_rows
=============================================================================
