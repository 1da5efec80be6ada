------------------------------ MODULE RunProofs ------------------------------
(***************************************************************************)
(* For every finite set of chunks: what RunSerial keeps true of the rows   *)
(* of a run, whatever jobs are executed twice, late, or after the run has  *)
(* failed.                                                                 *)
(***************************************************************************)
EXTENDS RunSerial, FiniteSetTheorems, TLAPS

(* The inductive invariant: the properties of RunRows, and what they need. *)

\* Before the plan there is no chunk and no job of one, after it no other plan.
Planned ==
  LET r == row["run"] IN
  /\ r.total \in {0, Cardinality(Chunk)}
  /\ r.status \in {"queued", "downloading", "preparing"} => r.total = 0
  /\ r.status \in {"transcribing", "aligning", "merging", "completed"} => r.total # 0
  /\ r.total = 0 => \A c \in Chunk : row[c] = Absent /\ enqueued[<<"render", c>>] = 0

\* A chunk is not listed as rendered before its FinishRender.
ObjectsAreRendered ==
  \A c \in Chunk : row[c].status \in {"absent", "planned", "rendering"} => ~row[c].object

\* Alignment starts behind the last ingestion.
JoinedAll == row["run"].status \in {"aligning", "merging", "completed"} => Completed = Chunk

\* A run activates one transcript.
OneTranscript == row["run"].status # "completed" => row["transcripts"].versions # 2

IInv ==
  /\ TypeOK /\ AlignedOnce /\ PreparedFreedOnce /\ MapsSaved /\ EpisodeAgrees
  /\ Planned /\ ObjectsAreRendered /\ JoinedAll /\ OneTranscript

-----------------------------------------------------------------------------

LEMMA ChunkCount == Cardinality(Chunk) \in Nat \ {0}
  BY FS_CardinalityType, FS_EmptySet, RunRowsAssumption

LEMMA SomeJobs ==
  /\ <<"align", "run">> \in Jobs /\ <<"clean", "prepared">> \in Jobs
  /\ \A c \in Chunk : <<"render", c>> \in Jobs
  BY DEF Jobs

\* The rows of the run, of the episode and of the transcripts are no chunk.
LEMMA RowNames ==
  /\ "run" \in Rows /\ "episode" \in Rows /\ "transcripts" \in Rows /\ Chunk \subseteq Rows
  /\ "run" \notin Chunk /\ "episode" \notin Chunk /\ "transcripts" \notin Chunk
  /\ "prepared" \notin Chunk
  BY RunRowsAssumption DEF Rows

\* A job that is enqueued the first time has been enqueued once.
LEMMA EnqueueCounts ==
  ASSUME enqueued \in [Jobs -> 0..MaxCopies], NEW jobs, Enqueue(jobs)
  PROVE  /\ enqueued' \in [Jobs -> 0..MaxCopies]
         /\ \A j \in Jobs : j \notin jobs => enqueued'[j] = enqueued[j]
         /\ \A j \in Jobs : j \in jobs /\ enqueued[j] = 0 => enqueued'[j] = 1
  BY RunRowsAssumption DEF Enqueue

LEMMA CompletedFinite ==
  /\ IsFiniteSet(Completed) /\ Cardinality(Completed) \in Nat
  /\ Cardinality(Completed) = Cardinality(Chunk) => Completed = Chunk
<1>1. Completed \in SUBSET Chunk
  BY DEF Completed
<1> QED
  BY <1>1, FS_Subset, FS_CardinalityType, RunRowsAssumption

LEMMA InitIInv == Init => IInv
<1> SUFFICES ASSUME Init PROVE IInv
  OBVIOUS
<1> USE RowNames, SomeJobs, ChunkCount
<1>1. PICK n \in {0, 1} :
        row = [x \in Rows |->
          CASE x = "run"         -> [status |-> "queued", total |-> 0, completed |-> 0,
                                     prepared |-> FALSE]
            [] x = "episode"     -> [status |-> "queued"]
            [] x = "transcripts" -> [versions |-> n, active |-> n]
            [] OTHER             -> Absent]
  BY DEF Init
<1>2. /\ row["run"] = [status |-> "queued", total |-> 0, completed |-> 0, prepared |-> FALSE]
      /\ row["episode"] = [status |-> "queued"]
      /\ row["transcripts"] = [versions |-> n, active |-> n]
      /\ \A c \in Chunk : row[c] = Absent
  BY <1>1
<1>3. /\ enqueued \in [Jobs -> 0..MaxCopies]
      /\ enqueued[<<"align", "run">>] = 0 /\ enqueued[<<"clean", "prepared">>] = 0
      /\ \A c \in Chunk : enqueued[<<"render", c>>] = 0
  BY RunRowsAssumption DEF Init
<1>4. Completed = {} /\ Rendered = {} /\ Completed # Chunk /\ Rendered # Chunk
  BY <1>2, RunRowsAssumption DEF Completed, Rendered, Absent
<1>5. TypeOK
  BY <1>1, <1>2, <1>3
     DEF TypeOK, Runs, RunStatuses, Episodes, Transcripts, ChunkRow, ChunkStatuses, Absent
<1>6. AlignedOnce /\ PreparedFreedOnce
  BY <1>2, <1>3, <1>4, FS_EmptySet DEF AlignedOnce, PreparedFreedOnce
<1>7. MapsSaved /\ EpisodeAgrees
  BY <1>2 DEF MapsSaved, EpisodeAgrees, Final
<1>8. Planned /\ ObjectsAreRendered /\ JoinedAll /\ OneTranscript
  BY <1>2, <1>3 DEF Planned, ObjectsAreRendered, JoinedAll, OneTranscript, Absent
<1> QED
  BY <1>5, <1>6, <1>7, <1>8 DEF IInv

-----------------------------------------------------------------------------
(* Steps that write one row and leave all counters alone.                  *)

LEMMA RunStep ==
  ASSUME IInv, NEW r \in Runs, NEW jobs,
         row' = [row EXCEPT !["run"] = r], Enqueue(jobs),
         jobs \cap ({<<"align", "run">>, <<"clean", "prepared">>} \cup {"render"} \X Chunk) = {},
         r.total = row["run"].total, r.completed = row["run"].completed,
         r.status \in {"downloading", "preparing"} =>
           row["run"].status \in {"queued", "downloading", "preparing"},
         r.status = "aligning" =>
           row["run"].status \in {"transcribing", "aligning"} /\ Completed = Chunk,
         r.status \in {"downloading", "preparing", "aligning"},
         r.status = "aligning" => r.total # 0
  PROVE  IInv'
<1> USE RowNames, SomeJobs
<1>1. /\ row'["run"] = r
      /\ \A x \in Rows \ {"run"} : row'[x] = row[x]
      /\ DOMAIN row' = Rows
  BY DEF IInv, TypeOK
<1>2. /\ enqueued' \in [Jobs -> 0..MaxCopies]
      /\ enqueued'[<<"align", "run">>] = enqueued[<<"align", "run">>]
      /\ enqueued'[<<"clean", "prepared">>] = enqueued[<<"clean", "prepared">>]
      /\ \A c \in Chunk : enqueued'[<<"render", c>>] = enqueued[<<"render", c>>]
  BY EnqueueCounts DEF IInv, TypeOK
<1>3. Completed' = Completed /\ Rendered' = Rendered
  BY <1>1 DEF Completed, Rendered
<1>4. TypeOK'
  BY <1>1, <1>2 DEF IInv, TypeOK
<1>5. AlignedOnce' /\ PreparedFreedOnce'
  BY <1>1, <1>2, <1>3 DEF IInv, AlignedOnce, PreparedFreedOnce
<1>6. MapsSaved' /\ EpisodeAgrees'
  BY <1>1 DEF IInv, MapsSaved, EpisodeAgrees, Final, Planned
<1>7. Planned' /\ ObjectsAreRendered' /\ JoinedAll' /\ OneTranscript'
  BY <1>1, <1>2, <1>3 DEF IInv, Planned, ObjectsAreRendered, JoinedAll, OneTranscript
<1> QED
  BY <1>4, <1>5, <1>6, <1>7 DEF IInv

LEMMA ChunkStep ==
  ASSUME IInv, NEW c \in Chunk, NEW new \in ChunkRow, NEW jobs,
         row' = [row EXCEPT ![c] = new], Enqueue(jobs),
         jobs \cap ({<<"align", "run">>, <<"clean", "prepared">>} \cup {"render"} \X Chunk) = {},
         row[c].status \notin {"absent", "completed"}, new.status # "completed",
         new.status \in {"absent", "planned", "rendering"} =>
           row[c].status \in {"absent", "planned", "rendering"},
         new.object = row[c].object, new.map = row[c].map
  PROVE  IInv'
<1> USE RowNames, SomeJobs
<1>1. /\ row'[c] = new
      /\ \A x \in Rows \ {c} : row'[x] = row[x]
      /\ DOMAIN row' = Rows
  BY DEF IInv, TypeOK
<1>2. /\ enqueued' \in [Jobs -> 0..MaxCopies]
      /\ enqueued'[<<"align", "run">>] = enqueued[<<"align", "run">>]
      /\ enqueued'[<<"clean", "prepared">>] = enqueued[<<"clean", "prepared">>]
      /\ \A d \in Chunk : enqueued'[<<"render", d>>] = enqueued[<<"render", d>>]
  BY EnqueueCounts DEF IInv, TypeOK
<1>3. Completed' = Completed /\ Rendered' = Rendered
  BY <1>1 DEF Completed, Rendered
<1>4. TypeOK'
  BY <1>1, <1>2 DEF IInv, TypeOK
<1>5. AlignedOnce' /\ PreparedFreedOnce'
  BY <1>1, <1>2, <1>3 DEF IInv, AlignedOnce, PreparedFreedOnce
<1>6. MapsSaved' /\ EpisodeAgrees'
  BY <1>1 DEF IInv, MapsSaved, EpisodeAgrees
<1>7. row["run"].total # 0
  <2>1. row["run"].total = 0 => row[c] = Absent
    BY DEF IInv, Planned
  <2> QED
    BY <2>1 DEF Absent
<1>8. Planned' /\ ObjectsAreRendered' /\ JoinedAll' /\ OneTranscript'
  BY <1>1, <1>2, <1>3, <1>7 DEF IInv, Planned, ObjectsAreRendered, JoinedAll, OneTranscript
<1> QED
  BY <1>4, <1>5, <1>6, <1>8 DEF IInv

-----------------------------------------------------------------------------
(* The steps one by one.                                                   *)

LEMMA RunActions ==
  ASSUME IInv, BeginDownload \/ FinishDownload \/ FinishPrepare \/ BeginAlignment
  PROVE  IInv'
<1> USE DEF Where, Update
<1>0. row["run"] \in Runs
  BY DEF IInv, TypeOK
<1>1. CASE BeginDownload
  <2>1. PICK r \in SetRunDownloadStarted(row["run"]) : row' = [row EXCEPT !["run"] = r]
    BY <1>1 DEF BeginDownload
  <2>2. r = [row["run"] EXCEPT !.status = "downloading"] /\ row["run"].status = "queued"
    BY <2>1 DEF SetRunDownloadStarted
  <2> QED
    BY <1>0, <1>1, <2>1, <2>2, RunStep DEF BeginDownload, Runs, RunStatuses
<1>2. CASE FinishDownload
  <2>1. PICK r \in SetRunDownloaded(row["run"]) : row' = [row EXCEPT !["run"] = r]
    BY <1>2 DEF FinishDownload
  <2>2. r = [row["run"] EXCEPT !.status = "preparing"] /\ row["run"].status = "downloading"
    BY <2>1 DEF SetRunDownloaded
  <2>3. r \in Runs
    BY <1>0, <2>2 DEF Runs, RunStatuses
  <2>4. {<<"prepare", "run">>} \cap
          ({<<"align", "run">>, <<"clean", "prepared">>} \cup {"render"} \X Chunk) = {}
    OBVIOUS
  <2>5. Enqueue({<<"prepare", "run">>})
    BY <1>2 DEF FinishDownload
  <2> QED
    BY <1>0, <2>1, <2>2, <2>3, <2>4, <2>5, RunStep DEF Runs
<1>3. CASE FinishPrepare
  <2>1. PICK r \in SetRunPrepared(row["run"]) : row' = [row EXCEPT !["run"] = r]
    BY <1>3 DEF FinishPrepare
  <2>2. r = [row["run"] EXCEPT !.prepared = TRUE] /\ row["run"].status = "preparing"
    BY <2>1 DEF SetRunPrepared
  <2>3. r \in Runs
    BY <1>0, <2>2 DEF Runs, RunStatuses
  <2>4. {<<"plan", "run">>, <<"clean", "source">>} \cap
          ({<<"align", "run">>, <<"clean", "prepared">>} \cup {"render"} \X Chunk) = {}
    OBVIOUS
  <2>5. Enqueue({<<"plan", "run">>, <<"clean", "source">>})
    BY <1>3 DEF FinishPrepare
  <2> QED
    BY <1>0, <2>1, <2>2, <2>3, <2>4, <2>5, RunStep DEF Runs
<1>4. CASE BeginAlignment
  <2>1. PICK r \in SetRunAligning(row["run"]) : row' = [row EXCEPT !["run"] = r]
    BY <1>4 DEF BeginAlignment
  <2>2. /\ r = [row["run"] EXCEPT !.status = "aligning"]
        /\ row["run"].status \in {"transcribing", "aligning"}
        /\ row["run"].completed = row["run"].total
    BY <2>1 DEF SetRunAligning
  <2>3. row["run"].total = Cardinality(Chunk) /\ row["run"].total # 0
    BY <2>2 DEF IInv, Planned
  <2>4. Completed = Chunk
    BY <2>2, <2>3, CompletedFinite DEF IInv, AlignedOnce
  <2> QED
    BY <1>0, <1>4, <2>1, <2>2, <2>3, <2>4, RunStep DEF BeginAlignment, Runs, RunStatuses
<1> QED
  BY <1>1, <1>2, <1>3, <1>4

LEMMA ChunkActions ==
  ASSUME IInv, NEW c \in Chunk,
         \/ BeginRender(c) \/ BeginSubmit(c) \/ ResetSubmit(c) \/ FinishSubmit(c)
         \/ MarkPolling(c) \/ FinishPoll(c) \/ ClearExternalTask(c)
  PROVE  IInv'
<1>1. PICK new, jobs :
        /\ new \in StartChunkRender(row[c]) \cup StartChunkSubmit(row[c])
                     \cup ResetChunkSubmit(row[c]) \cup SetChunkSubmitted(row[c])
                     \cup SetChunkPolling(row[c]) \cup SetChunkResultReady(row[c])
                     \cup ClearChunkExternalTask(row[c])
        /\ row' = [row EXCEPT ![c] = new] /\ Enqueue(jobs)
        /\ jobs \in {{}, {<<"poll", c>>}, {<<"ingest", c>>}}
  BY DEF BeginRender, BeginSubmit, ResetSubmit, FinishSubmit, MarkPolling, FinishPoll,
         ClearExternalTask, Update
<1>2. row[c] \in ChunkRow
  BY DEF IInv, TypeOK
<1>3. /\ new \in ChunkRow /\ new.object = row[c].object /\ new.map = row[c].map
      /\ row[c].status \notin {"absent", "completed"} /\ new.status # "completed"
      /\ new.status \in {"absent", "planned", "rendering"} =>
           row[c].status \in {"absent", "planned", "rendering"}
  <2>1. CASE new \in StartChunkRender(row[c])
    BY <1>2, <2>1 DEF StartChunkRender, Where, ChunkRow, ChunkStatuses
  <2>2. CASE new \in StartChunkSubmit(row[c])
    BY <1>2, <2>2 DEF StartChunkSubmit, Where, ChunkRow, ChunkStatuses
  <2>3. CASE new \in ResetChunkSubmit(row[c])
    BY <1>2, <2>3 DEF ResetChunkSubmit, Where, ChunkRow, ChunkStatuses
  <2>4. CASE new \in SetChunkSubmitted(row[c])
    BY <1>2, <2>4 DEF SetChunkSubmitted, Where, ChunkRow, ChunkStatuses
  <2>5. CASE new \in SetChunkPolling(row[c])
    BY <1>2, <2>5 DEF SetChunkPolling, AtService, Where, ChunkRow, ChunkStatuses
  <2>6. CASE new \in SetChunkResultReady(row[c])
    BY <1>2, <2>6 DEF SetChunkResultReady, AtService, Where, ChunkRow, ChunkStatuses
  <2>7. CASE new \in ClearChunkExternalTask(row[c])
    BY <1>2, <2>7 DEF ClearChunkExternalTask, AtService, Where, ChunkRow, ChunkStatuses
  <2> QED
    BY <1>1, <2>1, <2>2, <2>3, <2>4, <2>5, <2>6, <2>7
<1>4. jobs \cap ({<<"align", "run">>, <<"clean", "prepared">>} \cup {"render"} \X Chunk) = {}
  BY <1>1
<1> QED
  BY <1>1, <1>3, <1>4, ChunkStep

LEMMA PlanAction == ASSUME IInv, Plan PROVE IInv'
<1> USE RowNames, SomeJobs
<1>1. PICK r \in SetRunTranscribing(row["run"], Cardinality(Chunk)) :
        row' = [x \in Rows |-> CASE x = "run"     -> r
                                 [] x = "episode" -> SetEpisodeTranscriptionStatus(row[x], "running")
                                 [] x \in Chunk   -> [Absent EXCEPT !.status = "planned"]
                                 [] OTHER         -> row[x]]
  BY DEF Plan
<1>2. /\ row'["run"] = r
      /\ row'["episode"] = [row["episode"] EXCEPT !.status = "running"]
      /\ \A c \in Chunk : row'[c] = [Absent EXCEPT !.status = "planned"]
      /\ row'["transcripts"] = row["transcripts"]
      /\ DOMAIN row' = Rows
  BY <1>1 DEF SetEpisodeTranscriptionStatus
<1>3. /\ r = [row["run"] EXCEPT !.status = "transcribing", !.total = Cardinality(Chunk)]
      /\ row["run"].total = 0
  BY <1>1 DEF SetRunTranscribing, Where
<1>4. \A c \in Chunk : row[c] = Absent
  BY <1>3 DEF IInv, Planned
<1>5. Completed = {} /\ Rendered = {} /\ Completed' = {} /\ Rendered' = {} /\ Chunk # {}
  BY <1>2, <1>4, RunRowsAssumption DEF Completed, Rendered, Absent
<1>6. /\ enqueued' \in [Jobs -> 0..MaxCopies]
      /\ enqueued'[<<"align", "run">>] = enqueued[<<"align", "run">>]
      /\ enqueued'[<<"clean", "prepared">>] = enqueued[<<"clean", "prepared">>]
  BY EnqueueCounts DEF IInv, TypeOK, Plan
<1>7. TypeOK'
  <2>1. row["run"] \in Runs /\ row["episode"] \in Episodes
    BY DEF IInv, TypeOK
  <2>2. Cardinality(Chunk) \in 0..Cardinality(Chunk)
    BY ChunkCount
  <2>3. r \in Runs
    BY <1>3, <2>1, <2>2 DEF Runs, RunStatuses
  <2>4. [Absent EXCEPT !.status = "planned"] \in ChunkRow
    BY DEF Absent, ChunkRow, ChunkStatuses
  <2>5. row'["episode"] \in Episodes
    BY <1>2, <2>1 DEF Episodes
  <2> QED
    BY <1>2, <1>6, <2>3, <2>4, <2>5 DEF IInv, TypeOK
<1>8. r.completed = row["run"].completed /\ r.status = "transcribing"
      /\ r.total = Cardinality(Chunk)
  BY <1>3 DEF IInv, TypeOK, Runs
<1>9. AlignedOnce' /\ PreparedFreedOnce'
  BY <1>2, <1>5, <1>6, <1>8 DEF IInv, AlignedOnce, PreparedFreedOnce
<1>10. MapsSaved' /\ EpisodeAgrees'
  <2>1. row'["episode"].status = "running"
    BY <1>2 DEF IInv, TypeOK, Episodes
  <2> QED
    BY <1>2, <1>8, <2>1 DEF IInv, MapsSaved, EpisodeAgrees, Final
<1>11. Planned' /\ ObjectsAreRendered' /\ JoinedAll' /\ OneTranscript'
  <2>1. \A c \in Chunk : ~row'[c].object
    BY <1>2 DEF Absent
  <2>2. row["run"].status # "completed"
    BY <1>3 DEF IInv, Planned
  <2> QED
    BY <1>2, <1>8, <2>1, <2>2, ChunkCount
       DEF IInv, Planned, ObjectsAreRendered, JoinedAll, OneTranscript
<1> QED
  BY <1>7, <1>9, <1>10, <1>11 DEF IInv

LEMMA FinishRenderAction == ASSUME IInv, NEW c \in Chunk, FinishRender(c) PROVE IInv'
<1> USE RowNames, SomeJobs
<1>1. PICK new \in SetChunkRendered(row[c]) : row' = [row EXCEPT ![c] = new]
  BY DEF FinishRender, Update
<1>2. new = [row[c] EXCEPT !.status = "ready", !.object = TRUE] /\ row[c].status = "rendering"
  BY <1>1 DEF SetChunkRendered, Where
<1>3. /\ row[c] \in ChunkRow /\ new \in ChunkRow
      /\ new.status = "ready" /\ new.object /\ new.map = row[c].map
  BY <1>2 DEF IInv, TypeOK, ChunkRow, ChunkStatuses
<1>4. /\ row'[c] = new
      /\ \A x \in Rows \ {c} : row'[x] = row[x]
      /\ DOMAIN row' = Rows
  BY <1>1 DEF IInv, TypeOK
<1>5. c \notin Rendered /\ Rendered' = Rendered \cup {c} /\ Completed' = Completed
  <2>1. c \notin Rendered
    BY <1>2 DEF IInv, ObjectsAreRendered, Rendered
  <2>2. \A d \in Chunk : row'[d].object <=> row[d].object \/ d = c
    BY <1>3, <1>4
  <2>3. \A d \in Chunk : row'[d].status = "completed" <=> row[d].status = "completed"
    BY <1>2, <1>3, <1>4
  <2>4. Rendered' = Rendered \cup {c}
    BY <2>2 DEF Rendered
  <2> QED
    BY <2>1, <2>3, <2>4 DEF Completed
<1>6. /\ enqueued' \in [Jobs -> 0..MaxCopies]
      /\ enqueued'[<<"align", "run">>] = enqueued[<<"align", "run">>]
      /\ \A d \in Chunk : enqueued'[<<"render", d>>] = enqueued[<<"render", d>>]
      /\ enqueued'[<<"clean", "prepared">>] = IF Rendered' = Chunk THEN 1 ELSE 0
  <2> DEFINE jobs == {<<"submit", c>>} \cup
                       IF Rendered \cup {c} = Chunk THEN {<<"clean", "prepared">>} ELSE {}
  <2>1. Enqueue(jobs)
    BY DEF FinishRender, Update
  <2>2. enqueued[<<"clean", "prepared">>] = 0
    BY <1>5 DEF IInv, PreparedFreedOnce
  <2>3. /\ <<"align", "run">> \notin jobs
        /\ \A d \in Chunk : <<"render", d>> \notin jobs
        /\ <<"clean", "prepared">> \in jobs <=> Rendered \cup {c} = Chunk
    OBVIOUS
  <2> HIDE DEF jobs
  <2> QED
    BY <1>5, <2>1, <2>2, <2>3, EnqueueCounts DEF IInv, TypeOK
<1>7. TypeOK'
  BY <1>3, <1>4, <1>6 DEF IInv, TypeOK
<1>8. AlignedOnce' /\ PreparedFreedOnce'
  BY <1>4, <1>5, <1>6 DEF IInv, AlignedOnce, PreparedFreedOnce
<1>9. MapsSaved' /\ EpisodeAgrees'
  BY <1>3, <1>4 DEF IInv, MapsSaved, EpisodeAgrees
<1>10. row["run"].total # 0
  <2>1. row["run"].total = 0 => row[c] = Absent
    BY DEF IInv, Planned
  <2> QED
    BY <1>2, <2>1 DEF Absent
<1>11. Planned' /\ ObjectsAreRendered' /\ JoinedAll' /\ OneTranscript'
  BY <1>3, <1>4, <1>5, <1>6, <1>10
     DEF IInv, Planned, ObjectsAreRendered, JoinedAll, OneTranscript
<1> QED
  BY <1>7, <1>8, <1>9, <1>11 DEF IInv

LEMMA FinishIngestAction == ASSUME IInv, NEW c \in Chunk, FinishIngest(c) PROVE IInv'
<1> USE RowNames, SomeJobs
<1>1. PICK new \in SetChunkIngested(row[c]), r \in IncrementRunCompletedChunks(row["run"]) :
        /\ row' = [row EXCEPT ![c] = new, !["run"] = r]
        /\ Enqueue({<<"clean", c>>} \cup IF r.completed = r.total THEN {<<"align", "run">>} ELSE {})
  BY DEF FinishIngest
<1>2. /\ new = [row[c] EXCEPT !.status = "completed"] /\ row[c].status = "running"
      /\ r = [row["run"] EXCEPT !.completed = @ + 1]
      /\ row["run"].status = "transcribing" /\ row["run"].completed < row["run"].total
  BY <1>1 DEF SetChunkIngested, IncrementRunCompletedChunks, Where
<1>3. /\ row[c] \in ChunkRow /\ new \in ChunkRow
      /\ new.status = "completed" /\ new.object = row[c].object /\ new.map = row[c].map
  BY <1>2 DEF IInv, TypeOK, ChunkRow, ChunkStatuses
<1>4. /\ r \in Runs /\ r.status = "transcribing" /\ r.total = Cardinality(Chunk)
      /\ r.completed = row["run"].completed + 1 /\ row["run"].total = Cardinality(Chunk)
  <2>1. row["run"] \in Runs
    BY DEF IInv, TypeOK
  <2>2. row["run"].total = Cardinality(Chunk)
    BY <1>2 DEF IInv, Planned
  <2> QED
    BY <1>2, <2>1, <2>2, ChunkCount DEF Runs
<1>5. /\ row'[c] = new /\ row'["run"] = r
      /\ \A x \in Rows \ {c, "run"} : row'[x] = row[x]
      /\ DOMAIN row' = Rows
  BY <1>1 DEF IInv, TypeOK
<1>6. c \notin Completed /\ Completed' = Completed \cup {c} /\ Rendered' = Rendered
  <2>1. c \notin Completed
    BY <1>2 DEF Completed
  <2>2. \A d \in Chunk : row'[d].object <=> row[d].object
    BY <1>3, <1>5
  <2>3. \A d \in Chunk : row'[d].status = "completed" <=> row[d].status = "completed" \/ d = c
    BY <1>3, <1>5
  <2>4. Completed' = Completed \cup {c}
    BY <2>3 DEF Completed
  <2> QED
    BY <2>1, <2>2, <2>4 DEF Rendered
<1>7. r.completed = Cardinality(Completed')
  <2>1. Cardinality(Completed \cup {c}) = Cardinality(Completed) + 1
    BY <1>6, CompletedFinite, FS_AddElement
  <2>2. row["run"].completed = Cardinality(Completed)
    BY DEF IInv, AlignedOnce
  <2> QED
    BY <1>4, <1>6, <2>1, <2>2
<1>8. r.completed = r.total <=> Completed' = Chunk
  <2>1. Completed' \in SUBSET Chunk
    BY DEF Completed
  <2>2. Cardinality(Completed') = Cardinality(Chunk) <=> Completed' = Chunk
    BY <2>1, FS_Subset, RunRowsAssumption
  <2> QED
    BY <1>4, <1>7, <2>2
<1>9. /\ enqueued' \in [Jobs -> 0..MaxCopies]
      /\ enqueued'[<<"align", "run">>] = IF Completed' = Chunk THEN 1 ELSE 0
      /\ \A d \in Chunk : enqueued'[<<"render", d>>] = enqueued[<<"render", d>>]
      /\ enqueued'[<<"clean", "prepared">>] = enqueued[<<"clean", "prepared">>]
  <2> DEFINE jobs == {<<"clean", c>>} \cup
                       IF r.completed = r.total THEN {<<"align", "run">>} ELSE {}
  <2>1. Enqueue(jobs)
    BY <1>1
  <2>2. enqueued[<<"align", "run">>] = 0
    BY <1>6 DEF IInv, AlignedOnce
  <2>3. /\ <<"clean", "prepared">> \notin jobs
        /\ \A d \in Chunk : <<"render", d>> \notin jobs
        /\ <<"align", "run">> \in jobs <=> r.completed = r.total
    OBVIOUS
  <2> HIDE DEF jobs
  <2> QED
    BY <1>8, <2>1, <2>2, <2>3, EnqueueCounts DEF IInv, TypeOK
<1>10. TypeOK'
  BY <1>3, <1>4, <1>5, <1>9 DEF IInv, TypeOK
<1>11. AlignedOnce' /\ PreparedFreedOnce'
  BY <1>5, <1>6, <1>7, <1>9 DEF IInv, AlignedOnce, PreparedFreedOnce
<1>12. MapsSaved' /\ EpisodeAgrees'
  BY <1>2, <1>4, <1>5 DEF IInv, MapsSaved, EpisodeAgrees, Final
<1>13. Planned' /\ ObjectsAreRendered' /\ JoinedAll' /\ OneTranscript'
  BY <1>2, <1>3, <1>4, <1>5, <1>9, ChunkCount
     DEF IInv, Planned, ObjectsAreRendered, JoinedAll, OneTranscript
<1> QED
  BY <1>10, <1>11, <1>12, <1>13 DEF IInv

LEMMA FinishAlignmentAction == ASSUME IInv, FinishAlignment PROVE IInv'
<1> USE RowNames, SomeJobs
<1>1. PICK r \in SetRunMerging(row["run"]) :
        row' = [x \in Rows |->
          CASE x = "run" -> r
            [] x \in Chunk /\ row[x].status = "completed" -> [row[x] EXCEPT !.map = TRUE]
            [] OTHER -> row[x]]
  BY DEF FinishAlignment
<1>2. r = [row["run"] EXCEPT !.status = "merging"] /\ row["run"].status = "aligning"
  BY <1>1 DEF SetRunMerging, Where
<1>3. \A c \in Chunk : row[c].status = "completed"
  BY <1>2 DEF IInv, JoinedAll, Completed
<1>4. /\ row'["run"] = r
      /\ \A c \in Chunk : row'[c] = [row[c] EXCEPT !.map = TRUE]
      /\ row'["episode"] = row["episode"] /\ row'["transcripts"] = row["transcripts"]
      /\ DOMAIN row' = Rows
  BY <1>1, <1>3
<1>5. \A c \in Chunk : /\ row[c] \in ChunkRow /\ row'[c] \in ChunkRow /\ row'[c].map
                       /\ row'[c].status = "completed" /\ row'[c].object = row[c].object
  BY <1>3, <1>4 DEF IInv, TypeOK, ChunkRow
<1>6. /\ r \in Runs /\ r.status = "merging"
      /\ r.total = row["run"].total /\ r.completed = row["run"].completed
  BY <1>2 DEF IInv, TypeOK, Runs, RunStatuses
<1>7. Completed' = Completed /\ Rendered' = Rendered /\ Completed = Chunk
  BY <1>3, <1>5 DEF Completed, Rendered
<1>8. /\ enqueued' \in [Jobs -> 0..MaxCopies]
      /\ enqueued'[<<"align", "run">>] = enqueued[<<"align", "run">>]
      /\ enqueued'[<<"clean", "prepared">>] = enqueued[<<"clean", "prepared">>]
      /\ \A c \in Chunk : enqueued'[<<"render", c>>] = enqueued[<<"render", c>>]
  BY EnqueueCounts DEF IInv, TypeOK, FinishAlignment
<1>9. TypeOK'
  BY <1>4, <1>5, <1>6, <1>8 DEF IInv, TypeOK
<1>10. AlignedOnce' /\ PreparedFreedOnce'
  BY <1>4, <1>6, <1>7, <1>8 DEF IInv, AlignedOnce, PreparedFreedOnce
<1>11. MapsSaved' /\ EpisodeAgrees'
  BY <1>2, <1>4, <1>5, <1>6 DEF IInv, MapsSaved, EpisodeAgrees, Final
<1>12. Planned' /\ ObjectsAreRendered' /\ JoinedAll' /\ OneTranscript'
  BY <1>2, <1>4, <1>5, <1>6, <1>7, <1>8
     DEF IInv, Planned, ObjectsAreRendered, JoinedAll, OneTranscript
<1> QED
  BY <1>9, <1>10, <1>11, <1>12 DEF IInv

\* One version more, and it is the active one.
LEMMA ActivatedVersion ==
  ASSUME NEW t \in Transcripts, t.versions # 2
  PROVE  LET new == CreateTranscriptVersion(DeactivateTranscriptVersions(t)) IN
         new \in Transcripts /\ new.active = 1 /\ new.versions # 0
<1> DEFINE off == DeactivateTranscriptVersions(t)
           new == CreateTranscriptVersion(off)
<1>1. t.versions \in {0, 1} /\ t = [versions |-> t.versions, active |-> t.active]
  BY DEF Transcripts
<1>2. off \in Transcripts /\ off.versions = t.versions /\ off.active = 0
  BY <1>1 DEF Transcripts, DeactivateTranscriptVersions
<1> HIDE DEF off
<1>3. off \in [versions : Int, active : Int]
  BY <1>2 DEF Transcripts
<1>4. new = [[off EXCEPT !.versions = off.versions + 1] EXCEPT !.active = off.active + 1]
  BY <1>3 DEF CreateTranscriptVersion
<1>5. new.versions = off.versions + 1 /\ new.active = off.active + 1
  BY <1>3, <1>4
<1>6. new \in [versions : {off.versions + 1}, active : {off.active + 1}]
  BY <1>3, <1>4, <1>5
<1> QED
  BY <1>1, <1>2, <1>5, <1>6 DEF Transcripts, off

LEMMA ActivateTranscriptAction == ASSUME IInv, ActivateTranscript PROVE IInv'
<1> USE RowNames, SomeJobs
<1>1. PICK r \in CompleteTranscriptionRun(row["run"]) :
        row' = [row EXCEPT !["run"] = r,
          !["episode"] = SetEpisodeTranscriptionStatus(@, "completed"),
          !["transcripts"] = CreateTranscriptVersion(DeactivateTranscriptVersions(@))]
  BY DEF ActivateTranscript
<1>2. r = [row["run"] EXCEPT !.status = "completed"] /\ row["run"].status = "merging"
  BY <1>1 DEF CompleteTranscriptionRun, Where
<1>3. /\ row["episode"] \in Episodes
      /\ row["transcripts"] \in Transcripts /\ row["transcripts"].versions # 2
  BY <1>2 DEF IInv, TypeOK, OneTranscript
<1>4. /\ row'["run"] = r
      /\ row'["episode"] = [status |-> "completed"]
      /\ row'["transcripts"] =
           CreateTranscriptVersion(DeactivateTranscriptVersions(row["transcripts"]))
      /\ \A c \in Chunk : row'[c] = row[c]
      /\ DOMAIN row' = Rows
  <2>1. DOMAIN row = Rows
    BY DEF IInv, TypeOK
  <2>2. SetEpisodeTranscriptionStatus(row["episode"], "completed") = [status |-> "completed"]
    BY <1>3 DEF SetEpisodeTranscriptionStatus, Episodes
  <2> QED
    BY <1>1, <2>1, <2>2
<1>5. /\ row'["transcripts"] \in Transcripts
      /\ row'["transcripts"].active = 1 /\ row'["transcripts"].versions # 0
  BY <1>3, <1>4, ActivatedVersion
<1>6. /\ r \in Runs /\ r.status = "completed"
      /\ r.total = row["run"].total /\ r.completed = row["run"].completed
  BY <1>2 DEF IInv, TypeOK, Runs, RunStatuses
<1>7. Completed' = Completed /\ Rendered' = Rendered /\ Completed = Chunk
  BY <1>2, <1>4 DEF IInv, JoinedAll, Completed, Rendered
<1>8. /\ enqueued' \in [Jobs -> 0..MaxCopies]
      /\ enqueued'[<<"align", "run">>] = enqueued[<<"align", "run">>]
      /\ enqueued'[<<"clean", "prepared">>] = enqueued[<<"clean", "prepared">>]
      /\ \A c \in Chunk : enqueued'[<<"render", c>>] = enqueued[<<"render", c>>]
  BY EnqueueCounts DEF IInv, TypeOK, ActivateTranscript
<1>9. TypeOK'
  BY <1>4, <1>5, <1>6, <1>8 DEF IInv, TypeOK, Episodes
<1>10. AlignedOnce' /\ PreparedFreedOnce'
  BY <1>4, <1>6, <1>7, <1>8 DEF IInv, AlignedOnce, PreparedFreedOnce
<1>11. MapsSaved' /\ EpisodeAgrees'
  BY <1>2, <1>4, <1>5, <1>6 DEF IInv, MapsSaved, EpisodeAgrees, Final
<1>12. Planned' /\ ObjectsAreRendered' /\ JoinedAll' /\ OneTranscript'
  BY <1>2, <1>4, <1>6, <1>7, <1>8
     DEF IInv, Planned, ObjectsAreRendered, JoinedAll, OneTranscript
<1> QED
  BY <1>9, <1>10, <1>11, <1>12 DEF IInv

\* What FailTranscriptionRun and FailTranscriptionChunk leave of a row.
LEMMA FailedRun ==
  ASSUME NEW r \in Runs
  PROVE  LET new == After(FailTranscriptionRun(r), r) IN
         /\ new \in Runs /\ new.total = r.total /\ new.completed = r.completed
         /\ FailTranscriptionRun(r) = {} => new = r
         /\ FailTranscriptionRun(r) # {} => new.status = "failed"
<1>1. CASE r.status \in Final
  BY <1>1 DEF After, FailTranscriptionRun, Where
<1>2. CASE r.status \notin Final
  <2>1. After(FailTranscriptionRun(r), r) = [r EXCEPT !.status = "failed"]
    BY <1>2 DEF After, FailTranscriptionRun, Where
  <2>2. FailTranscriptionRun(r) # {}
    BY <1>2 DEF FailTranscriptionRun, Where
  <2> QED
    BY <2>1, <2>2 DEF Runs, RunStatuses
<1> QED
  BY <1>1, <1>2

LEMMA FailedChunk ==
  ASSUME NEW c \in ChunkRow
  PROVE  LET new == After(FailTranscriptionChunk(c), c) IN
         /\ new \in ChunkRow /\ new.object = c.object /\ new.map = c.map
         /\ new.status = c.status \/ (new.status = "failed" /\ c.status # "completed")
<1>1. CASE c.status \in Final
  BY <1>1 DEF After, FailTranscriptionChunk, Where
<1>2. CASE c.status \notin Final
  <2>1. After(FailTranscriptionChunk(c), c) = [c EXCEPT !.status = "failed"]
    BY <1>2 DEF After, FailTranscriptionChunk, Where
  <2> QED
    BY <1>2, <2>1 DEF ChunkRow, ChunkStatuses, Final
<1> QED
  BY <1>1, <1>2

LEMMA FailJobAction == ASSUME IInv, NEW x \in Chunk \cup {"run"}, FailJob(x) PROVE IInv'
<1> USE RowNames, SomeJobs
<1> DEFINE failed == FailTranscriptionRun(row["run"])
           r      == After(failed, row["run"])
<1>1. /\ row'["run"] = r
      /\ row'["episode"] = IF failed = {} THEN row["episode"]
                           ELSE SetEpisodeTranscriptionStatus(row["episode"], "failed")
      /\ row'["transcripts"] = row["transcripts"]
      /\ \A c \in Chunk : row'[c] = IF c = x THEN After(FailTranscriptionChunk(row[c]), row[c])
                                             ELSE row[c]
      /\ DOMAIN row' = Rows
  BY DEF FailJob
<1>2. enqueued' = enqueued
  BY DEF FailJob
<1>3. /\ r \in Runs /\ r.total = row["run"].total /\ r.completed = row["run"].completed
      /\ failed = {} => r = row["run"]
      /\ failed # {} => r.status = "failed"
  BY FailedRun DEF IInv, TypeOK
<1>4. /\ row'["episode"] \in Episodes
      /\ failed = {} => row'["episode"] = row["episode"]
      /\ failed # {} => row'["episode"].status = "failed"
  BY <1>1 DEF IInv, TypeOK, Episodes, SetEpisodeTranscriptionStatus
<1>5. \A c \in Chunk :
        /\ row'[c] \in ChunkRow /\ row'[c].object = row[c].object /\ row'[c].map = row[c].map
        /\ row'[c].status = row[c].status
             \/ (row'[c].status = "failed" /\ row[c].status # "completed")
  BY <1>1, FailedChunk DEF IInv, TypeOK
<1>6. Completed' = Completed /\ Rendered' = Rendered
  <2>1. \A c \in Chunk : /\ row'[c].status = "completed" <=> row[c].status = "completed"
                         /\ row'[c].object <=> row[c].object
    BY <1>5
  <2> QED
    BY <2>1 DEF Completed, Rendered
<1>7. row["run"].total = 0 => \A c \in Chunk : row'[c] = row[c]
  BY <1>1, RunRowsAssumption DEF IInv, Planned, FailJob, Ran
<1> HIDE DEF r, failed
<1>8. TypeOK'
  BY <1>1, <1>2, <1>3, <1>4, <1>5 DEF IInv, TypeOK
<1>9. AlignedOnce' /\ PreparedFreedOnce'
  BY <1>1, <1>2, <1>3, <1>6 DEF IInv, AlignedOnce, PreparedFreedOnce
<1>10. MapsSaved'
  BY <1>1, <1>3, <1>5 DEF IInv, MapsSaved
<1>11. EpisodeAgrees'
  BY <1>1, <1>3, <1>4 DEF IInv, EpisodeAgrees, Final
<1>12. Planned'
  BY <1>1, <1>2, <1>3, <1>7 DEF IInv, Planned
<1>13. ObjectsAreRendered'
  BY <1>5 DEF IInv, ObjectsAreRendered
<1>14. JoinedAll' /\ OneTranscript'
  <2>1. row'["run"].status = row["run"].status \/ row'["run"].status = "failed"
    BY <1>1, <1>3
  <2>2. row["run"].status = "completed" => row'["run"].status = "completed"
    BY <1>1, <1>3 DEF failed, FailTranscriptionRun, Final, Where
  <2> QED
    BY <1>1, <1>6, <2>1, <2>2 DEF IInv, JoinedAll, OneTranscript
<1> QED
  BY <1>8, <1>9, <1>10, <1>11, <1>12, <1>13, <1>14 DEF IInv

LEMMA StutterIInv == ASSUME IInv, UNCHANGED rows PROVE IInv'
  BY DEF rows, IInv, TypeOK, AlignedOnce, PreparedFreedOnce, MapsSaved, EpisodeAgrees, Planned,
         ObjectsAreRendered, JoinedAll, OneTranscript, Completed, Rendered

LEMMA NextIInv == IInv /\ [Next]_rows => IInv'
  BY RunActions, ChunkActions, PlanAction, FinishRenderAction, FinishIngestAction,
     FinishAlignmentAction, ActivateTranscriptAction, FailJobAction, StutterIInv DEF Next

-----------------------------------------------------------------------------

LEMMA Inductive == Spec => []IInv
  BY InitIInv, NextIInv, PTL DEF Spec

\* Types: the counters of a run stay within its chunks, its versions within two.
THEOREM RowsTyped == Spec => []TypeOK
<1>1. IInv => TypeOK
  BY DEF IInv
<1> QED
  BY <1>1, Inductive, PTL

\* Alignment is enqueued once, when every chunk has been ingested, however many
\* chunks there are and however often FinishIngest runs for one.
THEOREM RunAlignedOnce == Spec => []AlignedOnce
<1>1. IInv => AlignedOnce
  BY DEF IInv
<1> QED
  BY <1>1, Inductive, PTL

\* The prepared audio is given up once, when every chunk has been rendered.
THEOREM RunFreesPreparedOnce == Spec => []PreparedFreedOnce
<1>1. IInv => PreparedFreedOnce
  BY DEF IInv
<1> QED
  BY <1>1, Inductive, PTL

\* No chunk is without its speaker map when the transcript is merged.
THEOREM RunMapsSaved == Spec => []MapsSaved
<1>1. IInv => MapsSaved
  BY DEF IInv
<1> QED
  BY <1>1, Inductive, PTL

\* Episode, run and active transcript agree.
THEOREM RunEpisodeAgrees == Spec => []EpisodeAgrees
<1>1. IInv => EpisodeAgrees
  BY DEF IInv
<1> QED
  BY <1>1, Inductive, PTL
=============================================================================
