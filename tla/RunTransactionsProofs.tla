------------------------- MODULE RunTransactionsProofs -------------------------
(***************************************************************************)
(* For any chunks and any sessions: the transactions of a run, statement   *)
(* by statement, are serializable, and their locks do not deadlock.  What  *)
(* RunProofs proves of RunSerial therefore holds of the statements, too.   *)
(***************************************************************************)
EXTENDS RunTransactions, TLAPS

(* The inductive invariant: what a session has locked and written, at each *)
(* of its statements, in terms of the committed rows.                      *)

Ran(job) == enqueued[job] > 0

\* s has locked the rows X; "at" is its next statement.
Holds(s, at, X) == doing[s].at = at /\ Locked(s) = X

Unchanged(s, x) == write[s][x] = row[x]

InBeginDownload(s) ==
  /\ Ran(<<"download", "run">>)
  /\ \/ Holds(s, "SetRunDownloadStarted", {})
     \/ Holds(s, "COMMIT", {"run"}) /\ write[s]["run"] \in SetRunDownloadStarted(row["run"])

InFinishDownload(s) ==
  /\ Ran(<<"download", "run">>) /\ Holds(s, "COMMIT", {"run"})
  /\ write[s]["run"] \in SetRunDownloaded(row["run"])

InFinishPrepare(s) ==
  /\ Ran(<<"prepare", "run">>) /\ Holds(s, "COMMIT", {"run"})
  /\ write[s]["run"] \in SetRunPrepared(row["run"])

\* The chunks that a loop over Windows has come to.
Visited(s) == {Windows[n] : n \in 1..doing[s].done}

InPlan(s) ==
  /\ Ran(<<"plan", "run">>) /\ row["run"].total = 0 /\ row["run"].prepared
  /\ doing[s].done \in 0..Len(Windows)
  /\ \A c \in Visited(s) : write[s][c] = [Absent EXCEPT !.status = "planned"]
  /\ \/ /\ Holds(s, "CreateTranscriptionChunk", {"run"} \cup Visited(s))
        /\ doing[s].done < Len(Windows) /\ Unchanged(s, "run")
     \/ /\ Holds(s, "SetRunTranscribing", {"run"} \cup Chunk)
        /\ doing[s].done = Len(Windows) /\ Unchanged(s, "run")
     \/ /\ doing[s].done = Len(Windows)
        /\ write[s]["run"] \in SetRunTranscribing(row["run"], Len(Windows))
        /\ \/ Holds(s, "SetEpisodeTranscriptionStatus", {"run"} \cup Chunk)
           \/ /\ Holds(s, "COMMIT", {"run", "episode"} \cup Chunk)
              /\ write[s]["episode"] = SetEpisodeTranscriptionStatus(row["episode"], "running")

\* Between the two statements of BeginRender and BeginSubmit.
InStart(s, kind, at) ==
  Of(s) \in Chunk /\ Ran(<<kind, Of(s)>>) /\ Holds(s, at, {})

InFinishRender(s) ==
  /\ Of(s) \in Chunk /\ Ran(<<"render", Of(s)>>)
  /\ write[s][Of(s)] \in SetChunkRendered(row[Of(s)])
  /\ \/ Holds(s, "LockTranscriptionRun", {Of(s)})
     \/ Holds(s, "ListRunChunks", {Of(s), "run"}) /\ Unchanged(s, "run")
     \/ /\ Holds(s, "COMMIT", {Of(s), "run"}) /\ Unchanged(s, "run")
        /\ doing[s].all <=> Rendered \cup {Of(s)} = Chunk

\* FinishSubmit, FinishPoll
InHands(s, kind, new) ==
  /\ Of(s) \in Chunk /\ Ran(<<kind, Of(s)>>)
  /\ write[s][Of(s)] \in new
  /\ \/ Holds(s, "LockTranscriptionRun", {Of(s)})
     \/ Holds(s, "COMMIT", {Of(s), "run"}) /\ Unchanged(s, "run")

InFinishIngest(s) ==
  /\ Of(s) \in Chunk /\ Ran(<<"ingest", Of(s)>>)
  /\ write[s][Of(s)] \in SetChunkIngested(row[Of(s)])
  /\ \/ Holds(s, "IncrementRunCompletedChunks", {Of(s)})
     \/ /\ Holds(s, "COMMIT", {Of(s), "run"})
        /\ write[s]["run"] \in IncrementRunCompletedChunks(row["run"])

InBeginAlignment(s) ==
  /\ Ran(<<"align", "run">>)
  /\ \/ Holds(s, "SetRunAligning", {"run"}) /\ Unchanged(s, "run")
     \/ Holds(s, "COMMIT", {"run"}) /\ write[s]["run"] \in SetRunAligning(row["run"])

InFinishAlignment(s) ==
  /\ Ran(<<"align", "run">>) /\ row["run"].status = "aligning"
  /\ doing[s].done \in 0..Len(Windows)
  /\ Locked(s) = {"run"} \cup (Visited(s) \cap Completed)
  /\ \A c \in Visited(s) \cap Completed : write[s][c] = [row[c] EXCEPT !.map = TRUE]
  /\ \/ /\ doing[s].at = "SetChunkSpeakerMap"
        /\ doing[s].done < Len(Windows) /\ Unchanged(s, "run")
     \/ /\ doing[s].at = "SetRunMerging"
        /\ doing[s].done = Len(Windows) /\ Unchanged(s, "run")
     \/ /\ doing[s].at = "COMMIT"
        /\ doing[s].done = Len(Windows) /\ write[s]["run"] \in SetRunMerging(row["run"])

Activated(s) ==
  write[s]["transcripts"] =
    CreateTranscriptVersion(DeactivateTranscriptVersions(row["transcripts"]))

InActivateTranscript(s) ==
  /\ Ran(<<"merge", "run">>)
  /\ \/ Holds(s, "CreateTranscriptVersion", {"run"}) /\ Unchanged(s, "run")
     \/ /\ Holds(s, "CompleteTranscriptionRun", {"run", "transcripts"})
        /\ Unchanged(s, "run") /\ Activated(s)
     \/ /\ write[s]["run"] \in CompleteTranscriptionRun(row["run"]) /\ Activated(s)
        /\ \/ Holds(s, "SetEpisodeTranscriptionStatus", {"run", "transcripts"})
           \/ /\ Holds(s, "COMMIT", {"run", "transcripts", "episode"})
              /\ write[s]["episode"] = SetEpisodeTranscriptionStatus(row["episode"], "completed")

\* The chunk of FailJob, unless it is over or there is none.
FailedChunk(s) == Locked(s) \cap Chunk

InFailJob(s) ==
  /\ Of(s) \in Chunk \cup {"run"} /\ FailedChunk(s) \subseteq {Of(s)}
  /\ Of(s) \in Chunk =>
       /\ Ran(<<"render", Of(s)>>)
       /\ IF Of(s) \in Locked(s) THEN write[s][Of(s)] \in FailTranscriptionChunk(row[Of(s)])
          ELSE row[Of(s)].status \in Final
  /\ \/ Holds(s, "FailTranscriptionRun", FailedChunk(s))
     \/ Holds(s, "COMMIT", FailedChunk(s)) /\ row["run"].status \in Final
     \/ /\ write[s]["run"] \in FailTranscriptionRun(row["run"])
        /\ \/ Holds(s, "SetEpisodeTranscriptionStatus", {"run"} \cup FailedChunk(s))
           \/ /\ Holds(s, "COMMIT", {"run", "episode"} \cup FailedChunk(s))
              /\ write[s]["episode"] = SetEpisodeTranscriptionStatus(row["episode"], "failed")

Transactions ==
  {"none", "BeginDownload", "FinishDownload", "FinishPrepare", "Plan", "BeginRender",
   "FinishRender", "BeginSubmit", "FinishSubmit", "FinishPoll", "FinishIngest",
   "BeginAlignment", "FinishAlignment", "ActivateTranscript", "FailJob"}

Statements ==
  {"none", "SetRunDownloadStarted", "CreateTranscriptionChunk", "SetRunTranscribing",
   "SetEpisodeTranscriptionStatus", "StartChunkRender", "StartChunkSubmit",
   "LockTranscriptionRun", "ListRunChunks", "IncrementRunCompletedChunks", "SetRunAligning",
   "SetChunkSpeakerMap", "SetRunMerging", "CreateTranscriptVersion",
   "CompleteTranscriptionRun", "FailTranscriptionRun", "COMMIT"}

Doing ==
  [tx : Transactions, of : Chunk \cup {"run"}, at : Statements, done : Nat, all : BOOLEAN]

Stands(s) ==
  LET tx == doing[s].tx IN
  /\ doing[s] \in Doing
  /\ tx = "none" => doing[s] = Idle /\ Locked(s) = {}
  /\ tx = "BeginDownload" => InBeginDownload(s)
  /\ tx = "FinishDownload" => InFinishDownload(s)
  /\ tx = "FinishPrepare" => InFinishPrepare(s)
  /\ tx = "Plan" => InPlan(s)
  /\ tx = "BeginRender" => InStart(s, "render", "StartChunkRender")
  /\ tx = "FinishRender" => InFinishRender(s)
  /\ tx = "BeginSubmit" => InStart(s, "submit", "StartChunkSubmit")
  /\ tx = "FinishSubmit" => InHands(s, "submit", SetChunkSubmitted(row[Of(s)]))
  /\ tx = "FinishPoll" => InHands(s, "poll", SetChunkResultReady(row[Of(s)]))
  /\ tx = "FinishIngest" => InFinishIngest(s)
  /\ tx = "BeginAlignment" => InBeginAlignment(s)
  /\ tx = "FinishAlignment" => InFinishAlignment(s)
  /\ tx = "ActivateTranscript" => InActivateTranscript(s)
  /\ tx = "FailJob" => InFailJob(s)

\* A row is locked by one session.
Exclusive == \A s, v \in Session : s # v => Locked(s) \cap Locked(v) = {}

\* Before the plan there is no chunk, and there is no job of a chunk before it.
Planned ==
  /\ row["run"].total = 0 => \A c \in Chunk : row[c] = Absent
  /\ \A c \in Chunk : Ran(<<"render", c>>) => row[c].status # "absent"

RowsOK ==
  /\ DOMAIN row = Rows /\ row["run"] \in Runs /\ \A c \in Chunk : row[c] \in ChunkRow
  /\ enqueued \in [Jobs -> 0..MaxCopies]

SessionsOK ==
  doing = [s \in Session |-> doing[s]] /\ write = [s \in Session |-> write[s]]

IInv == /\ RowsOK /\ SessionsOK /\ Planned /\ Exclusive
        /\ \A s \in Session : Stands(s)
-----------------------------------------------------------------------------
(* The rows, and what statements do to them.                               *)

LEMMA RowNames ==
  /\ "run" \in Rows /\ "episode" \in Rows /\ "transcripts" \in Rows /\ Chunk \subseteq Rows
  /\ "run" \notin Chunk /\ "episode" \notin Chunk /\ "transcripts" \notin Chunk
  BY RunRowsAssumption DEF Rows

LEMMA WindowsOfChunks ==
  /\ Len(Windows) \in Nat /\ Len(Windows) = Cardinality(Chunk) /\ Len(Windows) # 0
  /\ {Windows[n] : n \in 1..Len(Windows)} = Chunk
  /\ \A n \in 1..Len(Windows) : Windows[n] \in Chunk
  BY RunTransactionsAssumption, RunRowsAssumption

\* A statement about a chunk changes none that is over, and makes none absent.
ChunkStep(old, new) ==
  /\ new \in ChunkRow /\ new.status # "absent"
  /\ old.status \in Final => new.status = old.status

\* It is neither rendered nor ingested.
KeepsJoins(old, new) ==
  /\ new.object = old.object
  /\ new.status = "completed" <=> old.status = "completed"

\* A statement about the run revives none that is over, and unplans none.
RunStep(old, new) ==
  /\ new \in Runs
  /\ old.status \in Final => new.status \in Final
  /\ new.total = 0 => old.total = 0

LEMMA ChunkStatements ==
  ASSUME NEW c \in ChunkRow
  PROVE  /\ \A new \in StartChunkRender(c) \cup StartChunkSubmit(c) \cup ResetChunkSubmit(c)
                         \cup SetChunkSubmitted(c) \cup SetChunkPolling(c)
                         \cup SetChunkResultReady(c) \cup ClearChunkExternalTask(c) :
              ChunkStep(c, new) /\ KeepsJoins(c, new) /\ c.status # "absent"
         /\ \A new \in SetChunkRendered(c) \cup SetChunkIngested(c) \cup SetChunkSpeakerMap(c) :
              ChunkStep(c, new) /\ c.status # "absent"
         /\ \A new \in FailTranscriptionChunk(c) : ChunkStep(c, new) /\ KeepsJoins(c, new)
<1> USE DEF ChunkStep, KeepsJoins, ChunkRow, ChunkStatuses, Where, AtService, Final
<1>1. \A new \in StartChunkRender(c) \cup StartChunkSubmit(c) \cup ResetChunkSubmit(c)
                   \cup SetChunkSubmitted(c) :
        ChunkStep(c, new) /\ KeepsJoins(c, new) /\ c.status # "absent"
  BY DEF StartChunkRender, StartChunkSubmit, ResetChunkSubmit, SetChunkSubmitted
<1>2. \A new \in SetChunkPolling(c) \cup SetChunkResultReady(c) \cup ClearChunkExternalTask(c) :
        ChunkStep(c, new) /\ KeepsJoins(c, new) /\ c.status # "absent"
  BY DEF SetChunkPolling, SetChunkResultReady, ClearChunkExternalTask
<1>3. \A new \in SetChunkRendered(c) \cup SetChunkIngested(c) \cup SetChunkSpeakerMap(c) :
        ChunkStep(c, new) /\ c.status # "absent"
  BY DEF SetChunkRendered, SetChunkIngested, SetChunkSpeakerMap
<1>4. \A new \in FailTranscriptionChunk(c) : ChunkStep(c, new) /\ KeepsJoins(c, new)
  BY DEF FailTranscriptionChunk
<1> QED
  BY <1>1, <1>2, <1>3, <1>4

LEMMA RunStatements ==
  ASSUME NEW r \in Runs
  PROVE  /\ RunStep(r, r)
         /\ \A new \in SetRunDownloadStarted(r) \cup SetRunDownloaded(r) \cup SetRunPrepared(r)
                         \cup IncrementRunCompletedChunks(r) \cup SetRunAligning(r)
                         \cup SetRunMerging(r) \cup CompleteTranscriptionRun(r)
                         \cup FailTranscriptionRun(r) :
              RunStep(r, new)
         /\ \A new \in SetRunTranscribing(r, Len(Windows)) : RunStep(r, new) /\ new.total # 0
<1> USE DEF RunStep, Runs, RunStatuses, Where, Final
<1>1. RunStep(r, r)
  OBVIOUS
<1>2. \A new \in SetRunDownloadStarted(r) \cup SetRunDownloaded(r) \cup SetRunPrepared(r) :
        RunStep(r, new)
  BY DEF SetRunDownloadStarted, SetRunDownloaded, SetRunPrepared
<1>3. \A new \in IncrementRunCompletedChunks(r) : RunStep(r, new)
  BY WindowsOfChunks DEF IncrementRunCompletedChunks
<1>4. \A new \in SetRunAligning(r) \cup SetRunMerging(r) \cup CompleteTranscriptionRun(r)
                   \cup FailTranscriptionRun(r) : RunStep(r, new)
  BY DEF SetRunAligning, SetRunMerging, CompleteTranscriptionRun, FailTranscriptionRun
<1>5. \A new \in SetRunTranscribing(r, Len(Windows)) : RunStep(r, new) /\ new.total # 0
  <2>1. Len(Windows) \in 0..Cardinality(Chunk) /\ Len(Windows) # 0
    BY WindowsOfChunks
  <2> QED
    BY <2>1 DEF SetRunTranscribing
<1> QED
  BY <1>1, <1>2, <1>3, <1>4, <1>5

\* Of jobs there are only more and more.
LEMMA EnqueueCounts ==
  ASSUME enqueued \in [Jobs -> 0..MaxCopies], NEW jobs, Enqueue(jobs)
  PROVE  /\ enqueued' \in [Jobs -> 0..MaxCopies]
         /\ \A j \in Jobs : Ran(j) => Ran(j)'
         /\ \A j \in Jobs : j \notin jobs => enqueued'[j] = enqueued[j]
  BY RunRowsAssumption DEF Enqueue, Ran

LEMMA SomeJobs ==
  /\ \A k \in {"download", "prepare", "plan", "align", "merge"} : <<k, "run">> \in Jobs
  /\ \A k \in {"render", "submit", "poll", "ingest"}, c \in Chunk : <<k, c>> \in Jobs
  BY DEF Jobs
-----------------------------------------------------------------------------
(* What sessions leave each other.                                         *)

\* A step of another session leaves the rows that s has locked, and of the others
\* what s relies on.
Undisturbed(s) ==
  /\ doing'[s] = doing[s] /\ write'[s] = write[s]
  /\ \A x \in Locked(s) : row'[x] = row[x]
  /\ \A j \in Jobs : Ran(j) => Ran(j)'
  /\ \A c \in Chunk : row[c].status \in Final => row'[c].status = row[c].status
  /\ row["run"].status \in Final => row'["run"].status \in Final
  /\ "run" \in Locked(s) => Rendered' = Rendered /\ Completed' = Completed

LEMMA OthersStand ==
  ASSUME NEW s \in Session, Stands(s), Undisturbed(s)
  PROVE  Stands(s)'
<1> USE SomeJobs
<1>1. /\ doing'[s] = doing[s] /\ Locked(s)' = Locked(s)
      /\ \A x \in Locked(s) : write'[s][x] = write[s][x] /\ row'[x] = row[x]
      /\ \A j \in Jobs : Ran(j) => Ran(j)'
  BY DEF Undisturbed, Locked
<1> DEFINE tx == doing[s].tx
<1>2. CASE tx = "none"
  BY <1>1, <1>2 DEF Stands
<1>3. CASE tx = "BeginDownload"
  BY <1>1, <1>3 DEF Stands, InBeginDownload, Holds
<1>4. CASE tx = "FinishDownload"
  BY <1>1, <1>4 DEF Stands, InFinishDownload, Holds
<1>5. CASE tx = "FinishPrepare"
  BY <1>1, <1>5 DEF Stands, InFinishPrepare, Holds
<1>6. CASE tx = "Plan"
  <2>1. InPlan(s) /\ "run" \in Locked(s) /\ Visited(s) \subseteq Locked(s)
    BY <1>6, WindowsOfChunks DEF Stands, InPlan, Holds, Visited
  <2>2. Visited(s)' = Visited(s)
    BY <1>1 DEF Visited
  <2>3. InPlan(s)'
    BY <1>1, <2>1, <2>2 DEF InPlan, Holds, Unchanged
  <2> QED
    BY <1>1, <1>6, <2>3 DEF Stands
<1>7. CASE tx = "BeginRender"
  BY <1>1, <1>7 DEF Stands, InStart, Holds, Of
<1>8. CASE tx = "BeginSubmit"
  BY <1>1, <1>8 DEF Stands, InStart, Holds, Of
<1>9. CASE tx = "FinishRender"
  <2>1. InFinishRender(s) /\ Of(s)' = Of(s) /\ Of(s) \in Locked(s)
    BY <1>1, <1>9 DEF Stands, InFinishRender, Holds, Of
  <2>2. "run" \in Locked(s) => Rendered' = Rendered
    BY DEF Undisturbed
  <2>3. InFinishRender(s)'
    BY <1>1, <2>1, <2>2 DEF InFinishRender, Holds, Unchanged
  <2> QED
    BY <1>1, <1>9, <2>3 DEF Stands
<1>10. CASE tx = "FinishSubmit"
  BY <1>1, <1>10 DEF Stands, InHands, Holds, Of, Unchanged
<1>11. CASE tx = "FinishPoll"
  BY <1>1, <1>11 DEF Stands, InHands, Holds, Of, Unchanged
<1>12. CASE tx = "FinishIngest"
  BY <1>1, <1>12 DEF Stands, InFinishIngest, Holds, Of
<1>13. CASE tx = "BeginAlignment"
  BY <1>1, <1>13 DEF Stands, InBeginAlignment, Holds, Unchanged
<1>14. CASE tx = "FinishAlignment"
  <2>1. InFinishAlignment(s) /\ "run" \in Locked(s) /\ Visited(s) \cap Completed \subseteq Locked(s)
    BY <1>14 DEF Stands, InFinishAlignment
  <2>2. Visited(s)' = Visited(s) /\ Completed' = Completed
    BY <1>1, <2>1 DEF Visited, Undisturbed
  <2>3. InFinishAlignment(s)'
    BY <1>1, <2>1, <2>2 DEF InFinishAlignment, Unchanged
  <2> QED
    BY <1>1, <1>14, <2>3 DEF Stands
<1>15. CASE tx = "ActivateTranscript"
  BY <1>1, <1>15 DEF Stands, InActivateTranscript, Holds, Unchanged, Activated
<1>16. CASE tx = "FailJob"
  <2>1. InFailJob(s) /\ Of(s)' = Of(s) /\ FailedChunk(s)' = FailedChunk(s)
    BY <1>1, <1>16 DEF Stands, Of, FailedChunk
  <2>2. /\ row["run"].status \in Final => row'["run"].status \in Final
        /\ Of(s) \in Chunk /\ row[Of(s)].status \in Final => row'[Of(s)].status \in Final
    BY DEF Undisturbed
  <2>3. InFailJob(s)'
    BY <1>1, <2>1, <2>2 DEF InFailJob, Holds
  <2> QED
    BY <1>1, <1>16, <2>3 DEF Stands
<1> QED
  BY <1>2, <1>3, <1>4, <1>5, <1>6, <1>7, <1>8, <1>9, <1>10, <1>11, <1>12, <1>13, <1>14, <1>15, <1>16
     DEF Stands, Doing, Transactions
-----------------------------------------------------------------------------
(* Statements within a transaction.                                        *)

\* s stands at d, and has written what it had written.
Kept(s, d) == doing'[s] = d /\ write'[s] = write[s] /\ UNCHANGED rows

\* s stands at d, and has written u to row x.
Wrote(s, x, u, d) ==
  /\ doing'[s] = d /\ Locked(s)' = Locked(s) \cup {x} /\ write'[s][x] = u
  /\ \A y \in Locked(s) \ {x} : write'[s][y] = write[s][y]
  /\ UNCHANGED rows

\* Nothing is committed.
LEMMA Statement ==
  ASSUME IInv, NEW s \in Session, UNCHANGED rows, SessionsOK', Stands(s)',
         \A v \in Session \ {s} : doing'[v] = doing[v] /\ write'[v] = write[v],
         \A v \in Session \ {s} : Locked(s)' \cap Locked(v) = {}
  PROVE  IInv'
<1>1. RowsOK' /\ Planned'
  BY DEF IInv, RowsOK, Planned, Ran, rows
<1>2. \A v \in Session \ {s} : Locked(v)' = Locked(v)
  BY DEF Locked
<1>3. Exclusive'
  BY <1>2 DEF IInv, Exclusive
<1>4. ASSUME NEW v \in Session \ {s} PROVE Stands(v)'
  <2>1. Undisturbed(v)
    BY DEF Undisturbed, Ran, Rendered, Completed, rows
  <2> QED
    BY <2>1, OthersStand DEF IInv
<1> QED
  BY <1>1, <1>3, <1>4 DEF IInv

LEMMA SetEffect ==
  ASSUME SessionsOK, NEW s \in Session, NEW d, Set(s, d)
  PROVE  /\ (doing = [v \in Session |-> doing[v]])'
         /\ doing'[s] = d /\ \A v \in Session \ {s} : doing'[v] = doing[v]
         /\ UNCHANGED rows
<1>1. DOMAIN doing = Session
  BY DEF SessionsOK
<1> QED
  BY <1>1 DEF Set

LEMMA SetIInv ==
  ASSUME IInv, NEW s \in Session, NEW d, Set(s, d), UNCHANGED write,
         Kept(s, d) => Stands(s)'
  PROVE  IInv' /\ UNCHANGED rows
<1>1. SessionsOK' /\ Kept(s, d) /\ UNCHANGED rows
      /\ \A v \in Session \ {s} : doing'[v] = doing[v] /\ write'[v] = write[v]
  BY SetEffect DEF IInv, SessionsOK, Kept
<1>2. \A v \in Session \ {s} : Locked(s)' \cap Locked(v) = {}
  BY DEF IInv, Exclusive, Locked
<1> QED
  BY <1>1, <1>2, Statement

LEMMA WriteIInv ==
  ASSUME IInv, NEW s \in Session, NEW x, NEW new, NEW d, Writes(s, x, new), Set(s, d),
         \A u \in new : Wrote(s, x, u, d) => Stands(s)'
  PROVE  IInv' /\ UNCHANGED rows
<1>1. PICK u \in new :
        write' = [write EXCEPT ![s] =
                    [y \in Locked(s) \cup {x} |-> IF y = x THEN u ELSE write[s][y]]]
  BY DEF Writes
<1>2. DOMAIN write = Session
  BY DEF IInv, SessionsOK
<1>3. /\ (write = [v \in Session |-> write[v]])'
      /\ write'[s] = [y \in Locked(s) \cup {x} |-> IF y = x THEN u ELSE write[s][y]]
      /\ \A v \in Session \ {s} : write'[v] = write[v]
  BY <1>1, <1>2
<1>4. Wrote(s, x, u, d)
  BY <1>3, SetEffect DEF IInv, Wrote, Locked
<1>5. \A v \in Session \ {s} : Locked(s)' \cap Locked(v) = {}
  BY <1>4 DEF IInv, Exclusive, Wrote, Writes, Free
<1> QED
  BY <1>3, <1>4, <1>5, SetEffect, Statement DEF IInv, SessionsOK

LEMMA NothingLocked == DOMAIN <<>> = {}
  OBVIOUS

LEMMA IdleDoes == Idle \in Doing /\ Idle.tx = "none"
  BY DEF Idle, Doing, Transactions, Statements

LEMMA RollbackIInv ==
  ASSUME IInv, NEW s \in Session, Rollback(s)
  PROVE  IInv' /\ UNCHANGED rows
<1>1. Set(s, Idle) /\ write' = [write EXCEPT ![s] = <<>>]
  BY DEF Rollback
<1>2. DOMAIN write = Session
  BY DEF IInv, SessionsOK
<1>3. /\ (write = [v \in Session |-> write[v]])'
      /\ write'[s] = <<>> /\ \A v \in Session \ {s} : write'[v] = write[v]
  BY <1>1, <1>2
<1>4. Locked(s)' = {}
  BY <1>3, NothingLocked DEF Locked
<1>5. doing'[s] = Idle
  BY <1>1, SetEffect DEF IInv
<1>6. Stands(s)'
  BY <1>4, <1>5, IdleDoes DEF Stands
<1> QED
  BY <1>1, <1>3, <1>4, <1>6, SetEffect, Statement DEF IInv, SessionsOK

LEMMA OneIInv ==
  ASSUME IInv, NEW s \in Session, NEW x, NEW new, NEW d, One(s, x, new, d),
         \A u \in new : Wrote(s, x, u, d) => Stands(s)'
  PROVE  IInv' /\ UNCHANGED rows
  BY RollbackIInv, WriteIInv DEF One

LEMMA ExecIInv ==
  ASSUME IInv, NEW s \in Session, NEW x, NEW new, NEW d, Exec(s, x, new, d),
         \A u \in new : Wrote(s, x, u, d) => Stands(s)',
         new = {} /\ Kept(s, d) => Stands(s)'
  PROVE  IInv' /\ UNCHANGED rows
  BY SetIInv, WriteIInv DEF Exec
-----------------------------------------------------------------------------
(* Commits.                                                                *)

\* What a session has locked, and may commit.
LEMMA Locks ==
  ASSUME IInv, NEW s \in Session
  PROVE  /\ Locked(s) \subseteq Rows
         /\ \A c \in Locked(s) \cap Chunk : ChunkStep(row[c], write[s][c])
         /\ "run" \in Locked(s) => RunStep(row["run"], write[s]["run"])
         /\ \A c \in Locked(s) \cap Chunk :
              /\ row[c].status \in {"absent", "completed"} => "run" \in Locked(s)
              /\ row[c].status = "absent" /\ doing[s].at = "COMMIT" =>
                   write[s]["run"].total # 0
         /\ doing[s].at = "COMMIT" /\ "run" \notin Locked(s) =>
              \A c \in Locked(s) \cap Chunk : KeepsJoins(row[c], write[s][c])
<1> USE RowNames
<1> DEFINE tx == doing[s].tx
<1>1. Stands(s) /\ row["run"] \in Runs /\ \A c \in Chunk : row[c] \in ChunkRow
  BY DEF IInv, RowsOK
<1>2. \A c \in Chunk : Ran(<<"render", c>>) => row[c].status # "absent"
  BY DEF IInv, Planned
<1> USE <1>1
<1>3. CASE tx \in {"none", "BeginRender", "BeginSubmit"}
  BY <1>3 DEF Stands, InStart, Holds
<1>4. CASE tx \in {"BeginDownload", "FinishDownload", "FinishPrepare", "BeginAlignment"}
  BY <1>4, RunStatements
     DEF Stands, InBeginDownload, InFinishDownload, InFinishPrepare, InBeginAlignment, Holds,
         Unchanged
<1>5. CASE tx = "Plan"
  <2>1. InPlan(s) /\ Visited(s) \subseteq Chunk
    BY <1>5, WindowsOfChunks DEF Stands, InPlan, Visited
  <2>2. \A c \in Locked(s) \cap Chunk : write[s][c] = [Absent EXCEPT !.status = "planned"]
    BY <2>1, WindowsOfChunks DEF InPlan, Holds, Visited
  <2>3. \A c \in Chunk : row[c] = Absent
    BY <2>1 DEF InPlan, IInv, Planned
  <2>4. \A c \in Locked(s) \cap Chunk : ChunkStep(row[c], write[s][c])
    BY <2>2, <2>3 DEF ChunkStep, ChunkRow, ChunkStatuses, Absent, Final
  <2>5. /\ Locked(s) \subseteq Rows /\ "run" \in Locked(s)
        /\ RunStep(row["run"], write[s]["run"])
        /\ doing[s].at = "COMMIT" => write[s]["run"].total # 0
    BY <2>1, RunStatements DEF InPlan, Holds, Unchanged
  <2> QED
    BY <2>4, <2>5
<1>6. CASE tx \in {"FinishRender", "FinishSubmit", "FinishPoll", "FinishIngest"}
  <2>1. PICK c \in Chunk : c = Of(s)
    BY <1>6 DEF Stands, InFinishRender, InHands, InFinishIngest
  <2>2. write[s][c] \in SetChunkRendered(row[c]) \cup SetChunkSubmitted(row[c])
                          \cup SetChunkResultReady(row[c]) \cup SetChunkIngested(row[c])
    BY <1>6, <2>1 DEF Stands, InFinishRender, InHands, InFinishIngest
  <2>3. ChunkStep(row[c], write[s][c]) /\ row[c].status \notin {"absent", "completed"}
    <3>1. row[c].status # "completed"
      BY <2>2 DEF SetChunkRendered, SetChunkSubmitted, SetChunkResultReady, SetChunkIngested,
                  Where, AtService
    <3> QED
      BY <2>2, <3>1, ChunkStatements
  <2>4. \/ Locked(s) = {c} /\ doing[s].at # "COMMIT"
        \/ /\ Locked(s) = {c, "run"}
           /\ write[s]["run"] \in {row["run"]} \cup IncrementRunCompletedChunks(row["run"])
    BY <1>6, <2>1 DEF Stands, InFinishRender, InHands, InFinishIngest, Holds, Unchanged
  <2> QED
    BY <2>3, <2>4, RunStatements
<1>7. CASE tx = "FinishAlignment"
  <2>1. InFinishAlignment(s) /\ Visited(s) \subseteq Chunk
    BY <1>7, WindowsOfChunks DEF Stands, InFinishAlignment, Visited
  <2>2. \A c \in Locked(s) \cap Chunk :
          row[c].status = "completed" /\ write[s][c] = [row[c] EXCEPT !.map = TRUE]
    BY <2>1 DEF InFinishAlignment, Completed
  <2>3. \A c \in Locked(s) \cap Chunk : write[s][c] \in SetChunkSpeakerMap(row[c])
    BY <2>2 DEF SetChunkSpeakerMap, Where
  <2>4. /\ Locked(s) \subseteq Rows /\ "run" \in Locked(s)
        /\ RunStep(row["run"], write[s]["run"])
    BY <2>1, RunStatements DEF InFinishAlignment, Unchanged
  <2> QED
    BY <2>3, <2>4, ChunkStatements
<1>8. CASE tx = "ActivateTranscript"
  BY <1>8, RunStatements DEF Stands, InActivateTranscript, Holds, Unchanged
<1>9. CASE tx = "FailJob"
  <2>1. InFailJob(s)
    BY <1>9 DEF Stands
  <2>2. Locked(s) \cap Chunk = FailedChunk(s)
    BY DEF FailedChunk
  <2>3. \A c \in Locked(s) \cap Chunk :
          /\ c = Of(s) /\ row[c].status \notin {"absent", "completed"}
          /\ write[s][c] \in FailTranscriptionChunk(row[c])
    BY <1>2, <2>1, <2>2 DEF InFailJob, FailTranscriptionChunk, Where, Final
  <2>4. Locked(s) \subseteq Rows /\ "run" \in Locked(s) => RunStep(row["run"], write[s]["run"])
    BY <2>1, RunStatements DEF InFailJob, Holds, FailedChunk
  <2>5. Locked(s) \subseteq Rows
    BY <2>1 DEF InFailJob, Holds, FailedChunk
  <2> QED
    BY <2>3, <2>4, <2>5, ChunkStatements
<1> QED
  BY <1>3, <1>4, <1>5, <1>6, <1>7, <1>8, <1>9 DEF Stands, Doing, Transactions
\* The end of a transaction that has locked the rows X, or of a statement outside of one.
LEMMA EndIInv ==
  ASSUME IInv, NEW s \in Session, SessionsOK', doing'[s] = Idle, Locked(s)' = {},
         \A v \in Session \ {s} : doing'[v] = doing[v] /\ write'[v] = write[v],
         NEW X \in SUBSET Rows, \A v \in Session \ {s} : X \cap Locked(v) = {},
         DOMAIN row' = Rows, \A x \in Rows \ X : row'[x] = row[x],
         \A c \in X \cap Chunk : ChunkStep(row[c], row'[c]),
         RunStep(row["run"], row'["run"]),
         \A c \in X \cap Chunk : row[c].status = "absent" => row'["run"].total # 0,
         "run" \notin X => \A c \in X \cap Chunk : KeepsJoins(row[c], row'[c]),
         NEW jobs, Enqueue(jobs),
         \A c \in Chunk : <<"render", c>> \in jobs => row'[c].status # "absent"
  PROVE  IInv'
<1> USE RowNames
<1>1. RowsOK /\ Planned /\ Exclusive /\ \A v \in Session : Stands(v)
  BY DEF IInv
<1>2. \A c \in Chunk : row'[c] = row[c] \/ (c \in X /\ ChunkStep(row[c], row'[c]))
  OBVIOUS
<1>3. RowsOK'
  <2>1. enqueued' \in [Jobs -> 0..MaxCopies]
    BY <1>1, EnqueueCounts DEF RowsOK
  <2>2. row'["run"] \in Runs /\ \A c \in Chunk : row'[c] \in ChunkRow
    BY <1>1, <1>2 DEF RowsOK, ChunkStep, RunStep
  <2> QED
    BY <2>1, <2>2 DEF RowsOK
<1>4. Planned'
  <2>1. ASSUME row'["run"].total = 0, NEW c \in Chunk PROVE row'[c] = Absent
    <3>1. row[c] = Absent
      BY <1>1, <2>1 DEF Planned, RunStep
    <3>2. c \notin X
      BY <2>1, <3>1 DEF Absent
    <3> QED
      BY <3>1, <3>2
  <2>2. ASSUME NEW c \in Chunk, Ran(<<"render", c>>)' PROVE row'[c].status # "absent"
    <3>1. <<"render", c>> \in jobs \/ Ran(<<"render", c>>)
      BY <1>1, <2>2, EnqueueCounts, SomeJobs DEF RowsOK, Ran
    <3> QED
      BY <1>1, <1>2, <3>1 DEF Planned, ChunkStep
  <2> QED
    BY <2>1, <2>2 DEF Planned
<1>5. Exclusive'
  BY <1>1 DEF Exclusive, Locked
<1>6. Stands(s)'
  BY IdleDoes DEF Stands
<1>7. ASSUME NEW v \in Session \ {s} PROVE Stands(v)'
  <2>1. \A x \in Locked(v) : row'[x] = row[x]
    <3>1. Locked(v) \subseteq Rows
      BY Locks
    <3> QED
      BY <3>1
  <2>2. \A j \in Jobs : Ran(j) => Ran(j)'
    BY <1>1, EnqueueCounts DEF RowsOK
  <2>3. \A c \in Chunk : row[c].status \in Final => row'[c].status = row[c].status
    BY <1>2 DEF ChunkStep
  <2>4. row["run"].status \in Final => row'["run"].status \in Final
    BY DEF RunStep
  <2>5. ASSUME "run" \in Locked(v) PROVE Rendered' = Rendered /\ Completed' = Completed
    <3>1. "run" \notin X
      BY <2>5
    <3>2. \A c \in Chunk : row'[c] = row[c] \/ KeepsJoins(row[c], row'[c])
      BY <1>2, <3>1
    <3> QED
      BY <3>2 DEF KeepsJoins, Rendered, Completed
  <2>6. Undisturbed(v)
    BY <2>1, <2>2, <2>3, <2>4, <2>5 DEF Undisturbed
  <2> QED
    BY <1>1, <2>6, OthersStand
<1> QED
  BY <1>3, <1>4, <1>5, <1>6, <1>7 DEF IInv

LEMMA CommitEffect ==
  ASSUME IInv, NEW s \in Session, NEW jobs, Commit(s, jobs)
  PROVE  /\ DOMAIN row' = Rows /\ Enqueue(jobs)
         /\ \A x \in Locked(s) : row'[x] = write[s][x]
         /\ \A x \in Rows \ Locked(s) : row'[x] = row[x]
         /\ SessionsOK' /\ doing'[s] = Idle /\ Locked(s)' = {}
         /\ \A v \in Session \ {s} : doing'[v] = doing[v] /\ write'[v] = write[v]
<1>1. DOMAIN doing = Session /\ DOMAIN write = Session
  BY DEF IInv, SessionsOK
<1>2. write'[s] = <<>>
  BY <1>1 DEF Commit
<1>3. Locked(s) \subseteq Rows
  BY Locks
<1> QED
  BY <1>1, <1>2, <1>3, NothingLocked DEF Commit, SessionsOK, Locked, Seen

LEMMA CommitIInv ==
  ASSUME IInv, NEW s \in Session, NEW jobs, Commit(s, jobs), doing[s].at = "COMMIT",
         \A c \in Chunk : <<"render", c>> \in jobs => row'[c].status # "absent"
  PROVE  IInv'
<1> USE RowNames
<1>1. Locked(s) \in SUBSET Rows /\ \A v \in Session \ {s} : Locked(s) \cap Locked(v) = {}
  BY Locks DEF IInv, Exclusive
<1>2. \A c \in Locked(s) \cap Chunk : ChunkStep(row[c], row'[c])
  BY Locks, CommitEffect
<1>3. RunStep(row["run"], row'["run"])
  <2>1. RunStep(row["run"], row["run"])
    BY RunStatements DEF IInv, RowsOK
  <2> QED
    BY <2>1, Locks, CommitEffect
<1>4. \A c \in Locked(s) \cap Chunk : row[c].status = "absent" => row'["run"].total # 0
  BY Locks, CommitEffect
<1>5. "run" \notin Locked(s) => \A c \in Locked(s) \cap Chunk : KeepsJoins(row[c], row'[c])
  BY Locks, CommitEffect
<1> QED
  BY <1>1, <1>2, <1>3, <1>4, <1>5, CommitEffect, EndIInv

LEMMA AutoCommitEffect ==
  ASSUME IInv, NEW s \in Session, Locked(s) = {}, NEW c \in Chunk, NEW new,
         AutoCommit(s, c, new),
         \A u \in new : ChunkStep(row[c], u) /\ KeepsJoins(row[c], u) /\ row[c].status # "absent"
  PROVE  IInv' /\ Serial!Update(c, new, {})
<1> USE RowNames
<1>1. PICK u \in new : row' = [row EXCEPT ![c] = u]
  BY DEF AutoCommit
<1>2. DOMAIN doing = Session /\ DOMAIN row = Rows /\ row["run"] \in Runs
      /\ enqueued \in [Jobs -> 0..MaxCopies]
  BY DEF IInv, SessionsOK, RowsOK
<1>3. /\ DOMAIN row' = Rows /\ \A x \in Rows \ {c} : row'[x] = row[x]
      /\ row'[c] = u /\ row'["run"] = row["run"]
  BY <1>1, <1>2
<1>4. Enqueue({}) /\ Serial!Enqueue({})
  BY <1>2 DEF AutoCommit, Enqueue, Serial!Enqueue, Jobs, Serial!Jobs
<1>5. /\ SessionsOK' /\ doing'[s] = Idle /\ Locked(s)' = {}
      /\ \A v \in Session \ {s} : doing'[v] = doing[v] /\ write'[v] = write[v]
  BY <1>2 DEF AutoCommit, IInv, SessionsOK, Locked
<1>6. \A v \in Session \ {s} : {c} \cap Locked(v) = {}
  BY DEF AutoCommit, Free
<1>7. RunStep(row["run"], row'["run"])
  BY <1>2, <1>3, RunStatements
<1>8. IInv'
  <2>1. {c} \in SUBSET Rows /\ {c} \cap Chunk = {c}
    OBVIOUS
  <2>2. \A d \in {c} \cap Chunk :
          ChunkStep(row[d], row'[d]) /\ KeepsJoins(row[d], row'[d]) /\ row[d].status # "absent"
    BY <1>1, <1>3
  <2> QED
    BY <1>3, <1>4, <1>5, <1>6, <1>7, <2>1, <2>2, EndIInv
<1> QED
  BY <1>1, <1>4, <1>8 DEF Serial!Update
-----------------------------------------------------------------------------
(* Each transaction: what it does before its COMMIT changes no row, and    *)
(* with its COMMIT it does what it does in RunSerial.                      *)

\* The place of a session that begins a transaction, or goes on in one.
LEMMA OnDoes ==
  ASSUME NEW tx \in Transactions, NEW of \in Chunk \cup {"run"}, NEW at \in Statements
  PROVE  /\ On(tx, of, at) \in Doing
         /\ On(tx, of, at).tx = tx /\ On(tx, of, at).of = of /\ On(tx, of, at).at = at
         /\ On(tx, of, at).done = 0
  BY IdleDoes DEF On, Idle, Doing

LEMMA ThenDoes ==
  ASSUME NEW s \in Session, doing[s] \in Doing, NEW at \in Statements
  PROVE  /\ Then(s, at) \in Doing
         /\ Then(s, at).tx = doing[s].tx /\ Then(s, at).of = doing[s].of /\ Then(s, at).at = at
         /\ Then(s, at).done = doing[s].done /\ Then(s, at).all = doing[s].all
  BY DEF Then, Doing

\* At its beginning a session has locked nothing.
LEMMA BeginsIdle ==
  ASSUME IInv, NEW s \in Session, NEW job, Begin(s, job)
  PROVE  Locked(s) = {} /\ Ran(job)
  BY IdleDoes DEF IInv, Stands, Begin, Ran

LEMMA SerialRows ==
  /\ Serial!Rows = Rows /\ Serial!Absent = Absent
  /\ \A jobs : Enqueue(jobs) => Serial!Enqueue(jobs)
  /\ \A job : Ran(job) => Serial!Ran(job)
  BY DEF Serial!Rows, Rows, Serial!Absent, Absent, Serial!Enqueue, Enqueue, Serial!Jobs, Jobs,
         Serial!Ran, Ran

LEMMA SerialCardinality == \A S : Serial!Cardinality(S) = Cardinality(S)
  BY DEF Serial!Cardinality, Cardinality

LEMMA SerialRun ==
  ASSUME NEW r
  PROVE  /\ Serial!SetRunDownloadStarted(r) = SetRunDownloadStarted(r)
         /\ Serial!SetRunDownloaded(r) = SetRunDownloaded(r)
         /\ Serial!SetRunPrepared(r) = SetRunPrepared(r)
         /\ \A total : Serial!SetRunTranscribing(r, total) = SetRunTranscribing(r, total)
         /\ Serial!IncrementRunCompletedChunks(r) = IncrementRunCompletedChunks(r)
         /\ Serial!SetRunAligning(r) = SetRunAligning(r)
         /\ Serial!SetRunMerging(r) = SetRunMerging(r)
         /\ Serial!CompleteTranscriptionRun(r) = CompleteTranscriptionRun(r)
         /\ Serial!FailTranscriptionRun(r) = FailTranscriptionRun(r)
  BY DEF Serial!SetRunDownloadStarted, SetRunDownloadStarted, Serial!SetRunDownloaded,
         SetRunDownloaded, Serial!SetRunPrepared, SetRunPrepared, Serial!SetRunTranscribing,
         SetRunTranscribing, Serial!IncrementRunCompletedChunks, IncrementRunCompletedChunks,
         Serial!SetRunAligning, SetRunAligning, Serial!SetRunMerging, SetRunMerging,
         Serial!CompleteTranscriptionRun, CompleteTranscriptionRun,
         Serial!FailTranscriptionRun, FailTranscriptionRun, Serial!Where, Where,
         Serial!Final, Final

LEMMA SerialChunks ==
  ASSUME NEW c
  PROVE  /\ Serial!StartChunkRender(c) = StartChunkRender(c)
         /\ Serial!SetChunkRendered(c) = SetChunkRendered(c)
         /\ Serial!StartChunkSubmit(c) = StartChunkSubmit(c)
         /\ Serial!ResetChunkSubmit(c) = ResetChunkSubmit(c)
         /\ Serial!SetChunkSubmitted(c) = SetChunkSubmitted(c)
         /\ Serial!SetChunkPolling(c) = SetChunkPolling(c)
         /\ Serial!SetChunkResultReady(c) = SetChunkResultReady(c)
         /\ Serial!ClearChunkExternalTask(c) = ClearChunkExternalTask(c)
         /\ Serial!SetChunkIngested(c) = SetChunkIngested(c)
         /\ Serial!FailTranscriptionChunk(c) = FailTranscriptionChunk(c)
  BY DEF Serial!StartChunkRender, StartChunkRender, Serial!SetChunkRendered, SetChunkRendered,
         Serial!StartChunkSubmit, StartChunkSubmit, Serial!ResetChunkSubmit, ResetChunkSubmit,
         Serial!SetChunkSubmitted, SetChunkSubmitted, Serial!SetChunkPolling, SetChunkPolling,
         Serial!SetChunkResultReady, SetChunkResultReady, Serial!ClearChunkExternalTask,
         ClearChunkExternalTask, Serial!SetChunkIngested, SetChunkIngested,
         Serial!FailTranscriptionChunk, FailTranscriptionChunk, Serial!Where, Where,
         Serial!AtService, AtService, Serial!Final, Final

LEMMA SerialEpisode ==
  ASSUME NEW e
  PROVE  /\ \A status : Serial!SetEpisodeTranscriptionStatus(e, status)
                          = SetEpisodeTranscriptionStatus(e, status)
         /\ Serial!CreateTranscriptVersion(Serial!DeactivateTranscriptVersions(e))
              = CreateTranscriptVersion(DeactivateTranscriptVersions(e))
  BY DEF Serial!SetEpisodeTranscriptionStatus, SetEpisodeTranscriptionStatus,
         Serial!CreateTranscriptVersion, CreateTranscriptVersion,
         Serial!DeactivateTranscriptVersions, DeactivateTranscriptVersions

\* The commit of one row.
LEMMA CommitsUpdate ==
  ASSUME IInv, NEW s \in Session, NEW jobs, Commit(s, jobs), NEW x \in Locked(s),
         \A y \in Locked(s) \ {x} : Unchanged(s, y), NEW new, write[s][x] \in new
  PROVE  Serial!Update(x, new, jobs)
<1>1. DOMAIN row = Rows
  BY DEF IInv, RowsOK
<1>2. row' = [row EXCEPT ![x] = write[s][x]]
  BY <1>1 DEF Commit, Seen, Unchanged
<1>3. Serial!Enqueue(jobs)
  BY SerialRows DEF Commit
<1> QED
  BY <1>2, <1>3 DEF Serial!Update

LEMMA BeginDownloadStep ==
  ASSUME IInv, NEW s \in Session, BeginDownload(s)
  PROVE  IInv' /\ (Serial!BeginDownload \/ UNCHANGED rows)
<1> DEFINE tx == "BeginDownload"
<1> USE DEF Transactions, Statements
<1>1. Stands(s) /\ doing[s] \in Doing
  BY DEF IInv, Stands
<1>2. CASE /\ Begin(s, <<"download", "run">>) /\ UNCHANGED write
           /\ Set(s, On(tx, "run", "SetRunDownloadStarted"))
  <2>1. ASSUME Kept(s, On(tx, "run", "SetRunDownloadStarted")) PROVE Stands(s)'
    BY <1>2, <2>1, BeginsIdle, OnDoes
       DEF Stands, InBeginDownload, Holds, Kept, Locked, rows, Ran
  <2> QED
    BY <1>2, <2>1, SetIInv
<1>3. CASE At(s, tx, "SetRunDownloadStarted")
           /\ One(s, "run", SetRunDownloadStarted(row["run"]), Then(s, "COMMIT"))
  <2>1. ASSUME NEW u \in SetRunDownloadStarted(row["run"]), Wrote(s, "run", u, Then(s, "COMMIT"))
        PROVE  Stands(s)'
    BY <1>1, <1>3, <2>1, ThenDoes DEF At, Stands, InBeginDownload, Holds, Wrote, rows, Ran
  <2> QED
    BY <1>3, <2>1, OneIInv
<1>4. CASE At(s, tx, "COMMIT") /\ Commit(s, {})
  <2>1. IInv'
    BY <1>4, CommitIInv DEF At
  <2>2. /\ Locked(s) = {"run"} /\ Ran(<<"download", "run">>)
        /\ write[s]["run"] \in SetRunDownloadStarted(row["run"])
    BY <1>1, <1>4 DEF At, Stands, InBeginDownload, Holds
  <2>3. Serial!BeginDownload
    BY <1>4, <2>2, CommitsUpdate, SerialRows, SerialRun DEF Serial!BeginDownload
  <2> QED
    BY <2>1, <2>3
<1> QED
  BY <1>2, <1>3, <1>4 DEF BeginDownload
LEMMA FinishDownloadStep ==
  ASSUME IInv, NEW s \in Session, FinishDownload(s)
  PROVE  IInv' /\ (Serial!FinishDownload \/ UNCHANGED rows)
<1> DEFINE next == On("FinishDownload", "run", "COMMIT")
<1> USE DEF Transactions, Statements
<1>1. Stands(s)
  BY DEF IInv
<1>2. CASE Begin(s, <<"download", "run">>) /\ One(s, "run", SetRunDownloaded(row["run"]), next)
  <2>1. ASSUME NEW u \in SetRunDownloaded(row["run"]), Wrote(s, "run", u, next)
        PROVE  Stands(s)'
    BY <1>2, <2>1, BeginsIdle, OnDoes DEF Stands, InFinishDownload, Holds, Wrote, rows, Ran
  <2> QED
    BY <1>2, <2>1, OneIInv
<1>3. CASE At(s, "FinishDownload", "COMMIT") /\ Commit(s, {<<"prepare", "run">>})
  <2>1. IInv'
    BY <1>3, CommitIInv DEF At
  <2>2. /\ Locked(s) = {"run"} /\ Ran(<<"download", "run">>)
        /\ write[s]["run"] \in SetRunDownloaded(row["run"])
    BY <1>1, <1>3 DEF At, Stands, InFinishDownload, Holds
  <2>3. Serial!FinishDownload
    BY <1>3, <2>2, CommitsUpdate, SerialRows, SerialRun DEF Serial!FinishDownload
  <2> QED
    BY <2>1, <2>3
<1> QED
  BY <1>2, <1>3 DEF FinishDownload

LEMMA FinishPrepareStep ==
  ASSUME IInv, NEW s \in Session, FinishPrepare(s)
  PROVE  IInv' /\ (Serial!FinishPrepare \/ UNCHANGED rows)
<1> DEFINE next == On("FinishPrepare", "run", "COMMIT")
<1> USE DEF Transactions, Statements
<1>1. Stands(s)
  BY DEF IInv
<1>2. CASE Begin(s, <<"prepare", "run">>) /\ One(s, "run", SetRunPrepared(row["run"]), next)
  <2>1. ASSUME NEW u \in SetRunPrepared(row["run"]), Wrote(s, "run", u, next)
        PROVE  Stands(s)'
    BY <1>2, <2>1, BeginsIdle, OnDoes DEF Stands, InFinishPrepare, Holds, Wrote, rows, Ran
  <2> QED
    BY <1>2, <2>1, OneIInv
<1>3. CASE /\ At(s, "FinishPrepare", "COMMIT")
           /\ Commit(s, {<<"plan", "run">>, <<"clean", "source">>})
  <2>1. IInv'
    BY <1>3, CommitIInv DEF At
  <2>2. /\ Locked(s) = {"run"} /\ Ran(<<"prepare", "run">>)
        /\ write[s]["run"] \in SetRunPrepared(row["run"])
    BY <1>1, <1>3 DEF At, Stands, InFinishPrepare, Holds
  <2>3. Serial!FinishPrepare
    BY <1>3, <2>2, CommitsUpdate, SerialRows, SerialRun DEF Serial!FinishPrepare
  <2> QED
    BY <2>1, <2>3
<1> QED
  BY <1>2, <1>3 DEF FinishPrepare

LEMMA BeginAlignmentStep ==
  ASSUME IInv, NEW s \in Session, BeginAlignment(s)
  PROVE  IInv' /\ (Serial!BeginAlignment \/ UNCHANGED rows)
<1> DEFINE first == On("BeginAlignment", "run", "SetRunAligning")
<1> USE DEF Transactions, Statements
<1>1. Stands(s) /\ doing[s] \in Doing
  BY DEF IInv, Stands
<1>2. CASE Begin(s, <<"align", "run">>) /\ LockTranscriptionRun(s, first)
  <2>1. ASSUME Wrote(s, "run", row["run"], first) PROVE Stands(s)'
    BY <1>2, <2>1, BeginsIdle, OnDoes
       DEF Stands, InBeginAlignment, Holds, Unchanged, Wrote, rows, Ran
  <2>2. Writes(s, "run", {row["run"]}) /\ Set(s, first)
    BY <1>2, BeginsIdle DEF LockTranscriptionRun, Seen
  <2> QED
    BY <2>1, <2>2, WriteIInv
<1>3. CASE At(s, "BeginAlignment", "SetRunAligning")
           /\ One(s, "run", SetRunAligning(Seen(s, "run")), Then(s, "COMMIT"))
  <2>1. Holds(s, "SetRunAligning", {"run"}) /\ Unchanged(s, "run") /\ Ran(<<"align", "run">>)
    BY <1>1, <1>3 DEF At, Stands, InBeginAlignment, Holds
  <2>2. Seen(s, "run") = row["run"]
    BY <2>1 DEF Seen, Unchanged
  <2>3. ASSUME NEW u \in SetRunAligning(row["run"]), Wrote(s, "run", u, Then(s, "COMMIT"))
        PROVE  Stands(s)'
    BY <1>1, <1>3, <2>1, <2>3, ThenDoes DEF At, Stands, InBeginAlignment, Holds, Wrote, rows, Ran
  <2> QED
    BY <1>3, <2>2, <2>3, OneIInv
<1>4. CASE At(s, "BeginAlignment", "COMMIT") /\ Commit(s, {})
  <2>1. IInv'
    BY <1>4, CommitIInv DEF At
  <2>2. /\ Locked(s) = {"run"} /\ Ran(<<"align", "run">>)
        /\ write[s]["run"] \in SetRunAligning(row["run"])
    BY <1>1, <1>4 DEF At, Stands, InBeginAlignment, Holds
  <2>3. Serial!BeginAlignment
    BY <1>4, <2>2, CommitsUpdate, SerialRows, SerialRun DEF Serial!BeginAlignment
  <2> QED
    BY <2>1, <2>3
<1> QED
  BY <1>2, <1>3, <1>4 DEF BeginAlignment
LEMMA BeginRenderStep ==
  ASSUME IInv, NEW s \in Session, NEW c \in Chunk, BeginRender(s, c)
  PROVE  IInv' /\ (Serial!BeginRender(c) \/ UNCHANGED rows)
<1> DEFINE first == On("BeginRender", c, "StartChunkRender")
<1> USE DEF Transactions, Statements
<1>1. CASE Begin(s, <<"render", c>>) /\ Set(s, first) /\ UNCHANGED write
  <2>1. ASSUME Kept(s, first) PROVE Stands(s)'
    <3>1. Ran(<<"render", c>>)' /\ Locked(s)' = {}
      BY <1>1, <2>1, BeginsIdle DEF Kept, Locked, rows, Ran
    <3>2. /\ doing'[s] \in Doing /\ doing'[s].tx = "BeginRender" /\ doing'[s].of = c
          /\ doing'[s].at = "StartChunkRender"
      BY <2>1, OnDoes DEF Kept
    <3> HIDE DEF Transactions, Statements
    <3> QED
      BY <3>1, <3>2 DEF Stands, InStart, Holds, Of
  <2> QED
    BY <1>1, <2>1, SetIInv
<1>2. CASE At(s, "BeginRender", "StartChunkRender") /\ Of(s) = c
           /\ AutoCommit(s, c, StartChunkRender(row[c]))
  <2>1. Locked(s) = {} /\ Ran(<<"render", c>>) /\ row[c] \in ChunkRow
    BY <1>2 DEF IInv, RowsOK, At, Stands, InStart, Holds
  <2>2. IInv' /\ Serial!Update(c, StartChunkRender(row[c]), {})
    BY <1>2, <2>1, ChunkStatements, AutoCommitEffect
  <2> QED
    BY <2>1, <2>2, SerialRows, SerialChunks DEF Serial!BeginRender
<1> QED
  BY <1>1, <1>2, RollbackIInv DEF BeginRender

LEMMA BeginSubmitStep ==
  ASSUME IInv, NEW s \in Session, NEW c \in Chunk, BeginSubmit(s, c)
  PROVE  IInv' /\ (Serial!BeginSubmit(c) \/ UNCHANGED rows)
<1> DEFINE first == On("BeginSubmit", c, "StartChunkSubmit")
<1> USE DEF Transactions, Statements
<1>1. CASE Begin(s, <<"submit", c>>) /\ Set(s, first) /\ UNCHANGED write
  <2>1. ASSUME Kept(s, first) PROVE Stands(s)'
    <3>1. Ran(<<"submit", c>>)' /\ Locked(s)' = {}
      BY <1>1, <2>1, BeginsIdle DEF Kept, Locked, rows, Ran
    <3>2. /\ doing'[s] \in Doing /\ doing'[s].tx = "BeginSubmit" /\ doing'[s].of = c
          /\ doing'[s].at = "StartChunkSubmit"
      BY <2>1, OnDoes DEF Kept
    <3> HIDE DEF Transactions, Statements
    <3> QED
      BY <3>1, <3>2 DEF Stands, InStart, Holds, Of
  <2> QED
    BY <1>1, <2>1, SetIInv
<1>2. CASE At(s, "BeginSubmit", "StartChunkSubmit") /\ Of(s) = c
           /\ AutoCommit(s, c, StartChunkSubmit(row[c]))
  <2>1. Locked(s) = {} /\ Ran(<<"submit", c>>) /\ row[c] \in ChunkRow
    BY <1>2 DEF IInv, RowsOK, At, Stands, InStart, Holds
  <2>2. IInv' /\ Serial!Update(c, StartChunkSubmit(row[c]), {})
    BY <1>2, <2>1, ChunkStatements, AutoCommitEffect
  <2> QED
    BY <2>1, <2>2, SerialRows, SerialChunks DEF Serial!BeginSubmit
<1> QED
  BY <1>1, <1>2, RollbackIInv DEF BeginSubmit

\* The transactions of one statement.
LEMMA StatementSteps ==
  ASSUME IInv, NEW s \in Session, NEW c \in Chunk
  PROVE  /\ ResetSubmit(s, c) => IInv' /\ Serial!ResetSubmit(c)
         /\ MarkPolling(s, c) => IInv' /\ Serial!MarkPolling(c)
         /\ ClearExternalTask(s, c) => IInv' /\ Serial!ClearExternalTask(c)
<1>1. row[c] \in ChunkRow
  BY DEF IInv, RowsOK
<1>2. ASSUME ResetSubmit(s, c) PROVE IInv' /\ Serial!ResetSubmit(c)
  <2>1. Locked(s) = {} /\ Ran(<<"submit", c>>)
    BY <1>2, BeginsIdle DEF ResetSubmit
  <2>2. IInv' /\ Serial!Update(c, ResetChunkSubmit(row[c]), {})
    BY <1>1, <1>2, <2>1, ChunkStatements, AutoCommitEffect DEF ResetSubmit
  <2> QED
    BY <2>1, <2>2, SerialRows, SerialChunks DEF Serial!ResetSubmit
<1>3. ASSUME MarkPolling(s, c) PROVE IInv' /\ Serial!MarkPolling(c)
  <2>1. Locked(s) = {} /\ Ran(<<"poll", c>>)
    BY <1>3, BeginsIdle DEF MarkPolling
  <2>2. IInv' /\ Serial!Update(c, SetChunkPolling(row[c]), {})
    BY <1>1, <1>3, <2>1, ChunkStatements, AutoCommitEffect DEF MarkPolling
  <2> QED
    BY <2>1, <2>2, SerialRows, SerialChunks DEF Serial!MarkPolling
<1>4. ASSUME ClearExternalTask(s, c) PROVE IInv' /\ Serial!ClearExternalTask(c)
  <2>1. Locked(s) = {} /\ Ran(<<"poll", c>>)
    BY <1>4, BeginsIdle DEF ClearExternalTask
  <2>2. IInv' /\ Serial!Update(c, ClearChunkExternalTask(row[c]), {})
    BY <1>1, <1>4, <2>1, ChunkStatements, AutoCommitEffect DEF ClearExternalTask
  <2> QED
    BY <2>1, <2>2, SerialRows, SerialChunks DEF Serial!ClearExternalTask
<1> QED
  BY <1>2, <1>3, <1>4

LEMMA FinishSubmitStep ==
  ASSUME IInv, NEW s \in Session, NEW c \in Chunk, FinishSubmit(s, c)
  PROVE  IInv' /\ (Serial!FinishSubmit(c) \/ UNCHANGED rows)
<1> DEFINE first == On("FinishSubmit", c, "LockTranscriptionRun")
           new   == SetChunkSubmitted(row[c])
<1> USE RowNames DEF Transactions, Statements
<1>1. Stands(s) /\ doing[s] \in Doing
  BY DEF IInv, Stands
<1>2. CASE Begin(s, <<"submit", c>>) /\ One(s, c, new, first)
  <2>1. ASSUME NEW u \in new, Wrote(s, c, u, first) PROVE Stands(s)'
    <3>1. Ran(<<"submit", c>>)' /\ Locked(s)' = {c}
      BY <1>2, <2>1, BeginsIdle DEF Wrote, rows, Ran
    <3>2. /\ doing'[s] \in Doing /\ doing'[s].tx = "FinishSubmit" /\ doing'[s].of = c
          /\ doing'[s].at = "LockTranscriptionRun"
      BY <2>1, OnDoes DEF Wrote
    <3>3. write'[s][c] = u /\ row' = row
      BY <2>1 DEF Wrote, rows
    <3> HIDE DEF Transactions, Statements
    <3> QED
      BY <2>1, <3>1, <3>2, <3>3 DEF Stands, InHands, Holds, Of
  <2> QED
    BY <1>2, <2>1, OneIInv
<1>3. CASE At(s, "FinishSubmit", "LockTranscriptionRun") /\ Of(s) = c
           /\ LockTranscriptionRun(s, Then(s, "COMMIT"))
  <2>1. Locked(s) = {c} /\ Ran(<<"submit", c>>) /\ write[s][c] \in new
    BY <1>1, <1>3 DEF At, Stands, InHands, Holds
  <2>2. Writes(s, "run", {row["run"]}) /\ Set(s, Then(s, "COMMIT"))
    BY <1>3, <2>1 DEF LockTranscriptionRun, Seen
  <2>3. ASSUME Wrote(s, "run", row["run"], Then(s, "COMMIT")) PROVE Stands(s)'
    BY <1>1, <1>3, <2>1, <2>3, ThenDoes
       DEF At, Stands, InHands, Holds, Of, Unchanged, Wrote, rows, Ran
  <2> QED
    BY <2>2, <2>3, WriteIInv
<1>4. CASE At(s, "FinishSubmit", "COMMIT") /\ Of(s) = c /\ Commit(s, {<<"poll", c>>})
  <2>1. IInv'
    BY <1>4, CommitIInv DEF At
  <2>2. /\ Locked(s) = {c, "run"} /\ Unchanged(s, "run")
        /\ Ran(<<"submit", c>>) /\ write[s][c] \in new
    BY <1>1, <1>4 DEF At, Stands, InHands, Holds
  <2>3. Serial!Update(c, new, {<<"poll", c>>})
    BY <1>4, <2>2, CommitsUpdate
  <2>4. Serial!FinishSubmit(c)
    BY <2>2, <2>3, SerialRows, SerialChunks DEF Serial!FinishSubmit
  <2> QED
    BY <2>1, <2>4
<1> QED
  BY <1>2, <1>3, <1>4 DEF FinishSubmit, Hands

LEMMA FinishPollStep ==
  ASSUME IInv, NEW s \in Session, NEW c \in Chunk, FinishPoll(s, c)
  PROVE  IInv' /\ (Serial!FinishPoll(c) \/ UNCHANGED rows)
<1> DEFINE first == On("FinishPoll", c, "LockTranscriptionRun")
           new   == SetChunkResultReady(row[c])
<1> USE RowNames DEF Transactions, Statements
<1>1. Stands(s) /\ doing[s] \in Doing
  BY DEF IInv, Stands
<1>2. CASE Begin(s, <<"poll", c>>) /\ One(s, c, new, first)
  <2>1. ASSUME NEW u \in new, Wrote(s, c, u, first) PROVE Stands(s)'
    <3>1. Ran(<<"poll", c>>)' /\ Locked(s)' = {c}
      BY <1>2, <2>1, BeginsIdle DEF Wrote, rows, Ran
    <3>2. /\ doing'[s] \in Doing /\ doing'[s].tx = "FinishPoll" /\ doing'[s].of = c
          /\ doing'[s].at = "LockTranscriptionRun"
      BY <2>1, OnDoes DEF Wrote
    <3>3. write'[s][c] = u /\ row' = row
      BY <2>1 DEF Wrote, rows
    <3> HIDE DEF Transactions, Statements
    <3> QED
      BY <2>1, <3>1, <3>2, <3>3 DEF Stands, InHands, Holds, Of
  <2> QED
    BY <1>2, <2>1, OneIInv
<1>3. CASE At(s, "FinishPoll", "LockTranscriptionRun") /\ Of(s) = c
           /\ LockTranscriptionRun(s, Then(s, "COMMIT"))
  <2>1. Locked(s) = {c} /\ Ran(<<"poll", c>>) /\ write[s][c] \in new
    BY <1>1, <1>3 DEF At, Stands, InHands, Holds
  <2>2. Writes(s, "run", {row["run"]}) /\ Set(s, Then(s, "COMMIT"))
    BY <1>3, <2>1 DEF LockTranscriptionRun, Seen
  <2>3. ASSUME Wrote(s, "run", row["run"], Then(s, "COMMIT")) PROVE Stands(s)'
    BY <1>1, <1>3, <2>1, <2>3, ThenDoes
       DEF At, Stands, InHands, Holds, Of, Unchanged, Wrote, rows, Ran
  <2> QED
    BY <2>2, <2>3, WriteIInv
<1>4. CASE At(s, "FinishPoll", "COMMIT") /\ Of(s) = c /\ Commit(s, {<<"ingest", c>>})
  <2>1. IInv'
    BY <1>4, CommitIInv DEF At
  <2>2. /\ Locked(s) = {c, "run"} /\ Unchanged(s, "run")
        /\ Ran(<<"poll", c>>) /\ write[s][c] \in new
    BY <1>1, <1>4 DEF At, Stands, InHands, Holds
  <2>3. Serial!Update(c, new, {<<"ingest", c>>})
    BY <1>4, <2>2, CommitsUpdate
  <2>4. Serial!FinishPoll(c)
    BY <2>2, <2>3, SerialRows, SerialChunks DEF Serial!FinishPoll
  <2> QED
    BY <2>1, <2>4
<1> QED
  BY <1>2, <1>3, <1>4 DEF FinishPoll, Hands
LEMMA FinishRenderStep ==
  ASSUME IInv, NEW s \in Session, NEW c \in Chunk, FinishRender(s, c)
  PROVE  IInv' /\ (Serial!FinishRender(c) \/ UNCHANGED rows)
<1> DEFINE first == On("FinishRender", c, "LockTranscriptionRun")
           all   == \A d \in Chunk : ListRunChunks(s)[d].object
           last  == [Then(s, "COMMIT") EXCEPT !.all = all]
           jobs  == {<<"submit", c>>} \cup
                      IF doing[s].all THEN {<<"clean", "prepared">>} ELSE {}
<1> USE RowNames
<1>1. Stands(s) /\ doing[s] \in Doing /\ row[c] \in ChunkRow
  BY DEF IInv, RowsOK, Stands
<1>2. CASE Begin(s, <<"render", c>>) /\ One(s, c, SetChunkRendered(row[c]), first)
  <2>1. ASSUME NEW u \in SetChunkRendered(row[c]), Wrote(s, c, u, first) PROVE Stands(s)'
    <3>1. Ran(<<"render", c>>)' /\ Locked(s)' = {c} /\ write'[s][c] = u /\ row' = row
      BY <1>2, <2>1, BeginsIdle DEF Wrote, rows, Ran
    <3>2. /\ doing'[s] \in Doing /\ doing'[s].tx = "FinishRender" /\ doing'[s].of = c
          /\ doing'[s].at = "LockTranscriptionRun"
      BY <2>1, OnDoes DEF Wrote, Transactions, Statements
    <3> QED
      BY <2>1, <3>1, <3>2 DEF Stands, InFinishRender, Holds, Of
  <2> QED
    BY <1>2, <2>1, OneIInv
<1>3. CASE At(s, "FinishRender", "LockTranscriptionRun") /\ Of(s) = c
           /\ LockTranscriptionRun(s, Then(s, "ListRunChunks"))
  <2>1. Locked(s) = {c} /\ Ran(<<"render", c>>) /\ write[s][c] \in SetChunkRendered(row[c])
    BY <1>1, <1>3 DEF At, Stands, InFinishRender, Holds
  <2>2. Writes(s, "run", {row["run"]}) /\ Set(s, Then(s, "ListRunChunks"))
    BY <1>3, <2>1 DEF LockTranscriptionRun, Seen
  <2>3. ASSUME Wrote(s, "run", row["run"], Then(s, "ListRunChunks")) PROVE Stands(s)'
    <3>1. /\ doing'[s] \in Doing /\ doing'[s].tx = "FinishRender" /\ doing'[s].of = c
          /\ doing'[s].at = "ListRunChunks"
      BY <1>1, <1>3, <2>3, ThenDoes DEF Wrote, At, Of, Statements
    <3> QED
      BY <2>1, <2>3, <3>1 DEF Stands, InFinishRender, Holds, Of, Unchanged, Wrote, rows, Ran
  <2> QED
    BY <2>2, <2>3, WriteIInv
<1>4. CASE At(s, "FinishRender", "ListRunChunks") /\ Of(s) = c /\ Set(s, last) /\ UNCHANGED write
  <2>1. /\ Locked(s) = {c, "run"} /\ Unchanged(s, "run")
        /\ Ran(<<"render", c>>) /\ write[s][c] \in SetChunkRendered(row[c])
    BY <1>1, <1>4 DEF At, Stands, InFinishRender, Holds
  <2>2. all <=> Rendered \cup {c} = Chunk
    <3>1. write[s][c].object = TRUE
      BY <1>1, <2>1 DEF SetChunkRendered, Where, ChunkRow
    <3>2. \A d \in Chunk : ListRunChunks(s)[d].object <=> d = c \/ row[d].object
      BY <2>1, <3>1 DEF ListRunChunks, Seen
    <3> QED
      BY <3>2 DEF Rendered
  <2>3. all \in BOOLEAN
    OBVIOUS
  <2> HIDE DEF all
  <2>4. /\ last \in Doing /\ last.tx = "FinishRender" /\ last.of = c
        /\ last.at = "COMMIT" /\ last.all = all
    BY <1>1, <1>4, <2>3, ThenDoes DEF At, Of, Doing, Statements
  <2>5. ASSUME Kept(s, last) PROVE Stands(s)'
    <3>1. Locked(s)' = Locked(s) /\ write'[s] = write[s] /\ row' = row /\ Rendered' = Rendered
      BY <2>5 DEF Kept, Locked, rows, Rendered
    <3>2. Ran(<<"render", c>>)' /\ Unchanged(s, "run")'
      BY <2>1, <2>5 DEF Kept, rows, Ran, Unchanged
    <3> QED
      BY <2>1, <2>2, <2>4, <2>5, <3>1, <3>2 DEF Stands, InFinishRender, Holds, Of, Kept
  <2> QED
    BY <1>4, <2>5, SetIInv
<1>5. CASE At(s, "FinishRender", "COMMIT") /\ Of(s) = c /\ Commit(s, jobs)
  <2>1. \A d \in Chunk : <<"render", d>> \notin jobs
    OBVIOUS
  <2>2. IInv'
    BY <1>5, <2>1, CommitIInv DEF At
  <2>3. /\ Locked(s) = {c, "run"} /\ Unchanged(s, "run") /\ Ran(<<"render", c>>)
        /\ write[s][c] \in SetChunkRendered(row[c]) /\ (doing[s].all <=> Rendered \cup {c} = Chunk)
    BY <1>1, <1>5 DEF At, Stands, InFinishRender, Holds
  <2>4. Serial!Update(c, SetChunkRendered(row[c]), jobs)
    BY <1>5, <2>3, CommitsUpdate
  <2>5. Serial!Rendered = Rendered
    BY DEF Serial!Rendered, Rendered
  <2>6. Serial!FinishRender(c)
    BY <2>3, <2>4, <2>5, SerialRows, SerialChunks DEF Serial!FinishRender
  <2> QED
    BY <2>2, <2>6
<1> QED
  BY <1>2, <1>3, <1>4, <1>5 DEF FinishRender

LEMMA FinishIngestStep ==
  ASSUME IInv, NEW s \in Session, NEW c \in Chunk, FinishIngest(s, c)
  PROVE  IInv' /\ (Serial!FinishIngest(c) \/ UNCHANGED rows)
<1> DEFINE first == On("FinishIngest", c, "IncrementRunCompletedChunks")
           jobs  == {<<"clean", c>>} \cup
                      IF Seen(s, "run").completed = Seen(s, "run").total
                      THEN {<<"align", "run">>} ELSE {}
<1> USE RowNames
<1>1. Stands(s) /\ doing[s] \in Doing /\ DOMAIN row = Rows
  BY DEF IInv, RowsOK, Stands
<1>2. CASE Begin(s, <<"ingest", c>>) /\ One(s, c, SetChunkIngested(row[c]), first)
  <2>1. ASSUME NEW u \in SetChunkIngested(row[c]), Wrote(s, c, u, first) PROVE Stands(s)'
    <3>1. Ran(<<"ingest", c>>)' /\ Locked(s)' = {c} /\ write'[s][c] = u /\ row' = row
      BY <1>2, <2>1, BeginsIdle DEF Wrote, rows, Ran
    <3>2. /\ doing'[s] \in Doing /\ doing'[s].tx = "FinishIngest" /\ doing'[s].of = c
          /\ doing'[s].at = "IncrementRunCompletedChunks"
      BY <2>1, OnDoes DEF Wrote, Transactions, Statements
    <3> QED
      BY <2>1, <3>1, <3>2 DEF Stands, InFinishIngest, Holds, Of
  <2> QED
    BY <1>2, <2>1, OneIInv
<1>3. CASE At(s, "FinishIngest", "IncrementRunCompletedChunks") /\ Of(s) = c
           /\ One(s, "run", IncrementRunCompletedChunks(row["run"]), Then(s, "COMMIT"))
  <2>1. Locked(s) = {c} /\ Ran(<<"ingest", c>>) /\ write[s][c] \in SetChunkIngested(row[c])
    BY <1>1, <1>3 DEF At, Stands, InFinishIngest, Holds
  <2>2. ASSUME NEW u \in IncrementRunCompletedChunks(row["run"]),
               Wrote(s, "run", u, Then(s, "COMMIT"))
        PROVE  Stands(s)'
    <3>1. /\ doing'[s] \in Doing /\ doing'[s].tx = "FinishIngest" /\ doing'[s].of = c
          /\ doing'[s].at = "COMMIT"
      BY <1>1, <1>3, <2>2, ThenDoes DEF Wrote, At, Of, Statements
    <3> QED
      BY <2>1, <2>2, <3>1 DEF Stands, InFinishIngest, Holds, Of, Wrote, rows, Ran
  <2> QED
    BY <1>3, <2>2, OneIInv
<1>4. CASE At(s, "FinishIngest", "COMMIT") /\ Of(s) = c /\ Commit(s, jobs)
  <2>1. \A d \in Chunk : <<"render", d>> \notin jobs
    OBVIOUS
  <2>2. IInv'
    BY <1>4, <2>1, CommitIInv DEF At
  <2>3. /\ Locked(s) = {c, "run"} /\ Ran(<<"ingest", c>>)
        /\ write[s][c] \in SetChunkIngested(row[c])
        /\ write[s]["run"] \in IncrementRunCompletedChunks(row["run"])
    BY <1>1, <1>4 DEF At, Stands, InFinishIngest, Holds
  <2>4. Seen(s, "run") = write[s]["run"]
    BY <2>3 DEF Seen
  <2>5. row' = [row EXCEPT ![c] = write[s][c], !["run"] = write[s]["run"]]
    BY <1>1, <1>4, <2>3 DEF Commit, Seen
  <2>6. Serial!FinishIngest(c)
    <3> DEFINE r == write[s]["run"]
    <3>1. Serial!Enqueue({<<"clean", c>>} \cup
                           IF r.completed = r.total THEN {<<"align", "run">>} ELSE {})
      BY <1>4, <2>4, SerialRows DEF Commit
    <3>2. /\ Serial!Ran(<<"ingest", c>>) /\ write[s][c] \in Serial!SetChunkIngested(row[c])
          /\ r \in Serial!IncrementRunCompletedChunks(row["run"])
      BY <2>3, SerialRows, SerialRun, SerialChunks
    <3> HIDE DEF r
    <3> QED
      BY <2>5, <3>1, <3>2 DEF Serial!FinishIngest, r
  <2> QED
    BY <2>2, <2>6
<1> QED
  BY <1>2, <1>3, <1>4 DEF FinishIngest
LEMMA ActivateTranscriptStep ==
  ASSUME IInv, NEW s \in Session, ActivateTranscript(s)
  PROVE  IInv' /\ (Serial!ActivateTranscript \/ UNCHANGED rows)
<1> DEFINE tx      == "ActivateTranscript"
           first   == On(tx, "run", "CreateTranscriptVersion")
           version == CreateTranscriptVersion(DeactivateTranscriptVersions(row["transcripts"]))
           status  == SetEpisodeTranscriptionStatus(row["episode"], "completed")
           jobs    == {<<"clean", "audio">>, <<"clean", "chunks">>}
<1> USE RowNames
<1>1. Stands(s) /\ doing[s] \in Doing /\ DOMAIN row = Rows
  BY DEF IInv, RowsOK, Stands
<1>2. CASE Begin(s, <<"merge", "run">>) /\ LockTranscriptionRun(s, first)
  <2>1. Writes(s, "run", {row["run"]}) /\ Set(s, first)
    BY <1>2, BeginsIdle DEF LockTranscriptionRun, Seen
  <2>2. ASSUME Wrote(s, "run", row["run"], first) PROVE Stands(s)'
    <3>1. /\ doing'[s] \in Doing /\ doing'[s].tx = tx
          /\ doing'[s].at = "CreateTranscriptVersion"
      BY <2>2, OnDoes DEF Wrote, Transactions, Statements
    <3>2. Locked(s)' = {"run"} /\ Ran(<<"merge", "run">>)' /\ Unchanged(s, "run")'
      BY <1>2, <2>2, BeginsIdle DEF Wrote, rows, Ran, Unchanged
    <3> QED
      BY <3>1, <3>2 DEF Stands, InActivateTranscript, Holds
  <2> QED
    BY <2>1, <2>2, WriteIInv
<1>3. CASE At(s, tx, "CreateTranscriptVersion")
           /\ One(s, "transcripts", {version}, Then(s, "CompleteTranscriptionRun"))
  <2>1. Locked(s) = {"run"} /\ Unchanged(s, "run") /\ Ran(<<"merge", "run">>)
    BY <1>1, <1>3 DEF At, Stands, InActivateTranscript, Holds
  <2>2. ASSUME Wrote(s, "transcripts", version, Then(s, "CompleteTranscriptionRun"))
        PROVE  Stands(s)'
    <3>1. /\ doing'[s] \in Doing /\ doing'[s].tx = tx
          /\ doing'[s].at = "CompleteTranscriptionRun"
      BY <1>1, <1>3, <2>2, ThenDoes DEF Wrote, At, Statements
    <3>2. /\ Locked(s)' = {"run", "transcripts"} /\ Ran(<<"merge", "run">>)'
          /\ Unchanged(s, "run")' /\ Activated(s)'
      BY <2>1, <2>2 DEF Wrote, rows, Ran, Unchanged, Activated
    <3> QED
      BY <3>1, <3>2 DEF Stands, InActivateTranscript, Holds
  <2> QED
    BY <1>3, <2>2, OneIInv
<1>4. CASE At(s, tx, "CompleteTranscriptionRun")
           /\ One(s, "run", CompleteTranscriptionRun(Seen(s, "run")),
                  Then(s, "SetEpisodeTranscriptionStatus"))
  <2>1. /\ Locked(s) = {"run", "transcripts"} /\ Unchanged(s, "run") /\ Activated(s)
        /\ Ran(<<"merge", "run">>)
    BY <1>1, <1>4 DEF At, Stands, InActivateTranscript, Holds
  <2>2. Seen(s, "run") = row["run"]
    BY <2>1 DEF Seen, Unchanged
  <2>3. ASSUME NEW u \in CompleteTranscriptionRun(row["run"]),
               Wrote(s, "run", u, Then(s, "SetEpisodeTranscriptionStatus"))
        PROVE  Stands(s)'
    <3>1. /\ doing'[s] \in Doing /\ doing'[s].tx = tx
          /\ doing'[s].at = "SetEpisodeTranscriptionStatus"
      BY <1>1, <1>4, <2>3, ThenDoes DEF Wrote, At, Statements
    <3>2. /\ Locked(s)' = {"run", "transcripts"} /\ Ran(<<"merge", "run">>)' /\ Activated(s)'
          /\ write'[s]["run"] = u /\ row' = row
      BY <2>1, <2>3 DEF Wrote, rows, Ran, Activated
    <3> QED
      BY <3>1, <3>2 DEF Stands, InActivateTranscript, Holds
  <2> QED
    BY <1>4, <2>2, <2>3, OneIInv
<1>5. CASE At(s, tx, "SetEpisodeTranscriptionStatus")
           /\ Exec(s, "episode", {status}, Then(s, "COMMIT"))
  <2>1. /\ Locked(s) = {"run", "transcripts"} /\ Ran(<<"merge", "run">>) /\ Activated(s)
        /\ write[s]["run"] \in CompleteTranscriptionRun(row["run"])
    BY <1>1, <1>5 DEF At, Stands, InActivateTranscript, Holds
  <2>2. ASSUME Wrote(s, "episode", status, Then(s, "COMMIT")) PROVE Stands(s)'
    <3>1. /\ doing'[s] \in Doing /\ doing'[s].tx = tx /\ doing'[s].at = "COMMIT"
      BY <1>1, <1>5, <2>2, ThenDoes DEF Wrote, At, Statements
    <3>2. /\ Locked(s)' = {"run", "transcripts", "episode"} /\ Ran(<<"merge", "run">>)'
          /\ Activated(s)' /\ write'[s]["run"] = write[s]["run"] /\ row' = row
          /\ write'[s]["episode"] = status
      BY <2>1, <2>2 DEF Wrote, rows, Ran, Activated
    <3> QED
      BY <2>1, <3>1, <3>2 DEF Stands, InActivateTranscript, Holds
  <2> QED
    BY <1>5, <2>2, ExecIInv
<1>6. CASE At(s, tx, "COMMIT") /\ Commit(s, jobs)
  <2>1. IInv'
    BY <1>6, CommitIInv DEF At
  <2>2. /\ Locked(s) = {"run", "transcripts", "episode"} /\ Ran(<<"merge", "run">>)
        /\ write[s]["run"] \in CompleteTranscriptionRun(row["run"])
        /\ write[s]["transcripts"] = version /\ write[s]["episode"] = status
    BY <1>1, <1>6 DEF At, Stands, InActivateTranscript, Holds, Activated
  <2>3. row' = [row EXCEPT !["run"] = write[s]["run"], !["episode"] = status,
                           !["transcripts"] = version]
    BY <1>1, <1>6, <2>2 DEF Commit, Seen
  <2>4. Serial!ActivateTranscript
    <3>1. Serial!Enqueue(jobs)
      BY <1>6, SerialRows DEF Commit
    <3> QED
      BY <2>2, <2>3, <3>1, SerialRows, SerialRun, SerialEpisode DEF Serial!ActivateTranscript
  <2> QED
    BY <2>1, <2>4
<1> QED
  BY <1>2, <1>3, <1>4, <1>5, <1>6 DEF ActivateTranscript

\* A loop over Windows visits one chunk after the other.
LEMMA VisitsNext ==
  ASSUME NEW s \in Session, doing[s].done \in 0..Len(Windows)
  PROVE  /\ Visited(s) \subseteq Chunk
         /\ doing[s].done = 0 => Visited(s) = {}
         /\ doing[s].done = Len(Windows) => Visited(s) = Chunk
         /\ doing[s].done < Len(Windows) /\ doing'[s].done = doing[s].done + 1 =>
              /\ doing'[s].done \in 1..Len(Windows)
              /\ Windows[doing'[s].done] \in Chunk
              /\ Visited(s)' = Visited(s) \cup {Windows[doing'[s].done]}
<1>1. Visited(s) \subseteq Chunk /\ (doing[s].done = 0 => Visited(s) = {})
  BY WindowsOfChunks DEF Visited
<1>2. doing[s].done = Len(Windows) => Visited(s) = Chunk
  BY WindowsOfChunks DEF Visited
<1>3. ASSUME doing[s].done < Len(Windows), doing'[s].done = doing[s].done + 1
      PROVE  /\ doing'[s].done \in 1..Len(Windows)
             /\ Windows[doing'[s].done] \in Chunk
             /\ Visited(s)' = Visited(s) \cup {Windows[doing'[s].done]}
  <2>1. doing'[s].done \in 1..Len(Windows)
    BY <1>3, WindowsOfChunks
  <2>2. 1..doing'[s].done = (1..doing[s].done) \cup {doing'[s].done}
    BY <1>3, WindowsOfChunks
  <2> QED
    BY <2>1, <2>2, WindowsOfChunks DEF Visited
<1> QED
  BY <1>1, <1>2, <1>3
LEMMA FinishAlignmentStep ==
  ASSUME IInv, NEW s \in Session, FinishAlignment(s)
  PROVE  IInv' /\ (Serial!FinishAlignment \/ UNCHANGED rows)
<1> DEFINE tx    == "FinishAlignment"
           first == On(tx, "run", "SetChunkSpeakerMap")
           n     == doing[s].done + 1
           c     == Windows[n]
           next  == [doing[s] EXCEPT !.done = n,
                       !.at = IF n = Len(Windows) THEN "SetRunMerging" ELSE @]
<1> USE RowNames
<1>1. /\ Stands(s) /\ doing[s] \in Doing /\ DOMAIN row = Rows
      /\ \A d \in Chunk : row[d] \in ChunkRow
  BY DEF IInv, RowsOK, Stands
<1>2. CASE Begin(s, <<"align", "run">>) /\ row["run"].status = "aligning"
           /\ LockTranscriptionRun(s, first)
  <2>1. Writes(s, "run", {row["run"]}) /\ Set(s, first)
    BY <1>2, BeginsIdle DEF LockTranscriptionRun, Seen
  <2>2. ASSUME Wrote(s, "run", row["run"], first) PROVE Stands(s)'
    <3>1. /\ doing'[s] \in Doing /\ doing'[s].tx = tx
          /\ doing'[s].at = "SetChunkSpeakerMap" /\ doing'[s].done = 0
      BY <2>2, OnDoes DEF Wrote, Transactions, Statements
    <3>2. /\ Locked(s)' = {"run"} /\ Ran(<<"align", "run">>)' /\ Unchanged(s, "run")'
          /\ row' = row
      BY <1>2, <2>2, BeginsIdle DEF Wrote, rows, Ran, Unchanged
    <3>3. Visited(s)' = {}
      BY <3>1 DEF Visited
    <3> QED
      BY <1>2, <3>1, <3>2, <3>3, WindowsOfChunks DEF Stands, InFinishAlignment
  <2> QED
    BY <2>1, <2>2, WriteIInv
<1>3. CASE At(s, tx, "SetChunkSpeakerMap") /\ Exec(s, c, SetChunkSpeakerMap(row[c]), next)
  <2>1. /\ Ran(<<"align", "run">>) /\ row["run"].status = "aligning"
        /\ doing[s].done \in 0..Len(Windows) /\ doing[s].done < Len(Windows)
        /\ Locked(s) = {"run"} \cup (Visited(s) \cap Completed)
        /\ \A d \in Visited(s) \cap Completed : write[s][d] = [row[d] EXCEPT !.map = TRUE]
        /\ Unchanged(s, "run")
    BY <1>1, <1>3 DEF At, Stands, InFinishAlignment
  <2>2. /\ next \in Doing /\ next.tx = tx /\ next.done = n /\ n \in 1..Len(Windows)
        /\ next.at = IF n = Len(Windows) THEN "SetRunMerging" ELSE "SetChunkSpeakerMap"
    <3>1. n \in 1..Len(Windows) /\ n \in Nat
      BY <2>1, WindowsOfChunks
    <3>2. doing[s].tx = tx /\ doing[s].at = "SetChunkSpeakerMap"
      BY <1>3 DEF At
    <3> HIDE DEF n
    <3> QED
      BY <1>1, <3>1, <3>2 DEF Doing, Statements
  <2>3. ASSUME doing'[s] = next, UNCHANGED rows
        PROVE  /\ Visited(s)' = Visited(s) \cup {c} /\ c \in Chunk /\ Completed' = Completed
               /\ row' = row /\ Ran(<<"align", "run">>)'
    BY <2>1, <2>2, <2>3, VisitsNext DEF rows, Completed, Ran
  <2> HIDE DEF c, next
  <2>4. ASSUME NEW u \in SetChunkSpeakerMap(row[c]), Wrote(s, c, u, next) PROVE Stands(s)'
    <3>1. c \in Completed /\ u = [row[c] EXCEPT !.map = TRUE]
      BY <2>3, <2>4 DEF SetChunkSpeakerMap, Where, Completed, Wrote
    <3>2. /\ Locked(s)' = {"run"} \cup (Visited(s) \cap Completed)'
          /\ \A d \in (Visited(s) \cap Completed)' : write'[s][d] = [row'[d] EXCEPT !.map = TRUE]
          /\ Unchanged(s, "run")'
      <4>1. /\ Visited(s)' = Visited(s) \cup {c} /\ c \in Chunk /\ Completed' = Completed
            /\ row' = row
        BY <2>3, <2>4 DEF Wrote
      <4>2. /\ Locked(s)' = Locked(s) \cup {c} /\ write'[s][c] = u
            /\ \A y \in Locked(s) \ {c} : write'[s][y] = write[s][y]
        BY <2>4 DEF Wrote
      <4>3. Locked(s)' = {"run"} \cup (Visited(s)' \cap Completed')
        BY <2>1, <3>1, <4>1, <4>2
      <4>4. \A d \in Visited(s)' \cap Completed' : write'[s][d] = [row'[d] EXCEPT !.map = TRUE]
        BY <2>1, <3>1, <4>1, <4>2
      <4>5. Unchanged(s, "run")'
        BY <2>1, <4>1, <4>2 DEF Unchanged
      <4> QED
        BY <4>3, <4>4, <4>5
    <3>3. doing'[s] = next
      BY <2>4 DEF Wrote
    <3> QED
      BY <2>1, <2>2, <2>3, <2>4, <3>2, <3>3 DEF Stands, InFinishAlignment, Wrote
  <2>5. ASSUME SetChunkSpeakerMap(row[c]) = {}, Kept(s, next) PROVE Stands(s)'
    <3>1. c \notin Completed
      BY <2>5 DEF SetChunkSpeakerMap, Where, Completed
    <3>2. Locked(s)' = Locked(s) /\ write'[s] = write[s] /\ doing'[s] = next
      BY <2>5 DEF Kept, Locked
    <3>3. /\ Locked(s)' = {"run"} \cup (Visited(s) \cap Completed)'
          /\ \A d \in (Visited(s) \cap Completed)' : write'[s][d] = [row'[d] EXCEPT !.map = TRUE]
          /\ Unchanged(s, "run")'
      BY <2>1, <2>3, <2>5, <3>1, <3>2 DEF Kept, Unchanged
    <3> QED
      BY <2>1, <2>2, <2>3, <2>5, <3>2, <3>3 DEF Stands, InFinishAlignment, Kept
  <2> QED
    BY <1>3, <2>4, <2>5, ExecIInv
<1>4. CASE At(s, tx, "SetRunMerging")
           /\ One(s, "run", SetRunMerging(Seen(s, "run")), Then(s, "COMMIT"))
  <2>1. /\ Ran(<<"align", "run">>) /\ row["run"].status = "aligning"
        /\ doing[s].done = Len(Windows) /\ doing[s].done \in 0..Len(Windows)
        /\ Locked(s) = {"run"} \cup (Visited(s) \cap Completed)
        /\ \A d \in Visited(s) \cap Completed : write[s][d] = [row[d] EXCEPT !.map = TRUE]
        /\ Unchanged(s, "run")
    BY <1>1, <1>4 DEF At, Stands, InFinishAlignment
  <2>2. Seen(s, "run") = row["run"]
    BY <2>1 DEF Seen, Unchanged
  <2>3. ASSUME NEW u \in SetRunMerging(row["run"]), Wrote(s, "run", u, Then(s, "COMMIT"))
        PROVE  Stands(s)'
    <3>1. /\ doing'[s] \in Doing /\ doing'[s].tx = tx /\ doing'[s].at = "COMMIT"
          /\ doing'[s].done = doing[s].done
      BY <1>1, <1>4, <2>3, ThenDoes DEF Wrote, At, Statements
    <3>2. Visited(s)' = Visited(s) /\ Completed' = Completed /\ row' = row
          /\ Ran(<<"align", "run">>)'
      BY <2>1, <2>3, <3>1 DEF Wrote, rows, Ran, Visited, Completed
    <3>3. Visited(s) \subseteq Chunk
      BY <2>1, VisitsNext
    <3>4. /\ Locked(s)' = {"run"} \cup (Visited(s) \cap Completed)'
          /\ \A d \in (Visited(s) \cap Completed)' : write'[s][d] = [row'[d] EXCEPT !.map = TRUE]
          /\ write'[s]["run"] = u
      BY <2>1, <2>3, <3>2, <3>3 DEF Wrote
    <3> QED
      BY <2>1, <3>1, <3>2, <3>4 DEF Stands, InFinishAlignment
  <2> QED
    BY <1>4, <2>2, <2>3, OneIInv
<1>5. CASE At(s, tx, "COMMIT") /\ Commit(s, {<<"merge", "run">>})
  <2>1. IInv'
    BY <1>5, CommitIInv DEF At
  <2>2. /\ Ran(<<"align", "run">>) /\ doing[s].done = Len(Windows)
        /\ doing[s].done \in 0..Len(Windows)
        /\ Locked(s) = {"run"} \cup (Visited(s) \cap Completed)
        /\ \A d \in Visited(s) \cap Completed : write[s][d] = [row[d] EXCEPT !.map = TRUE]
        /\ write[s]["run"] \in SetRunMerging(row["run"])
    BY <1>1, <1>5 DEF At, Stands, InFinishAlignment
  <2>3. Visited(s) \cap Completed = Completed /\ Completed \subseteq Chunk
    BY <2>2, VisitsNext DEF Completed
  <2>4. row' = [x \in Rows |->
          CASE x = "run" -> write[s]["run"]
            [] x \in Chunk /\ row[x].status = "completed" -> [row[x] EXCEPT !.map = TRUE]
            [] OTHER -> row[x]]
    <3>1. ASSUME NEW x \in Rows
          PROVE  Seen(s, x) =
            CASE x = "run" -> write[s]["run"]
              [] x \in Chunk /\ row[x].status = "completed" -> [row[x] EXCEPT !.map = TRUE]
              [] OTHER -> row[x]
      <4>1. CASE x = "run"
        BY <2>2, <4>1 DEF Seen
      <4>2. CASE x \in Completed
        BY <2>2, <2>3, <4>2 DEF Seen, Completed
      <4>3. CASE x # "run" /\ x \notin Completed
        BY <2>2, <2>3, <4>3 DEF Seen, Completed
      <4> QED
        BY <4>1, <4>2, <4>3
    <3> QED
      BY <1>5, <3>1 DEF Commit
  <2>5. Serial!FinishAlignment
    <3>1. Serial!Enqueue({<<"merge", "run">>}) /\ Serial!Ran(<<"align", "run">>)
      BY <1>5, <2>2, SerialRows DEF Commit
    <3>2. write[s]["run"] \in Serial!SetRunMerging(row["run"])
      BY <2>2, SerialRun
    <3> QED
      BY <2>4, <3>1, <3>2, SerialRows DEF Serial!FinishAlignment
  <2> QED
    BY <2>1, <2>5
<1> QED
  BY <1>2, <1>3, <1>4, <1>5 DEF FinishAlignment
LEMMA PlanStep ==
  ASSUME IInv, NEW s \in Session, Plan(s)
  PROVE  IInv' /\ (Serial!Plan \/ UNCHANGED rows)
<1> DEFINE first  == On("Plan", "run", "CreateTranscriptionChunk")
           n      == doing[s].done + 1
           c      == Windows[n]
           next   == [doing[s] EXCEPT !.done = n,
                        !.at = IF n = Len(Windows) THEN "SetRunTranscribing" ELSE @]
           plan   == [Absent EXCEPT !.status = "planned"]
           status == SetEpisodeTranscriptionStatus(row["episode"], "running")
<1> USE RowNames
<1>1. /\ Stands(s) /\ doing[s] \in Doing /\ DOMAIN row = Rows
      /\ row["run"].total = 0 => \A d \in Chunk : row[d] = Absent
  BY DEF IInv, RowsOK, Planned, Stands
<1>2. CASE Begin(s, <<"plan", "run">>) /\ row["run"].total = 0 /\ row["run"].prepared
           /\ LockTranscriptionRun(s, first)
  <2>1. Writes(s, "run", {row["run"]}) /\ Set(s, first)
    BY <1>2, BeginsIdle DEF LockTranscriptionRun, Seen
  <2>2. ASSUME Wrote(s, "run", row["run"], first) PROVE Stands(s)'
    <3>1. /\ doing'[s] \in Doing /\ doing'[s].tx = "Plan"
          /\ doing'[s].at = "CreateTranscriptionChunk" /\ doing'[s].done = 0
      BY <2>2, OnDoes DEF Wrote, Transactions, Statements
    <3>2. /\ Locked(s)' = {"run"} /\ Ran(<<"plan", "run">>)' /\ Unchanged(s, "run")'
          /\ row' = row
      BY <1>2, <2>2, BeginsIdle DEF Wrote, rows, Ran, Unchanged
    <3>3. Visited(s)' = {}
      BY <3>1 DEF Visited
    <3> QED
      BY <1>2, <3>1, <3>2, <3>3, WindowsOfChunks DEF Stands, InPlan, Holds
  <2> QED
    BY <2>1, <2>2, WriteIInv
<1>3. CASE At(s, "Plan", "CreateTranscriptionChunk")
           /\ One(s, c, CreateTranscriptionChunk(Seen(s, c)), next)
  <2>1. /\ Ran(<<"plan", "run">>) /\ row["run"].total = 0 /\ row["run"].prepared
        /\ doing[s].done \in 0..Len(Windows) /\ doing[s].done < Len(Windows)
        /\ Locked(s) = {"run"} \cup Visited(s)
        /\ \A d \in Visited(s) : write[s][d] = plan
        /\ Unchanged(s, "run")
    BY <1>1, <1>3 DEF At, Stands, InPlan, Holds
  <2>2. /\ next \in Doing /\ next.tx = "Plan" /\ next.done = n /\ n \in 1..Len(Windows)
        /\ next.at = IF n = Len(Windows) THEN "SetRunTranscribing" ELSE "CreateTranscriptionChunk"
    <3>1. n \in 1..Len(Windows) /\ n \in Nat
      BY <2>1, WindowsOfChunks
    <3>2. doing[s].tx = "Plan" /\ doing[s].at = "CreateTranscriptionChunk"
      BY <1>3 DEF At
    <3> HIDE DEF n
    <3> QED
      BY <1>1, <3>1, <3>2 DEF Doing, Statements
  <2>3. c \in Chunk
    BY <2>2, WindowsOfChunks
  <2>4. ASSUME NEW u \in CreateTranscriptionChunk(Seen(s, c)) PROVE u = plan
    <3>1. Seen(s, c) \in {plan, Absent}
      BY <1>1, <2>1, <2>3 DEF Seen
    <3> QED
      BY <3>1 DEF CreateTranscriptionChunk, Where, Absent
  <2>5. ASSUME Wrote(s, c, plan, next) PROVE Stands(s)'
    <3>1. doing'[s] = next /\ row' = row /\ Ran(<<"plan", "run">>)'
      BY <2>1, <2>5 DEF Wrote, rows, Ran
    <3>2. /\ Visited(s)' = Visited(s) \cup {c}
          /\ n = Len(Windows) => Visited(s)' = Chunk
      <4>1. Visited(s)' = Visited(s) \cup {c}
        BY <2>1, <2>2, <3>1, VisitsNext
      <4>2. n = Len(Windows) => Visited(s)' = Chunk
        BY <2>2, <3>1, WindowsOfChunks DEF Visited
      <4> QED
        BY <4>1, <4>2
    <3> HIDE DEF c, n, next, plan
    <3>3. /\ Locked(s)' = Locked(s) \cup {c} /\ write'[s][c] = plan
          /\ \A y \in Locked(s) \ {c} : write'[s][y] = write[s][y]
      BY <2>5 DEF Wrote
    <3>4. Locked(s)' = {"run"} \cup Visited(s)'
      BY <2>1, <3>2, <3>3
    <3>5. \A d \in Visited(s)' : write'[s][d] = plan
      BY <2>1, <3>2, <3>3
    <3>6. Unchanged(s, "run")'
      BY <2>1, <2>3, <3>1, <3>3 DEF Unchanged
    <3>7. doing'[s].done < Len(Windows) \/ doing'[s].done = Len(Windows)
      BY <2>2, <3>1, WindowsOfChunks
    <3>8. InPlan(s)'
      BY <2>1, <2>2, <3>1, <3>2, <3>4, <3>5, <3>6, <3>7, WindowsOfChunks
         DEF InPlan, Holds, plan
    <3> QED
      BY <2>2, <3>1, <3>8 DEF Stands
  <2> QED
    BY <1>3, <2>4, <2>5, OneIInv
<1>4. CASE At(s, "Plan", "SetRunTranscribing")
           /\ One(s, "run", SetRunTranscribing(Seen(s, "run"), Len(Windows)),
                  Then(s, "SetEpisodeTranscriptionStatus"))
  <2>1. /\ Ran(<<"plan", "run">>) /\ row["run"].total = 0 /\ row["run"].prepared
        /\ doing[s].done \in 0..Len(Windows) /\ doing[s].done = Len(Windows)
        /\ Locked(s) = {"run"} \cup Chunk /\ Visited(s) \subseteq Chunk
        /\ \A d \in Visited(s) : write[s][d] = plan
        /\ Unchanged(s, "run")
    BY <1>1, <1>4, VisitsNext DEF At, Stands, InPlan, Holds
  <2>2. Seen(s, "run") = row["run"]
    BY <2>1 DEF Seen, Unchanged
  <2>3. ASSUME NEW u \in SetRunTranscribing(row["run"], Len(Windows)),
               Wrote(s, "run", u, Then(s, "SetEpisodeTranscriptionStatus"))
        PROVE  Stands(s)'
    <3>1. /\ doing'[s] \in Doing /\ doing'[s].tx = "Plan"
          /\ doing'[s].at = "SetEpisodeTranscriptionStatus" /\ doing'[s].done = doing[s].done
      BY <1>1, <1>4, <2>3, ThenDoes DEF Wrote, At, Statements
    <3>2. Visited(s)' = Visited(s) /\ row' = row /\ Ran(<<"plan", "run">>)'
      BY <2>1, <2>3, <3>1 DEF Wrote, rows, Ran, Visited
    <3>3. /\ Locked(s)' = {"run"} \cup Chunk /\ write'[s]["run"] = u
          /\ \A d \in Visited(s) : write'[s][d] = plan
      BY <2>1, <2>3 DEF Wrote
    <3>4. InPlan(s)'
      BY <2>1, <2>3, <3>1, <3>2, <3>3 DEF InPlan, Holds
    <3> QED
      BY <3>1, <3>4 DEF Stands
  <2> QED
    BY <1>4, <2>2, <2>3, OneIInv
<1>5. CASE At(s, "Plan", "SetEpisodeTranscriptionStatus")
           /\ Exec(s, "episode", {status}, Then(s, "COMMIT"))
  <2>1. /\ Ran(<<"plan", "run">>) /\ row["run"].total = 0 /\ row["run"].prepared
        /\ doing[s].done \in 0..Len(Windows) /\ doing[s].done = Len(Windows)
        /\ Locked(s) = {"run"} \cup Chunk /\ Visited(s) \subseteq Chunk
        /\ \A d \in Visited(s) : write[s][d] = plan
        /\ write[s]["run"] \in SetRunTranscribing(row["run"], Len(Windows))
    BY <1>1, <1>5, VisitsNext DEF At, Stands, InPlan, Holds
  <2>2. ASSUME Wrote(s, "episode", status, Then(s, "COMMIT")) PROVE Stands(s)'
    <3>1. /\ doing'[s] \in Doing /\ doing'[s].tx = "Plan"
          /\ doing'[s].at = "COMMIT" /\ doing'[s].done = doing[s].done
      BY <1>1, <1>5, <2>2, ThenDoes DEF Wrote, At, Statements
    <3>2. Visited(s)' = Visited(s) /\ row' = row /\ Ran(<<"plan", "run">>)'
      BY <2>1, <2>2, <3>1 DEF Wrote, rows, Ran, Visited
    <3>3. /\ Locked(s)' = {"run", "episode"} \cup Chunk /\ write'[s]["episode"] = status
          /\ write'[s]["run"] = write[s]["run"]
          /\ \A d \in Visited(s) : write'[s][d] = plan
      BY <2>1, <2>2 DEF Wrote
    <3>4. InPlan(s)'
      BY <2>1, <2>2, <3>1, <3>2, <3>3 DEF InPlan, Holds
    <3> QED
      BY <3>1, <3>4 DEF Stands
  <2> QED
    BY <1>5, <2>2, ExecIInv
<1>6. CASE At(s, "Plan", "COMMIT") /\ Commit(s, {"render"} \X Chunk)
  <2>1. /\ Ran(<<"plan", "run">>) /\ row["run"].total = 0 /\ row["run"].prepared
        /\ Locked(s) = {"run", "episode"} \cup Chunk /\ Visited(s) = Chunk
        /\ \A d \in Visited(s) : write[s][d] = plan
        /\ write[s]["run"] \in SetRunTranscribing(row["run"], Len(Windows))
        /\ write[s]["episode"] = status
    BY <1>1, <1>6, VisitsNext DEF At, Stands, InPlan, Holds
  <2>2. \A d \in Chunk : row'[d] = plan
    BY <1>6, <2>1, CommitEffect
  <2>3. IInv'
    BY <1>6, <2>2, CommitIInv DEF At, Absent
  <2>4. row' = [x \in Rows |-> CASE x = "run"     -> write[s]["run"]
                                 [] x = "episode" -> status
                                 [] x \in Chunk   -> plan
                                 [] OTHER         -> row[x]]
    <3>1. ASSUME NEW x \in Rows
          PROVE  Seen(s, x) = CASE x = "run"     -> write[s]["run"]
                                [] x = "episode" -> status
                                [] x \in Chunk   -> plan
                                [] OTHER         -> row[x]
      <4>1. CASE x = "run"
        BY <2>1, <4>1 DEF Seen
      <4>2. CASE x = "episode"
        BY <2>1, <4>2 DEF Seen
      <4>3. CASE x \in Chunk
        BY <2>1, <4>3 DEF Seen
      <4>4. CASE x \notin {"run", "episode"} \cup Chunk
        BY <2>1, <4>4 DEF Seen
      <4> QED
        BY <4>1, <4>2, <4>3, <4>4
    <3> QED
      BY <1>6, <3>1 DEF Commit
  <2>5. row' = [x \in Serial!Rows |->
          CASE x = "run"     -> write[s]["run"]
            [] x = "episode" -> Serial!SetEpisodeTranscriptionStatus(row[x], "running")
            [] x \in Chunk   -> [Serial!Absent EXCEPT !.status = "planned"]
            [] OTHER         -> row[x]]
    BY <2>4, SerialRows, SerialEpisode
  <2>6. Serial!Plan
    <3>1. Serial!Enqueue({"render"} \X Chunk) /\ Serial!Ran(<<"plan", "run">>)
      BY <1>6, <2>1, SerialRows DEF Commit
    <3>2. write[s]["run"] \in Serial!SetRunTranscribing(row["run"], Cardinality(Chunk))
      BY <2>1, SerialRun, WindowsOfChunks
    <3>3. \E r \in Serial!SetRunTranscribing(row["run"], Cardinality(Chunk)) :
            row' = [x \in Serial!Rows |->
              CASE x = "run"     -> r
                [] x = "episode" -> Serial!SetEpisodeTranscriptionStatus(row[x], "running")
                [] x \in Chunk   -> [Serial!Absent EXCEPT !.status = "planned"]
                [] OTHER         -> row[x]]
      BY <2>5, <3>2
    <3> QED
      BY <2>1, <3>1, <3>3, SerialCardinality DEF Serial!Plan
  <2> QED
    BY <2>3, <2>6
<1> QED
  BY <1>2, <1>3, <1>4, <1>5, <1>6 DEF Plan
\* The row that After chooses.
LEMMA SerialAfter ==
  ASSUME NEW old
  PROVE  Serial!After({}, old) = old /\ \A v : Serial!After({v}, old) = v
  BY DEF Serial!After

LEMMA FailJobStep ==
  ASSUME IInv, NEW s \in Session, NEW x \in Chunk \cup {"run"}, FailJob(s, x)
  PROVE  IInv' /\ (Serial!FailJob(x) \/ UNCHANGED rows)
<1> DEFINE first  == On("FailJob", x, "FailTranscriptionRun")
           r      == FailTranscriptionRun(row["run"])
           next   == Then(s, IF r = {} THEN "COMMIT" ELSE "SetEpisodeTranscriptionStatus")
           status == SetEpisodeTranscriptionStatus(row["episode"], "failed")
           Chunkwise ==
             /\ FailedChunk(s) \subseteq {x}
             /\ x \in Chunk =>
                  /\ Ran(<<"render", x>>)
                  /\ IF x \in Locked(s) THEN write[s][x] \in FailTranscriptionChunk(row[x])
                     ELSE row[x].status \in Final
<1> USE RowNames
<1>1. /\ Stands(s) /\ doing[s] \in Doing /\ DOMAIN row = Rows
      /\ enqueued \in [Jobs -> 0..MaxCopies]
  BY DEF IInv, RowsOK, Stands
<1>2. CASE /\ x \in Chunk /\ Begin(s, <<"render", x>>)
           /\ Exec(s, x, FailTranscriptionChunk(row[x]), first)
  <2>1. /\ first \in Doing /\ first.tx = "FailJob" /\ first.of = x
        /\ first.at = "FailTranscriptionRun"
    BY OnDoes DEF Transactions, Statements
  <2> HIDE DEF first
  <2>2. Locked(s) = {} /\ Ran(<<"render", x>>)
    BY <1>2, BeginsIdle
  <2>3. ASSUME NEW u \in FailTranscriptionChunk(row[x]), Wrote(s, x, u, first) PROVE Stands(s)'
    <3>1. /\ Locked(s)' = {x} /\ Ran(<<"render", x>>)' /\ row' = row /\ write'[s][x] = u
          /\ doing'[s] = first
      BY <2>2, <2>3 DEF Wrote, rows, Ran
    <3>2. FailedChunk(s)' = {x}
      BY <1>2, <3>1 DEF FailedChunk
    <3> QED
      BY <1>2, <2>1, <2>3, <3>1, <3>2 DEF Stands, InFailJob, Holds, Of
  <2>4. ASSUME FailTranscriptionChunk(row[x]) = {}, Kept(s, first) PROVE Stands(s)'
    <3>1. /\ Locked(s)' = {} /\ Ran(<<"render", x>>)' /\ row' = row /\ doing'[s] = first
      BY <2>2, <2>4 DEF Kept, rows, Ran, Locked
    <3>2. FailedChunk(s)' = {} /\ row'[x].status \in Final
      BY <2>4, <3>1 DEF FailedChunk, FailTranscriptionChunk, Where
    <3> QED
      BY <1>2, <2>1, <3>1, <3>2 DEF Stands, InFailJob, Holds, Of
  <2> QED
    BY <1>2, <2>3, <2>4, ExecIInv
<1>3. CASE x = "run" /\ Begin(s, <<"download", x>>) /\ Set(s, first) /\ UNCHANGED write
  <2>1. /\ first \in Doing /\ first.tx = "FailJob" /\ first.of = x
        /\ first.at = "FailTranscriptionRun"
    BY OnDoes DEF Transactions, Statements
  <2> HIDE DEF first
  <2>2. ASSUME Kept(s, first) PROVE Stands(s)'
    <3>1. Locked(s)' = {} /\ FailedChunk(s)' = {} /\ doing'[s] = first
      BY <1>3, <2>2, BeginsIdle DEF Kept, Locked, FailedChunk
    <3> QED
      BY <1>3, <2>1, <3>1 DEF Stands, InFailJob, Holds, Of
  <2> QED
    BY <1>3, <2>2, SetIInv
<1>4. CASE At(s, "FailJob", "FailTranscriptionRun") /\ Of(s) = x /\ Exec(s, "run", r, next)
  <2>1. Locked(s) = FailedChunk(s) /\ Chunkwise
    BY <1>1, <1>4 DEF At, Stands, InFailJob, Holds
  <2>2. /\ next \in Doing /\ next.tx = "FailJob" /\ next.of = x
        /\ next.at = IF r = {} THEN "COMMIT" ELSE "SetEpisodeTranscriptionStatus"
    BY <1>1, <1>4, ThenDoes DEF At, Of, Statements
  <2> HIDE DEF next
  <2>3. ASSUME NEW u \in r, Wrote(s, "run", u, next) PROVE Stands(s)'
    <3>1. /\ Locked(s)' = {"run"} \cup FailedChunk(s) /\ row' = row /\ doing'[s] = next
          /\ write'[s]["run"] = u
          /\ x \in Chunk /\ x \in Locked(s) => write'[s][x] = write[s][x]
      BY <2>1, <2>3 DEF Wrote, rows
    <3>2. FailedChunk(s)' = FailedChunk(s) /\ (Ran(<<"render", x>>)' <=> Ran(<<"render", x>>))
      BY <2>3, <3>1 DEF FailedChunk, Wrote, rows, Ran
    <3>3. x \in Chunk => (x \in Locked(s)' <=> x \in Locked(s))
      BY <2>1, <3>1
    <3>4. next.at = "SetEpisodeTranscriptionStatus" /\ u \in FailTranscriptionRun(row'["run"])
      BY <2>2, <2>3, <3>1
    <3> QED
      BY <2>1, <2>2, <3>1, <3>2, <3>3, <3>4 DEF Stands, InFailJob, Holds, Of
  <2>4. ASSUME r = {}, Kept(s, next) PROVE Stands(s)'
    <3>1. /\ Locked(s)' = Locked(s) /\ row' = row /\ doing'[s] = next /\ write'[s] = write[s]
          /\ FailedChunk(s)' = FailedChunk(s) /\ (Ran(<<"render", x>>)' <=> Ran(<<"render", x>>))
      BY <2>4 DEF Kept, rows, Ran, Locked, FailedChunk
    <3>2. row'["run"].status \in Final /\ next.at = "COMMIT"
      BY <2>2, <2>4, <3>1 DEF FailTranscriptionRun, Where
    <3> QED
      BY <2>1, <2>2, <3>1, <3>2 DEF Stands, InFailJob, Holds, Of
  <2> QED
    BY <1>4, <2>3, <2>4, ExecIInv
<1>5. CASE At(s, "FailJob", "SetEpisodeTranscriptionStatus") /\ Of(s) = x
           /\ Exec(s, "episode", {status}, Then(s, "COMMIT"))
  <2>1. Locked(s) = {"run"} \cup FailedChunk(s) /\ Chunkwise /\ write[s]["run"] \in r
    BY <1>1, <1>5 DEF At, Stands, InFailJob, Holds
  <2>2. ASSUME Wrote(s, "episode", status, Then(s, "COMMIT")) PROVE Stands(s)'
    <3>1. /\ doing'[s] \in Doing /\ doing'[s].tx = "FailJob" /\ doing'[s].of = x
          /\ doing'[s].at = "COMMIT"
      BY <1>1, <1>5, <2>2, ThenDoes DEF Wrote, At, Of, Statements
    <3>2. /\ Locked(s)' = {"run", "episode"} \cup FailedChunk(s) /\ row' = row
          /\ write'[s]["run"] = write[s]["run"] /\ write'[s]["episode"] = status
          /\ x \in Chunk /\ x \in Locked(s) => write'[s][x] = write[s][x]
      BY <2>1, <2>2 DEF Wrote, rows
    <3>3. FailedChunk(s)' = FailedChunk(s) /\ (Ran(<<"render", x>>)' <=> Ran(<<"render", x>>))
      BY <2>2, <3>2 DEF FailedChunk, Wrote, rows, Ran
    <3>4. x \in Chunk => (x \in Locked(s)' <=> x \in Locked(s))
      BY <2>1, <3>2
    <3> QED
      BY <2>1, <3>1, <3>2, <3>3, <3>4 DEF Stands, InFailJob, Holds, Of
  <2> QED
    BY <1>5, <2>2, ExecIInv
<1>6. CASE At(s, "FailJob", "COMMIT") /\ Of(s) = x /\ Commit(s, {})
  <2>1. IInv'
    BY <1>6, CommitIInv DEF At
  <2>2. /\ Chunkwise
        /\ \/ Locked(s) = FailedChunk(s) /\ row["run"].status \in Final
           \/ /\ Locked(s) = {"run", "episode"} \cup FailedChunk(s)
              /\ write[s]["run"] \in r /\ write[s]["episode"] = status
    BY <1>1, <1>6 DEF At, Stands, InFailJob, Holds
  <2>3. Seen(s, "run") = Serial!After(r, row["run"])
    <3>1. CASE "run" \in Locked(s)
      <4>1. r = {write[s]["run"]}
        BY <2>2, <3>1 DEF FailedChunk, FailTranscriptionRun, Where
      <4> QED
        BY <3>1, <4>1, SerialAfter DEF Seen
    <3>2. CASE "run" \notin Locked(s)
      <4>1. r = {}
        BY <2>2, <3>2 DEF FailTranscriptionRun, Where
      <4> QED
        BY <3>2, <4>1, SerialAfter DEF Seen
    <3> QED
      BY <3>1, <3>2
  <2>4. Seen(s, "episode") = IF r # {} THEN status ELSE row["episode"]
    <3>1. "episode" \in Locked(s) <=> r # {}
      BY <2>2 DEF FailedChunk, FailTranscriptionRun, Where
    <3> QED
      BY <2>2, <3>1 DEF Seen, FailedChunk
  <2>5. x \in Chunk => Seen(s, x) = Serial!After(FailTranscriptionChunk(row[x]), row[x])
    <3>1. CASE x \in Chunk /\ x \in Locked(s)
      <4>1. FailTranscriptionChunk(row[x]) = {write[s][x]}
        BY <2>2, <3>1 DEF FailTranscriptionChunk, Where
      <4> QED
        BY <3>1, <4>1, SerialAfter DEF Seen
    <3>2. CASE x \in Chunk /\ x \notin Locked(s)
      <4>1. FailTranscriptionChunk(row[x]) = {}
        BY <2>2, <3>2 DEF FailTranscriptionChunk, Where
      <4> QED
        BY <3>2, <4>1, SerialAfter DEF Seen
    <3> QED
      BY <3>1, <3>2
  <2>6. \A y \in Rows \ ({"run", "episode"} \cup {x}) : Seen(s, y) = row[y]
    BY <2>2 DEF Seen, FailedChunk
  <2> HIDE DEF r, status
  <2>7. row' = [y \in Rows |->
          CASE y = "run"               -> Serial!After(r, row[y])
            [] y = "episode" /\ r # {} -> SetEpisodeTranscriptionStatus(row[y], "failed")
            [] y \in Chunk /\ y = x    -> Serial!After(FailTranscriptionChunk(row[y]), row[y])
            [] OTHER                   -> row[y]]
    <3>1. ASSUME NEW y \in Rows
          PROVE  Seen(s, y) =
            CASE y = "run"               -> Serial!After(r, row[y])
              [] y = "episode" /\ r # {} -> SetEpisodeTranscriptionStatus(row[y], "failed")
              [] y \in Chunk /\ y = x    -> Serial!After(FailTranscriptionChunk(row[y]), row[y])
              [] OTHER                   -> row[y]
      <4>1. CASE y = "run"
        BY <2>3, <4>1
      <4>2. CASE y = "episode"
        BY <2>4, <4>2 DEF status
      <4>3. CASE y \in Chunk /\ y = x
        BY <2>5, <4>3
      <4>4. CASE y \notin {"run", "episode"} \cup {x}
        BY <2>6, <4>4
      <4> QED
        BY <4>1, <4>2, <4>3, <4>4
    <3> QED
      BY <1>6, <3>1 DEF Commit
  <2>8. UNCHANGED enqueued
    BY <1>1, <1>6 DEF Commit, Enqueue
  <2>9. x \in Chunk => Serial!Ran(<<"render", x>>)
    BY <2>2, SerialRows
  <2>10. Serial!FailJob(x)
    BY <2>7, <2>8, <2>9, SerialRows, SerialRun, SerialChunks, SerialEpisode DEF Serial!FailJob, r
  <2> QED
    BY <2>1, <2>10
<1> QED
  BY <1>2, <1>3, <1>4, <1>5, <1>6 DEF FailJob
-----------------------------------------------------------------------------
(* The invariant.                                                          *)

LEMMA InitIInv == SInit => IInv /\ Serial!Init
<1> SUFFICES ASSUME SInit PROVE IInv /\ Serial!Init
  OBVIOUS
<1> USE RowNames
<1>1. /\ DOMAIN row = Rows /\ \A c \in Chunk : row[c] = Absent
      /\ row["run"] = [status |-> "queued", total |-> 0, completed |-> 0, prepared |-> FALSE]
      /\ enqueued = [j \in Jobs |-> IF j = <<"download", "run">> THEN 1 ELSE 0]
  BY RunRowsAssumption DEF SInit, Init, Rows
<1>2. RowsOK
  <2>1. 0 \in 0..Cardinality(Chunk)
    BY WindowsOfChunks
  <2>2. row["run"] \in Runs /\ \A c \in Chunk : row[c] \in ChunkRow
    <3>1. row["run"] \in Runs
      BY <1>1, <2>1 DEF Runs, RunStatuses
    <3>2. Absent \in ChunkRow
      BY DEF Absent, ChunkRow, ChunkStatuses
    <3> QED
      BY <1>1, <3>1, <3>2
  <2>3. enqueued \in [Jobs -> 0..MaxCopies]
    BY <1>1, RunRowsAssumption
  <2> QED
    BY <1>1, <2>2, <2>3 DEF RowsOK
<1>3. Planned
  BY <1>1, SomeJobs DEF Planned, Ran
<1>4. \A s \in Session : doing[s] = Idle /\ Locked(s) = {}
  BY NothingLocked DEF SInit, Locked
<1>5. SessionsOK
  BY DEF SInit, SessionsOK
<1>6. Exclusive
  BY <1>4 DEF Exclusive
<1>7. \A s \in Session : Stands(s)
  BY <1>4, IdleDoes DEF Stands
<1>8. Serial!Init
  BY DEF SInit, Init, Serial!Init, Serial!Rows, Rows, Serial!Absent, Absent, Serial!Jobs, Jobs
<1> QED
  BY <1>2, <1>3, <1>5, <1>6, <1>7, <1>8 DEF IInv

LEMMA NextIInv == IInv /\ [SNext]_vars => IInv' /\ [Serial!Next]_rows
<1> SUFFICES ASSUME IInv, [SNext]_vars PROVE IInv' /\ [Serial!Next]_rows
  OBVIOUS
<1>1. CASE UNCHANGED vars
  <2>1. RowsOK' /\ SessionsOK' /\ Planned' /\ Exclusive'
    BY <1>1 DEF IInv, vars, session, rows, RowsOK, SessionsOK, Planned, Ran, Exclusive, Locked
  <2>2. ASSUME NEW s \in Session PROVE Stands(s)'
    <3>1. Undisturbed(s)
      BY <1>1 DEF Undisturbed, vars, session, rows, Ran, Rendered, Completed
    <3> QED
      BY <3>1, OthersStand DEF IInv
  <2> QED
    BY <1>1, <2>1, <2>2 DEF IInv, vars
<1>2. ASSUME NEW s \in Session,
             \/ BeginDownload(s) \/ FinishDownload(s) \/ FinishPrepare(s) \/ Plan(s)
             \/ BeginAlignment(s) \/ FinishAlignment(s) \/ ActivateTranscript(s)
      PROVE  IInv' /\ [Serial!Next]_rows
  BY <1>2, BeginDownloadStep, FinishDownloadStep, FinishPrepareStep, PlanStep,
     BeginAlignmentStep, FinishAlignmentStep, ActivateTranscriptStep DEF Serial!Next
<1>3. ASSUME NEW s \in Session, NEW c \in Chunk,
             \/ BeginRender(s, c) \/ FinishRender(s, c)
             \/ BeginSubmit(s, c) \/ ResetSubmit(s, c) \/ FinishSubmit(s, c)
             \/ MarkPolling(s, c) \/ FinishPoll(s, c) \/ ClearExternalTask(s, c)
             \/ FinishIngest(s, c)
      PROVE  IInv' /\ [Serial!Next]_rows
  BY <1>3, BeginRenderStep, FinishRenderStep, BeginSubmitStep, StatementSteps, FinishSubmitStep,
     FinishPollStep, FinishIngestStep DEF Serial!Next
<1>4. ASSUME NEW s \in Session, NEW x \in Chunk \cup {"run"}, FailJob(s, x)
      PROVE  IInv' /\ [Serial!Next]_rows
  BY <1>4, FailJobStep DEF Serial!Next
<1>5. ASSUME NEW s \in Session, Abort(s) PROVE IInv' /\ [Serial!Next]_rows
  BY <1>5, RollbackIInv DEF Abort
<1> QED
  BY <1>1, <1>2, <1>3, <1>4, <1>5 DEF SNext

LEMMA Invariance == SSpec => []IInv
  BY InitIInv, NextIInv, PTL DEF SSpec

\* Serializable: the rows of a run change as if the transactions that touch them,
\* Begin... and Finish... of internal/repository/transcription.go and FailJob, were
\* executed one after the other, whatever sessions overlap, and wherever they abort.
THEOREM Serializable == SSpec => ImplementsSerial
<1>1. SInit => Serial!Init
  BY InitIInv
<1>2. IInv /\ [SNext]_vars => [Serial!Next]_Serial!rows
  BY NextIInv DEF Serial!rows, rows
<1> QED
  BY <1>1, <1>2, Invariance, PTL DEF SSpec, ImplementsSerial, Serial!Spec
-----------------------------------------------------------------------------
(* Locks.                                                                  *)

\* The episode is locked last.
LEMMA EpisodeLast ==
  ASSUME IInv, NEW s \in Session, "episode" \in Locked(s)
  PROVE  doing[s].at = "COMMIT"
<1> USE RowNames
<1>1. Stands(s)
  BY DEF IInv
<1>2. CASE doing[s].tx \in {"none", "BeginDownload", "FinishDownload", "FinishPrepare",
                            "BeginRender", "BeginSubmit", "BeginAlignment"}
  BY <1>1, <1>2 DEF Stands, InBeginDownload, InFinishDownload, InFinishPrepare, InStart,
                    InBeginAlignment, Holds
<1>3. CASE doing[s].tx \in {"FinishRender", "FinishSubmit", "FinishPoll", "FinishIngest"}
  BY <1>1, <1>3 DEF Stands, InFinishRender, InHands, InFinishIngest, Holds
<1>4. CASE doing[s].tx \in {"Plan", "FinishAlignment"}
  BY <1>1, <1>4, VisitsNext DEF Stands, InPlan, InFinishAlignment, Holds
<1>5. CASE doing[s].tx \in {"ActivateTranscript", "FailJob"}
  BY <1>1, <1>5 DEF Stands, InActivateTranscript, InFailJob, FailedChunk, Holds
<1> QED
  BY <1>1, <1>2, <1>3, <1>4, <1>5 DEF Stands, Doing, Transactions

\* A session waits for a chunk only while it has locked the run, and then for one
\* that no other session has locked.
LEMMA ChunkWaits ==
  ASSUME IInv, NEW s \in Session, NEW x \in Wanted(s), x \notin {"run", "episode"}
  PROVE  \A v \in Session \ {s} : x \notin Locked(v)
<1> USE RowNames
<1> DEFINE c == Windows[doing[s].done + 1]
<1>1. Stands(s) /\ Exclusive
  BY DEF IInv
<1>2. doing[s].at \in {"CreateTranscriptionChunk", "SetChunkSpeakerMap"} /\ x = c
  BY DEF Wanted
<1>3. doing[s].tx \in {"Plan", "FinishAlignment"}
  <2>1. doing[s].tx \notin {"none", "BeginDownload", "FinishDownload", "FinishPrepare",
                            "BeginRender", "BeginSubmit", "BeginAlignment"}
    BY <1>1, <1>2 DEF Stands, InBeginDownload, InFinishDownload, InFinishPrepare, InStart,
                      InBeginAlignment, Holds, Idle
  <2>2. doing[s].tx \notin {"FinishRender", "FinishSubmit", "FinishPoll", "FinishIngest",
                            "ActivateTranscript", "FailJob"}
    BY <1>1, <1>2 DEF Stands, InFinishRender, InHands, InFinishIngest, InActivateTranscript,
                      InFailJob, Holds
  <2> QED
    BY <1>1, <2>1, <2>2 DEF Stands, Doing, Transactions
<1>4. "run" \in Locked(s) /\ doing[s].done \in 0..Len(Windows) /\ doing[s].done < Len(Windows)
  BY <1>1, <1>2, <1>3 DEF Stands, InPlan, InFinishAlignment, Holds
<1>5. c \in Chunk
  BY <1>4, WindowsOfChunks
<1>6. row[c].status \in {"absent", "completed"}
  <2>1. CASE doing[s].tx = "Plan"
    BY <1>1, <1>5, <2>1 DEF IInv, Planned, Stands, InPlan, Absent
  <2>2. CASE doing[s].tx = "FinishAlignment"
    <3>1. doing[s].at = "SetChunkSpeakerMap"
      BY <1>1, <1>2, <2>2 DEF Stands, InFinishAlignment
    <3> QED
      BY <1>2, <3>1 DEF Wanted, SetChunkSpeakerMap, Where
  <2> QED
    BY <1>3, <2>1, <2>2
<1>7. ASSUME NEW v \in Session \ {s}, c \in Locked(v) PROVE FALSE
  <2>1. "run" \in Locked(v)
    BY <1>5, <1>6, <1>7, Locks
  <2> QED
    BY <1>1, <1>4, <2>1 DEF Exclusive
<1> QED
  BY <1>2, <1>7

\* Of any sessions there is one whose next statement waits for none of the others:
\* chunks are locked before the run, the run before the episode, except by Plan and
\* FinishAlignment, which lock chunks that everybody else locks after the run.
THEOREM NoDeadlock == SSpec => []NoWaitCycle
<1>1. ASSUME IInv PROVE NoWaitCycle
  <2> SUFFICES ASSUME NEW S \in (SUBSET Session) \ {{}}
               PROVE  \E s \in S : \A v \in S \ {s} : Wanted(s) \cap Locked(v) = {}
    BY DEF NoWaitCycle
  <2>1. CASE \E s \in S : Wanted(s) = {}
    BY <2>1
  <2>2. CASE \E s \in S : Wanted(s) \ {"run", "episode"} # {}
    <3>1. PICK s \in S : Wanted(s) \ {"run", "episode"} # {}
      BY <2>2
    <3>2. PICK x \in Wanted(s) : Wanted(s) = {x}
      BY <3>1 DEF Wanted
    <3> QED
      BY <1>1, <3>1, <3>2, ChunkWaits
  <2>3. CASE /\ \A s \in S : Wanted(s) # {}
             /\ \E s \in S : "episode" \in Wanted(s)
    <3>1. PICK s \in S : "episode" \in Wanted(s)
      BY <2>3
    <3>2. Wanted(s) = {"episode"}
      BY <3>1 DEF Wanted
    <3>3. \A v \in S : "episode" \in Locked(v) => Wanted(v) = {}
      BY <1>1, EpisodeLast DEF Wanted
    <3> QED
      BY <2>3, <3>2, <3>3
  <2>4. CASE \A s \in S : Wanted(s) = {"run"}
    <3>1. CASE \E s \in S : "run" \in Locked(s)
      BY <1>1, <2>4, <3>1 DEF IInv, Exclusive
    <3>2. CASE \A s \in S : "run" \notin Locked(s)
      BY <2>4, <3>2
    <3> QED
      BY <3>1, <3>2
  <2> QED
    BY <2>1, <2>2, <2>3, <2>4
<1> QED
  BY <1>1, Invariance, PTL
=============================================================================
