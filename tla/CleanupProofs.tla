---------------------------- MODULE CleanupProofs ----------------------------
(***************************************************************************)
(* For every set of runners, every finite set of chunks and any faults but *)
(* a lost lease: a scope that is marked as cleaned stays empty.            *)
(*                                                                         *)
(* With a lost lease two executions of one job upload side by side, and    *)
(* the later upload may come after the cleanup: the only fault that leaves *)
(* an object behind.                                                       *)
(***************************************************************************)
EXTENDS TranscriptionProofs

(* The inductive invariant, beside IInv of TranscriptionProofs. *)

\* The jobs that put an object into the bucket.
Uploads == {"download", "prepare", "render"}

Rivals(id, other) ==
  /\ id.kind \in Uploads /\ other.kind = id.kind
  /\ id.kind = "render" => other.of = id.of

\* An execution holds its row: only the fault "lease" takes it away.
Owned == \A r \in Runners : step[r] # "idle" => Holds(r, doing[r])

\* An object is uploaded by one job, if any.
OnlyRow == \A id, other \in DOMAIN jobs : Rivals(id, other) => id = other

Early == {"queued", "downloading"}

\* That job was enqueued when the run, or the chunk, left the status before.
Enqueued ==
  \A id \in DOMAIN jobs :
    /\ id.kind = "prepare" => run \notin Early
    /\ id.kind \in ChunkKinds => chunk[id.of] # "absent"

Recorded ==
  /\ run \notin Early \cup {"failed"} => "source" \in keys
  /\ \A c \in Chunks : chunk[c] # "absent" => "prepared" \in keys

\* Nobody else has done the work of an execution that is to upload.
Unfinished(id, s) ==
  /\ s \in {"start", "work", "finish"} /\ id.kind = "download" =>
       run \in Early \cup {"failed"}
  /\ s \in {"work", "finish"} /\ id.kind = "prepare" => "prepared" \notin keys
  /\ s \in {"start", "work", "finish"} /\ id.kind = "render" =>
       chunk[id.of] \in {"planned", "rendering", "failed"}

Gone(scope) ==
  objects \cap (IF scope = "audio" THEN {"source", "prepared"} ELSE Chunks) = {}

\* A cleanup that is about to mark its scope has emptied it.
Emptied(id, s) == s = "finish" /\ id.kind = "clean" => Gone(id.of)

Uploading == \A r \in Runners : Unfinished(doing[r], step[r]) /\ Emptied(doing[r], step[r])

Marked == \A scope \in cleaned : run = "completed" /\ Gone(scope)

Alone ==
  /\ IInv
  /\ Owned /\ OnlyRow /\ Enqueued /\ Recorded /\ Uploading /\ Marked
-----------------------------------------------------------------------------
(* Steps of an execution.                                                  *)

LEMMA OnlyExecution ==
  ASSUME Alone, NEW r \in Runners, NEW q \in Runners, step[r] # "idle", step[q] # "idle",
         Rivals(doing[r], doing[q])
  PROVE  r = q
  BY DEF Alone, Owned, OnlyRow, Holds

\* Rows are added, and none is changed.
Added ==
  /\ DOMAIN jobs \subseteq DOMAIN jobs'
  /\ \A id \in DOMAIN jobs : jobs'[id] = jobs[id]

\* None of the added rows is a job that uploads.
NoUpload ==
  \A id \in DOMAIN jobs' \ DOMAIN jobs :
    id.kind \notin Uploads /\ (id.kind \in ChunkKinds => chunk'[id.of] # "absent")

LEMMA EnqueueAdds ==
  ASSUME Alone, NEW new, Enqueue(new)
  PROVE  /\ Added
         /\ \A id \in DOMAIN jobs' \ DOMAIN jobs :
              \E n \in new : id = NewId(n[1], n[2]) /\ id.kind = n[1] /\ id.of = n[2]
<1> DEFINE ids == {NewId(n[1], n[2]) : n \in new}
<1>1. /\ DOMAIN jobs' = DOMAIN jobs \cup ids
      /\ \A id \in DOMAIN jobs : jobs'[id] = jobs[id]
  BY DEF Enqueue
<1>2. ASSUME NEW n \in new, NEW id, id = NewId(n[1], n[2])
      PROVE  id.kind = n[1] /\ id.of = n[2]
  BY <1>2, NewIdType DEF Alone, IInv, Rows
<1> QED
  BY <1>1, <1>2 DEF Added

\* Nothing that the invariant speaks of is undone: most steps are of this kind.
Steady ==
  /\ keys \subseteq keys' /\ ("prepared" \in keys' => "prepared" \in keys)
  /\ run \in Early \cup {"failed"} => run' \in Early \cup {"failed"}
  /\ run \notin Early => run' \notin Early
  /\ run = "completed" => run' = "completed"
  /\ \A c \in Chunks :
       /\ chunk[c] \in {"planned", "rendering", "failed"} =>
            chunk'[c] \in {"planned", "rendering", "failed"}
       /\ chunk[c] = "absent" <=> chunk'[c] = "absent"
  /\ objects' \subseteq objects
  /\ \A scope \in cleaned' \ cleaned : run = "completed" /\ Gone(scope)

LEMMA SteadyAlone ==
  ASSUME Alone, IInv', NEW r \in Runners, NEW s \in Steps \ {"idle"},
         step[r] # "idle", StepTo(r, s),
         Added, NoUpload, Steady,
         Unfinished(doing[r], s)', Emptied(doing[r], s)'
  PROVE  Alone'
<1> USE DEF Alone
<1>1. /\ doing' = doing /\ step'[r] = s
      /\ \A q \in Runners \ {r} : step'[q] = step[q]
  BY DEF StepTo, IInv, TypeOK
<1>2. Owned'
  BY <1>1 DEF Owned, Holds, Added
<1>3. OnlyRow'
  BY DEF OnlyRow, NoUpload, Rivals
<1>4. Enqueued'
  <2> SUFFICES ASSUME NEW id \in DOMAIN jobs'
               PROVE  /\ id.kind = "prepare" => run' \notin Early
                      /\ id.kind \in ChunkKinds => chunk'[id.of] # "absent"
    BY DEF Enqueued
  <2>1. CASE id \in DOMAIN jobs
    <3>1. id.kind \in ChunkKinds => id.of \in Chunks
      BY <2>1 DEF IInv, TypeOK
    <3> QED
      BY <2>1, <3>1 DEF Enqueued, Steady
  <2>2. CASE id \notin DOMAIN jobs
    BY <2>2 DEF NoUpload, Uploads
  <2> QED
    BY <2>1, <2>2
<1>5. Recorded'
  BY DEF Recorded, Steady
<1>6. Uploading'
  <2> SUFFICES ASSUME NEW q \in Runners
               PROVE  (Unfinished(doing[q], step[q]) /\ Emptied(doing[q], step[q]))'
    BY DEF Uploading
  <2>1. CASE q = r
    <3>1. doing'[q] = doing'[r] /\ step'[q] = s
      BY <1>1, <2>1
    <3> QED
      BY <3>1 DEF Unfinished, Emptied
  <2>2. CASE q # r
    <3>1. doing'[q] = doing[q] /\ step'[q] = step[q]
      BY <1>1, <2>2
    <3>2. step[q] # "idle" /\ doing[q].kind = "render" => doing[q].of \in Chunks
      BY OfChunk DEF ChunkKinds
    <3>3. Unfinished(doing[q], step[q]) /\ Emptied(doing[q], step[q])
      BY DEF Uploading
    <3>4. Unfinished(doing[q], step[q])'
      BY <3>1, <3>2, <3>3 DEF Unfinished, Steady
    <3>5. Emptied(doing[q], step[q])'
      BY <3>1, <3>3 DEF Emptied, Gone, Steady
    <3> QED
      BY <3>4, <3>5
  <2> QED
    BY <2>1, <2>2
<1>7. Marked'
  BY DEF Marked, Gone, Steady
<1> QED
  BY <1>2, <1>3, <1>4, <1>5, <1>6, <1>7
\* The execution moves on, and nothing else happens.
LEMMA MovesAlone ==
  ASSUME Alone, IInv', NEW r \in Runners, NEW s \in Steps \ {"idle"},
         step[r] # "idle", StepTo(r, s),
         UNCHANGED <<database, jobs, external>>,
         Unfinished(doing[r], s), Emptied(doing[r], s)
  PROVE  Alone'
<1> USE DEF database, runRow, chunkRows, external
<1>1. Added /\ NoUpload /\ Steady
  BY DEF Added, NoUpload, Steady
<1>2. Unfinished(doing[r], s)' /\ Emptied(doing[r], s)'
  BY DEF Unfinished, Emptied, Gone, StepTo
<1> QED
  BY <1>1, <1>2, SteadyAlone

\* The steps that say nothing of what an execution relies on.
Free == {"ok", "again", "retryable", "record", "giveup"}

LEMMA FreeSteps ==
  /\ Free \subseteq Steps \ {"idle"}
  /\ \A id, s : s \in Free \cup {"begin"} => Unfinished(id, s) /\ Emptied(id, s)
  /\ \A id, s : id.kind \notin Uploads \cup {"clean"} => Unfinished(id, s) /\ Emptied(id, s)
  BY DEF Free, Steps, Unfinished, Emptied, Uploads

LEMMA HaltsAlone ==
  ASSUME Alone, IInv', NEW r \in Runners,
         Halts(r) \/ Fails(r) \/ Panic(r) \/ RecordFails(r)
  PROVE  Alone'
<1>1. /\ step[r] # "idle" /\ UNCHANGED <<database, jobs, external>>
      /\ \E s \in Free : StepTo(r, s)
  BY DEF Halts, Return, Go, Fails, Panic, RecordFails, Wrapped, Working, Free
<1> QED
  BY <1>1, FreeSteps, MovesAlone

\* The steps to a transaction or a call, of jobs that neither upload nor clean.
Reads(r) ==
  /\ step[r] = "begin" \/ step[r] = "work"
  /\ doing[r].kind \notin Uploads \cup {"clean"}
  /\ \E s \in {"start", "work", "finish"} : Go(r, s)
  /\ UNCHANGED <<database, jobs, external>>

LEMMA ReadsAlone ==
  ASSUME Alone, IInv', NEW r \in Runners, Reads(r)
  PROVE  Alone'
<1>1. PICK s \in {"start", "work", "finish"} : StepTo(r, s)
  BY DEF Reads, Go
<1> QED
  BY <1>1, FreeSteps, MovesAlone DEF Reads, Steps

\* FailJob.
LEMMA RecordAlone ==
  ASSUME Alone, IInv', NEW r \in Runners, Record(r)
  PROVE  Alone'
<1> USE DEF Alone, Record
<1>1. StepTo(r, "giveup")
  BY DEF Go
<1>2. doing[r] \in DOMAIN jobs /\ (doing[r].kind \in ChunkKinds => chunk[doing[r].of] # "absent")
  BY DEF Owned, Holds, Enqueued
<1>3. \A c \in Chunks :
        \/ chunk'[c] = chunk[c]
        \/ chunk[c] # "absent" /\ chunk'[c] = "failed"
  BY <1>2 DEF Of
<1>4. Added /\ NoUpload
  BY DEF Added, NoUpload
<1>5. Steady
  BY <1>3 DEF Steady, external, Early
<1> QED
  BY <1>1, <1>4, <1>5, FreeSteps, SteadyAlone DEF Free, StepTo, Unfinished, Emptied
-----------------------------------------------------------------------------
(* download, prepare, plan.                                                *)

LEMMA BeginDownloadAlone ==
  ASSUME Alone, IInv', NEW r \in Runners, BeginDownload(r)
  PROVE  Alone'
<1>1. CASE Halts(r)
  BY <1>1, HaltsAlone
<1>2. CASE /\ \E s \in {"start", "work"} : Go(r, s)
           /\ At(r, "download", "begin") /\ run \in Early
           /\ UNCHANGED <<database, jobs, external>>
  BY <1>2, MovesAlone DEF At, Go, Steps, Unfinished, Emptied
<1>3. CASE /\ At(r, "download", "start") /\ run = "queued" /\ run' = "downloading"
           /\ Committed(r, "work")
           /\ UNCHANGED <<completed, versions, cleaned, chunkRows, keys, jobs, external>>
  <2>1. PICK s \in {"work", "retryable", "record"} : StepTo(r, s)
    BY <1>3, Commits DEF Alone, IInv
  <2>2. Added /\ NoUpload /\ Steady
    BY <1>3 DEF Added, NoUpload, Steady, chunkRows, external, Early
  <2>3. step[r] # "idle" /\ s \in Steps \ {"idle"} /\ doing'[r] = doing[r]
    BY <1>3, <2>1 DEF At, Steps, StepTo
  <2>4. Unfinished(doing[r], s)' /\ Emptied(doing[r], s)'
    BY <1>3, <2>3 DEF At, Unfinished, Emptied, Early
  <2> QED
    BY <2>1, <2>2, <2>3, <2>4, SteadyAlone
<1> QED
  BY <1>1, <1>2, <1>3 DEF BeginDownload, Passes, Leaves, Halts, Working, At, Early

LEMMA BeginPrepareAlone ==
  ASSUME Alone, IInv', NEW r \in Runners, BeginPrepare(r) \/ BeginPlan(r)
  PROVE  Alone'
<1>1. CASE Halts(r)
  BY <1>1, HaltsAlone
<1>2. CASE /\ Go(r, "work") /\ At(r, "prepare", "begin") /\ "prepared" \notin keys
           /\ UNCHANGED <<database, jobs, external>>
  BY <1>2, MovesAlone DEF At, Go, Steps, Unfinished, Emptied
<1>3. CASE Reads(r)
  BY <1>3, ReadsAlone
<1> QED
  BY <1>1, <1>2, <1>3
     DEF BeginPrepare, BeginPlan, Passes, Leaves, Halts, Reads, Working, At, Uploads

\* While something is left to upload the run is not completed.
LEMMA StillOpen ==
  ASSUME Alone, NEW r \in Runners, step[r] \in {"work", "finish"}, doing[r].kind \in Uploads
  PROVE  run # "completed"
<1> USE DEF Alone
<1>1. Unfinished(doing[r], step[r])
  BY DEF Uploading
<1>2. run = "completed" => \A c \in Chunks : chunk[c] = "completed"
  BY DEF IInv, JoinedAll, Done
<1>3. run = "completed" => "prepared" \in keys
  BY <1>2, TranscriptionAssumption DEF Recorded
<1>4. doing[r].kind = "render" => doing[r].of \in Chunks
  BY OfChunk DEF ChunkKinds
<1> QED
  BY <1>1, <1>2, <1>3, <1>4 DEF Unfinished, Uploads, Early

\* Hence no cleanup of a scope is under way, or has been.
LEMMA NothingEmptied ==
  ASSUME Alone, run # "completed"
  PROVE  /\ cleaned = {}
         /\ \A q \in Runners : ~(step[q] = "finish" /\ doing[q].kind = "clean")
  BY DEF Alone, Marked, IInv, Executions, Placed, Justified

LEMMA PutAlone ==
  ASSUME Alone, IInv', NEW r \in Runners, NEW kind \in Uploads, NEW o, Put(r, kind, o)
  PROVE  Alone'
<1> USE DEF Alone, Put, At, database, runRow, chunkRows
<1>1. StepTo(r, "finish") /\ step[r] = "work" /\ doing[r].kind = kind
  BY DEF Go
<1>2. /\ doing' = doing /\ step'[r] = "finish"
      /\ \A q \in Runners \ {r} : step'[q] = step[q]
  BY <1>1 DEF StepTo, IInv, TypeOK
<1>3. run # "completed"
  BY <1>1, StillOpen
<1>4. Owned' /\ OnlyRow' /\ Enqueued' /\ Recorded'
  BY <1>1, <1>2 DEF Owned, Holds, OnlyRow, Enqueued, Recorded
<1>5. Marked'
  BY <1>3, NothingEmptied DEF Marked
<1>6. Uploading'
  <2>1. Unfinished(doing[r], "work")
    BY <1>1 DEF Uploading
  <2> QED
    BY <1>1, <1>2, <1>3, <2>1, NothingEmptied DEF Uploading, Unfinished, Emptied, Uploads
<1> QED
  BY <1>4, <1>5, <1>6

LEMMA UploadsAlone ==
  ASSUME Alone, IInv', NEW r \in Runners, Download(r) \/ Prepare(r) \/ Render(r)
  PROVE  Alone'
<1>1. CASE Halts(r)
  BY <1>1, HaltsAlone
<1>2. CASE \E kind \in Uploads, o \in {"source", "prepared", doing[r].of} : Put(r, kind, o)
  BY <1>2, PutAlone
<1> QED
  BY <1>1, <1>2 DEF Download, Prepare, Render, Leaves, Halts, Working, At, Of, Uploads
\* The download leaves its status, and enqueues the one prepare job.
LEMMA FinishDownloadAlone ==
  ASSUME Alone, IInv', NEW r \in Runners, FinishDownload(r)
  PROVE  Alone'
<1>1. CASE Halts(r)
  BY <1>1, HaltsAlone
<1>2. CASE /\ At(r, "download", "finish") /\ run = "downloading"
           /\ run' = "preparing" /\ keys' = keys \cup {"source"}
           /\ Enqueue({<<"prepare", "run">>})
           /\ Committed(r, "ok")
           /\ UNCHANGED <<completed, versions, cleaned, chunkRows, external>>
  <2> USE <1>2 DEF chunkRows, external, At, Alone
  <2>1. PICK s \in Free : StepTo(r, s)
    BY Commits DEF Free, IInv
  <2>2. /\ doing' = doing /\ step'[r] = s
        /\ \A q \in Runners \ {r} : step'[q] = step[q]
    BY <2>1 DEF StepTo, IInv, TypeOK
  <2>3. Added /\ \A id \in DOMAIN jobs' \ DOMAIN jobs :
                   id = NewId("prepare", "run") /\ id.kind = "prepare"
    BY EnqueueAdds
  <2>4. \A id \in DOMAIN jobs : id.kind # "prepare"
    BY DEF Enqueued, Early
  <2>5. Owned'
    BY <2>2, <2>3 DEF Owned, Holds, Added
  <2>6. OnlyRow'
    BY <2>3, <2>4 DEF OnlyRow, Rivals
  <2>7. Enqueued'
    BY <2>3 DEF Enqueued, Early, ChunkKinds
  <2>8. Recorded' /\ Marked'
    BY DEF Recorded, Marked
  <2>9. ASSUME NEW q \in Runners
        PROVE  (Unfinished(doing[q], step[q]) /\ Emptied(doing[q], step[q]))'
    <3>1. CASE q = r
      BY <2>2, <3>1, FreeSteps DEF Unfinished, Emptied, Free
    <3>2. CASE q # r
      <4>1. step[q] # "idle" => doing[q].kind # "download"
        BY <3>2, OnlyExecution DEF Rivals, Uploads
      <4>2. Unfinished(doing[q], step[q]) /\ Emptied(doing[q], step[q])
        BY DEF Uploading
      <4> QED
        BY <2>2, <3>2, <4>1, <4>2 DEF Unfinished, Emptied, Gone
    <3> QED
      BY <3>1, <3>2
  <2> QED
    BY <2>5, <2>6, <2>7, <2>8, <2>9 DEF Uploading
<1> QED
  BY <1>1, <1>2 DEF FinishDownload, Leaves, Halts, Working, At

LEMMA FinishPrepareAlone ==
  ASSUME Alone, IInv', NEW r \in Runners, FinishPrepare(r)
  PROVE  Alone'
<1>1. CASE Halts(r)
  BY <1>1, HaltsAlone
<1>2. CASE /\ At(r, "prepare", "finish") /\ run = "preparing"
           /\ keys' = keys \cup {"prepared"}
           /\ Enqueue({<<"plan", "run">>} \cup Clean({"source"} \cap keys))
           /\ Committed(r, "ok")
           /\ UNCHANGED <<runRow, chunkRows, external>>
  <2> USE <1>2 DEF runRow, chunkRows, external, At, Alone
  <2>1. PICK s \in Free : StepTo(r, s)
    BY Commits DEF Free, IInv
  <2>2. /\ doing' = doing /\ step'[r] = s
        /\ \A q \in Runners \ {r} : step'[q] = step[q]
    BY <2>1 DEF StepTo, IInv, TypeOK
  <2>3. Added /\ \A id \in DOMAIN jobs' \ DOMAIN jobs : id.kind \in {"plan", "clean"}
    BY EnqueueAdds DEF Clean
  <2>4. Owned'
    BY <2>2, <2>3 DEF Owned, Holds, Added
  <2>5. OnlyRow'
    BY <2>3 DEF OnlyRow, Rivals, Uploads
  <2>6. Enqueued'
    BY <2>3 DEF Enqueued, ChunkKinds
  <2>7. Recorded' /\ Marked'
    BY DEF Recorded, Marked, Gone
  <2>8. ASSUME NEW q \in Runners
        PROVE  (Unfinished(doing[q], step[q]) /\ Emptied(doing[q], step[q]))'
    <3>1. CASE q = r
      BY <2>2, <3>1, FreeSteps DEF Unfinished, Emptied, Free
    <3>2. CASE q # r
      <4>1. step[q] # "idle" => doing[q].kind # "prepare"
        BY <3>2, OnlyExecution DEF Rivals, Uploads
      <4>2. Unfinished(doing[q], step[q]) /\ Emptied(doing[q], step[q])
        BY DEF Uploading
      <4> QED
        BY <2>2, <3>2, <4>1, <4>2 DEF Unfinished, Emptied, Gone
    <3> QED
      BY <3>1, <3>2
  <2> QED
    BY <2>4, <2>5, <2>6, <2>7, <2>8 DEF Uploading
<1> QED
  BY <1>1, <1>2 DEF FinishPrepare, Leaves, Halts, Working, At

\* The chunks get their rows, and one render job each.
LEMMA PlanAlone ==
  ASSUME Alone, IInv', NEW r \in Runners, Plan(r)
  PROVE  Alone'
<1>1. CASE Halts(r)
  BY <1>1, HaltsAlone
<1>2. CASE /\ At(r, "plan", "finish") /\ ~Planned /\ run = "preparing"
           /\ chunk' = [c \in Chunks |-> "planned"] /\ run' = "transcribing"
           /\ Enqueue({<<"render", c>> : c \in Chunks})
           /\ Committed(r, "ok")
           /\ UNCHANGED <<completed, versions, cleaned, tasked, resulted, keys, external>>
  <2> USE <1>2 DEF external, At, Alone
  <2>1. PICK s \in Free : StepTo(r, s)
    BY Commits DEF Free, IInv
  <2>2. /\ doing' = doing /\ step'[r] = s
        /\ \A q \in Runners \ {r} : step'[q] = step[q]
    BY <2>1 DEF StepTo, IInv, TypeOK
  <2>3. \A c \in Chunks : chunk[c] = "absent" /\ chunk'[c] = "planned"
    BY DEF Planned
  <2>4. Added /\ \A id \in DOMAIN jobs' \ DOMAIN jobs :
                   /\ id.kind = "render" /\ id.of \in Chunks
                   /\ id = NewId("render", id.of)
    BY EnqueueAdds
  <2>5. \A id \in DOMAIN jobs : id.kind \notin ChunkKinds
    BY <2>3 DEF Enqueued, IInv, TypeOK
  <2>6. Owned'
    BY <2>2, <2>4 DEF Owned, Holds, Added
  <2>7. OnlyRow'
    <3> SUFFICES ASSUME NEW id \in DOMAIN jobs', NEW other \in DOMAIN jobs', Rivals(id, other)
                 PROVE  id = other
      BY DEF OnlyRow
    <3>1. id \in DOMAIN jobs <=> other \in DOMAIN jobs
      BY <2>4, <2>5 DEF Rivals, ChunkKinds
    <3>2. CASE id \in DOMAIN jobs
      BY <3>1, <3>2 DEF OnlyRow
    <3>3. CASE id \notin DOMAIN jobs
      <4>1. id = NewId("render", id.of) /\ other = NewId("render", other.of) /\ id.of = other.of
        BY <2>4, <3>1, <3>3 DEF Rivals
      <4>2. NewId("render", id.of) = NewId("render", other.of)
        BY <4>1
      <4> QED
        BY <4>1, <4>2
    <3> QED
      BY <3>2, <3>3
  <2>8. Enqueued'
    BY <2>3, <2>4, <2>5 DEF Enqueued, Early
  <2>9. Recorded' /\ Marked'
    <3>1. "prepared" \in keys
      BY DEF IInv, Executions, Placed
    <3> QED
      BY <3>1 DEF Recorded, Marked, Early
  <2>10. ASSUME NEW q \in Runners
         PROVE  (Unfinished(doing[q], step[q]) /\ Emptied(doing[q], step[q]))'
    <3>1. CASE q = r
      BY <2>2, <3>1, FreeSteps DEF Unfinished, Emptied, Free
    <3>2. CASE q # r
      <4>1. step[q] # "idle" => doing[q].kind # "render"
        BY <2>5 DEF Owned, Holds, ChunkKinds
      <4>2. Unfinished(doing[q], step[q]) /\ Emptied(doing[q], step[q])
        BY DEF Uploading
      <4> QED
        BY <2>2, <3>2, <4>1, <4>2 DEF Unfinished, Emptied, Gone, Early
    <3> QED
      BY <3>1, <3>2
  <2> QED
    BY <2>6, <2>7, <2>8, <2>9, <2>10 DEF Uploading
<1> QED
  BY <1>1, <1>2 DEF Plan, Leaves, Halts, Working, At
-----------------------------------------------------------------------------
(* render, submit, poll, ingest.                                           *)

LEMMA BeginRenderAlone ==
  ASSUME Alone, IInv', NEW r \in Runners, BeginRender(r)
  PROVE  Alone'
<1>1. CASE Halts(r)
  BY <1>1, HaltsAlone
<1>2. CASE /\ \E s \in {"start", "work"} : Go(r, s)
           /\ At(r, "render", "begin") /\ chunk[doing[r].of] \in {"planned", "rendering"}
           /\ UNCHANGED <<database, jobs, external>>
  BY <1>2, MovesAlone DEF At, Go, Steps, Unfinished, Emptied
<1>3. CASE /\ At(r, "render", "start") /\ chunk[doing[r].of] = "planned"
           /\ SetChunk(doing[r].of, "rendering")
           /\ Committed(r, "work")
           /\ UNCHANGED <<tasked, resulted, keys, jobs, external>>
  <2> USE <1>3 DEF external, runRow
  <2>1. PICK s \in {"work", "retryable", "record"} : StepTo(r, s)
    BY Commits DEF Alone, IInv
  <2>2. step[r] = "start" /\ s \in Steps \ {"idle"} /\ doing'[r] = doing[r]
    BY <2>1 DEF At, Steps, StepTo
  <2>3. doing[r].of \in Chunks
    BY <2>2, OfChunk DEF At, ChunkKinds, Alone
  <2>4. chunk' = [chunk EXCEPT ![doing[r].of] = "rendering"] /\ UNCHANGED <<run, cleaned>>
    BY DEF SetChunk
  <2>5. Added /\ NoUpload /\ Steady
    BY <2>3, <2>4 DEF Added, NoUpload, Steady, Alone, IInv, TypeOK
  <2>6. Unfinished(doing[r], s)' /\ Emptied(doing[r], s)'
    BY <2>2, <2>3, <2>4 DEF At, Unfinished, Emptied, Alone, IInv, TypeOK
  <2> QED
    BY <2>1, <2>2, <2>5, <2>6, SteadyAlone
<1> QED
  BY <1>1, <1>2, <1>3 DEF BeginRender, Passes, Leaves, Halts, Working, At, Of

LEMMA FinishRenderAlone ==
  ASSUME Alone, IInv', NEW r \in Runners, FinishRender(r)
  PROVE  Alone'
<1>1. CASE Halts(r)
  BY <1>1, HaltsAlone
<1> DEFINE freed == IF Chunks \subseteq keys \cup {doing[r].of} THEN {"prepared"} \cap keys ELSE {}
<1>2. CASE /\ At(r, "render", "finish") /\ chunk[doing[r].of] = "rendering"
           /\ SetChunk(doing[r].of, "ready")
           /\ keys' = keys \cup {doing[r].of}
           /\ Enqueue({<<"submit", doing[r].of>>} \cup Clean(freed))
           /\ Committed(r, "ok")
           /\ UNCHANGED <<tasked, resulted, external>>
  <2> USE <1>2 DEF external, runRow, At, Alone
  <2>1. PICK s \in Free : StepTo(r, s)
    BY Commits DEF Free, IInv
  <2>2. /\ doing' = doing /\ step'[r] = s
        /\ \A q \in Runners \ {r} : step'[q] = step[q]
    BY <2>1 DEF StepTo, IInv, TypeOK
  <2>3. PICK c \in Chunks : c = doing[r].of
    BY OfChunk DEF ChunkKinds
  <2>4. /\ chunk' = [chunk EXCEPT ![c] = "ready"] /\ chunk[c] = "rendering"
        /\ keys' = keys \cup {c} /\ c # "prepared"
        /\ UNCHANGED <<run, completed, versions, cleaned>>
    BY <2>3, TranscriptionAssumption DEF SetChunk
  <2>5. Added /\ \A id \in DOMAIN jobs' \ DOMAIN jobs :
                   id.kind = "clean" \/ (id.kind = "submit" /\ id.of = c)
    <3> DEFINE new == {<<"submit", c>>} \cup Clean(freed)
    <3>1. \A n \in new : n[1] = "clean" \/ (n[1] = "submit" /\ n[2] = c)
      BY DEF Clean
    <3>2. Enqueue(new)
      BY <2>3
    <3> HIDE DEF new
    <3> QED
      BY <3>1, <3>2, EnqueueAdds
  <2>6. Owned'
    BY <2>2, <2>5 DEF Owned, Holds, Added
  <2>7. OnlyRow'
    BY <2>5 DEF OnlyRow, Rivals, Uploads
  <2>8. Enqueued'
    BY <2>4, <2>5 DEF Enqueued, ChunkKinds, IInv, TypeOK
  <2>9. Recorded' /\ Marked'
    BY <2>4 DEF Recorded, Marked, Gone, IInv, TypeOK
  <2>10. ASSUME NEW q \in Runners
         PROVE  (Unfinished(doing[q], step[q]) /\ Emptied(doing[q], step[q]))'
    <3>1. CASE q = r
      BY <2>2, <3>1, FreeSteps DEF Unfinished, Emptied, Free
    <3>2. CASE q # r
      <4>1. step[q] # "idle" /\ doing[q].kind = "render" =>
              doing[q].of # c /\ doing[q].of \in Chunks
        BY <2>3, <3>2, OnlyExecution, OfChunk DEF Rivals, Uploads, ChunkKinds
      <4>2. Unfinished(doing[q], step[q]) /\ Emptied(doing[q], step[q])
        BY DEF Uploading
      <4> QED
        BY <2>2, <2>4, <3>2, <4>1, <4>2 DEF Unfinished, Emptied, Gone, IInv, TypeOK
    <3> QED
      BY <3>1, <3>2
  <2> QED
    BY <2>6, <2>7, <2>8, <2>9, <2>10 DEF Uploading
<1> QED
  BY <1>1, <1>2 DEF FinishRender, Leaves, Halts, Working, At, Of
\* The status of one chunk changes, and not from one before its render.
ChunkMoves(c) ==
  /\ chunk' \in [Chunks -> ChunkStatuses]
  /\ \A d \in Chunks \ {c} : chunk'[d] = chunk[d]
  /\ \/ chunk'[c] = chunk[c]
     \/ /\ chunk[c] \notin {"absent", "planned", "rendering", "failed"}
        /\ chunk'[c] # "absent"

\* A step of an execution that neither uploads nor cleans: all it may do to what
\* the invariant speaks of is to move its chunk.
LEMMA ChunkAlone ==
  ASSUME Alone, IInv', NEW r \in Runners, step[r] # "idle",
         doing[r].kind \notin Uploads \cup {"clean"},
         NEW s \in Steps \ {"idle"}, StepTo(r, s),
         UNCHANGED <<run, cleaned, keys, objects>>,
         \/ UNCHANGED chunk
         \/ doing[r].of \in Chunks /\ ChunkMoves(doing[r].of),
         \/ UNCHANGED jobs
         \/ \E new : /\ Enqueue(new)
                     /\ \A n \in new : n[1] \notin Uploads /\ (n[1] \in ChunkKinds =>
                                         n[2] \in Chunks /\ chunk[n[2]] # "absent")
  PROVE  Alone'
<1>1. Steady
  BY DEF Steady, ChunkMoves
<1>2. Added /\ NoUpload
  <2>1. CASE UNCHANGED jobs
    BY <2>1 DEF Added, NoUpload
  <2>2. CASE ~UNCHANGED jobs
    <3>1. PICK new : /\ Enqueue(new)
                     /\ \A n \in new : n[1] \notin Uploads /\ (n[1] \in ChunkKinds =>
                                         n[2] \in Chunks /\ chunk[n[2]] # "absent")
      BY <2>2
    <3> QED
      BY <1>1, <3>1, EnqueueAdds DEF NoUpload, Steady
  <2> QED
    BY <2>1, <2>2
<1>3. doing'[r] = doing[r]
  BY DEF StepTo
<1>4. Unfinished(doing[r], s)' /\ Emptied(doing[r], s)'
  BY <1>3 DEF Unfinished, Emptied, Uploads
<1> QED
  BY <1>1, <1>2, <1>4, SteadyAlone

LEMMA SubmitAlone ==
  ASSUME Alone, IInv', NEW r \in Runners,
         BeginSubmit(r) \/ Submit(r) \/ SubmitAmbiguous(r) \/ SubmitFails(r) \/ FinishSubmit(r)
  PROVE  Alone'
<1>1. CASE Halts(r)
  BY <1>1, HaltsAlone
<1>2. CASE Reads(r)
  BY <1>2, ReadsAlone
<1>3. CASE /\ step[r] \in {"start", "work", "finish"} /\ doing[r].kind = "submit"
           /\ ~Halts(r) /\ ~Reads(r)
  <2> USE <1>3
  <2>1. doing[r].of \in Chunks
    BY OfChunk DEF ChunkKinds, Alone
  <2>2. UNCHANGED <<run, cleaned, keys, objects>>
    BY DEF BeginSubmit, Submit, SubmitAmbiguous, SubmitFails, FinishSubmit, Passes, Leaves,
           SetChunk, Accept, database, runRow, chunkRows, external
  <2>3. \/ UNCHANGED chunk
        \/ ChunkMoves(doing[r].of)
    <3>1. \/ UNCHANGED chunk
          \/ \E t \in ChunkStatuses \ {"absent"} :
               /\ chunk[doing[r].of] \in {"ready", "submitting"}
               /\ chunk' = [chunk EXCEPT ![doing[r].of] = t]
      BY <2>1
         DEF BeginSubmit, Submit, SubmitAmbiguous, SubmitFails, FinishSubmit, Passes, Leaves,
             SetChunk, database, chunkRows, external, Of, Alone, IInv, TypeOK, ChunkStatuses
    <3> QED
      BY <2>1, <3>1 DEF ChunkMoves, Alone, IInv, TypeOK
  <2>4. \/ UNCHANGED jobs
        \/ Enqueue({<<"poll", doing[r].of>>}) /\ chunk[doing[r].of] # "absent"
    BY DEF BeginSubmit, Submit, SubmitAmbiguous, SubmitFails, FinishSubmit, Passes, Leaves, Of
  <2>5. \E s \in Steps \ {"idle"} : StepTo(r, s)
    <3>1. \/ Committed(r, "work") \/ Committed(r, "ok")
          \/ \E t \in {"start", "finish"} : StepTo(r, t)
          \/ \E o \in {"ok", "retryable", "permanent"} : StepTo(r, Wrapped(r, o))
      BY DEF BeginSubmit, Submit, SubmitAmbiguous, SubmitFails, FinishSubmit, Passes, Leaves,
             Return, Go
    <3>2. \A o \in {"ok", "retryable", "permanent"} : Wrapped(r, o) \in Steps \ {"idle"}
      BY DEF Wrapped, Steps
    <3>3. {"start", "work", "finish", "ok", "retryable", "record"} \subseteq Steps \ {"idle"}
      BY DEF Steps
    <3>4. \A t \in {"work", "ok"} : Committed(r, t) => \E u \in {t, "retryable", "record"} : StepTo(r, u)
      BY Commits DEF Alone, IInv
    <3> QED
      BY <3>1, <3>2, <3>3, <3>4
  <2> QED
    BY <2>1, <2>2, <2>3, <2>4, <2>5, ChunkAlone DEF Uploads
<1> QED
  BY <1>1, <1>2, <1>3
     DEF BeginSubmit, Submit, SubmitAmbiguous, SubmitFails, FinishSubmit, Passes, Leaves, Halts,
         Reads, Working, At, Uploads
\* An answer that is unusable or not there, a task that is given up: the chunk
\* is in flight, or its status stays.
LEMMA PollAlone ==
  ASSUME Alone, IInv', NEW r \in Runners,
         \/ BeginPoll(r) \/ PollPending(r) \/ PollFailed(r) \/ PollAnswered(r) \/ FinishPoll(r)
         \/ BeginIngest(r) \/ FetchResult(r)
  PROVE  Alone'
<1>1. CASE Halts(r)
  BY <1>1, HaltsAlone
<1>2. CASE Reads(r)
  BY <1>2, ReadsAlone
<1> DEFINE c == doing[r].of
<1>3. CASE \/ PollPending(r)
           \/ /\ At(r, "poll", "work") \/ At(r, "ingest", "work")
              /\ ClearTask(c) /\ Committed(r, Wrapped(r, "permanent"))
              /\ UNCHANGED <<runRow, keys, jobs, external>>
           \/ /\ At(r, "poll", "finish") /\ InFlight(c) /\ SetChunk(c, "running")
              /\ Enqueue({<<"ingest", c>>}) /\ Committed(r, "ok")
              /\ UNCHANGED <<keys, external>>
  <2>1. step[r] # "idle" /\ doing[r].kind \in {"poll", "ingest"} /\ c \in Chunks
    BY <1>3, OfChunk DEF At, ChunkKinds, Alone, PollPending
  <2>2. UNCHANGED <<run, cleaned, keys, objects>>
    BY <1>3 DEF PollPending, SetChunk, runRow, external
  <2>3. ChunkMoves(c)
    <3>1. \/ UNCHANGED chunk
          \/ InFlight(c) /\ chunk' = [chunk EXCEPT ![c] = "running"]
      BY <1>3, <2>1 DEF PollPending, ClearTask, SetChunk, Of, Alone, IInv, TypeOK
    <3> QED
      BY <2>1, <3>1 DEF ChunkMoves, InFlight, Alone, IInv, TypeOK, ChunkStatuses
  <2>4. \/ UNCHANGED jobs
        \/ Enqueue({<<"ingest", c>>}) /\ chunk[c] # "absent"
    BY <1>3 DEF PollPending, InFlight
  <2>5. \E s \in Steps \ {"idle"} : StepTo(r, s)
    <3>1. \E t \in {"again", "ok", "record"} : Committed(r, t)
      BY <1>3 DEF PollPending, Wrapped
    <3> QED
      BY <3>1, Commits DEF Alone, IInv, Steps
  <2>6. \A n \in {<<"ingest", c>>} : n[1] = "ingest" /\ n[2] = c
    OBVIOUS
  <2> QED
    BY <2>1, <2>2, <2>3, <2>4, <2>5, <2>6, ChunkAlone DEF Uploads
<1> QED
  BY <1>1, <1>2, <1>3
     DEF BeginPoll, PollFailed, PollAnswered, FinishPoll, BeginIngest, FetchResult, Passes, Leaves,
         Halts, Reads, Working, At, Of, Uploads

LEMMA FinishIngestAlone ==
  ASSUME Alone, IInv', NEW r \in Runners, FinishIngest(r)
  PROVE  Alone'
<1>1. CASE Halts(r)
  BY <1>1, HaltsAlone
<1> DEFINE c   == doing[r].of
           all == completed + 1 = Cardinality(Chunks)
           new == (IF all THEN {<<"align", "run">>} ELSE {}) \cup Clean({c} \cap keys)
<1>2. CASE /\ At(r, "ingest", "finish") /\ chunk[c] = "running"
           /\ chunk' = [chunk EXCEPT ![c] = "completed"]
           /\ Enqueue(new) /\ Committed(r, "ok")
           /\ UNCHANGED <<run, versions, cleaned, tasked, resulted, keys, external>>
  <2>1. step[r] = "finish" /\ doing[r].kind = "ingest" /\ c \in Chunks
    BY <1>2, OfChunk DEF At, ChunkKinds, Alone
  <2>2. UNCHANGED <<run, cleaned, keys, objects>>
    BY <1>2 DEF external
  <2>3. ChunkMoves(c)
    BY <1>2, <2>1 DEF ChunkMoves, Alone, IInv, TypeOK, ChunkStatuses
  <2>4. PICK s \in {"ok", "retryable", "record"} : StepTo(r, s)
    BY <1>2, Commits DEF Alone, IInv
  <2>5. \A n \in new : n[1] \in {"align", "clean"}
    <3> HIDE DEF all
    <3> QED
      BY DEF Clean
  <2>6. Enqueue(new)
    BY <1>2
  <2> HIDE DEF new
  <2> QED
    BY <2>1, <2>2, <2>3, <2>4, <2>5, <2>6, ChunkAlone DEF Uploads, Steps, ChunkKinds
<1> QED
  BY <1>1, <1>2 DEF FinishIngest, Leaves, Halts, Working, At, Of
-----------------------------------------------------------------------------
(* align, merge, cleanup.                                                  *)

LEMMA AlignAlone ==
  ASSUME Alone, IInv', NEW r \in Runners,
         BeginAlignment(r) \/ FinishAlignment(r) \/ BeginMerge(r) \/ ActivateTranscript(r)
  PROVE  Alone'
<1>1. CASE Halts(r)
  BY <1>1, HaltsAlone
<1>2. CASE Reads(r)
  BY <1>2, ReadsAlone
<1> DEFINE new == {<<"merge", "run">>} \cup Clean(Scopes)
<1>3. CASE /\ step[r] \in {"begin", "finish"} /\ doing[r].kind \in {"align", "merge"}
           /\ run \in {"transcribing", "aligning", "merging"}
           /\ run' \in {"aligning", "merging", "completed"}
           /\ UNCHANGED jobs \/ \E S \in SUBSET new : Enqueue(S)
           /\ \E t \in {"finish", "ok"} : Committed(r, t)
           /\ UNCHANGED <<cleaned, chunkRows, keys, external>>
  <2>1. PICK s \in {"finish", "ok", "retryable", "record"} : StepTo(r, s)
    BY <1>3, Commits DEF Alone, IInv
  <2>2. \A n \in new : n[1] \in {"merge", "clean"}
    BY DEF Clean
  <2>3. Added /\ NoUpload
    <3>1. CASE UNCHANGED jobs
      BY <3>1 DEF Added, NoUpload
    <3>2. CASE \E S \in SUBSET new : Enqueue(S)
      <4>1. PICK S \in SUBSET new : Enqueue(S)
        BY <3>2
      <4> HIDE DEF new
      <4> QED
        BY <2>2, <4>1, EnqueueAdds DEF NoUpload, Uploads, ChunkKinds
    <3> QED
      BY <1>3, <3>1, <3>2
  <2>4. Steady
    BY <1>3 DEF Steady, chunkRows, external, Early
  <2>5. s \in Steps \ {"idle"} /\ doing'[r] = doing[r]
    BY <2>1 DEF Steps, StepTo
  <2>6. Unfinished(doing[r], s)' /\ Emptied(doing[r], s)'
    BY <1>3, <2>5 DEF Unfinished, Emptied
  <2> QED
    BY <1>3, <2>1, <2>3, <2>4, <2>5, <2>6, SteadyAlone
<1>4. CASE ~Halts(r) /\ ~Reads(r)
  <2>1. /\ step[r] \in {"begin", "finish"} /\ doing[r].kind \in {"align", "merge"}
        /\ run \in {"transcribing", "aligning", "merging"}
        /\ run' \in {"aligning", "merging", "completed"}
        /\ \/ UNCHANGED jobs \/ Enqueue({<<"merge", "run">>}) \/ Enqueue(Clean(Scopes))
        /\ \E t \in {"finish", "ok"} : Committed(r, t)
        /\ UNCHANGED <<cleaned, chunkRows, keys, external>>
    BY <1>4 DEF BeginAlignment, FinishAlignment, BeginMerge, ActivateTranscript, Passes, Leaves,
                Halts, Reads, Working, At, Uploads
  <2>2. {<<"merge", "run">>} \in SUBSET new /\ Clean(Scopes) \in SUBSET new
    OBVIOUS
  <2> HIDE DEF new
  <2> QED
    BY <1>3, <2>1, <2>2
<1> QED
  BY <1>1, <1>2, <1>4

\* All that is recorded of a scope is deleted, and all there is is recorded.
LEMMA CleanupAlone ==
  ASSUME Alone, IInv', NEW r \in Runners, Cleanup(r)
  PROVE  Alone'
<1> USE DEF Alone, Cleanup, database, runRow, chunkRows, At, Of
<1>1. PICK gone \in SUBSET Doomed(doing[r].of) :
        /\ objects' = objects \ gone
        /\ IF gone = Doomed(doing[r].of)
           THEN Go(r, IF doing[r].of \in Scopes THEN "finish" ELSE "ok")
           ELSE StepTo(r, Wrapped(r, "retryable"))
  OBVIOUS
<1>2. PICK s \in {"finish", "ok", "retryable", "record"} :
        /\ StepTo(r, s)
        /\ s = "finish" => gone = Doomed(doing[r].of) /\ doing[r].of \in Scopes
  BY <1>1 DEF Go, Wrapped
<1>3. Added /\ NoUpload /\ Steady
  BY <1>1 DEF Added, NoUpload, Steady
<1>4. s \in Steps \ {"idle"} /\ doing'[r] = doing[r]
  BY <1>2 DEF Steps, StepTo
<1>5. s = "finish" => Gone(doing[r].of)'
  <2> SUFFICES ASSUME s = "finish" PROVE Gone(doing[r].of)'
    OBVIOUS
  <2>1. doing[r].of \in Scopes /\ objects' = objects \ Doomed(doing[r].of)
    BY <1>1, <1>2
  <2>2. run = "completed"
    BY <2>1 DEF IInv, Executions, Justified
  <2>3. \A c \in Chunks : chunk[c] = "completed" /\ c \in keys
    BY <2>2 DEF IInv, JoinedAll, Done, Kept
  <2>4. "source" \in keys /\ "prepared" \in keys
    BY <2>2, <2>3, TranscriptionAssumption DEF Recorded, Early
  <2>5. doing'[r].of = doing[r].of
    BY <1>4
  <2>6. CASE doing[r].of = "audio"
    BY <2>1, <2>4, <2>5, <2>6 DEF Gone, Doomed
  <2>7. CASE doing[r].of = "chunks"
    BY <2>1, <2>3, <2>5, <2>7 DEF Gone, Doomed
  <2> QED
    BY <2>1, <2>6, <2>7 DEF Scopes
<1>6. Unfinished(doing[r], s)' /\ Emptied(doing[r], s)'
  BY <1>4, <1>5 DEF Unfinished, Emptied
<1> QED
  BY <1>2, <1>3, <1>4, <1>6, SteadyAlone

LEMMA MarkCleanedAlone ==
  ASSUME Alone, IInv', NEW r \in Runners, MarkCleaned(r)
  PROVE  Alone'
<1> USE DEF Alone, MarkCleaned, chunkRows, external, At, Of
<1>1. PICK s \in {"ok", "retryable", "record"} : StepTo(r, s)
  BY Commits DEF IInv
<1>2. run = "completed" /\ Gone(doing[r].of)
  BY DEF IInv, Executions, Placed, Justified, Uploading, Emptied
<1>3. Added /\ NoUpload /\ Steady
  BY <1>2 DEF Added, NoUpload, Steady
<1>4. s \in Steps \ {"idle"} /\ doing'[r] = doing[r]
  BY <1>1 DEF Steps, StepTo
<1>5. Unfinished(doing[r], s)' /\ Emptied(doing[r], s)'
  BY <1>4 DEF Unfinished, Emptied
<1> QED
  BY <1>1, <1>3, <1>4, <1>5, SteadyAlone
-----------------------------------------------------------------------------
(* Claims, settlements, crashes, recoveries, and the ASR service.          *)

\* No row is added, and every execution goes on where it is, ends or begins.
LEMMA RowsAlone ==
  ASSUME Alone, IInv', UNCHANGED <<database, external>>,
         DOMAIN jobs' \subseteq DOMAIN jobs,
         \A q \in Runners :
           \/ step'[q] = "idle"
           \/ /\ Holds(q, doing[q])'
              /\ \/ step'[q] = "begin"
                 \/ step'[q] = step[q] /\ doing'[q] = doing[q]
  PROVE  Alone'
<1> USE DEF Alone, database, runRow, chunkRows, external
<1>1. Owned' /\ OnlyRow' /\ Enqueued' /\ Recorded' /\ Marked'
  BY DEF Owned, OnlyRow, Enqueued, Recorded, Marked, Gone
<1>2. Uploading'
  BY DEF Uploading, Unfinished, Emptied, Gone
<1> QED
  BY <1>1, <1>2

LEMMA ClaimAlone ==
  ASSUME Alone, IInv', NEW r \in Runners, NEW id \in DOMAIN jobs,
         Claim(r, id) \/ ClaimAnswerLost(r, id)
  PROVE  Alone'
<1>1. /\ step[r] = "idle" /\ jobs[id].by = Nobody /\ UNCHANGED <<database, external>>
      /\ jobs' = [jobs EXCEPT ![id] = [tries |-> @.tries + 1, by |-> r]]
  BY DEF Claim, ClaimAnswerLost, ClaimRow
<1>2. DOMAIN jobs' = DOMAIN jobs /\ jobs'[id].by = r
  BY <1>1
<1>3. ASSUME NEW q \in Runners, step[q] # "idle" PROVE Holds(q, doing[q]) /\ doing[q] # id
  BY <1>1, <1>3, TranscriptionAssumption DEF Alone, Owned, Holds
<1>4. ASSUME NEW q \in Runners \ {r}
      PROVE  step'[q] = step[q] /\ doing'[q] = doing[q]
  BY DEF Claim, ClaimAnswerLost, Alone, IInv, TypeOK
<1>5. \/ step'[r] = "idle"
      \/ step'[r] = "begin" /\ doing'[r] = id
  BY <1>1 DEF Claim, ClaimAnswerLost, Alone, IInv, TypeOK
<1>6. ASSUME NEW q \in Runners \ {r}, step'[q] # "idle" PROVE Holds(q, doing[q])'
  <2>1. Holds(q, doing[q]) /\ doing[q] # id /\ doing'[q] = doing[q]
    BY <1>3, <1>4, <1>6
  <2> QED
    BY <1>1, <1>2, <2>1 DEF Holds
<1>7. step'[r] # "idle" => Holds(r, doing[r])'
  BY <1>2, <1>5 DEF Holds
<1> QED
  BY <1>1, <1>2, <1>4, <1>5, <1>6, <1>7, RowsAlone

\* The row id goes, or is released.
Released(id) ==
  /\ DOMAIN jobs \ {id} \subseteq DOMAIN jobs' /\ DOMAIN jobs' \subseteq DOMAIN jobs
  /\ \A i \in DOMAIN jobs \ {id} : jobs'[i] = jobs[i]

LEMMA Releases ==
  ASSUME NEW id, Remove(id) \/ Spend(id) \/ \E n : Requeue(id, n)
  PROVE  Released(id)
<1>1. CASE Remove(id)
  BY <1>1 DEF Remove, Released
<1>2. CASE \E n : Requeue(id, n)
  BY <1>2 DEF Requeue, Released
<1> QED
  BY <1>1, <1>2 DEF Spend

LEMMA IdlesAlone ==
  ASSUME Alone, IInv', NEW r \in Runners, Settle(r) \/ SettleFails(r) \/ Crash(r)
  PROVE  Alone'
<1>1. Idle(r) /\ UNCHANGED <<database, external>> /\ step[r] # "idle"
  BY DEF Settle, SettleFails, Crash
<1>2. Released(doing[r])
  <2>1. CASE Settle(r) /\ Holds(r, doing[r])
    <3>1. /\ Remove(doing[r]) \/ Spend(doing[r])
             \/ Requeue(doing[r], jobs[doing[r]].tries - 1)
      BY <2>1 DEF Settle, Settled
    <3> QED
      BY <3>1, Releases
  <2>2. CASE UNCHANGED jobs
    BY <2>2 DEF Released
  <2> QED
    BY <2>1, <2>2 DEF Settle, SettleFails, Crash
<1>3. step'[r] = "idle"
  BY <1>1 DEF Idle, Alone, IInv, TypeOK
<1>4. ASSUME NEW q \in Runners \ {r}
      PROVE  /\ step'[q] = step[q] /\ doing'[q] = doing[q]
             /\ step[q] # "idle" => Holds(q, doing[q])'
  <2>1. step'[q] = step[q] /\ doing'[q] = doing[q]
    BY <1>1 DEF Idle, Alone, IInv, TypeOK
  <2>2. ASSUME step[q] # "idle" PROVE Holds(q, doing[q])'
    <3>1. Holds(q, doing[q]) /\ Holds(r, doing[r])
      BY <1>1, <2>2 DEF Alone, Owned
    <3>2. doing[q] # doing[r]
      BY <3>1 DEF Holds
    <3> QED
      BY <1>2, <2>1, <3>1, <3>2 DEF Holds, Released
  <2> QED
    BY <2>1, <2>2
<1> QED
  BY <1>1, <1>2, <1>3, <1>4, RowsAlone DEF Released

\* Without the fault "lease" the row of an execution under way is not recovered.
LEMMA RecoverAlone ==
  ASSUME "lease" \notin Faults, Alone, IInv', NEW id \in DOMAIN jobs, Recover(id)
  PROVE  Alone'
<1>1. /\ jobs[id].by # Nobody /\ doing[jobs[id].by] # id /\ Spend(id)
      /\ UNCHANGED <<database, doing, step, external>>
  BY DEF Recover, Orphaned, Fault
<1>2. Released(id)
  BY <1>1, Releases
<1>3. ASSUME NEW q \in Runners, step[q] # "idle" PROVE Holds(q, doing[q])'
  <2>1. Holds(q, doing[q]) /\ doing[q] # id
    BY <1>1, <1>3 DEF Alone, Owned, Holds
  <2> QED
    BY <1>1, <1>2, <2>1 DEF Released, Holds
<1> QED
  BY <1>1, <1>2, <1>3, RowsAlone DEF Released

LEMMA InitAlone == Init => Alone
<1> SUFFICES ASSUME Init PROVE Alone
  OBVIOUS
<1>1. DOMAIN jobs = {[kind |-> "download", of |-> "run", copy |-> 0]}
  BY DEF Init
<1>2. Owned /\ OnlyRow /\ Enqueued
  BY <1>1 DEF Init, Owned, OnlyRow, Enqueued, ChunkKinds
<1>3. Recorded /\ Uploading /\ Marked
  BY DEF Init, Recorded, Early, Uploading, Unfinished, Emptied, Marked
<1> QED
  BY <1>2, <1>3, InitIInv DEF Alone

LEMMA HandleAlone ==
  ASSUME Alone, IInv', NEW r \in Runners, Handle(r)
  PROVE  Alone'
<1>1. CASE \/ BeginDownload(r) \/ Download(r) \/ FinishDownload(r)
           \/ BeginPrepare(r) \/ Prepare(r) \/ FinishPrepare(r)
           \/ BeginPlan(r) \/ Plan(r)
           \/ BeginRender(r) \/ Render(r) \/ FinishRender(r)
  BY <1>1, BeginDownloadAlone, UploadsAlone, FinishDownloadAlone, BeginPrepareAlone,
     FinishPrepareAlone, PlanAlone, BeginRenderAlone, FinishRenderAlone
<1>2. CASE \/ BeginSubmit(r) \/ Submit(r) \/ SubmitAmbiguous(r) \/ SubmitFails(r)
           \/ FinishSubmit(r)
           \/ BeginPoll(r) \/ PollPending(r) \/ PollFailed(r) \/ PollAnswered(r)
           \/ FinishPoll(r) \/ BeginIngest(r) \/ FetchResult(r) \/ FinishIngest(r)
  BY <1>2, SubmitAlone, PollAlone, FinishIngestAlone
<1>3. CASE \/ BeginAlignment(r) \/ FinishAlignment(r) \/ BeginMerge(r)
           \/ ActivateTranscript(r) \/ Cleanup(r) \/ MarkCleaned(r)
           \/ Fails(r) \/ Panic(r)
  BY <1>3, AlignAlone, CleanupAlone, MarkCleanedAlone, HaltsAlone
<1> QED
  BY <1>1, <1>2, <1>3 DEF Handle

LEMMA NextAlone ==
  ASSUME "lease" \notin Faults, Alone, [Next]_vars
  PROVE  Alone'
<1>0. IInv'
  BY NextIInv DEF Alone
<1>1. ASSUME NEW r \in Runners, Execute(r) \/ Crash(r) PROVE Alone'
  BY <1>0, <1>1, HandleAlone, RecordAlone, HaltsAlone, IdlesAlone DEF Execute
<1>2. ASSUME NEW r \in Runners, NEW id \in DOMAIN jobs, Claim(r, id) \/ ClaimAnswerLost(r, id)
      PROVE  Alone'
  BY <1>0, <1>2, ClaimAlone
<1>3. ASSUME NEW id \in DOMAIN jobs, Recover(id) PROVE Alone'
  BY <1>0, <1>3, RecoverAlone
<1>4. CASE UNCHANGED <<database, jobs, doing, step, objects>>
  BY <1>0, <1>4 DEF Alone, Owned, Holds, OnlyRow, Enqueued, Recorded, Uploading, Unfinished,
                    Emptied, Marked, Gone, database, runRow, chunkRows
<1> QED
  BY <1>1, <1>2, <1>3, <1>4 DEF Next, Resolve, vars, runner, external

-----------------------------------------------------------------------------
\* A scope that MarkCleaned has marked has no object left in the bucket, and gets
\* none any more: whatever calls fail, workers die and commits are lost, as long
\* as no execution outlives its lease.
THEOREM CleanedStaysEmpty ==
  ASSUME "lease" \notin Faults
  PROVE  Spec => []CleanedIsGone
<1>1. Alone /\ [Next]_vars => Alone'
  BY NextAlone
<1>2. Alone => CleanedIsGone
  BY DEF Alone, Marked, Gone, CleanedIsGone
<1> QED
  BY <1>1, <1>2, InitAlone, PTL DEF Spec
=============================================================================
