------------------------- MODULE TranscriptionProofs -------------------------
(***************************************************************************)
(* For every set of runners, every finite set of chunks, any faults in any *)
(* number: what the handlers of a run keep true, and that they implement   *)
(* what TranscriptOutcome promises.                                        *)
(***************************************************************************)
EXTENDS Transcription, FiniteSetTheorems, TLAPS

(* The inductive invariant. *)

\* Why a job may exist.  A cleanup is enqueued when nobody needs any more what
\* it deletes.
Justified(id) ==
  /\ id.kind \in ChunkKinds => id.of \in Chunks
  /\ id.kind = "clean" =>
       /\ id.of \in Objects \cup Scopes
       /\ id.of = "source" => "prepared" \in keys
       /\ id.of = "prepared" => Chunks \subseteq keys
       /\ id.of \in Chunks => chunk[id.of] = "completed"
       /\ id.of \in Scopes => run = "completed"

\* Of the live rows; a job that is held has been tried.
Rows ==
  /\ IsFiniteSet(DOMAIN jobs)
  /\ \A id \in DOMAIN jobs :
       /\ jobs[id] \in [tries : 0..MaxAttempts, by : Runners \cup {Nobody}]
       /\ jobs[id].by # Nobody => jobs[id].tries > 0
       /\ Justified(id)

\* What an execution of job id relies on at step s.
Placed(id, s) ==
  /\ id.kind = "download" /\ s \in {"work", "finish"} => run # "queued"
  /\ id.kind = "download" /\ s = "finish" /\ run = "downloading" => "source" \in objects
  /\ id.kind = "prepare" /\ s = "finish" => "prepared" \in objects \/ Chunks \subseteq keys
  /\ id.kind = "plan" /\ s = "finish" => "prepared" \in keys
  /\ id.kind = "render" /\ s = "finish" => id.of \in objects \/ chunk[id.of] = "completed"
  /\ id.kind = "submit" /\ s \in {"work", "finish"} =>
       /\ chunk[id.of] \in {"submitting", "failed"}
       /\ accepted[id.of] = IF s = "work" THEN 0 ELSE 1
  /\ id.kind = "clean" /\ s = "finish" => id.of \in Scopes

Executions ==
  \A r \in Runners : step[r] # "idle" =>
    /\ doing[r] \in Ids /\ Justified(doing[r])
    /\ Placed(doing[r], step[r])

Submitting(r) == step[r] \in {"work", "finish"} /\ doing[r].kind = "submit"

\* Between StartChunkSubmit and the answer of the service a chunk has one
\* execution.
OneSubmits ==
  \A r, q \in Runners :
    Submitting(r) /\ Submitting(q) /\ doing[r].of = doing[q].of => r = q

Billed ==
  \A c \in Chunks :
    /\ accepted[c] \in {0, 1}
    /\ chunk[c] \in {"absent", "planned", "rendering", "ready"} => accepted[c] = 0
    /\ chunk[c] \in {"submitted", "running", "completed"} => accepted[c] = 1

Done == {c \in Chunks : chunk[c] = "completed"}

Counted == completed = Cardinality(Done)

JoinedAll == run \in {"aligning", "merging", "completed"} => Done = Chunks

Kept ==
  /\ run = "preparing" /\ "prepared" \notin keys => "source" \in objects
  /\ "prepared" \in keys =>
       /\ run \notin {"queued", "downloading"}
       /\ "prepared" \in objects \/ Chunks \subseteq keys
  /\ \A c \in Chunks :
       /\ chunk[c] \in {"absent", "planned", "rendering"} => c \notin keys
       /\ chunk[c] \in {"planned", "rendering"} => "prepared" \in keys
       /\ chunk[c] \in {"ready", "submitting", "submitted", "running"} => c \in objects
       /\ chunk[c] \in {"ready", "submitting", "submitted", "running", "completed"} => c \in keys

IInv ==
  /\ TypeOK /\ Rows /\ Executions /\ OneSubmits
  /\ Billed /\ Counted /\ JoinedAll /\ Kept

-----------------------------------------------------------------------------
(* The jobs table.                                                         *)

\* There is a free copy of any job among the first numbers: NewId denotes one.
LEMMA NewIdType ==
  ASSUME IsFiniteSet(DOMAIN jobs), NEW kind, NEW of
  PROVE  /\ NewId(kind, of) = [kind |-> kind, of |-> of, copy |-> NewId(kind, of).copy]
         /\ NewId(kind, of).kind = kind /\ NewId(kind, of).of = of
         /\ NewId(kind, of).copy \in Nat
<1> DEFINE N == Cardinality(DOMAIN jobs)
           Id(n) == [kind |-> kind, of |-> of, copy |-> n]
           Free == {n \in 0..N : Id(n) \notin DOMAIN jobs}
<1>1. N \in Nat
  BY FS_CardinalityType
<1>2. Free # {}
  <2> SUFFICES ASSUME Free = {} PROVE FALSE
    OBVIOUS
  <2> DEFINE f == [n \in 0..N |-> Id(n)]
  <2>1. \A n \in 0..N : f[n] \in DOMAIN jobs
    OBVIOUS
  <2>2. \A m, n \in 0..N : f[m] = f[n] => m = n
    <3> SUFFICES ASSUME NEW m \in 0..N, NEW n \in 0..N, f[m] = f[n] PROVE m = n
      OBVIOUS
    <3>1. f[m].copy = m /\ f[n].copy = n
      OBVIOUS
    <3> QED
      BY <3>1
  <2>3. f \in Injection(0..N, DOMAIN jobs)
    BY <2>1, <2>2 DEF Injection, IsInjective
  <2>4. Cardinality(0..N) = N + 1
    BY <1>1, FS_Interval
  <2>5. Cardinality(0..N) <= N
    BY <2>3, FS_Injection
  <2> QED
    BY <1>1, <2>4, <2>5
<1>3. PICK n \in Free : \A m \in Free : ~(<<m, n>> \in OpToRel(<, Nat))
  <2>1. Free \subseteq Nat
    BY <1>1
  <2> QED
    BY <1>2, <2>1, NatLessThanWellFounded, WFMin
<1>4. n \in 0..N /\ Id(n) \notin DOMAIN jobs /\ \A m \in 0..(n - 1) : Id(m) \in DOMAIN jobs
  <2>1. \A m \in 0..(n - 1) : m \in 0..N /\ <<m, n>> \in OpToRel(<, Nat)
    BY <1>1 DEF OpToRel
  <2> QED
    BY <1>3, <2>1
<1>5. NewId(kind, of).copy \in 0..N
  BY <1>4 DEF NewId
<1> QED
  BY <1>1, <1>5 DEF NewId

\* Pairs of something and the members of a finite set are finitely many.
LEMMA PairsFinite ==
  ASSUME NEW S, IsFiniteSet(S), NEW k
  PROVE  IsFiniteSet({<<k, x>> : x \in S})
<1> DEFINE T == {<<k, x>> : x \in S}
           f == [x \in S |-> <<k, x>>]
<1>1. f \in Surjection(S, T)
  BY DEF Surjection
<1> QED
  BY <1>1, FS_Surjection

\* No transaction enqueues more kinds of jobs than two.
LEMMA TwoFinite ==
  ASSUME NEW a, NEW b
  PROVE  IsFiniteSet({a, b})
<1>1. IsFiniteSet({a} \cup {b})
  BY FS_Singleton, FS_Union
<1>2. {a} \cup {b} = {a, b}
  OBVIOUS
<1> QED
  BY <1>1, <1>2

\* What justifies a job once justifies it for good: cleanups stay in order.
Grows ==
  /\ keys \subseteq keys'
  /\ run = "completed" => run' = "completed"
  /\ \A c \in Chunks : chunk[c] = "completed" => chunk'[c] = "completed"

LEMMA JustifiedForGood ==
  ASSUME Grows, NEW id, Justified(id)
  PROVE  Justified(id)'
  BY DEF Grows, Justified

\* The part of the type invariant that is about jobs.
JobsTyped ==
  /\ DOMAIN jobs \subseteq Ids
  /\ \A id \in DOMAIN jobs :
       /\ jobs[id].tries \in 0..MaxAttempts
       /\ jobs[id].by \in Runners \cup {Nobody}
       /\ id.kind \in ChunkKinds => id.of \in Chunks

LEMMA RowsUnchanged ==
  ASSUME TypeOK, Rows, Grows, UNCHANGED jobs
  PROVE  Rows' /\ JobsTyped'
  BY JustifiedForGood DEF Rows, TypeOK, JobsTyped

\* Enqueue adds rows nobody has tried.
LEMMA EnqueueRows ==
  ASSUME TypeOK, Rows, Grows, NEW new, IsFiniteSet(new), Enqueue(new),
         \A n \in new : /\ n[1] \in RunKinds \cup ChunkKinds
                        /\ n[2] \in {"run"} \cup Objects \cup Scopes
                        /\ Justified([kind |-> n[1], of |-> n[2]])'
  PROVE  Rows' /\ JobsTyped'
<1> DEFINE added == {NewId(n[1], n[2]) : n \in new}
           f     == [n \in new |-> NewId(n[1], n[2])]
<1>1. IsFiniteSet(added)
  <2>1. f \in Surjection(new, added)
    BY DEF Surjection
  <2> QED
    BY <2>1, FS_Surjection
<1>2. DOMAIN jobs' = DOMAIN jobs \cup added
  BY DEF Enqueue
<1>3. IsFiniteSet(DOMAIN jobs')
  <2>1. IsFiniteSet(DOMAIN jobs)
    BY DEF Rows
  <2>2. IsFiniteSet(DOMAIN jobs \cup added)
    BY <1>1, <2>1, FS_Union
  <2> QED
    BY <1>2, <2>2
<1>4. \A id \in added : id \in Ids /\ Justified(id)'
  <2> SUFFICES ASSUME NEW id \in added
               PROVE  id \in Ids /\ Justified(id)'
    OBVIOUS
  <2>1. PICK n \in new : id = NewId(n[1], n[2])
    OBVIOUS
  <2>2. PICK m \in Nat : id = [kind |-> n[1], of |-> n[2], copy |-> m]
    BY <2>1, NewIdType DEF Rows
  <2>3. id.kind = n[1] /\ id.of = n[2]
    BY <2>2
  <2>4. id \in Ids
    BY <2>2 DEF Ids
  <2>5. Justified([kind |-> n[1], of |-> n[2]])'
    OBVIOUS
  <2>6. Justified(id)'
    BY <2>3, <2>5 DEF Justified
  <2> QED
    BY <2>4, <2>6
<1>5. \A id \in DOMAIN jobs : id \in Ids /\ Justified(id)'
  BY JustifiedForGood DEF Rows, TypeOK
<1>6. \A id \in DOMAIN jobs' :
        jobs'[id] = IF id \in DOMAIN jobs THEN jobs[id] ELSE [tries |-> 0, by |-> Nobody]
  BY <1>2 DEF Enqueue
<1>7. \A id \in DOMAIN jobs' :
        /\ jobs'[id] \in [tries : 0..MaxAttempts, by : Runners \cup {Nobody}]
        /\ jobs'[id].by # Nobody => jobs'[id].tries > 0
  <2> SUFFICES ASSUME NEW id \in DOMAIN jobs'
               PROVE  /\ jobs'[id] \in [tries : 0..MaxAttempts, by : Runners \cup {Nobody}]
                      /\ jobs'[id].by # Nobody => jobs'[id].tries > 0
    OBVIOUS
  <2>1. CASE id \in DOMAIN jobs
    BY <1>6, <2>1 DEF Rows
  <2>2. CASE id \notin DOMAIN jobs
    BY <1>6, <2>2, TranscriptionAssumption
  <2> QED
    BY <2>1, <2>2
<1> QED
  BY <1>2, <1>3, <1>4, <1>5, <1>7 DEF Rows, JobsTyped, Justified

-----------------------------------------------------------------------------
(* Steps of an execution. *)

\* No step counts more faults than there may be.
Counts == trouble' \in 0..MaxTrouble

\* What TranscriptOutcome calls outcome.
Ending == CASE run = "completed" -> "published"
            [] run = "failed"    -> "failed"
            [] OTHER             -> "open"

\* A step of the run's promise, or none.
Promised == Outcome!Next \/ UNCHANGED Outcome!vars

LEMMA NothingPromised ==
  ASSUME Ending' = Ending, UNCHANGED accepted, Done' = Done
  PROVE  Promised
  BY DEF Promised, Outcome!vars, Ending, Done

LEMMA Goes ==
  ASSUME TypeOK, NEW r \in Runners, NEW s, Go(r, s)
  PROVE  StepTo(r, s) /\ Counts
  BY DEF Go, TypeOK, Counts

LEMMA FaultCounts ==
  ASSUME TypeOK, NEW f, Fault(f)
  PROVE  Counts
  BY TranscriptionAssumption DEF Fault, TypeOK, Counts

LEMMA Commits ==
  ASSUME TypeOK, NEW r \in Runners, NEW s, Committed(r, s)
  PROVE  Counts /\ \E t \in {s, "retryable", "record"} : StepTo(r, t)
  BY Goes, FaultCounts DEF Committed, Wrapped

\* The rest of IInv is about data that the step has left alone, or is shown of
\* it; what is left are the types of a runner, and the other executions.
LEMMA Moved ==
  ASSUME IInv, NEW r \in Runners, NEW s \in Steps \ {"idle"},
         step[r] # "idle", StepTo(r, s), Counts
  PROVE  /\ (doing \in [Runners -> Ids \cup {NoJob}])'
         /\ (step \in [Runners -> Steps])' /\ (last \in [Runners -> BOOLEAN])'
         /\ (trouble \in 0..MaxTrouble)'
         /\ doing' = doing /\ step'[r] = s
         /\ \A q \in Runners \ {r} : step'[q] = step[q]
  BY DEF IInv, TypeOK, StepTo, Counts

\* Only the position of an execution changes.
LEMMA Moves ==
  ASSUME IInv, NEW r \in Runners, NEW s \in Steps \ {"idle"},
         step[r] # "idle", StepTo(r, s), Counts,
         UNCHANGED <<database, jobs, external>>,
         Placed(doing[r], s),
         doing[r].kind = "submit" => s \notin {"work", "finish"}
  PROVE  IInv' /\ Promised
<1> USE DEF IInv, database, runRow, chunkRows, external
<1>1. Rows' /\ JobsTyped'
  BY RowsUnchanged DEF Grows
<1>2. TypeOK'
  BY <1>1, Moved DEF TypeOK, JobsTyped
<1>3. Executions' /\ OneSubmits'
  BY Moved DEF Executions, Placed, Justified, OneSubmits, Submitting
<1>4. Done' = Done /\ Ending' = Ending
  BY DEF Done, Ending
<1>5. Billed' /\ Counted' /\ JoinedAll' /\ Kept'
  BY <1>4 DEF Billed, Counted, JoinedAll, Kept
<1> QED
  BY <1>1, <1>2, <1>3, <1>4, <1>5, NothingPromised

Working == {"begin", "start", "work", "finish"}

\* The handler returns without having changed anything.
Halts(r) ==
  /\ step[r] \in Working
  /\ \E outcome \in {"ok", "retryable", "permanent"} : Return(r, outcome)
  /\ UNCHANGED <<database, jobs, external>>

LEMMA HaltsIInv ==
  ASSUME IInv, NEW r \in Runners, Halts(r)
  PROVE  IInv' /\ Promised
<1>1. PICK s \in {"ok", "retryable", "record"} : Go(r, s)
  BY DEF Halts, Return, Wrapped
<1>2. StepTo(r, s) /\ Counts
  BY <1>1, Goes DEF IInv
<1> QED
  BY <1>2, Moves DEF Halts, Working, Steps, Placed

LEMMA FailsIInv ==
  ASSUME IInv, NEW r \in Runners, Fails(r) \/ Panic(r) \/ RecordFails(r)
  PROVE  IInv' /\ Promised
<1>1. Counts /\ \E s \in {"retryable", "record", "giveup"} : StepTo(r, s)
  BY FaultCounts DEF Fails, Panic, RecordFails, Wrapped, IInv
<1> QED
  BY <1>1, Moves DEF Fails, Panic, RecordFails, Steps, Placed

\* FailJob.
LEMMA RecordIInv ==
  ASSUME IInv, NEW r \in Runners, Record(r)
  PROVE  IInv' /\ Promised
<1> USE DEF IInv
<1>1. StepTo(r, "giveup") /\ Counts
  BY Goes DEF Record
<1>2. /\ step[r] = "record"
      /\ run' \in {run, "failed"} /\ (run = "completed" <=> run' = "completed")
      /\ run' = IF run = "completed" THEN run ELSE "failed"
      /\ \A c \in Chunks : \/ chunk'[c] = chunk[c]
                           \/ chunk'[c] = "failed" /\ chunk[c] \notin {"completed", "failed"}
      /\ chunk' \in [Chunks -> ChunkStatuses]
      /\ UNCHANGED <<completed, versions, cleaned, tasked, resulted, keys, jobs, external>>
  BY DEF Record, TypeOK, ChunkStatuses
<1>3. Grows
  BY <1>2 DEF Grows
<1>4. Rows' /\ JobsTyped'
  BY <1>2, <1>3, RowsUnchanged
<1>5. TypeOK'
  BY <1>1, <1>2, <1>4, Moved DEF TypeOK, JobsTyped, RunStatuses, Steps, external
<1>6. Executions'
  BY <1>1, <1>2, <1>3, Moved, JustifiedForGood DEF Executions, Placed, Steps, external, Justified, ChunkKinds
<1>7. OneSubmits'
  BY <1>1, <1>2, Moved DEF OneSubmits, Submitting, Steps
<1>8. Done' = Done
  BY <1>2 DEF Done
<1>9. Billed' /\ Counted' /\ JoinedAll' /\ Kept'
  BY <1>2, <1>8 DEF Billed, Counted, JoinedAll, Kept, external
<1>10. Promised
  BY <1>2, <1>8 DEF Promised, Outcome!vars, Outcome!Next, Outcome!Fail, Done, external
<1> QED
  BY <1>4, <1>5, <1>6, <1>7, <1>9, <1>10

-----------------------------------------------------------------------------
(* download, prepare, plan.                                                *)

LEMMA BeginDownloadIInv ==
  ASSUME IInv, NEW r \in Runners, BeginDownload(r)
  PROVE  IInv' /\ Promised
<1> USE DEF IInv
<1>1. CASE Halts(r)
  BY <1>1, HaltsIInv
<1>2. CASE \E s \in {"start", "work"} :
             /\ Go(r, s) /\ At(r, "download", "begin") /\ (s = "work" => run = "downloading")
             /\ UNCHANGED <<database, jobs, external>>
  BY <1>2, Goes, Moves DEF At, Placed, Steps
<1>3. CASE /\ At(r, "download", "start") /\ run = "queued" /\ run' = "downloading"
           /\ Committed(r, "work")
           /\ UNCHANGED <<completed, versions, cleaned, chunkRows, keys, jobs, external>>
  <2> USE <1>3 DEF chunkRows, external
  <2>1. PICK s \in {"work", "retryable", "record"} : Counts /\ StepTo(r, s)
    BY Commits
  <2>2. Rows' /\ JobsTyped'
    BY RowsUnchanged DEF Grows
  <2>3. step[r] # "idle" /\ s \in Steps \ {"idle"}
    BY DEF At, Steps
  <2>4. TypeOK'
    BY <2>1, <2>2, <2>3, Moved DEF TypeOK, JobsTyped, RunStatuses
  <2>5. Executions' /\ OneSubmits'
    BY <2>1, <2>3, Moved DEF Executions, Placed, Justified, OneSubmits, Submitting, At
  <2>6. Done' = Done /\ Ending' = Ending
    BY DEF Done, Ending
  <2>7. Billed' /\ Counted' /\ JoinedAll' /\ Kept'
    BY <2>6 DEF Billed, Counted, JoinedAll, Kept
  <2> QED
    BY <2>2, <2>4, <2>5, <2>6, <2>7, NothingPromised
<1> QED
  BY <1>1, <1>2, <1>3
     DEF BeginDownload, Passes, Leaves, Halts, Working, At

\* An upload: the object is there before its key is recorded.
LEMMA PutIInv ==
  ASSUME IInv, NEW r \in Runners, NEW kind, NEW o, Put(r, kind, o),
         \/ kind = "download" /\ o = "source"
         \/ kind = "prepare" /\ o = "prepared"
         \/ kind = "render" /\ o = doing[r].of
  PROVE  IInv' /\ Promised
<1> USE DEF IInv, Put, At, database, runRow, chunkRows
<1>1. StepTo(r, "finish") /\ Counts
  BY Goes
<1>2. step[r] = "work" /\ "finish" \in Steps \ {"idle"}
  BY DEF Steps
<1>3. o \in Objects
  BY <1>2 DEF Objects, Executions, Justified, ChunkKinds
<1>4. Rows' /\ JobsTyped'
  BY RowsUnchanged DEF Grows
<1>5. TypeOK'
  BY <1>1, <1>2, <1>3, <1>4, Moved DEF TypeOK, JobsTyped
<1>6. Executions' /\ OneSubmits'
  BY <1>1, <1>2, Moved DEF Executions, Placed, Justified, OneSubmits, Submitting
<1>7. Done' = Done /\ Ending' = Ending
  BY DEF Done, Ending
<1>8. Billed' /\ Counted' /\ JoinedAll' /\ Kept'
  BY <1>7 DEF Billed, Counted, JoinedAll, Kept
<1> QED
  BY <1>4, <1>5, <1>6, <1>7, <1>8, NothingPromised
LEMMA UploadsIInv ==
  ASSUME IInv, NEW r \in Runners, Download(r) \/ Prepare(r) \/ Render(r)
  PROVE  IInv' /\ Promised
<1>1. CASE Halts(r)
  BY <1>1, HaltsIInv
<1>2. CASE \/ Put(r, "download", "source") \/ Put(r, "prepare", "prepared")
           \/ Put(r, "render", doing[r].of)
  BY <1>2, PutIInv
<1> QED
  BY <1>1, <1>2 DEF Download, Prepare, Render, Leaves, Halts, Working, At, Of

LEMMA FinishDownloadIInv ==
  ASSUME IInv, NEW r \in Runners, FinishDownload(r)
  PROVE  IInv' /\ Promised
<1> USE DEF IInv
<1>1. CASE Halts(r)
  BY <1>1, HaltsIInv
<1>2. CASE /\ At(r, "download", "finish") /\ run = "downloading"
           /\ run' = "preparing" /\ keys' = keys \cup {"source"}
           /\ Enqueue({<<"prepare", "run">>})
           /\ Committed(r, "ok")
           /\ UNCHANGED <<completed, versions, cleaned, chunkRows, external>>
  <2> USE <1>2 DEF chunkRows, external
  <2>1. PICK s \in {"ok", "retryable", "record"} : Counts /\ StepTo(r, s)
    BY Commits
  <2>2. Grows
    BY DEF Grows
  <2>3. Rows' /\ JobsTyped'
    <3>1. \A n \in {<<"prepare", "run">>} : Justified([kind |-> n[1], of |-> n[2]])'
      BY DEF Justified, ChunkKinds
    <3>2. IsFiniteSet({<<"prepare", "run">>})
      BY FS_Singleton
    <3> QED
      BY <2>2, <3>1, <3>2, EnqueueRows DEF RunKinds
  <2>4. step[r] = "finish" /\ s \in Steps \ {"idle"}
    BY DEF At, Steps
  <2>5. TypeOK'
    BY <2>1, <2>3, <2>4, Moved DEF TypeOK, JobsTyped, RunStatuses, Objects
  <2>6. Executions' /\ OneSubmits'
    BY <2>1, <2>2, <2>4, Moved, JustifiedForGood
       DEF Executions, Placed, OneSubmits, Submitting
  <2>7. Done' = Done /\ Ending' = Ending
    BY DEF Done, Ending
  <2>8. Billed' /\ Counted' /\ JoinedAll'
    BY <2>7 DEF Billed, Counted, JoinedAll
  <2>9. Kept'
    BY TranscriptionAssumption DEF Kept, Executions, Placed, At
  <2> QED
    BY <2>3, <2>5, <2>6, <2>7, <2>8, <2>9, NothingPromised
<1> QED
  BY <1>1, <1>2 DEF FinishDownload, Leaves, Halts, Working, At

LEMMA BeginPrepareIInv ==
  ASSUME IInv, NEW r \in Runners, BeginPrepare(r) \/ BeginPlan(r)
  PROVE  IInv' /\ Promised
<1>1. CASE Halts(r)
  BY <1>1, HaltsIInv
<1>2. CASE \/ /\ Go(r, "work") /\ At(r, "prepare", "begin")
              /\ UNCHANGED <<database, jobs, external>>
           \/ /\ Go(r, "finish") /\ At(r, "plan", "begin") /\ "prepared" \in keys
              /\ UNCHANGED <<database, jobs, external>>
  BY <1>2, Goes, Moves DEF IInv, At, Placed, Steps
<1> QED
  BY <1>1, <1>2 DEF BeginPrepare, BeginPlan, Passes, Leaves, Halts, Working, At

\* From here on nobody needs the source.
LEMMA FinishPrepareIInv ==
  ASSUME IInv, NEW r \in Runners, FinishPrepare(r)
  PROVE  IInv' /\ Promised
<1> USE DEF IInv
<1>1. CASE Halts(r)
  BY <1>1, HaltsIInv
<1>2. CASE /\ At(r, "prepare", "finish") /\ run = "preparing"
           /\ keys' = keys \cup {"prepared"}
           /\ Enqueue({<<"plan", "run">>} \cup Clean({"source"} \cap keys))
           /\ Committed(r, "ok")
           /\ UNCHANGED <<runRow, chunkRows, external>>
  <2> USE <1>2 DEF runRow, chunkRows, external
  <2>1. PICK s \in {"ok", "retryable", "record"} : Counts /\ StepTo(r, s)
    BY Commits
  <2>2. Grows
    BY DEF Grows
  <2>3. Rows' /\ JobsTyped'
    <3> DEFINE new == {<<"plan", "run">>} \cup Clean({"source"} \cap keys)
    <3>1. \A n \in new : n \in {<<"plan", "run">>, <<"clean", "source">>}
      BY DEF Clean
    <3>2. IsFiniteSet(new)
      <4>1. IsFiniteSet({<<"plan", "run">>, <<"clean", "source">>})
        BY TwoFinite
      <4> QED
        BY <3>1, <4>1, FS_Subset
    <3>3. \A n \in new : Justified([kind |-> n[1], of |-> n[2]])'
      BY <3>1, TranscriptionAssumption DEF Justified, ChunkKinds, Objects, Scopes
    <3> QED
      BY <2>2, <3>1, <3>2, <3>3, EnqueueRows DEF RunKinds, Objects
  <2>4. step[r] = "finish" /\ s \in Steps \ {"idle"}
    BY DEF At, Steps
  <2>5. TypeOK'
    BY <2>1, <2>3, <2>4, Moved DEF TypeOK, JobsTyped, Objects
  <2>6. Executions' /\ OneSubmits'
    BY <2>1, <2>2, <2>4, Moved, JustifiedForGood
       DEF Executions, Placed, OneSubmits, Submitting
  <2>7. Done' = Done /\ Ending' = Ending
    BY DEF Done, Ending
  <2>8. Billed' /\ Counted' /\ JoinedAll'
    BY <2>7 DEF Billed, Counted, JoinedAll
  <2>9. Kept'
    BY TranscriptionAssumption DEF Kept, Executions, Placed, At
  <2> QED
    BY <2>3, <2>5, <2>6, <2>7, <2>8, <2>9, NothingPromised
<1> QED
  BY <1>1, <1>2 DEF FinishPrepare, Leaves, Halts, Working, At

\* No chunk existed, and nothing is known of any of them.
LEMMA PlanIInv ==
  ASSUME IInv, NEW r \in Runners, Plan(r)
  PROVE  IInv' /\ Promised
<1> USE DEF IInv
<1>1. CASE Halts(r)
  BY <1>1, HaltsIInv
<1>2. CASE /\ At(r, "plan", "finish") /\ ~Planned /\ run = "preparing"
           /\ chunk' = [c \in Chunks |-> "planned"] /\ run' = "transcribing"
           /\ Enqueue({<<"render", c>> : c \in Chunks})
           /\ Committed(r, "ok")
           /\ UNCHANGED <<completed, versions, cleaned, tasked, resulted, keys, external>>
  <2> USE <1>2 DEF external
  <2>1. PICK s \in {"ok", "retryable", "record"} : Counts /\ StepTo(r, s)
    BY Commits
  <2>2. \A c \in Chunks : chunk[c] = "absent" /\ chunk'[c] = "planned"
    BY DEF Planned
  <2>3. Grows
    BY <2>2 DEF Grows
  <2>4. Rows' /\ JobsTyped'
    <3> DEFINE new == {<<"render", c>> : c \in Chunks}
    <3>1. IsFiniteSet(new)
      BY PairsFinite, TranscriptionAssumption
    <3>2. \A n \in new : /\ n[1] = "render" /\ n[2] \in Chunks
                         /\ Justified([kind |-> n[1], of |-> n[2]])'
      BY DEF Justified
    <3> QED
      BY <2>3, <3>1, <3>2, EnqueueRows DEF ChunkKinds, Objects
  <2>5. step[r] = "finish" /\ s \in Steps \ {"idle"}
    BY DEF At, Steps
  <2>6. TypeOK'
    BY <2>1, <2>4, <2>5, Moved DEF TypeOK, JobsTyped, RunStatuses, ChunkStatuses
  <2>7. Executions' /\ OneSubmits'
    BY <2>1, <2>2, <2>3, <2>5, Moved, JustifiedForGood
       DEF Executions, Placed, OneSubmits, Submitting, Justified, ChunkKinds
  <2>8. Done' = Done /\ Ending' = Ending
    BY <2>2 DEF Done, Ending
  <2>9. Billed' /\ Counted' /\ JoinedAll'
    BY <2>2, <2>8 DEF Billed, Counted, JoinedAll
  <2>10. Kept'
    BY <2>2 DEF Kept, Executions, Placed, At
  <2> QED
    BY <2>4, <2>6, <2>7, <2>8, <2>9, <2>10, NothingPromised
<1> QED
  BY <1>1, <1>2 DEF Plan, Leaves, Halts, Working, At
-----------------------------------------------------------------------------
(* render, submit.                                                         *)

\* The chunk of a job under way.
LEMMA OfChunk ==
  ASSUME IInv, NEW r \in Runners, step[r] # "idle", doing[r].kind \in ChunkKinds
  PROVE  doing[r].of \in Chunks
  BY DEF IInv, Executions, Justified

LEMMA BeginRenderIInv ==
  ASSUME IInv, NEW r \in Runners, BeginRender(r)
  PROVE  IInv' /\ Promised
<1> USE DEF IInv
<1>1. CASE Halts(r)
  BY <1>1, HaltsIInv
<1>2. CASE /\ \E s \in {"start", "work"} : Go(r, s)
           /\ At(r, "render", "begin")
           /\ UNCHANGED <<database, jobs, external>>
  BY <1>2, Goes, Moves DEF At, Placed, Steps
<1>3. CASE /\ At(r, "render", "start") /\ chunk[doing[r].of] = "planned"
           /\ SetChunk(doing[r].of, "rendering")
           /\ Committed(r, "work")
           /\ UNCHANGED <<tasked, resulted, keys, jobs, external>>
  <2> USE <1>3 DEF external, runRow
  <2>1. PICK s \in {"work", "retryable", "record"} : Counts /\ StepTo(r, s)
    BY Commits
  <2>2. step[r] = "start" /\ s \in Steps \ {"idle"}
    BY DEF At, Steps
  <2>3. PICK c \in Chunks : c = doing[r].of
    BY <2>2, OfChunk DEF At, ChunkKinds
  <2>4. /\ chunk' = [chunk EXCEPT ![c] = "rendering"] /\ chunk[c] = "planned"
        /\ UNCHANGED <<run, completed, versions, cleaned>>
    BY <2>3 DEF SetChunk
  <2>5. Grows
    BY <2>4 DEF Grows, TypeOK
  <2>6. Rows' /\ JobsTyped'
    BY <2>5, RowsUnchanged
  <2>7. TypeOK'
    BY <2>1, <2>2, <2>4, <2>6, Moved DEF TypeOK, JobsTyped, ChunkStatuses
  <2>8. Executions' /\ OneSubmits'
    BY <2>1, <2>2, <2>4, <2>5, Moved, JustifiedForGood
       DEF Executions, Placed, OneSubmits, Submitting, At, TypeOK
  <2>9. Done' = Done /\ Ending' = Ending
    BY <2>4 DEF Done, Ending, TypeOK
  <2>10. Billed' /\ Counted' /\ JoinedAll'
    BY <2>4, <2>9 DEF Billed, Counted, JoinedAll, TypeOK
  <2>11. Kept'
    BY <2>4 DEF Kept, TypeOK
  <2> QED
    BY <2>6, <2>7, <2>8, <2>9, <2>10, <2>11, NothingPromised
<1> QED
  BY <1>1, <1>2, <1>3 DEF BeginRender, Passes, Leaves, Halts, Working, At, Of

\* The last chunk to be rendered frees the prepared audio.
LEMMA FinishRenderIInv ==
  ASSUME IInv, NEW r \in Runners, FinishRender(r)
  PROVE  IInv' /\ Promised
<1> USE DEF IInv
<1>1. CASE Halts(r)
  BY <1>1, HaltsIInv
<1> DEFINE freed == IF Chunks \subseteq keys \cup {doing[r].of} THEN {"prepared"} \cap keys ELSE {}
<1>2. CASE /\ At(r, "render", "finish") /\ chunk[doing[r].of] = "rendering"
           /\ SetChunk(doing[r].of, "ready")
           /\ keys' = keys \cup {doing[r].of}
           /\ Enqueue({<<"submit", doing[r].of>>} \cup Clean(freed))
           /\ Committed(r, "ok")
           /\ UNCHANGED <<tasked, resulted, external>>
  <2> USE <1>2 DEF external, runRow
  <2>1. PICK s \in {"ok", "retryable", "record"} : Counts /\ StepTo(r, s)
    BY Commits
  <2>2. step[r] = "finish" /\ s \in Steps \ {"idle"}
    BY DEF At, Steps
  <2>3. PICK c \in Chunks : c = doing[r].of
    BY <2>2, OfChunk DEF At, ChunkKinds
  <2>4. /\ chunk' = [chunk EXCEPT ![c] = "ready"] /\ chunk[c] = "rendering"
        /\ keys' = keys \cup {c}
        /\ UNCHANGED <<run, completed, versions, cleaned>>
    BY <2>3 DEF SetChunk
  <2>5. Grows
    BY <2>4 DEF Grows, TypeOK
  <2>6. Rows' /\ JobsTyped'
    <3> DEFINE new == {<<"submit", c>>} \cup Clean(freed)
    <3>1. /\ new \subseteq {<<"submit", c>>, <<"clean", "prepared">>}
          /\ \A n \in new : n[1] = "clean" => Chunks \subseteq keys'
          /\ Enqueue(new)
      BY <2>3, <2>4 DEF Clean
    <3> HIDE DEF new
    <3>2. IsFiniteSet(new)
      <4>1. IsFiniteSet({<<"submit", c>>, <<"clean", "prepared">>})
        BY TwoFinite
      <4> QED
        BY <3>1, <4>1, FS_Subset
    <3>3. \A n \in new : /\ n[1] \in {"submit", "clean"} /\ n[2] \in {c, "prepared"}
                         /\ Justified([kind |-> n[1], of |-> n[2]])'
      BY <3>1, TranscriptionAssumption DEF Justified, ChunkKinds, Objects, Scopes
    <3> QED
      BY <2>5, <3>1, <3>2, <3>3, EnqueueRows DEF RunKinds, ChunkKinds, Objects
  <2>7. TypeOK'
    BY <2>1, <2>2, <2>4, <2>6, Moved DEF TypeOK, JobsTyped, ChunkStatuses, Objects
  <2>8. Executions' /\ OneSubmits'
    BY <2>1, <2>2, <2>4, <2>5, Moved, JustifiedForGood
       DEF Executions, Placed, OneSubmits, Submitting, At, TypeOK
  <2>9. Done' = Done /\ Ending' = Ending
    BY <2>4 DEF Done, Ending, TypeOK
  <2>10. Billed' /\ Counted' /\ JoinedAll'
    BY <2>4, <2>9 DEF Billed, Counted, JoinedAll, TypeOK
  <2>11. c \in objects
    BY <2>2, <2>3, <2>4 DEF Executions, Placed, At
  <2>12. Kept'
    BY <2>4, <2>11, TranscriptionAssumption DEF Kept, TypeOK
  <2> QED
    BY <2>6, <2>7, <2>8, <2>9, <2>10, <2>12, NothingPromised
<1> QED
  BY <1>1, <1>2 DEF FinishRender, Leaves, Halts, Working, At, Of

\* StartChunkSubmit: from here on the execution is alone with its chunk.
LEMMA BeginSubmitIInv ==
  ASSUME IInv, NEW r \in Runners, BeginSubmit(r)
  PROVE  IInv' /\ Promised
<1> USE DEF IInv
<1>1. CASE Halts(r)
  BY <1>1, HaltsIInv
<1>2. CASE Go(r, "start") /\ At(r, "submit", "begin") /\ UNCHANGED <<database, jobs, external>>
  BY <1>2, Goes, Moves DEF At, Placed, Steps
<1>3. CASE /\ At(r, "submit", "start") /\ chunk[doing[r].of] = "ready"
           /\ SetChunk(doing[r].of, "submitting")
           /\ Committed(r, "work")
           /\ UNCHANGED <<tasked, resulted, keys, jobs, external>>
  <2> USE <1>3 DEF external, runRow
  <2>1. PICK s \in {"work", "retryable", "record"} : Counts /\ StepTo(r, s)
    BY Commits
  <2>2. step[r] = "start" /\ s \in Steps \ {"idle"}
    BY DEF At, Steps
  <2>3. PICK c \in Chunks : c = doing[r].of
    BY <2>2, OfChunk DEF At, ChunkKinds
  <2>4. /\ chunk' = [chunk EXCEPT ![c] = "submitting"] /\ chunk[c] = "ready"
        /\ UNCHANGED <<run, completed, versions, cleaned>>
    BY <2>3 DEF SetChunk
  <2>5. Grows
    BY <2>4 DEF Grows, TypeOK
  <2>6. Rows' /\ JobsTyped'
    BY <2>5, RowsUnchanged
  <2>7. TypeOK'
    BY <2>1, <2>2, <2>4, <2>6, Moved DEF TypeOK, JobsTyped, ChunkStatuses
  <2>8. \A q \in Runners : Submitting(q) => doing[q].of # c
    BY <2>4 DEF Executions, Placed, Submitting
  <2>9. Executions'
    BY <2>1, <2>2, <2>3, <2>4, <2>5, Moved, JustifiedForGood
       DEF Executions, Placed, At, TypeOK, Billed
  <2>10. OneSubmits'
    BY <2>1, <2>2, <2>3, <2>8, Moved DEF OneSubmits, Submitting
  <2>11. Done' = Done /\ Ending' = Ending
    BY <2>4 DEF Done, Ending, TypeOK
  <2>12. Billed' /\ Counted' /\ JoinedAll'
    BY <2>4, <2>11 DEF Billed, Counted, JoinedAll, TypeOK
  <2>13. Kept'
    BY <2>4 DEF Kept, TypeOK
  <2> QED
    BY <2>6, <2>7, <2>9, <2>10, <2>11, <2>12, <2>13, NothingPromised
<1> QED
  BY <1>1, <1>2, <1>3 DEF BeginSubmit, Passes, Leaves, Halts, Working, At, Of
\* The one execution that submits a chunk does so once.
LEMMA AcceptIInv ==
  ASSUME IInv, NEW r \in Runners, At(r, "submit", "work"),
         NEW s \in {"finish", "retryable", "record"}, Go(r, s),
         Accept(doing[r].of), UNCHANGED <<database, jobs>>
  PROVE  IInv' /\ Promised
<1> USE DEF IInv, database, runRow, chunkRows
<1>1. StepTo(r, s) /\ Counts
  BY Goes
<1>2. step[r] = "work" /\ s \in Steps \ {"idle"}
  BY DEF At, Steps
<1>3. PICK c \in Chunks : c = doing[r].of
  BY <1>2, OfChunk DEF At, ChunkKinds
<1>4. accepted[c] = 0 /\ chunk[c] \in {"submitting", "failed"}
  BY <1>2, <1>3 DEF Executions, Placed, At
<1>5. /\ accepted' = [accepted EXCEPT ![c] = 1]
      /\ asr' = [asr EXCEPT ![c] = "pending"] /\ UNCHANGED objects
  BY <1>3, <1>4 DEF Accept, TypeOK
<1>6. Rows' /\ JobsTyped'
  BY RowsUnchanged DEF Grows
<1>7. TypeOK'
  BY <1>1, <1>2, <1>5, <1>6, Moved DEF TypeOK, JobsTyped
<1>8. \A q \in Runners \ {r} : Submitting(q) => doing[q].of # c
  BY <1>2, <1>3 DEF OneSubmits, Submitting, At
<1>9. Executions'
  BY <1>1, <1>2, <1>3, <1>4, <1>5, <1>8, Moved
     DEF Executions, Placed, Justified, Submitting, At, TypeOK
<1>10. OneSubmits'
  BY <1>1, <1>2, Moved DEF OneSubmits, Submitting, At
<1>11. Done' = Done /\ Ending' = Ending
  BY DEF Done, Ending
<1>12. Billed' /\ Counted' /\ JoinedAll' /\ Kept'
  BY <1>4, <1>5, <1>11 DEF Billed, Counted, JoinedAll, Kept, TypeOK
<1>13. Promised
  BY <1>4, <1>5, <1>11 DEF Promised, Outcome!Next, Outcome!Bill, Ending, Done
<1> QED
  BY <1>6, <1>7, <1>9, <1>10, <1>12, <1>13

LEMMA SubmitIInv ==
  ASSUME IInv, NEW r \in Runners, Submit(r) \/ SubmitAmbiguous(r)
  PROVE  IInv' /\ Promised
<1>1. CASE Halts(r)
  BY <1>1, HaltsIInv
<1>2. CASE /\ \E s \in {"finish", "record"} : Go(r, s)
           /\ At(r, "submit", "work") /\ Accept(doing[r].of) /\ UNCHANGED <<database, jobs>>
  BY <1>2, AcceptIInv
<1> QED
  BY <1>1, <1>2
     DEF Submit, SubmitAmbiguous, Return, Wrapped, Halts, Working, At, Of, database

\* The execution knows that the service has accepted nothing.
LEMMA SubmitFailsIInv ==
  ASSUME IInv, NEW r \in Runners, SubmitFails(r)
  PROVE  IInv' /\ Promised
<1> USE DEF IInv, SubmitFails, external, runRow
<1>1. Counts
  BY FaultCounts
<1>2. PICK s \in {"retryable", "record"} : StepTo(r, s)
  BY DEF Wrapped
<1>3. step[r] = "work" /\ s \in Steps \ {"idle"}
  BY DEF At, Steps
<1>4. PICK c \in Chunks : c = doing[r].of
  BY <1>3, OfChunk DEF At, ChunkKinds
<1>5. accepted[c] = 0 /\ chunk[c] \in {"submitting", "failed"}
  BY <1>3, <1>4 DEF Executions, Placed, At
<1>6. /\ chunk' \in [Chunks -> ChunkStatuses]
      /\ chunk'[c] \in {chunk[c], "ready"}
      /\ chunk'[c] # chunk[c] => chunk[c] = "submitting" /\ chunk'[c] = "ready"
      /\ \A d \in Chunks \ {c} : chunk'[d] = chunk[d]
  BY <1>4, <1>5 DEF TypeOK, ChunkStatuses, Of
<1>7. Grows
  BY <1>5, <1>6 DEF Grows
<1>8. Rows' /\ JobsTyped'
  BY <1>7, RowsUnchanged
<1>9. TypeOK'
  BY <1>1, <1>2, <1>3, <1>6, <1>8, Moved DEF TypeOK, JobsTyped
<1>10. \A q \in Runners \ {r} : Submitting(q) => doing[q].of # c
  BY <1>3, <1>4 DEF OneSubmits, Submitting, At
<1>11. Executions'
  BY <1>1, <1>2, <1>3, <1>4, <1>5, <1>6, <1>7, <1>10, Moved, JustifiedForGood
     DEF Executions, Placed, Submitting, Justified, ChunkKinds
<1>12. OneSubmits'
  BY <1>1, <1>2, <1>3, Moved DEF OneSubmits, Submitting
<1>13. Done' = Done /\ Ending' = Ending
  BY <1>5, <1>6 DEF Done, Ending
<1>14. Billed' /\ Counted' /\ JoinedAll' /\ Kept'
  BY <1>5, <1>6, <1>13 DEF Billed, Counted, JoinedAll, Kept
<1> QED
  BY <1>8, <1>9, <1>11, <1>12, <1>13, <1>14, NothingPromised

\* FinishSubmit: no other execution can be in its way.
LEMMA FinishSubmitIInv ==
  ASSUME IInv, NEW r \in Runners, FinishSubmit(r)
  PROVE  IInv' /\ Promised
<1> USE DEF IInv
<1>1. CASE Halts(r)
  BY <1>1, HaltsIInv
<1>2. CASE /\ At(r, "submit", "finish") /\ chunk[doing[r].of] = "submitting"
           /\ SetChunk(doing[r].of, "submitted")
           /\ tasked' = tasked \cup {doing[r].of}
           /\ Enqueue({<<"poll", doing[r].of>>})
           /\ Committed(r, "ok")
           /\ UNCHANGED <<resulted, keys, external>>
  <2> USE <1>2 DEF external, runRow
  <2>1. PICK s \in {"ok", "retryable", "record"} : Counts /\ StepTo(r, s)
    BY Commits
  <2>2. step[r] = "finish" /\ s \in Steps \ {"idle"}
    BY DEF At, Steps
  <2>3. PICK c \in Chunks : c = doing[r].of
    BY <2>2, OfChunk DEF At, ChunkKinds
  <2>4. /\ chunk' = [chunk EXCEPT ![c] = "submitted"] /\ chunk[c] = "submitting"
        /\ UNCHANGED <<run, completed, versions, cleaned>>
    BY <2>3 DEF SetChunk
  <2>5. accepted[c] = 1
    BY <2>2, <2>3 DEF Executions, Placed, At
  <2>6. Grows
    BY <2>4 DEF Grows, TypeOK
  <2>7. Rows' /\ JobsTyped'
    <3>1. \A n \in {<<"poll", c>>} : Justified([kind |-> n[1], of |-> n[2]])'
      BY DEF Justified, ChunkKinds
    <3>2. IsFiniteSet({<<"poll", c>>})
      BY FS_Singleton
    <3> QED
      BY <2>3, <2>6, <3>1, <3>2, EnqueueRows DEF ChunkKinds, Objects
  <2>8. TypeOK'
    BY <2>1, <2>2, <2>3, <2>4, <2>7, Moved DEF TypeOK, JobsTyped, ChunkStatuses
  <2>9. \A q \in Runners \ {r} : Submitting(q) => doing[q].of # c
    BY <2>2, <2>3 DEF OneSubmits, Submitting, At
  <2>10. Executions'
    BY <2>1, <2>2, <2>3, <2>4, <2>6, <2>9, Moved, JustifiedForGood
       DEF Executions, Placed, Submitting, TypeOK
  <2>11. OneSubmits'
    BY <2>1, <2>2, Moved DEF OneSubmits, Submitting
  <2>12. Done' = Done /\ Ending' = Ending
    BY <2>4 DEF Done, Ending, TypeOK
  <2>13. Billed' /\ Counted' /\ JoinedAll'
    BY <2>4, <2>5, <2>12 DEF Billed, Counted, JoinedAll, TypeOK
  <2>14. Kept'
    BY <2>4 DEF Kept, TypeOK
  <2> QED
    BY <2>7, <2>8, <2>10, <2>11, <2>12, <2>13, <2>14, NothingPromised
<1> QED
  BY <1>1, <1>2 DEF FinishSubmit, Leaves, Halts, Working, At, Of
-----------------------------------------------------------------------------
(* poll, ingest.                                                           *)

\* The steps of poll and ingest that write nothing.
LEMMA PollReadsIInv ==
  ASSUME IInv, NEW r \in Runners, BeginPoll(r) \/ PollAnswered(r) \/ BeginIngest(r)
  PROVE  IInv' /\ Promised
<1>1. CASE Halts(r)
  BY <1>1, HaltsIInv
<1>2. CASE /\ \E s \in {"work", "finish"} : Go(r, s)
           /\ step[r] # "idle" /\ doing[r].kind \in {"poll", "ingest"}
           /\ UNCHANGED <<database, jobs, external>>
  BY <1>2, Goes, Moves DEF IInv, Placed, Steps
<1> QED
  BY <1>1, <1>2 DEF BeginPoll, PollAnswered, BeginIngest, Passes, Leaves, Halts, Working, At

\* ClearExternalTask: the chunk stands where it stood, without its task.
LEMMA ClearTaskIInv ==
  ASSUME IInv, NEW r \in Runners, step[r] # "idle", doing[r].kind \in {"poll", "ingest"},
         NEW c, ClearTask(c), Committed(r, Wrapped(r, "permanent")),
         UNCHANGED <<runRow, keys, jobs, external>>
  PROVE  IInv' /\ Promised
<1> USE DEF IInv, runRow, external, ClearTask
<1>1. PICK s \in {"retryable", "record"} : Counts /\ StepTo(r, s)
  BY Commits DEF Wrapped
<1>2. s \in Steps \ {"idle"}
  BY DEF Steps
<1>3. Rows' /\ JobsTyped'
  BY RowsUnchanged DEF Grows
<1>4. TypeOK'
  BY <1>1, <1>2, <1>3, Moved DEF TypeOK, JobsTyped
<1>5. Executions' /\ OneSubmits'
  BY <1>1, <1>2, Moved DEF Executions, Placed, Justified, OneSubmits, Submitting
<1>6. Done' = Done /\ Ending' = Ending
  BY DEF Done, Ending
<1>7. Billed' /\ Counted' /\ JoinedAll' /\ Kept'
  BY <1>6 DEF Billed, Counted, JoinedAll, Kept
<1> QED
  BY <1>3, <1>4, <1>5, <1>6, <1>7, NothingPromised

LEMMA ClearsIInv ==
  ASSUME IInv, NEW r \in Runners, PollFailed(r) \/ FetchResult(r)
  PROVE  IInv' /\ Promised
<1>1. CASE Halts(r)
  BY <1>1, HaltsIInv
<1>2. CASE Go(r, "finish") /\ At(r, "ingest", "work") /\ UNCHANGED <<database, jobs, external>>
  BY <1>2, Goes, Moves DEF IInv, Placed, Steps, At
<1>3. CASE /\ step[r] = "work" /\ doing[r].kind \in {"poll", "ingest"}
           /\ ClearTask(Of(r)) /\ Committed(r, Wrapped(r, "permanent"))
           /\ UNCHANGED <<runRow, keys, jobs, external>>
  BY <1>3, ClearTaskIInv
<1> QED
  BY <1>1, <1>2, <1>3 DEF PollFailed, FetchResult, Passes, Leaves, Halts, Working, At

LEMMA PollPendingIInv ==
  ASSUME IInv, NEW r \in Runners, PollPending(r)
  PROVE  IInv' /\ Promised
<1> USE DEF IInv, PollPending, external, runRow
<1>1. PICK s \in {"again", "retryable", "record"} : Counts /\ StepTo(r, s)
  BY Commits
<1>2. step[r] = "work" /\ s \in Steps \ {"idle"}
  BY DEF At, Steps
<1>3. PICK c \in Chunks : c = doing[r].of
  BY <1>2, OfChunk DEF At, ChunkKinds
<1>4. /\ chunk' \in [Chunks -> ChunkStatuses]
      /\ chunk'[c] # chunk[c] => chunk[c] = "submitted" /\ chunk'[c] = "running"
      /\ \A d \in Chunks \ {c} : chunk'[d] = chunk[d]
  BY <1>3 DEF TypeOK, ChunkStatuses, Of, InFlight
<1>5. Grows
  BY <1>4 DEF Grows
<1>6. Rows' /\ JobsTyped'
  BY <1>5, RowsUnchanged
<1>7. TypeOK'
  BY <1>1, <1>2, <1>4, <1>6, Moved DEF TypeOK, JobsTyped
<1>8. Executions' /\ OneSubmits'
  BY <1>1, <1>2, <1>4, <1>5, Moved, JustifiedForGood
     DEF Executions, Placed, OneSubmits, Submitting, Justified, ChunkKinds
<1>9. Done' = Done /\ Ending' = Ending
  BY <1>4 DEF Done, Ending
<1>10. Billed' /\ Counted' /\ JoinedAll' /\ Kept'
  BY <1>4, <1>9 DEF Billed, Counted, JoinedAll, Kept
<1> QED
  BY <1>6, <1>7, <1>8, <1>9, <1>10, NothingPromised

LEMMA FinishPollIInv ==
  ASSUME IInv, NEW r \in Runners, FinishPoll(r)
  PROVE  IInv' /\ Promised
<1> USE DEF IInv
<1>1. CASE Halts(r)
  BY <1>1, HaltsIInv
<1>2. CASE /\ At(r, "poll", "finish") /\ InFlight(doing[r].of)
           /\ SetChunk(doing[r].of, "running")
           /\ resulted' = resulted \cup {doing[r].of}
           /\ Enqueue({<<"ingest", doing[r].of>>})
           /\ Committed(r, "ok")
           /\ UNCHANGED <<tasked, keys, external>>
  <2> USE <1>2 DEF external, runRow
  <2>1. PICK s \in {"ok", "retryable", "record"} : Counts /\ StepTo(r, s)
    BY Commits
  <2>2. step[r] = "finish" /\ s \in Steps \ {"idle"}
    BY DEF At, Steps
  <2>3. PICK c \in Chunks : c = doing[r].of
    BY <2>2, OfChunk DEF At, ChunkKinds
  <2>4. /\ chunk' = [chunk EXCEPT ![c] = "running"] /\ chunk[c] \in {"submitted", "running"}
        /\ UNCHANGED <<run, completed, versions, cleaned>>
    BY <2>3 DEF SetChunk, InFlight
  <2>5. Grows
    BY <2>4 DEF Grows, TypeOK
  <2>6. Rows' /\ JobsTyped'
    <3>1. \A n \in {<<"ingest", c>>} : Justified([kind |-> n[1], of |-> n[2]])'
      BY DEF Justified, ChunkKinds
    <3>2. IsFiniteSet({<<"ingest", c>>})
      BY FS_Singleton
    <3> QED
      BY <2>3, <2>5, <3>1, <3>2, EnqueueRows DEF ChunkKinds, Objects
  <2>7. TypeOK'
    BY <2>1, <2>2, <2>3, <2>4, <2>6, Moved DEF TypeOK, JobsTyped, ChunkStatuses
  <2>8. Executions' /\ OneSubmits'
    BY <2>1, <2>2, <2>3, <2>4, <2>5, Moved, JustifiedForGood
       DEF Executions, Placed, OneSubmits, Submitting, TypeOK
  <2>9. Done' = Done /\ Ending' = Ending
    BY <2>4 DEF Done, Ending, TypeOK
  <2>10. Billed' /\ Counted' /\ JoinedAll' /\ Kept'
    BY <2>4, <2>9 DEF Billed, Counted, JoinedAll, Kept, TypeOK
  <2> QED
    BY <2>6, <2>7, <2>8, <2>9, <2>10, NothingPromised
<1> QED
  BY <1>1, <1>2 DEF FinishPoll, Leaves, Halts, Working, At, Of

\* A set of chunks has a size, and the set of all is the only one of theirs.
LEMMA DoneSize ==
  ASSUME NEW S \in SUBSET Chunks
  PROVE  /\ IsFiniteSet(S) /\ Cardinality(S) \in Nat
         /\ Cardinality(S) = Cardinality(Chunks) => S = Chunks
  BY FS_Subset, FS_CardinalityType, TranscriptionAssumption

\* The result of a chunk is stored, and counted, once.
LEMMA FinishIngestIInv ==
  ASSUME IInv, NEW r \in Runners, FinishIngest(r)
  PROVE  IInv' /\ Promised
<1> USE DEF IInv
<1>1. CASE Halts(r)
  BY <1>1, HaltsIInv
<1> DEFINE all  == completed + 1 = Cardinality(Chunks)
           jobsOf(c) == (IF all THEN {<<"align", "run">>} ELSE {}) \cup Clean({c} \cap keys)
<1>2. CASE /\ At(r, "ingest", "finish") /\ chunk[doing[r].of] = "running"
           /\ run = "transcribing"
           /\ chunk' = [chunk EXCEPT ![doing[r].of] = "completed"]
           /\ completed' = completed + 1
           /\ Enqueue(jobsOf(doing[r].of))
           /\ Committed(r, "ok")
           /\ UNCHANGED <<run, versions, cleaned, tasked, resulted, keys, external>>
  <2> USE <1>2 DEF external
  <2>1. PICK s \in {"ok", "retryable", "record"} : Counts /\ StepTo(r, s)
    BY Commits
  <2>2. step[r] = "finish" /\ s \in Steps \ {"idle"}
    BY DEF At, Steps
  <2>3. PICK c \in Chunks : c = doing[r].of
    BY <2>2, OfChunk DEF At, ChunkKinds
  <2>4. chunk' = [chunk EXCEPT ![c] = "completed"] /\ chunk[c] = "running"
    BY <2>3
  <2>5. Grows
    BY <2>4 DEF Grows, TypeOK
  <2>6. Rows' /\ JobsTyped'
    <3> DEFINE new == jobsOf(c)
    <3>1. new \subseteq {<<"align", "run">>, <<"clean", c>>} /\ Enqueue(new)
      BY <2>3 DEF Clean
    <3> HIDE DEF new
    <3>2. IsFiniteSet(new)
      <4>1. IsFiniteSet({<<"align", "run">>, <<"clean", c>>})
        BY TwoFinite
      <4> QED
        BY <3>1, <4>1, FS_Subset
    <3>3. c \notin {"source", "prepared", "audio", "chunks", "run"}
      BY TranscriptionAssumption
    <3>4. chunk'[c] = "completed"
      BY <2>4 DEF TypeOK
    <3>5. \A n \in new : /\ n[1] \in {"align", "clean"} /\ n[2] \in {"run", c}
                         /\ Justified([kind |-> n[1], of |-> n[2]])'
      BY <3>1, <3>3, <3>4 DEF Justified, ChunkKinds, Objects, Scopes
    <3> QED
      BY <2>5, <3>1, <3>2, <3>5, EnqueueRows DEF RunKinds, Objects
  <2>7. TypeOK'
    BY <2>1, <2>2, <2>4, <2>6, Moved DEF TypeOK, JobsTyped, ChunkStatuses
  <2>8. Executions' /\ OneSubmits'
    BY <2>1, <2>2, <2>3, <2>4, <2>5, Moved, JustifiedForGood
       DEF Executions, Placed, OneSubmits, Submitting, TypeOK
  <2>9. Done' = Done \cup {c} /\ c \notin Done
    BY <2>4 DEF Done, TypeOK
  <2>10. Counted'
    <3>1. Done \in SUBSET Chunks
      BY DEF Done
    <3>2. Cardinality(Done \cup {c}) = Cardinality(Done) + 1
      BY <2>9, <3>1, DoneSize, FS_AddElement
    <3> QED
      BY <2>9, <3>2 DEF Counted
  <2>11. Billed' /\ JoinedAll' /\ Kept'
    BY <2>4, <2>5 DEF Billed, JoinedAll, Kept, TypeOK
  <2>12. Promised
    <3>1. accepted[c] = 1
      BY <2>4 DEF Billed
    <3> QED
      BY <2>9, <3>1 DEF Promised, Outcome!Next, Outcome!Transcribe, Done
  <2> QED
    BY <2>6, <2>7, <2>8, <2>10, <2>11, <2>12
<1> QED
  BY <1>1, <1>2 DEF FinishIngest, Leaves, Halts, Working, At, Of
-----------------------------------------------------------------------------
(* align, merge, cleanup.                                                  *)

\* As many chunks are completed as there are: all of them.
LEMMA BeginAlignmentIInv ==
  ASSUME IInv, NEW r \in Runners, BeginAlignment(r)
  PROVE  IInv' /\ Promised
<1> USE DEF IInv
<1>1. CASE Halts(r)
  BY <1>1, HaltsIInv
<1>2. CASE /\ At(r, "align", "begin") /\ run \in {"transcribing", "aligning"}
           /\ completed = Cardinality(Chunks)
           /\ run' = "aligning"
           /\ Committed(r, "finish")
           /\ UNCHANGED <<completed, versions, cleaned, chunkRows, keys, jobs, external>>
  <2> USE <1>2 DEF chunkRows, external
  <2>1. PICK s \in {"finish", "retryable", "record"} : Counts /\ StepTo(r, s)
    BY Commits
  <2>2. step[r] = "begin" /\ s \in Steps \ {"idle"}
    BY DEF At, Steps
  <2>3. Rows' /\ JobsTyped'
    BY RowsUnchanged DEF Grows
  <2>4. TypeOK'
    BY <2>1, <2>2, <2>3, Moved DEF TypeOK, JobsTyped, RunStatuses
  <2>5. Executions' /\ OneSubmits'
    BY <2>1, <2>2, Moved DEF Executions, Placed, Justified, OneSubmits, Submitting, At
  <2>6. Done' = Done /\ Ending' = Ending
    BY DEF Done, Ending
  <2>7. JoinedAll'
    <3>1. Done \in SUBSET Chunks
      BY DEF Done
    <3> QED
      BY <2>6, <3>1, DoneSize DEF Counted, JoinedAll
  <2>8. Billed' /\ Counted' /\ Kept'
    BY <2>6 DEF Billed, Counted, Kept
  <2> QED
    BY <2>3, <2>4, <2>5, <2>6, <2>7, <2>8, NothingPromised
<1> QED
  BY <1>1, <1>2 DEF BeginAlignment, Leaves, Halts, Working, At

LEMMA FinishAlignmentIInv ==
  ASSUME IInv, NEW r \in Runners, FinishAlignment(r)
  PROVE  IInv' /\ Promised
<1> USE DEF IInv
<1>1. CASE Halts(r)
  BY <1>1, HaltsIInv
<1>2. CASE /\ At(r, "align", "finish") /\ run = "aligning"
           /\ run' = "merging"
           /\ Enqueue({<<"merge", "run">>})
           /\ Committed(r, "ok")
           /\ UNCHANGED <<completed, versions, cleaned, chunkRows, keys, external>>
  <2> USE <1>2 DEF chunkRows, external
  <2>1. PICK s \in {"ok", "retryable", "record"} : Counts /\ StepTo(r, s)
    BY Commits
  <2>2. step[r] = "finish" /\ s \in Steps \ {"idle"}
    BY DEF At, Steps
  <2>3. Grows
    BY DEF Grows
  <2>4. Rows' /\ JobsTyped'
    <3>1. \A n \in {<<"merge", "run">>} : Justified([kind |-> n[1], of |-> n[2]])'
      BY DEF Justified, ChunkKinds
    <3>2. IsFiniteSet({<<"merge", "run">>})
      BY FS_Singleton
    <3> QED
      BY <2>3, <3>1, <3>2, EnqueueRows DEF RunKinds
  <2>5. TypeOK'
    BY <2>1, <2>2, <2>4, Moved DEF TypeOK, JobsTyped, RunStatuses
  <2>6. Executions' /\ OneSubmits'
    BY <2>1, <2>2, <2>3, Moved, JustifiedForGood
       DEF Executions, Placed, OneSubmits, Submitting
  <2>7. Done' = Done /\ Ending' = Ending
    BY DEF Done, Ending
  <2>8. Billed' /\ Counted' /\ JoinedAll' /\ Kept'
    BY <2>7 DEF Billed, Counted, JoinedAll, Kept
  <2> QED
    BY <2>4, <2>5, <2>6, <2>7, <2>8, NothingPromised
<1> QED
  BY <1>1, <1>2 DEF FinishAlignment, Leaves, Halts, Working, At

LEMMA BeginMergeIInv ==
  ASSUME IInv, NEW r \in Runners, BeginMerge(r)
  PROVE  IInv' /\ Promised
<1>1. CASE Halts(r)
  BY <1>1, HaltsIInv
<1>2. CASE Go(r, "finish") /\ At(r, "merge", "begin") /\ UNCHANGED <<database, jobs, external>>
  BY <1>2, Goes, Moves DEF IInv, Placed, Steps, At
<1> QED
  BY <1>1, <1>2 DEF BeginMerge, Passes, Leaves, Halts, Working, At

\* The transcript is published, and every object of the run may go.
LEMMA ActivateTranscriptIInv ==
  ASSUME IInv, NEW r \in Runners, ActivateTranscript(r)
  PROVE  IInv' /\ Promised
<1> USE DEF IInv
<1>1. CASE Halts(r)
  BY <1>1, HaltsIInv
<1>2. CASE /\ At(r, "merge", "finish") /\ run = "merging"
           /\ run' = "completed"
           /\ versions' = versions + 1
           /\ Enqueue(Clean(Scopes))
           /\ Committed(r, "ok")
           /\ UNCHANGED <<completed, cleaned, chunkRows, keys, external>>
  <2> USE <1>2 DEF chunkRows, external
  <2>1. PICK s \in {"ok", "retryable", "record"} : Counts /\ StepTo(r, s)
    BY Commits
  <2>2. step[r] = "finish" /\ s \in Steps \ {"idle"}
    BY DEF At, Steps
  <2>3. Grows
    BY DEF Grows
  <2>4. Rows' /\ JobsTyped'
    <3>1. Clean(Scopes) = {<<"clean", "audio">>, <<"clean", "chunks">>}
      BY DEF Clean, Scopes
    <3>2. IsFiniteSet(Clean(Scopes))
      BY <3>1, TwoFinite
    <3>3. \A n \in Clean(Scopes) :
            /\ n[1] = "clean" /\ n[2] \in Scopes
            /\ Justified([kind |-> n[1], of |-> n[2]])'
      BY <3>1, TranscriptionAssumption DEF Justified, ChunkKinds, Scopes
    <3> QED
      BY <2>3, <3>2, <3>3, EnqueueRows DEF RunKinds
  <2>5. TypeOK'
    BY <2>1, <2>2, <2>4, Moved DEF TypeOK, JobsTyped, RunStatuses
  <2>6. Executions' /\ OneSubmits'
    BY <2>1, <2>2, <2>3, Moved, JustifiedForGood
       DEF Executions, Placed, OneSubmits, Submitting
  <2>7. Done' = Done /\ Done = Chunks
    BY DEF Done, JoinedAll
  <2>8. Billed' /\ Counted' /\ JoinedAll' /\ Kept'
    BY <2>7 DEF Billed, Counted, JoinedAll, Kept
  <2>9. Promised
    BY <2>7 DEF Promised, Outcome!Next, Outcome!Publish, Done
  <2> QED
    BY <2>4, <2>5, <2>6, <2>8, <2>9
<1> QED
  BY <1>1, <1>2 DEF ActivateTranscript, Leaves, Halts, Working, At

\* What a cleanup deletes is of no use any more.
LEMMA CleanupIInv ==
  ASSUME IInv, NEW r \in Runners, Cleanup(r)
  PROVE  IInv' /\ Promised
<1> USE DEF IInv, Cleanup, database, runRow, chunkRows
<1>1. PICK s \in {"finish", "ok", "retryable", "record"} :
        /\ StepTo(r, s) /\ Counts
        /\ s = "finish" => doing[r].of \in Scopes
  BY Goes, FaultCounts DEF Wrapped, Of
<1>2. step[r] = "begin" /\ s \in Steps \ {"idle"}
  BY DEF At, Steps
<1>3. \A o \in objects \ objects' :
        \/ o = "source" /\ (run = "completed" \/ "prepared" \in keys)
        \/ o = "prepared" /\ Chunks \subseteq keys
        \/ o \in Chunks /\ chunk[o] = "completed"
  <2> SUFFICES ASSUME NEW o \in objects \ objects'
               PROVE  \/ o = "source" /\ (run = "completed" \/ "prepared" \in keys)
                      \/ o = "prepared" /\ Chunks \subseteq keys
                      \/ o \in Chunks /\ chunk[o] = "completed"
    OBVIOUS
  <2>1. o \in Doomed(doing[r].of)
    BY DEF Of
  <2>2. Justified(doing[r]) /\ doing[r].kind = "clean"
    BY <1>2 DEF Executions, At
  <2>3. CASE doing[r].of \in Scopes
    <3>1. run = "completed"
      BY <2>2, <2>3 DEF Justified
    <3>2. \A c \in Chunks : chunk[c] = "completed" /\ c \in keys
      BY <3>1 DEF JoinedAll, Done, Kept
    <3> QED
      BY <2>1, <2>3, <3>1, <3>2 DEF Doomed, Scopes
  <2>4. CASE doing[r].of \notin Scopes
    <3>1. o = doing[r].of
      BY <2>1, <2>4 DEF Doomed, Scopes
    <3> QED
      BY <2>2, <2>4, <3>1 DEF Justified, Objects
  <2> QED
    BY <2>3, <2>4
<1>4. objects' \subseteq objects
  OBVIOUS
<1>5. Rows' /\ JobsTyped'
  BY RowsUnchanged DEF Grows
<1>6. TypeOK'
  BY <1>1, <1>2, <1>4, <1>5, Moved DEF TypeOK, JobsTyped
<1>7. OneSubmits'
  BY <1>1, <1>2, Moved DEF OneSubmits, Submitting, At
<1>8. Executions'
  BY <1>1, <1>2, <1>3, Moved, TranscriptionAssumption
     DEF Executions, Placed, Justified, ChunkKinds, At, Kept
<1>9. Done' = Done /\ Ending' = Ending
  BY DEF Done, Ending
<1>10. Kept'
  BY <1>3, TranscriptionAssumption DEF Kept
<1>11. Billed' /\ Counted' /\ JoinedAll'
  BY <1>9 DEF Billed, Counted, JoinedAll
<1> QED
  BY <1>5, <1>6, <1>7, <1>8, <1>9, <1>10, <1>11, NothingPromised

LEMMA MarkCleanedIInv ==
  ASSUME IInv, NEW r \in Runners, MarkCleaned(r)
  PROVE  IInv' /\ Promised
<1> USE DEF IInv, MarkCleaned, chunkRows, external
<1>1. PICK s \in {"ok", "retryable", "record"} : Counts /\ StepTo(r, s)
  BY Commits
<1>2. step[r] = "finish" /\ s \in Steps \ {"idle"}
  BY DEF At, Steps
<1>3. doing[r].of \in Scopes
  BY <1>2 DEF Executions, Placed, At
<1>4. Rows' /\ JobsTyped'
  BY RowsUnchanged DEF Grows
<1>5. TypeOK'
  BY <1>1, <1>2, <1>3, <1>4, Moved DEF TypeOK, JobsTyped, Of
<1>6. Executions' /\ OneSubmits'
  BY <1>1, <1>2, Moved DEF Executions, Placed, Justified, OneSubmits, Submitting
<1>7. Done' = Done /\ Ending' = Ending
  BY DEF Done, Ending
<1>8. Billed' /\ Counted' /\ JoinedAll' /\ Kept'
  BY <1>7 DEF Billed, Counted, JoinedAll, Kept
<1> QED
  BY <1>4, <1>5, <1>6, <1>7, <1>8, NothingPromised
-----------------------------------------------------------------------------
(* Claims, settlements, crashes, and the ASR service.                      *)

LEMMA RemoveRows ==
  ASSUME TypeOK, Rows, Grows, NEW id, Remove(id)
  PROVE  Rows' /\ JobsTyped'
<1>1. /\ DOMAIN jobs' = DOMAIN jobs \ {id}
      /\ \A i \in DOMAIN jobs' : jobs'[i] = jobs[i]
  BY DEF Remove
<1>2. IsFiniteSet(DOMAIN jobs')
  BY <1>1, FS_Subset DEF Rows
<1> QED
  BY <1>1, <1>2, JustifiedForGood DEF Rows, TypeOK, JobsTyped

\* The row id gets a new holder, or none.
LEMMA UpdateRows ==
  ASSUME TypeOK, Rows, Grows, NEW id \in DOMAIN jobs,
         NEW tries \in 0..MaxAttempts, NEW by \in Runners \cup {Nobody},
         by # Nobody => tries > 0,
         jobs' = [jobs EXCEPT ![id] = [tries |-> tries, by |-> by]]
  PROVE  Rows' /\ JobsTyped'
<1>1. /\ DOMAIN jobs' = DOMAIN jobs
      /\ jobs'[id] = [tries |-> tries, by |-> by]
      /\ \A i \in DOMAIN jobs \ {id} : jobs'[i] = jobs[i]
  OBVIOUS
<1> QED
  BY <1>1, JustifiedForGood DEF Rows, TypeOK, JobsTyped

LEMMA SpendRows ==
  ASSUME TypeOK, Rows, Grows, NEW id \in DOMAIN jobs, Spend(id)
  PROVE  Rows' /\ JobsTyped'
<1>1. jobs[id].tries \in 0..MaxAttempts
  BY DEF TypeOK
<1>2. CASE jobs[id].tries < MaxAttempts
  BY <1>1, <1>2, UpdateRows DEF Spend, Requeue
<1>3. CASE ~(jobs[id].tries < MaxAttempts)
  BY <1>3, RemoveRows DEF Spend
<1> QED
  BY <1>2, <1>3

\* Nothing but the rows and the runners has changed, and no execution begins
\* to submit.
LEMMA RowsOnly ==
  ASSUME IInv, UNCHANGED <<database, external>>, Rows', JobsTyped', Counts,
         (doing \in [Runners -> Ids \cup {NoJob}])', (step \in [Runners -> Steps])',
         (last \in [Runners -> BOOLEAN])',
         \A r \in Runners :
           \/ step'[r] = step[r] /\ doing'[r] = doing[r]
           \/ step'[r] = "idle"
           \/ step'[r] = "begin" /\ doing'[r] \in Ids /\ Justified(doing'[r])
  PROVE  IInv' /\ Promised
<1> USE DEF IInv, database, runRow, chunkRows, external
<1>1. TypeOK'
  BY DEF TypeOK, JobsTyped, Counts
<1>2. Executions'
  BY DEF Executions, Placed, Justified
<1>3. OneSubmits'
  BY DEF OneSubmits, Submitting
<1>4. Done' = Done /\ Ending' = Ending
  BY DEF Done, Ending
<1>5. Billed' /\ Counted' /\ JoinedAll' /\ Kept'
  BY <1>4 DEF Billed, Counted, JoinedAll, Kept
<1> QED
  BY <1>1, <1>2, <1>3, <1>4, <1>5, NothingPromised

LEMMA ClaimIInv ==
  ASSUME IInv, NEW r \in Runners, NEW id \in DOMAIN jobs, Claim(r, id) \/ ClaimAnswerLost(r, id)
  PROVE  IInv' /\ Promised
<1> USE DEF IInv
<1>1. ClaimRow(r, id) /\ UNCHANGED <<database, external>>
  BY DEF Claim, ClaimAnswerLost, ClaimRow
<1>2. id \in Ids /\ Justified(id) /\ jobs[id].tries \in 0..MaxAttempts
  BY DEF TypeOK, Rows
<1>3. Rows' /\ JobsTyped'
  <2>1. jobs' = [jobs EXCEPT ![id] = [tries |-> jobs[id].tries + 1, by |-> r]]
    BY <1>1 DEF ClaimRow
  <2>2. jobs[id].tries + 1 \in 0..MaxAttempts /\ jobs[id].tries + 1 > 0
    BY <1>1, <1>2, TranscriptionAssumption DEF ClaimRow
  <2>3. Grows
    BY <1>1 DEF Grows, database, runRow, chunkRows
  <2> QED
    BY <2>1, <2>2, <2>3, UpdateRows
<1>4. Counts
  BY FaultCounts DEF Claim, ClaimAnswerLost, Counts, TypeOK
<1>5. /\ (doing \in [Runners -> Ids \cup {NoJob}])' /\ (step \in [Runners -> Steps])'
      /\ (last \in [Runners -> BOOLEAN])'
  <2> DEFINE b == jobs[id].tries + 1 >= MaxAttempts
  <2>1. b \in BOOLEAN
    OBVIOUS
  <2>2. last' \in {last, [last EXCEPT ![r] = b]}
    BY DEF Claim, ClaimAnswerLost
  <2> HIDE DEF b
  <2>3. (last \in [Runners -> BOOLEAN])'
    BY <2>1, <2>2 DEF TypeOK
  <2>4. /\ doing' \in {doing, [doing EXCEPT ![r] = id]}
        /\ step' \in {step, [step EXCEPT ![r] = "begin"]}
    BY DEF Claim, ClaimAnswerLost
  <2> QED
    BY <1>2, <2>3, <2>4 DEF TypeOK, Steps
<1>6. \A q \in Runners :
        \/ step'[q] = step[q] /\ doing'[q] = doing[q]
        \/ step'[q] = "begin" /\ doing'[q] \in Ids /\ Justified(doing'[q])
  BY <1>2 DEF Claim, ClaimAnswerLost, TypeOK
<1> QED
  BY <1>1, <1>3, <1>4, <1>5, <1>6, RowsOnly

\* The row may have another holder by now, whom the settlement leaves alone.
LEMMA SettleRows ==
  ASSUME IInv, NEW r \in Runners, Settle(r)
  PROVE  Rows' /\ JobsTyped'
<1> USE DEF IInv
<1>1. Grows
  BY DEF Settle, Grows, database, runRow, chunkRows
<1> DEFINE id == doing[r]
<1>2. CASE ~Holds(r, id)
  BY <1>1, <1>2, RowsUnchanged DEF Settle
<1>3. CASE Holds(r, id)
  <2>1. id \in DOMAIN jobs /\ Settled(r)
    BY <1>3 DEF Settle, Holds
  <2>2. CASE step[r] \in {"ok", "giveup"}
    BY <1>1, <2>1, <2>2, RemoveRows DEF Settled
  <2>3. CASE step[r] = "retryable"
    BY <1>1, <2>1, <2>3, SpendRows DEF Settled
  <2>4. CASE step[r] = "again"
    <3>1. Requeue(id, jobs[id].tries - 1)
      BY <2>1, <2>4 DEF Settled
    <3>2. jobs[id].tries \in 0..MaxAttempts /\ jobs[id].tries > 0
      BY <1>3, <2>1, TranscriptionAssumption DEF Rows, Holds
    <3>3. jobs[id].tries - 1 \in 0..MaxAttempts
      BY <3>2, TranscriptionAssumption
    <3> QED
      BY <1>1, <2>1, <3>1, <3>3, UpdateRows DEF Requeue
  <2> QED
    BY <2>2, <2>3, <2>4 DEF Settle
<1> QED
  BY <1>2, <1>3

LEMMA IdlesIInv ==
  ASSUME IInv, NEW r \in Runners, Settle(r) \/ SettleFails(r) \/ Crash(r)
  PROVE  IInv' /\ Promised
<1> USE DEF IInv
<1>1. Idle(r) /\ UNCHANGED <<database, external>>
  BY DEF Settle, SettleFails, Crash
<1>2. Rows' /\ JobsTyped'
  <2>1. CASE Settle(r)
    BY <2>1, SettleRows
  <2>2. CASE UNCHANGED jobs
    BY <1>1, <2>2, RowsUnchanged DEF Grows, database, runRow, chunkRows
  <2> QED
    BY <2>1, <2>2 DEF SettleFails, Crash
<1>3. Counts
  BY FaultCounts DEF Settle, SettleFails, Crash, Counts, TypeOK
<1>4. /\ (doing \in [Runners -> Ids \cup {NoJob}])' /\ (step \in [Runners -> Steps])'
      /\ (last \in [Runners -> BOOLEAN])'
  BY <1>1 DEF Idle, TypeOK, Steps
<1>5. \A q \in Runners :
        (step'[q] = step[q] /\ doing'[q] = doing[q]) \/ step'[q] = "idle"
  BY <1>1 DEF Idle, TypeOK
<1> QED
  BY <1>1, <1>2, <1>3, <1>4, <1>5, RowsOnly

LEMMA RecoverIInv ==
  ASSUME IInv, NEW id \in DOMAIN jobs, Recover(id)
  PROVE  IInv' /\ Promised
<1> USE DEF IInv
<1>1. Rows' /\ JobsTyped'
  BY SpendRows DEF Recover, Grows, database, runRow, chunkRows
<1>2. Counts
  BY FaultCounts DEF Recover, Counts, TypeOK
<1> QED
  BY <1>1, <1>2, RowsOnly DEF Recover, TypeOK

LEMMA ResolveIInv ==
  ASSUME IInv, NEW c \in Chunks, Resolve(c)
  PROVE  IInv' /\ Promised
<1> USE DEF IInv, Resolve, database, runRow, chunkRows, runner
<1>1. Rows' /\ JobsTyped'
  BY RowsUnchanged DEF Grows
<1>2. TypeOK'
  BY <1>1 DEF TypeOK, JobsTyped
<1>3. Executions' /\ OneSubmits'
  BY DEF Executions, Placed, Justified, OneSubmits, Submitting
<1>4. Done' = Done /\ Ending' = Ending
  BY DEF Done, Ending
<1>5. Billed' /\ Counted' /\ JoinedAll' /\ Kept'
  BY <1>4 DEF Billed, Counted, JoinedAll, Kept
<1> QED
  BY <1>1, <1>2, <1>3, <1>4, <1>5, NothingPromised

-----------------------------------------------------------------------------
LEMMA InitIInv == Init => IInv
<1> SUFFICES ASSUME Init PROVE IInv
  OBVIOUS
<1> DEFINE id == [kind |-> "download", of |-> "run", copy |-> 0]
<1>1. /\ DOMAIN jobs = {id} /\ jobs[id] = [tries |-> 0, by |-> Nobody]
      /\ id \in Ids
  BY DEF Init, Ids, RunKinds
<1>2. Rows
  <2>1. IsFiniteSet(DOMAIN jobs)
    BY <1>1, FS_Singleton
  <2>2. Justified(id)
    BY DEF Justified, ChunkKinds
  <2> QED
    BY <1>1, <2>1, <2>2, TranscriptionAssumption DEF Rows
<1>3. TypeOK
  BY <1>1, TranscriptionAssumption
     DEF Init, TypeOK, RunStatuses, ChunkStatuses, Steps, ChunkKinds
<1>4. Counted
  <2>1. Done = {}
    BY DEF Init, Done
  <2> QED
    BY <2>1, FS_EmptySet DEF Counted, Init
<1>5. Executions /\ OneSubmits /\ Billed /\ JoinedAll /\ Kept
  BY DEF Init, Executions, OneSubmits, Submitting, Billed, JoinedAll, Kept
<1> QED
  BY <1>2, <1>3, <1>4, <1>5 DEF IInv

LEMMA HandleIInv ==
  ASSUME IInv, NEW r \in Runners, Handle(r)
  PROVE  IInv' /\ Promised
<1>1. CASE \/ BeginDownload(r) \/ Download(r) \/ FinishDownload(r)
           \/ BeginPrepare(r) \/ Prepare(r) \/ FinishPrepare(r)
           \/ BeginPlan(r) \/ Plan(r)
  BY <1>1, BeginDownloadIInv, UploadsIInv, FinishDownloadIInv, BeginPrepareIInv,
     FinishPrepareIInv, PlanIInv
<1>2. CASE \/ BeginRender(r) \/ Render(r) \/ FinishRender(r)
           \/ BeginSubmit(r) \/ Submit(r) \/ SubmitAmbiguous(r) \/ SubmitFails(r)
           \/ FinishSubmit(r)
  BY <1>2, BeginRenderIInv, UploadsIInv, FinishRenderIInv, BeginSubmitIInv, SubmitIInv,
     SubmitFailsIInv, FinishSubmitIInv
<1>3. CASE \/ BeginPoll(r) \/ PollPending(r) \/ PollFailed(r) \/ PollAnswered(r)
           \/ FinishPoll(r) \/ BeginIngest(r) \/ FetchResult(r) \/ FinishIngest(r)
  BY <1>3, PollReadsIInv, PollPendingIInv, ClearsIInv, FinishPollIInv, FinishIngestIInv
<1>4. CASE \/ BeginAlignment(r) \/ FinishAlignment(r) \/ BeginMerge(r)
           \/ ActivateTranscript(r) \/ Cleanup(r) \/ MarkCleaned(r)
           \/ Fails(r) \/ Panic(r)
  BY <1>4, BeginAlignmentIInv, FinishAlignmentIInv, BeginMergeIInv, ActivateTranscriptIInv,
     CleanupIInv, MarkCleanedIInv, FailsIInv
<1> QED
  BY <1>1, <1>2, <1>3, <1>4 DEF Handle

\* Every step keeps the invariant, and is a step of what the run promises or none.
LEMMA NextIInv == IInv /\ [Next]_vars => IInv' /\ Promised
<1> SUFFICES ASSUME IInv, [Next]_vars PROVE IInv' /\ Promised
  OBVIOUS
<1>1. ASSUME NEW r \in Runners, Execute(r) PROVE IInv' /\ Promised
  BY <1>1, HandleIInv, RecordIInv, FailsIInv, IdlesIInv DEF Execute
<1>2. ASSUME NEW r \in Runners, Crash(r) PROVE IInv' /\ Promised
  BY <1>2, IdlesIInv
<1>3. ASSUME NEW r \in Runners, NEW id \in DOMAIN jobs, Claim(r, id) \/ ClaimAnswerLost(r, id)
      PROVE  IInv' /\ Promised
  BY <1>3, ClaimIInv
<1>4. ASSUME NEW id \in DOMAIN jobs, Recover(id) PROVE IInv' /\ Promised
  BY <1>4, RecoverIInv
<1>5. ASSUME NEW c \in Chunks, Resolve(c) PROVE IInv' /\ Promised
  BY <1>5, ResolveIInv
<1>6. CASE UNCHANGED vars
  <2> USE <1>6 DEF IInv, vars, database, runRow, chunkRows, external, runner
  <2>1. Rows' /\ JobsTyped'
    BY RowsUnchanged DEF Grows
  <2>2. Counts
    BY DEF Counts, TypeOK
  <2> QED
    BY <2>1, <2>2, RowsOnly DEF TypeOK
<1> QED
  BY <1>1, <1>2, <1>3, <1>4, <1>5, <1>6 DEF Next

LEMMA Invariance == Spec => []IInv
<1>1. Init => IInv
  BY InitIInv
<1>2. IInv /\ [Next]_vars => IInv'
  BY NextIInv
<1> QED
  BY <1>1, <1>2, PTL DEF Spec

-----------------------------------------------------------------------------
(* The results.                                                            *)

\* Whatever the handlers of a run do to one another, every row and every
\* execution keeps a value the code knows.
THEOREM TypeCorrect == Spec => []TypeOK
<1>1. IInv => TypeOK
  BY DEF IInv
<1> QED
  BY <1>1, Invariance, PTL

\* The ASR service accepts a chunk at most once, however many jobs submit it,
\* and whichever answers, leases and workers are lost (BeginSubmit and
\* ErrSubmissionAmbiguous).
THEOREM SubmittedOnce == Spec => []AtMostOneSubmission
<1>1. IInv => AtMostOneSubmission
  BY DEF IInv, Billed, AtMostOneSubmission
<1> QED
  BY <1>1, Invariance, PTL

\* No cleanup job deletes an object that a step to come has to read, though it
\* may run late, twice, or after the run has failed.
THEOREM NeededObjects == Spec => []NeededObjectsPresent
<1>1. IInv => NeededObjectsPresent
  <2> SUFFICES ASSUME IInv PROVE NeededObjectsPresent
    OBVIOUS
  <2>1. ASSUME NEW c \in Chunks, chunk[c] \in {"planned", "rendering"}
        PROVE  "prepared" \in objects
    BY <2>1 DEF IInv, Kept
  <2> QED
    BY <2>1 DEF IInv, Kept, NeededObjectsPresent, InFlight
<1> QED
  BY <1>1, Invariance, PTL

\* Every step of a handler is one of TranscriptOutcome, or none: each chunk is
\* billed at most once, the transcript is published at most once and from all
\* chunks, and a run that is over stays as it is.
THEOREM RunImplementsOutcome == Spec => ImplementsOutcome
<1>1. Init => Outcome!Init
  BY DEF Init, Outcome!Init
<1>2. IInv /\ [Next]_vars => [Outcome!Next]_Outcome!vars
  BY NextIInv DEF Promised
<1> QED
  BY <1>1, <1>2, Invariance, PTL DEF Spec, ImplementsOutcome, Outcome!Spec
=============================================================================
