------------------------------ MODULE JobQueue ------------------------------
(***************************************************************************)
(* The jobs table of PostgreSQL (internal/repository/jobqueue.go over      *)
(* queries/jobs.sql) and the worker processes that drain it                *)
(* (internal/worker/worker.go).                                            *)
(*                                                                         *)
(* One action per SQL transaction and per step of a worker's loop.  What a *)
(* handler does is not modelled here, only how it ends.  Clocks are        *)
(* abstracted to the two comparisons the SQL makes with now(): run_after   *)
(* (due, earlier) and locked_at (expired).  No caller sets a priority, so  *)
(* ORDER BY priority DESC, run_after is the order of run_after.            *)
(*                                                                         *)
(* A definition whose name ends in _<mistake> is the one of that name with *)
(* a mistake in it; no specification uses it, and TLC refutes a property   *)
(* when it takes the place of the right one.                               *)
(***************************************************************************)
EXTENDS Naturals

CONSTANTS Jobs,          \* rows the jobs table may come to hold
          CleanupJobs,   \* those whose type is cleanup_audio
          Workers,       \* worker IDs (hostname-pid)
          MaxAttempts,   \* max_attempts: every caller leaves the default, 3
          NoJob, NoWorker

ASSUME JobQueueAssumption ==
  /\ CleanupJobs \subseteq Jobs
  /\ MaxAttempts \in Nat \ {0}
  /\ NoWorker \notin Workers
  /\ NoJob \notin Jobs

VARIABLES
  status,     \* status[j]: the column, or none before the INSERT and deleted after the DELETE
  attempt,    \* attempt[j]: the column
  lockedBy,   \* lockedBy[j]: the column locked_by, NoWorker for NULL
  expired,    \* expired[j]: locked_at < now() - lease
  due,        \* the queued jobs with run_after <= now()
  earlier,    \* earlier[j]: the due jobs that ORDER BY run_after puts before the due job j
  pc,         \* pc[w]: where the loop of worker w stands
  cur,        \* cur[w]: the job worker w is processing
  result,     \* result[w]: what its handler has returned
  spent       \* history: executions of j that ended without being rescheduled

row     == <<status, attempt, lockedBy, expired, due, earlier>>
process == <<pc, cur, result>>
vars    == <<row, process, spent>>

Statuses == {"none", "queued", "running", "succeeded", "failed", "deleted"}
Results  == {"ok", "reschedule", "retryable", "permanent"}

TypeOK ==
  /\ status \in [Jobs -> Statuses]
  /\ attempt \in [Jobs -> 0..MaxAttempts]
  /\ lockedBy \in [Jobs -> Workers \cup {NoWorker}]
  /\ expired \in [Jobs -> BOOLEAN]
  /\ due \in SUBSET Jobs
  /\ earlier \in [Jobs -> SUBSET Jobs]
  /\ pc \in [Workers -> {"down", "claim", "select", "busy"}]
  /\ cur \in [Workers -> Jobs \cup {NoJob}]
  /\ result \in [Workers -> Results \cup {"none"}]
  /\ spent \in [Jobs -> 0..MaxAttempts]

Init ==
  /\ status = [j \in Jobs |-> "none"]
  /\ attempt = [j \in Jobs |-> 0]
  /\ lockedBy = [j \in Jobs |-> NoWorker]
  /\ expired = [j \in Jobs |-> FALSE]
  /\ due = {}
  /\ earlier = [j \in Jobs |-> {}]
  /\ pc = [w \in Workers |-> "down"]
  /\ cur = [w \in Workers |-> NoJob]
  /\ result = [w \in Workers |-> "none"]
  /\ spent = [j \in Jobs |-> 0]

-----------------------------------------------------------------------------
(* The run_after order.  A job becomes due at now(), behind every job that *)
(* is due already; jobs that become due together are not ordered.          *)

MakeDue(S) ==
  /\ due' = due \cup S
  /\ earlier' = [j \in Jobs |-> IF j \in S THEN due ELSE earlier[j]]

\* now() is the time of BEGIN: when its transaction commits, an enqueued job may
\* come in front of jobs that have become due meanwhile.
EnqueueDue(j) ==
  \E ahead \in SUBSET due :
    LET behind == due \ ahead IN
    /\ \A k \in behind : ahead \subseteq earlier[k]
    /\ due' = due \cup {j}
    /\ earlier' = [k \in Jobs |-> CASE k = j        -> ahead
                                    [] k \in behind -> earlier[k] \cup {j}
                                    [] OTHER        -> earlier[k]]

LeaveDue(j) ==
  /\ due' = due \ {j}
  /\ earlier' = [k \in Jobs |-> IF k = j THEN {} ELSE earlier[k] \ {j}]

NotDue == UNCHANGED <<due, earlier>>

Unlock_KeepsLockedAt(S) ==
  /\ lockedBy' = [j \in Jobs |-> IF j \in S THEN NoWorker ELSE lockedBy[j]]
  /\ UNCHANGED expired

\* locked_by = NULL, locked_at = NULL.
Unlock(S) ==
  /\ lockedBy' = [j \in Jobs |-> IF j \in S THEN NoWorker ELSE lockedBy[j]]
  /\ expired' = [j \in Jobs |-> IF j \in S THEN FALSE ELSE expired[j]]

Held_ByAnyWorker(w, j) == status[j] = "running"

\* The WHERE clause of HeartbeatJob, CompleteJob, RetryOrFailJob and RescheduleJob.
Held(w, j) == status[j] = "running" /\ lockedBy[j] = w

Spend(S) == spent' = [j \in Jobs |-> IF j \in S THEN spent[j] + 1 ELSE spent[j]]

AfterFailure_OffByOne(j) == IF attempt[j] <= MaxAttempts THEN "queued" ELSE "failed"

\* status of a job whose attempt ended badly.
AfterFailure(j) == IF attempt[j] < MaxAttempts THEN "queued" ELSE "failed"

-----------------------------------------------------------------------------
(* The table, seen from the enqueuing code, the admin command and time.    *)

\* EnqueueJob: run_after is now(), or in the future.
Enqueue(j, now) ==
  /\ status[j] = "none"
  /\ status' = [status EXCEPT ![j] = "queued"]
  /\ IF now THEN EnqueueDue(j) ELSE NotDue
  /\ UNCHANGED <<attempt, lockedBy, expired, process, spent>>

\* The clock reaches run_after.
BecomeDue(j) ==
  /\ status[j] = "queued" /\ j \notin due
  /\ MakeDue({j})
  /\ UNCHANGED <<status, attempt, lockedBy, expired, process, spent>>

\* The clock passes locked_at + lease: no heartbeat was written meanwhile.
LeaseExpires(j) ==
  /\ status[j] = "running" /\ ~expired[j]
  /\ expired' = [expired EXCEPT ![j] = TRUE]
  /\ UNCHANGED <<status, attempt, lockedBy, due, earlier, process, spent>>

RetryFailedCleanup_OfAnyType(j) ==
  /\ status[j] = "failed"
  /\ status' = [status EXCEPT ![j] = "queued"]
  /\ attempt' = [attempt EXCEPT ![j] = 0]
  /\ spent' = [spent EXCEPT ![j] = 0]
  /\ Unlock({j})
  /\ MakeDue({j})
  /\ UNCHANGED process

\* ManualRetryCleanupJob, run by the admin command.
RetryFailedCleanup(j) ==
  /\ j \in CleanupJobs /\ status[j] = "failed"
  /\ status' = [status EXCEPT ![j] = "queued"]
  /\ attempt' = [attempt EXCEPT ![j] = 0]
  /\ spent' = [spent EXCEPT ![j] = 0]
  /\ Unlock({j})
  /\ MakeDue({j})
  /\ UNCHANGED process

\* Retain deletes the finished jobs that are old enough.
Retain(S) ==
  /\ S # {} /\ \A j \in S : status[j] \in {"succeeded", "failed"}
  /\ status' = [j \in Jobs |-> IF j \in S THEN "deleted" ELSE status[j]]
  /\ UNCHANGED <<attempt, lockedBy, expired, due, earlier, process, spent>>

-----------------------------------------------------------------------------
(* The loop of a worker.                                                   *)

Stale == {j \in Jobs : status[j] = "running" /\ expired[j]}

\* RequeueStaleJobs: one UPDATE over every expired lease.
RequeueStale ==
  /\ status' = [j \in Jobs |-> IF j \in Stale THEN AfterFailure(j) ELSE status[j]]
  /\ MakeDue({j \in Stale : attempt[j] < MaxAttempts})
  /\ Unlock(Stale)
  /\ Spend(Stale)
  /\ UNCHANGED attempt

\* Run starts with requeueStale, before its first claim.
Start(w) ==
  /\ pc[w] = "down"
  /\ RequeueStale
  /\ pc' = [pc EXCEPT ![w] = "claim"]
  /\ UNCHANGED <<cur, result>>

ClaimRow_InAnyOrder(w, j) ==
  /\ j \in due /\ attempt[j] < MaxAttempts
  /\ status' = [status EXCEPT ![j] = "running"]
  /\ attempt' = [attempt EXCEPT ![j] = @ + 1]
  /\ lockedBy' = [lockedBy EXCEPT ![j] = w]
  /\ expired' = [expired EXCEPT ![j] = FALSE]
  /\ LeaveDue(j)

\* ClaimJob: the first due job in run_after order, if it has an attempt left.
ClaimRow(w, j) ==
  /\ j \in due /\ earlier[j] = {} /\ attempt[j] < MaxAttempts
  /\ status' = [status EXCEPT ![j] = "running"]
  /\ attempt' = [attempt EXCEPT ![j] = @ + 1]
  /\ lockedBy' = [lockedBy EXCEPT ![j] = w]
  /\ expired' = [expired EXCEPT ![j] = FALSE]
  /\ LeaveDue(j)

Claim(w, j) ==
  /\ pc[w] = "claim"
  /\ ClaimRow(w, j)
  /\ pc' = [pc EXCEPT ![w] = "busy"]
  /\ cur' = [cur EXCEPT ![w] = j]
  /\ UNCHANGED <<result, spent>>

\* The claim commits but its answer is lost: Run logs an error and selects.
ClaimAnswerLost(w, j) ==
  /\ pc[w] = "claim"
  /\ ClaimRow(w, j)
  /\ pc' = [pc EXCEPT ![w] = "select"]
  /\ UNCHANGED <<cur, result, spent>>

\* No row to claim, or the query failed.
ClaimNothing(w) ==
  /\ pc[w] = "claim"
  /\ pc' = [pc EXCEPT ![w] = "select"]
  /\ UNCHANGED <<row, cur, result, spent>>

\* poll.C, workerHeartbeat.C, or recoverLeases.C with a query that failed.
Poll(w) ==
  /\ pc[w] = "select"
  /\ pc' = [pc EXCEPT ![w] = "claim"]
  /\ UNCHANGED <<row, cur, result, spent>>

\* recoverLeases.C: reached only from the select, when nothing was claimed.
RecoverLeases(w) ==
  /\ pc[w] = "select"
  /\ RequeueStale
  /\ pc' = [pc EXCEPT ![w] = "claim"]
  /\ UNCHANGED <<cur, result>>

-----------------------------------------------------------------------------
(* process: a worker runs one job at a time.                               *)

\* process returns, and Run claims again.
Leave(w) ==
  /\ pc[w] = "busy"
  /\ pc' = [pc EXCEPT ![w] = "claim"]
  /\ cur' = [cur EXCEPT ![w] = NoJob]
  /\ result' = [result EXCEPT ![w] = "none"]

HandlerReturns(w, r) ==
  /\ pc[w] = "busy" /\ result[w] = "none"
  /\ result' = [result EXCEPT ![w] = r]
  /\ UNCHANGED <<row, pc, cur, spent>>

\* HeartbeatJob updated the row: the lease is fresh again.
Heartbeat(w) ==
  /\ pc[w] = "busy" /\ Held(w, cur[w])
  /\ expired' = [expired EXCEPT ![cur[w]] = FALSE]
  /\ UNCHANGED <<status, attempt, lockedBy, due, earlier, process, spent>>

\* The heartbeat met a lost lease or a database error: process cancels the
\* handler and returns, whatever the row says.
HeartbeatFails(w) ==
  /\ Leave(w)
  /\ UNCHANGED <<row, spent>>

Complete(w) ==
  LET j == cur[w] IN
  /\ result[w] = "ok" /\ Held(w, j)
  /\ status' = [status EXCEPT ![j] = "succeeded"]
  /\ Unlock({j}) /\ Spend({j})
  /\ Leave(w)
  /\ UNCHANGED <<attempt, due, earlier>>

Reschedule_KeepsAttempt(w) ==
  LET j == cur[w] IN
  /\ result[w] = "reschedule" /\ Held(w, j)
  /\ status' = [status EXCEPT ![j] = "queued"]
  /\ Unlock({j})
  /\ Leave(w)
  /\ UNCHANGED <<attempt, due, earlier, spent>>

\* RescheduleJob gives the attempt back: GREATEST(attempt - 1, 0).
Reschedule(w) ==
  LET j == cur[w] IN
  /\ result[w] = "reschedule" /\ Held(w, j)
  /\ status' = [status EXCEPT ![j] = "queued"]
  /\ attempt' = [attempt EXCEPT ![j] = IF @ > 0 THEN @ - 1 ELSE 0]
  /\ Unlock({j})
  /\ Leave(w)
  /\ UNCHANGED <<due, earlier, spent>>

RetryOrFail_CountsTheAttemptAgain(w) ==
  LET j == cur[w] IN
  /\ result[w] \in {"retryable", "permanent"} /\ Held(w, j)
  /\ status' = [status EXCEPT ![j] =
                  IF result[w] = "retryable" THEN AfterFailure(j) ELSE "failed"]
  /\ attempt' = [attempt EXCEPT ![j] = @ + 1]
  /\ Unlock({j}) /\ Spend({j})
  /\ Leave(w)
  /\ UNCHANGED <<due, earlier>>

RetryOrFail(w) ==
  LET j == cur[w] IN
  /\ result[w] \in {"retryable", "permanent"} /\ Held(w, j)
  /\ status' = [status EXCEPT ![j] =
                  IF result[w] = "retryable" THEN AfterFailure(j) ELSE "failed"]
  /\ Unlock({j}) /\ Spend({j})
  /\ Leave(w)
  /\ UNCHANGED <<attempt, due, earlier>>

\* The transition matched no row (ErrJobLeaseLost) or the database failed
\* within its five seconds: the worker logs it and goes on.
SettleFails(w) ==
  /\ result[w] # "none"
  /\ Leave(w)
  /\ UNCHANGED <<row, spent>>

\* A shutdown (ctx.Done, no transition) or a crash: the row keeps its lock.
Stop(w) ==
  /\ pc[w] # "down"
  /\ pc' = [pc EXCEPT ![w] = "down"]
  /\ cur' = [cur EXCEPT ![w] = NoJob]
  /\ result' = [result EXCEPT ![w] = "none"]
  /\ UNCHANGED <<row, spent>>

-----------------------------------------------------------------------------
Settle(w) == Complete(w) \/ Reschedule(w) \/ RetryOrFail(w) \/ SettleFails(w)

WorkerStep(w) ==
  \/ Start(w) \/ ClaimNothing(w) \/ Poll(w) \/ RecoverLeases(w)
  \/ \E j \in Jobs : Claim(w, j) \/ ClaimAnswerLost(w, j)
  \/ \E r \in Results : HandlerReturns(w, r)
  \/ Heartbeat(w) \/ HeartbeatFails(w) \/ Settle(w) \/ Stop(w)

TableStep ==
  \/ \E j \in Jobs, now \in BOOLEAN : Enqueue(j, now)
  \/ \E j \in Jobs : BecomeDue(j) \/ LeaseExpires(j) \/ RetryFailedCleanup(j)
  \/ \E S \in SUBSET Jobs : Retain(S)

Next == TableStep \/ \E w \in Workers : WorkerStep(w)

Spec == Init /\ [][Next]_vars

(***************************************************************************)
(* Fairness.  Clocks advance; a stopped worker is started again by its     *)
(* supervisor; a handler returns; a worker that keeps coming back to its   *)
(* claim, or to its select, is not refused by the database or by select's  *)
(* random choice for ever.  A worker may still crash, lose answers and     *)
(* abandon jobs any number of times.                                       *)
(***************************************************************************)
Fairness ==
  /\ \A j \in Jobs : WF_vars(BecomeDue(j)) /\ WF_vars(LeaseExpires(j))
  /\ \A w \in Workers :
       /\ WF_vars(Start(w)) /\ WF_vars(Poll(w)) /\ WF_vars(ClaimNothing(w))
       /\ WF_vars(\E r \in Results : HandlerReturns(w, r))
       /\ WF_vars(Settle(w))
       /\ SF_vars(\E j \in Jobs : Claim(w, j))
       /\ SF_vars(RecoverLeases(w))

FairSpec == Spec /\ Fairness

-----------------------------------------------------------------------------
(* Properties.                                                             *)

\* The CHECK constraints of the jobs table, none of which the statements
\* above enforce, and the run_after order: exactly the running rows are
\* locked, only queued rows are due, and run_after orders the due rows (a
\* cycle would leave every one of them behind another, none claimable).
RowConsistent ==
  /\ \A j \in Jobs :
       /\ status[j] = "running" <=> lockedBy[j] # NoWorker
       /\ expired[j] => status[j] = "running"
       /\ j \in due => status[j] = "queued"
       /\ earlier[j] \subseteq due
       /\ j \notin due => earlier[j] = {}
  /\ \A i, j \in Jobs :
       i \in earlier[j] => j \notin earlier[i] /\ earlier[i] \subseteq earlier[j]

\* A job no worker holds but that is not over has an attempt left: ClaimJob,
\* which asks for attempt < max_attempts, can still pick it, so no path
\* through retries, reschedules and expired leases strands a job as queued.
QueuedIsClaimable ==
  \A j \in Jobs : status[j] = "queued" => attempt[j] < MaxAttempts

\* attempt counts exactly the executions that ended without asking to be
\* rescheduled, and the one under way: neither a lost settlement nor a lease
\* recovered from a dead worker is ever forgotten or counted twice.
AttemptsAccounted ==
  \A j \in Jobs :
    attempt[j] = spent[j] + (IF status[j] = "running" THEN 1 ELSE 0)

\* A running job leaves its holder only when that holder settles it as the job
\* it is processing, or when its lease has expired: a worker that lost the
\* lease never completes, fails or reschedules the execution that replaced its own.
OnlyHolderOrExpiry ==
  [][\A j \in Jobs :
       status[j] = "running" /\ ~(status'[j] = "running" /\ lockedBy'[j] = lockedBy[j])
         => \/ expired[j]
            \/ \E w \in Workers : lockedBy[j] = w /\ cur[w] = j /\ cur'[w] = NoJob]_vars

\* The rows, with workers and leases forgotten, follow JobLifecycle.
Phase(s) ==
  CASE s = "none"    -> "absent"
    [] s = "queued"  -> "pending"
    [] s = "running" -> "active"
    [] OTHER         -> s

Lifecycle == INSTANCE JobLifecycle
  WITH phase <- [j \in Jobs |-> Phase(status[j])], tries <- attempt

\* Every step of the table and the workers is a step of the abstract job
\* lifecycle, or leaves it unchanged.
ImplementsLifecycle == Lifecycle!Spec

\* A due job is claimed, however often other jobs ask to be rescheduled and
\* become due again: ORDER BY run_after lets none overtake it for ever.
DueIsClaimed == \A j \in Jobs : j \in due ~> j \notin due

\* Every enqueued job is over some day, whatever crashes, lost answers and
\* expired leases it meets, unless jobs are rescheduled, or failed cleanups
\* revived, for ever.
JobsSettle ==
  \/ \A j \in Jobs : status[j] \in {"queued", "running"}
                      ~> status[j] \in {"succeeded", "failed", "deleted"}
  \/ []<><<\E w \in Workers : Reschedule(w)>>_vars
  \/ []<><<\E j \in Jobs : RetryFailedCleanup(j)>>_vars
=============================================================================
