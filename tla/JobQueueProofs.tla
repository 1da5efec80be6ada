--------------------------- MODULE JobQueueProofs ---------------------------
(***************************************************************************)
(* For every set of jobs and workers and every max_attempts: the           *)
(* invariants of JobQueue, who may take a running job from its holder, and *)
(* that the table implements JobLifecycle.                                 *)
(***************************************************************************)
EXTENDS JobQueue, TLAPS

\* A row not inserted yet has no attempts.
FreshRows == \A j \in Jobs : status[j] = "none" => attempt[j] = 0

\* A worker in process, and no other, has a job.
AtWork ==
  \A w \in Workers :
    /\ pc[w] = "busy" <=> cur[w] # NoJob
    /\ result[w] # "none" => pc[w] = "busy"

\* The inductive invariant.
IInv ==
  /\ TypeOK /\ RowConsistent /\ QueuedIsClaimable /\ AttemptsAccounted
  /\ AtWork /\ FreshRows

LEMMA InitIInv == Init => IInv
  BY JobQueueAssumption
     DEF Init, IInv, TypeOK, RowConsistent, QueuedIsClaimable, AttemptsAccounted,
         AtWork, FreshRows, Statuses, Results

\* Clearing the lock columns keeps their types.
LEMMA UnlockType ==
  ASSUME TypeOK, NEW S, Unlock(S)
  PROVE  /\ lockedBy' \in [Jobs -> Workers \cup {NoWorker}]
         /\ expired' \in [Jobs -> BOOLEAN]
  BY DEF TypeOK, Unlock

\* An execution that ends is one attempt was counting, so spent stays in bounds.
LEMMA SpendType ==
  ASSUME TypeOK, AttemptsAccounted, NEW S,
         \A j \in S : j \in Jobs => status[j] = "running", Spend(S)
  PROVE  spent' \in [Jobs -> 0..MaxAttempts]
  BY JobQueueAssumption DEF TypeOK, AttemptsAccounted, Spend

\* The steps of the table: enqueuing, clocks, the admin command, retention.
LEMMA TableStepIInv ==
  ASSUME IInv, TableStep
  PROVE  IInv'
<1> USE JobQueueAssumption
    DEF IInv, TypeOK, RowConsistent, QueuedIsClaimable, AttemptsAccounted,
        AtWork, FreshRows, Statuses, Results, process
<1>1. ASSUME NEW j \in Jobs, NEW now \in BOOLEAN, Enqueue(j, now)
      PROVE  IInv'
  BY <1>1 DEF Enqueue, EnqueueDue, NotDue
<1>2. ASSUME NEW j \in Jobs, BecomeDue(j)
      PROVE  IInv'
  BY <1>2 DEF BecomeDue, MakeDue
<1>3. ASSUME NEW j \in Jobs, LeaseExpires(j)
      PROVE  IInv'
  BY <1>3 DEF LeaseExpires
<1>4. ASSUME NEW j \in Jobs, RetryFailedCleanup(j)
      PROVE  IInv'
  <2>1. TypeOK'
    BY <1>4, UnlockType DEF RetryFailedCleanup, MakeDue
  <2>2. RowConsistent'
    BY <1>4 DEF RetryFailedCleanup, Unlock, MakeDue
  <2>3. QueuedIsClaimable'
    BY <1>4 DEF RetryFailedCleanup, Unlock, MakeDue
  <2>4. AttemptsAccounted'
    BY <1>4 DEF RetryFailedCleanup, Unlock, MakeDue
  <2>5. AtWork'
    BY <1>4 DEF RetryFailedCleanup, Unlock, MakeDue
  <2>6. FreshRows'
    BY <1>4 DEF RetryFailedCleanup, Unlock, MakeDue
  <2> QED
    BY <2>1, <2>2, <2>3, <2>4, <2>5, <2>6 DEF IInv
<1>5. ASSUME NEW S \in SUBSET Jobs, Retain(S)
      PROVE  IInv'
  BY <1>5 DEF Retain
<1> QED
  BY <1>1, <1>2, <1>3, <1>4, <1>5 DEF TableStep

\* RequeueStale keeps the part of the invariant that is about rows.
LEMMA RequeueStaleIInv ==
  ASSUME IInv, RequeueStale, AtWork', 
         pc' \in [Workers -> {"down", "claim", "select", "busy"}], UNCHANGED <<cur, result>>
  PROVE  IInv'
<1> USE JobQueueAssumption
    DEF IInv, TypeOK, RowConsistent, QueuedIsClaimable, AttemptsAccounted,
        AtWork, FreshRows, Statuses, Results,
        RequeueStale, Stale, AfterFailure, MakeDue, Unlock, Spend
<1>1. TypeOK'
  OBVIOUS
<1>2. RowConsistent'
  OBVIOUS
<1>3. QueuedIsClaimable'
  OBVIOUS
<1>4. AttemptsAccounted'
  OBVIOUS
<1>5. FreshRows'
  OBVIOUS
<1> QED
  BY <1>1, <1>2, <1>3, <1>4, <1>5

\* The steps of a worker.
LEMMA WorkerStepIInv ==
  ASSUME IInv, NEW w \in Workers, WorkerStep(w)
  PROVE  IInv'
<1> USE JobQueueAssumption
    DEF IInv, TypeOK, RowConsistent, QueuedIsClaimable, AttemptsAccounted,
        AtWork, FreshRows, Statuses, Results, row, process
<1>1. CASE Start(w)
  BY <1>1, RequeueStaleIInv DEF Start
<1>2. CASE ClaimNothing(w)
  BY <1>2 DEF ClaimNothing
<1>3. CASE Poll(w)
  BY <1>3 DEF Poll
<1>4. CASE RecoverLeases(w)
  BY <1>4, RequeueStaleIInv DEF RecoverLeases
<1>5. ASSUME NEW j \in Jobs, Claim(w, j)
      PROVE  IInv'
  BY <1>5 DEF Claim, ClaimRow, LeaveDue
<1>6. ASSUME NEW j \in Jobs, ClaimAnswerLost(w, j)
      PROVE  IInv'
  BY <1>6 DEF ClaimAnswerLost, ClaimRow, LeaveDue
<1>7. ASSUME NEW r \in Results, HandlerReturns(w, r)
      PROVE  IInv'
  BY <1>7 DEF HandlerReturns
<1>8. CASE Heartbeat(w)
  BY <1>8 DEF Heartbeat, Held
<1>9. CASE HeartbeatFails(w)
  BY <1>9 DEF HeartbeatFails, Leave
<1>10. CASE Complete(w)
  <2>1. TypeOK'
    BY <1>10, UnlockType, SpendType DEF Complete, Held, Leave
  <2>2. RowConsistent'
    BY <1>10 DEF Complete, Held, Unlock, Spend, Leave
  <2>3. QueuedIsClaimable'
    BY <1>10 DEF Complete, Held, Unlock, Spend, Leave
  <2>4. AttemptsAccounted'
    BY <1>10 DEF Complete, Held, Unlock, Spend, Leave
  <2>5. AtWork'
    BY <1>10 DEF Complete, Held, Unlock, Spend, Leave
  <2>6. FreshRows'
    BY <1>10 DEF Complete, Held, Unlock, Spend, Leave
  <2> QED
    BY <2>1, <2>2, <2>3, <2>4, <2>5, <2>6 DEF IInv
<1>11. CASE Reschedule(w)
  <2>1. TypeOK'
    BY <1>11, UnlockType DEF Reschedule, Held, Leave
  <2>2. RowConsistent'
    BY <1>11 DEF Reschedule, Held, Unlock, Leave
  <2>3. QueuedIsClaimable'
    BY <1>11 DEF Reschedule, Held, Unlock, Leave
  <2>4. AttemptsAccounted'
    BY <1>11 DEF Reschedule, Held, Unlock, Leave
  <2>5. AtWork'
    BY <1>11 DEF Reschedule, Held, Unlock, Leave
  <2>6. FreshRows'
    BY <1>11 DEF Reschedule, Held, Unlock, Leave
  <2> QED
    BY <2>1, <2>2, <2>3, <2>4, <2>5, <2>6 DEF IInv
<1>12. CASE RetryOrFail(w)
  <2>1. TypeOK'
    BY <1>12, UnlockType, SpendType DEF RetryOrFail, Held, AfterFailure, Leave
  <2>2. RowConsistent'
    BY <1>12 DEF RetryOrFail, Held, AfterFailure, Unlock, Spend, Leave
  <2>3. QueuedIsClaimable'
    BY <1>12 DEF RetryOrFail, Held, AfterFailure, Unlock, Spend, Leave
  <2>4. AttemptsAccounted'
    BY <1>12 DEF RetryOrFail, Held, AfterFailure, Unlock, Spend, Leave
  <2>5. AtWork'
    BY <1>12 DEF RetryOrFail, Held, AfterFailure, Unlock, Spend, Leave
  <2>6. FreshRows'
    BY <1>12 DEF RetryOrFail, Held, AfterFailure, Unlock, Spend, Leave
  <2> QED
    BY <2>1, <2>2, <2>3, <2>4, <2>5, <2>6 DEF IInv
<1>13. CASE SettleFails(w)
  BY <1>13 DEF SettleFails, Leave
<1>14. CASE Stop(w)
  BY <1>14 DEF Stop
<1> QED
  BY <1>1, <1>2, <1>3, <1>4, <1>5, <1>6, <1>7, <1>8, <1>9, <1>10, <1>11,
     <1>12, <1>13, <1>14 DEF WorkerStep, Settle

LEMMA NextIInv == IInv /\ [Next]_vars => IInv'
<1> SUFFICES ASSUME IInv, [Next]_vars
             PROVE  IInv'
  OBVIOUS
<1>1. CASE TableStep
  BY <1>1, TableStepIInv
<1>2. ASSUME NEW w \in Workers, WorkerStep(w)
      PROVE  IInv'
  BY <1>2, WorkerStepIInv
<1>3. CASE UNCHANGED vars
  BY <1>3 DEF IInv, TypeOK, RowConsistent, QueuedIsClaimable, AttemptsAccounted,
              AtWork, FreshRows, vars, row, process
<1> QED
  BY <1>1, <1>2, <1>3 DEF Next

THEOREM Invariance == Spec => []IInv
  BY InitIInv, NextIInv, PTL DEF Spec

\* The columns keep their types, whatever the jobs, workers and max_attempts.
THEOREM TypeCorrect == Spec => []TypeOK
<1>1. IInv => TypeOK
  BY DEF IInv
<1> QED
  BY <1>1, Invariance, PTL

\* The CHECK constraints of the table never reject a transition.
THEOREM RowsConsistent == Spec => []RowConsistent
<1>1. IInv => RowConsistent
  BY DEF IInv
<1> QED
  BY <1>1, Invariance, PTL

\* No job is left queued without an attempt, where ClaimJob would never see it.
THEOREM NoJobStranded == Spec => []QueuedIsClaimable
<1>1. IInv => QueuedIsClaimable
  BY DEF IInv
<1> QED
  BY <1>1, Invariance, PTL

\* No execution is forgotten or counted twice.
THEOREM EveryAttemptCounted == Spec => []AttemptsAccounted
<1>1. IInv => AttemptsAccounted
  BY DEF IInv
<1> QED
  BY <1>1, Invariance, PTL

-----------------------------------------------------------------------------
\* What OnlyHolderOrExpiry says of one step.
LeavesRightly(j) ==
  status[j] = "running" /\ ~(status'[j] = "running" /\ lockedBy'[j] = lockedBy[j])
    => \/ expired[j]
       \/ \E w \in Workers : lockedBy[j] = w /\ cur[w] = j /\ cur'[w] = NoJob

LEMMA StepLeavesRightly ==
  ASSUME IInv, Next, NEW j \in Jobs
  PROVE  LeavesRightly(j)
<1> USE DEF IInv, TypeOK, RowConsistent, LeavesRightly, row, process
<1>1. CASE TableStep
  <2>1. ASSUME NEW k \in Jobs, RetryFailedCleanup(k)
        PROVE  LeavesRightly(j)
    BY <2>1 DEF RetryFailedCleanup, Unlock
  <2>2. ASSUME NEW S \in SUBSET Jobs, Retain(S)
        PROVE  LeavesRightly(j)
    BY <2>2 DEF Retain
  <2>3. ASSUME NEW k \in Jobs, NEW now \in BOOLEAN, Enqueue(k, now)
        PROVE  LeavesRightly(j)
    BY <2>3 DEF Enqueue
  <2>4. ASSUME NEW k \in Jobs, BecomeDue(k) \/ LeaseExpires(k)
        PROVE  LeavesRightly(j)
    BY <2>4 DEF BecomeDue, LeaseExpires
  <2> QED
    BY <1>1, <2>1, <2>2, <2>3, <2>4 DEF TableStep
<1>2. ASSUME NEW w \in Workers, WorkerStep(w)
      PROVE  LeavesRightly(j)
  <2>1. CASE RequeueStale
    BY <2>1 DEF RequeueStale, Stale, AfterFailure, Unlock
  <2>2. ASSUME NEW k \in Jobs, ClaimRow(w, k)
        PROVE  LeavesRightly(j)
    BY <2>2 DEF ClaimRow
  <2>3. CASE Complete(w) \/ Reschedule(w) \/ RetryOrFail(w)
    <3>1. /\ Held(w, cur[w]) /\ Unlock({cur[w]}) /\ cur'[w] = NoJob
          /\ \A k \in Jobs \ {cur[w]} : status'[k] = status[k]
      BY <2>3 DEF Complete, Reschedule, RetryOrFail, Leave
    <3>2. CASE j = cur[w]
      BY <3>1, <3>2 DEF Held
    <3>3. CASE j # cur[w]
      <4>1. lockedBy'[j] = lockedBy[j]
        BY <3>1, <3>3 DEF Unlock
      <4> QED
        BY <3>1, <3>3, <4>1
    <3> QED
      BY <3>2, <3>3
  <2>4. CASE UNCHANGED <<status, lockedBy>>
    BY <2>4
  <2> QED
    BY <1>2, <2>1, <2>2, <2>3, <2>4
       DEF WorkerStep, Settle, Start, ClaimNothing, Poll, RecoverLeases, Claim,
           ClaimAnswerLost, HandlerReturns, Heartbeat, HeartbeatFails, SettleFails, Stop
<1> QED
  BY <1>1, <1>2 DEF Next

\* Only its holder, or the expiry of its lease, takes a running job from the
\* worker that claimed it.
THEOREM HoldersAreSafe == Spec => OnlyHolderOrExpiry
<1>1. IInv /\ [Next]_vars =>
        [\A j \in Jobs :
           status[j] = "running" /\ ~(status'[j] = "running" /\ lockedBy'[j] = lockedBy[j])
             => \/ expired[j]
                \/ \E w \in Workers : lockedBy[j] = w /\ cur[w] = j /\ cur'[w] = NoJob]_vars
  BY StepLeavesRightly DEF LeavesRightly
<1> QED
  BY <1>1, Invariance, PTL DEF Spec, OnlyHolderOrExpiry

-----------------------------------------------------------------------------
(* Refinement: every step is a step of JobLifecycle, or a stutter.         *)

LEMMA InitRefines == Init => Lifecycle!Init
  BY DEF Init, Lifecycle!Init, Phase

LEMMA TableStepRefines ==
  ASSUME IInv, TableStep
  PROVE  Lifecycle!Next \/ UNCHANGED Lifecycle!vars
<1> USE DEF IInv, TypeOK, Statuses, Phase, Lifecycle!Next, Lifecycle!vars
<1>1. ASSUME NEW j \in Jobs, NEW now \in BOOLEAN, Enqueue(j, now)
      PROVE  Lifecycle!Submit(j)
  BY <1>1 DEF Enqueue, Lifecycle!Submit, Lifecycle!Move
<1>2. ASSUME NEW j \in Jobs, BecomeDue(j) \/ LeaseExpires(j)
      PROVE  UNCHANGED Lifecycle!vars
  BY <1>2 DEF BecomeDue, LeaseExpires
<1>3. ASSUME NEW j \in Jobs, RetryFailedCleanup(j)
      PROVE  Lifecycle!Revive(j)
  BY <1>3 DEF RetryFailedCleanup, Lifecycle!Revive, Lifecycle!Move
<1>4. ASSUME NEW S \in SUBSET Jobs, Retain(S)
      PROVE  Lifecycle!Forget(S)
  BY <1>4 DEF Retain, Lifecycle!Forget
<1> QED
  BY <1>1, <1>2, <1>3, <1>4 DEF TableStep

LEMMA RequeueStaleRefines ==
  ASSUME IInv, RequeueStale
  PROVE  Lifecycle!Next \/ UNCHANGED Lifecycle!vars
<1> DEFINE expected(j) == IF j \in Stale THEN Lifecycle!AfterInterrupt(j)
                                          ELSE Phase(status[j])
<1>1. \A j \in Jobs : Phase(status'[j]) = expected(j)
  <2> TAKE j \in Jobs
  <2>1. status'[j] = IF j \in Stale THEN AfterFailure(j) ELSE status[j]
    BY DEF RequeueStale
  <2>2. CASE j \in Stale
    BY <2>1, <2>2 DEF AfterFailure, Lifecycle!AfterInterrupt, Phase
  <2>3. CASE j \notin Stale
    BY <2>1, <2>3
  <2> QED
    BY <2>2, <2>3
<1>2. \A j \in Stale : j \in Jobs /\ Phase(status[j]) = "active"
  BY DEF Stale, Phase
<1>3. attempt' = attempt
  BY DEF RequeueStale
<1>4. CASE Stale = {}
  <2>1. \A j \in Jobs : Phase(status'[j]) = Phase(status[j])
    BY <1>1, <1>4
  <2>2. [j \in Jobs |-> Phase(status[j])]' = [j \in Jobs |-> Phase(status[j])]
    BY <2>1
  <2> QED
    BY <1>3, <2>2 DEF Lifecycle!vars
<1>5. CASE Stale # {}
  <2>1. [j \in Jobs |-> Phase(status[j])]' = [j \in Jobs |-> expected(j)]
    BY <1>1
  <2>2. Lifecycle!Interrupt(Stale)
    BY <1>2, <1>3, <1>5, <2>1 DEF Lifecycle!Interrupt
  <2>3. Stale \in SUBSET Jobs
    BY DEF Stale
  <2> QED
    BY <2>2, <2>3 DEF Lifecycle!Next
<1> QED
  BY <1>4, <1>5

LEMMA WorkerStepRefines ==
  ASSUME IInv, NEW w \in Workers, WorkerStep(w)
  PROVE  Lifecycle!Next \/ UNCHANGED Lifecycle!vars
<1> USE JobQueueAssumption
    DEF IInv, TypeOK, Statuses, Phase, row, process
<1>1. CASE RequeueStale
  BY <1>1, RequeueStaleRefines
<1>2. ASSUME NEW j \in Jobs, ClaimRow(w, j)
      PROVE  Lifecycle!Start(j)
  <2>1. status[j] = "queued"
    BY <1>2 DEF ClaimRow, RowConsistent
  <2> QED
    BY <1>2, <2>1 DEF ClaimRow, Lifecycle!Start, Lifecycle!Move
<1>3. ASSUME NEW j \in Jobs, j = cur[w], Complete(w)
      PROVE  Lifecycle!Succeed(j)
  BY <1>3 DEF Complete, Held, Lifecycle!Succeed, Lifecycle!Move
<1>4. ASSUME NEW j \in Jobs, j = cur[w], Reschedule(w)
      PROVE  Lifecycle!Defer(j)
  <2>1. attempt[j] > 0
    BY <1>4 DEF Reschedule, Held, AttemptsAccounted
  <2> QED
    BY <1>4, <2>1 DEF Reschedule, Held, Lifecycle!Defer, Lifecycle!Move
<1>5. ASSUME NEW j \in Jobs, j = cur[w], RetryOrFail(w), result[w] = "retryable"
      PROVE  Lifecycle!Interrupt({j})
  <2>1. status[j] = "running" /\ attempt' = attempt
    BY <1>5 DEF RetryOrFail, Held
  <2>2. status' = [status EXCEPT ![j] = IF attempt[j] < MaxAttempts THEN "queued" ELSE "failed"]
    BY <1>5 DEF RetryOrFail, AfterFailure
  <2>3. \A k \in Jobs :
          Phase(status'[k]) = IF k \in {j} THEN Lifecycle!AfterInterrupt(k)
                                           ELSE Phase(status[k])
    BY <2>2 DEF Lifecycle!AfterInterrupt
  <2> QED
    BY <2>1, <2>3 DEF Lifecycle!Interrupt
<1>6. ASSUME NEW j \in Jobs, j = cur[w], RetryOrFail(w), result[w] = "permanent"
      PROVE  Lifecycle!GiveUp(j)
  BY <1>6 DEF RetryOrFail, Held, Lifecycle!GiveUp, Lifecycle!Move
<1>7. CASE Complete(w) \/ Reschedule(w) \/ RetryOrFail(w)
  <2>1. cur[w] \in Jobs
    BY <1>7 DEF Complete, Reschedule, RetryOrFail, Leave, AtWork
  <2>2. PICK j \in Jobs : j = cur[w]
    BY <2>1
  <2>3. {j} \in SUBSET Jobs
    OBVIOUS
  <2>4. RetryOrFail(w) => result[w] \in {"retryable", "permanent"}
    BY DEF RetryOrFail
  <2> QED
    BY <1>3, <1>4, <1>5, <1>6, <1>7, <2>2, <2>3, <2>4 DEF Lifecycle!Next
<1>8. CASE UNCHANGED <<status, attempt>>
  BY <1>8 DEF Lifecycle!vars
<1> QED
  BY <1>1, <1>2, <1>7, <1>8
     DEF WorkerStep, Settle, Start, ClaimNothing, Poll, RecoverLeases, Claim,
         ClaimAnswerLost, HandlerReturns, Heartbeat, HeartbeatFails, SettleFails, Stop,
         Lifecycle!Next

\* The jobs table and its workers implement the job lifecycle.
THEOREM QueueImplementsLifecycle == Spec => ImplementsLifecycle
<1>1. IInv /\ [Next]_vars => [Lifecycle!Next]_(Lifecycle!vars)
  <2> SUFFICES ASSUME IInv, [Next]_vars
               PROVE  Lifecycle!Next \/ UNCHANGED Lifecycle!vars
    OBVIOUS
  <2>1. CASE UNCHANGED vars
    BY <2>1 DEF vars, row, Lifecycle!vars
  <2> QED
    BY <2>1, TableStepRefines, WorkerStepRefines DEF Next
<1> QED
  BY <1>1, InitRefines, Invariance, PTL DEF Spec, ImplementsLifecycle, Lifecycle!Spec
=============================================================================
