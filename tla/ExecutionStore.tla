---------------------------- MODULE ExecutionStore ----------------------------
(***************************************************************************)
(* The PostgreSQL repository layer of packages/db: executions, step_runs,  *)
(* execution_events and execution_outbox, and the functions that are the   *)
(* only writers of those tables.                                           *)
(*                                                                         *)
(* Every function below is one database transaction.  All of them but the  *)
(* dispatcher's and the recovery take the `executions` row FOR UPDATE      *)
(* before they read a step, so a transaction is one atomic action here.    *)
(* The recovery acts on step rows that it read before it had the lock, so  *)
(* it is a read and an action for each row.  Nothing is assumed of the     *)
(* callers: a job may be delivered twice, a worker may report long after   *)
(* its step was recovered, a dispatcher may mark a row it lost.            *)
(***************************************************************************)
EXTENDS StateMachine, Integers, FiniteSets, Sequences, SequencesExt

CONSTANTS
  Executions,   \* ids of the executions that may be triggered
  LegacyQueued, \* those queued before migration 0002 created the outbox
  Dispatchers,  \* worker processes: each has a dispatcher and a recovery
  NoOne,        \* locked_by IS NULL
  StepCount,    \* steps of the published workflow definition
  MaxAttempts   \* retry.maxAttempts of each step

ASSUME StepCountAssumption == StepCount \in Nat \ {0}
ASSUME MaxAttemptsAssumption == MaxAttempts \in [1..StepCount -> Nat \ {0}]
ASSUME LegacyAssumption == LegacyQueued \subseteq Executions
ASSUME NoOneAssumption == NoOne \notin Dispatchers

VARIABLES
  status,   \* executions.status, by execution
  stepRuns, \* step_runs.status and attempt_count, by execution and step
  events,   \* execution_events of an execution in sequence_no order
  outbox,   \* execution_outbox: its rows, by <<execution, step, attempt_no>>
  scan      \* the stalled step runs a recovery has read and not dealt with

tables == <<status, stepRuns, events, outbox>>

vars == <<status, stepRuns, events, outbox, scan>>

-------------------------------------------------------------------------------
(* Rows                                                                    *)

Steps == 1..StepCount

StepRun == [status : StepRunStatus \cup {Absent}, attemptCount : Nat]

NoStepRun == [status |-> Absent, attemptCount |-> 0]

QueuedStepRun == [status |-> "queued", attemptCount |-> 0]

(* Broken: a step that stops without success gives its attempt back.        *)
BrokenInStatus(run, newStatus) ==
  [status |-> newStatus, attemptCount |-> run.attemptCount - 1]

(* The row of a step run after an UPDATE of its status alone.              *)
InStatus(run, newStatus) == [status |-> newStatus, attemptCount |-> run.attemptCount]

(* The identity of an outbox row and of its BullMQ job: the deterministic  *)
(* job id names exactly these three values.                                *)
DispatchIds == Executions \X Steps \X (Nat \ {0})

(* A step run as a recovery reads it: execution, step and attempt count.   *)
ScannedRow == Executions \X Steps \X Nat

(* A row is pending until dispatched_at or discarded_at is set; no code    *)
(* path sets both.  due: available_at has passed.                          *)
OutboxRow ==
  [state    : {"pending", "dispatched", "discarded"},
   due      : BOOLEAN,
   lockedBy : Dispatchers \cup {NoOne}]

EventTypes ==
  {"execution.queued", "execution.started", "execution.completed",
   "execution.failed", "execution.cancelled",
   "step.queued", "step.started", "step.succeeded", "step.retrying",
   "step.recovered", "step.failed", "step.cancelled"}

(* step is 0 in an execution event, attempt is 0 where the payload has     *)
(* no attemptNo.                                                           *)
Event == [type : EventTypes, step : 0..StepCount, attempt : Nat]

ExecutionEvent(type) == [type |-> type, step |-> 0, attempt |-> 0]

StepEvent(type, k, attempt) == [type |-> type, step |-> k, attempt |-> attempt]

Init ==
  /\ status = [e \in Executions |-> IF e \in LegacyQueued THEN "queued" ELSE Absent]
  /\ stepRuns = [e \in Executions |-> [k \in Steps |->
       IF e \in LegacyQueued /\ k = 1 THEN QueuedStepRun ELSE NoStepRun]]
  /\ events = [e \in Executions |->
       IF e \in LegacyQueued THEN <<ExecutionEvent("execution.queued")>> ELSE <<>>]
  /\ outbox = [i \in {} |-> 0]
  /\ scan = [p \in Dispatchers |-> {}]

-------------------------------------------------------------------------------
(* Parts of the transactions                                               *)

(* Broken: the sequence numbers of a transaction are handed out backwards.  *)
BrokenLogged(e, newEvents) == [events EXCEPT ![e] = @ \o Reverse(newEvents)]

(* getNextEventSequenceNo: new events take the numbers after the largest   *)
(* one of the execution, so they extend its log.                           *)
Logged(e, newEvents) == [events EXCEPT ![e] = @ \o newEvents]

(* createExecutionDispatchIntent: ON CONFLICT DO NOTHING keeps an old row. *)
WithIntent(i, due) ==
  [j \in DOMAIN outbox \cup {i} |->
     IF j \in DOMAIN outbox
       THEN outbox[j]
       ELSE [state |-> "pending", due |-> due, lockedBy |-> NoOne]]

(* Broken: cancellation skips the rows a dispatcher has leased.             *)
LeasedNotDiscarded(e) ==
  [i \in DOMAIN outbox |->
     IF i[1] = e /\ outbox[i].state = "pending" /\ outbox[i].lockedBy = NoOne
       THEN [state |-> "discarded", due |-> outbox[i].due, lockedBy |-> NoOne]
       ELSE outbox[i]]

(* discardPendingExecutionDispatches                                       *)
WithPendingDiscarded(e) ==
  [i \in DOMAIN outbox |->
     IF i[1] = e /\ outbox[i].state = "pending"
       THEN [state |-> "discarded", due |-> outbox[i].due, lockedBy |-> NoOne]
       ELSE outbox[i]]

NextDispatchId(e, k) == <<e, k, stepRuns[e][k].attemptCount + 1>>

(* Broken: a running step is not cancelled.                                 *)
BrokenCancellableStepRunStatuses == {"pending", "queued", "retrying"}

CancellableExecutionStatuses == {"queued", "running"}
CancellableStepRunStatuses == {"pending", "queued", "running", "retrying"}

CancellableSteps(e) ==
  {k \in Steps : stepRuns[e][k].status \in CancellableStepRunStatuses}

(* The step a job claims: the oldest queued one.  Step runs are inserted   *)
(* in definition order.                                                    *)
IsOldestQueuedStep(e, k) ==
  /\ stepRuns[e][k].status = "queued"
  /\ \A j \in 1..(k - 1) : stepRuns[e][j].status # "queued"

(* stepRun.attemptCount < retryPolicy.maxAttempts                          *)
AttemptsRemain(e, k) == stepRuns[e][k].attemptCount < MaxAttempts[k]

(* Broken: the retry's intent is for the attempt that has just ended.       *)
IntentForEndedAttempt(e, k, reason) ==
  /\ AttemptsRemain(e, k)
  /\ stepRuns' = [stepRuns EXCEPT ![e][k] = InStatus(@, "queued")]
  /\ events' = Logged(e, <<StepEvent(reason, k, stepRuns[e][k].attemptCount),
                           StepEvent("step.queued", k, 0)>>)
  /\ outbox' = WithIntent(<<e, k, stepRuns[e][k].attemptCount>>, FALSE)
  /\ UNCHANGED status

(* The retry branch shared by failOrRetryClaimedExecutionStep and the      *)
(* recovery: running -> retrying -> queued inside one transaction, with an *)
(* intent for the next attempt that becomes due after the backoff.         *)
QueueNextAttempt(e, k, reason) ==
  /\ AttemptsRemain(e, k)
  /\ stepRuns' = [stepRuns EXCEPT ![e][k] = InStatus(@, "queued")]
  /\ events' = Logged(e, <<StepEvent(reason, k, stepRuns[e][k].attemptCount),
                           StepEvent("step.queued", k, 0)>>)
  /\ outbox' = WithIntent(NextDispatchId(e, k), FALSE)
  /\ UNCHANGED status

(* Broken: the failure of the execution leaves no event of its own.         *)
UnloggedFailure(e, k) ==
  /\ status' = [status EXCEPT ![e] = "failed"]
  /\ stepRuns' = [stepRuns EXCEPT ![e][k] = InStatus(@, "failed")]
  /\ events' = Logged(e, <<StepEvent("step.failed", k, stepRuns[e][k].attemptCount)>>)
  /\ UNCHANGED outbox

(* The failure branch of the same two functions.                           *)
FailStepAndExecution(e, k) ==
  /\ status' = [status EXCEPT ![e] = "failed"]
  /\ stepRuns' = [stepRuns EXCEPT ![e][k] = InStatus(@, "failed")]
  /\ events' = Logged(e, <<StepEvent("step.failed", k, stepRuns[e][k].attemptCount),
                           ExecutionEvent("execution.failed")>>)
  /\ UNCHANGED outbox

-------------------------------------------------------------------------------
(* Functions of repositories/executions.ts                                 *)

TriggerExecution(e) ==
  /\ status[e] = Absent
  /\ status' = [status EXCEPT ![e] = "queued"]
  /\ stepRuns' = [stepRuns EXCEPT ![e][1] = QueuedStepRun]
  /\ events' = Logged(e, <<ExecutionEvent("execution.queued")>>)
  /\ outbox' = WithIntent(<<e, 1, 1>>, TRUE)
  /\ UNCHANGED scan

(* UPDATE ... RETURNING lists the cancelled steps in any order.            *)
CancelExecution(e) ==
  /\ status[e] \in CancellableExecutionStatuses
  /\ status' = [status EXCEPT ![e] = "cancelled"]
  /\ stepRuns' = [stepRuns EXCEPT ![e] = [k \in Steps |->
       IF k \in CancellableSteps(e) THEN InStatus(@[k], "cancelled") ELSE @[k]]]
  /\ \E order \in SetToSeqs(CancellableSteps(e)) :
       events' = Logged(e,
         [n \in DOMAIN order |->
            StepEvent("step.cancelled", order[n], stepRuns[e][order[n]].attemptCount)]
         \o <<ExecutionEvent("execution.cancelled")>>)
  /\ outbox' = WithPendingDiscarded(e)
  /\ UNCHANGED scan

(* A job names an execution, not a step or an attempt.                     *)
ClaimQueuedExecutionStep(e, k) ==
  /\ status[e] \in {"queued", "running"}
  /\ IsOldestQueuedStep(e, k)
  /\ status' = [status EXCEPT ![e] = "running"]
  /\ stepRuns' = [stepRuns EXCEPT ![e][k] =
       [status |-> "running", attemptCount |-> @.attemptCount + 1]]
  /\ events' = Logged(e,
       (IF status[e] = "queued" THEN <<ExecutionEvent("execution.started")>> ELSE <<>>)
         \o <<StepEvent("step.started", k, stepRuns[e][k].attemptCount + 1)>>)
  /\ UNCHANGED <<outbox, scan>>

(* What a worker's report needs: neither the attempt it claimed nor the    *)
(* worker is compared with the step run.                                   *)
CanSettle(e, k) ==
  /\ status[e] = "running"
  /\ stepRuns[e][k].status = "running"

CompleteAndQueueNext(e, k) ==
  /\ CanSettle(e, k)
  /\ k < StepCount
  /\ stepRuns[e][k + 1].status = Absent   \* unique (execution_id, step_key)
  /\ stepRuns' = [stepRuns EXCEPT ![e] =
       [@ EXCEPT ![k] = InStatus(stepRuns[e][k], "succeeded"), ![k + 1] = QueuedStepRun]]
  /\ events' = Logged(e, <<StepEvent("step.succeeded", k, stepRuns[e][k].attemptCount),
                           StepEvent("step.queued", k + 1, 0)>>)
  /\ outbox' = WithIntent(<<e, k + 1, 1>>, TRUE)
  /\ UNCHANGED <<status, scan>>

(* Broken: the last step is told by its index instead of by its position.   *)
EarlyCompleteExecution(e, k) ==
  /\ CanSettle(e, k)
  /\ k + 1 >= StepCount
  /\ status' = [status EXCEPT ![e] = "succeeded"]
  /\ stepRuns' = [stepRuns EXCEPT ![e][k] = InStatus(@, "succeeded")]
  /\ events' = Logged(e, <<StepEvent("step.succeeded", k, stepRuns[e][k].attemptCount),
                           ExecutionEvent("execution.completed")>>)
  /\ UNCHANGED <<outbox, scan>>

CompleteExecution(e, k) ==
  /\ CanSettle(e, k)
  /\ k = StepCount
  /\ status' = [status EXCEPT ![e] = "succeeded"]
  /\ stepRuns' = [stepRuns EXCEPT ![e][k] = InStatus(@, "succeeded")]
  /\ events' = Logged(e, <<StepEvent("step.succeeded", k, stepRuns[e][k].attemptCount),
                           ExecutionEvent("execution.completed")>>)
  /\ UNCHANGED <<outbox, scan>>

CompleteClaimedExecutionStep(e, k) ==
  \/ CompleteAndQueueNext(e, k)
  \/ CompleteExecution(e, k)

FailOrRetryClaimedExecutionStep(e, k, retryable) ==
  /\ CanSettle(e, k)
  /\ \/ retryable /\ QueueNextAttempt(e, k, "step.retrying")
     \/ /\ ~retryable \/ ~AttemptsRemain(e, k)
        /\ FailStepAndExecution(e, k)
  /\ UNCHANGED scan

-------------------------------------------------------------------------------
(* recoverStalledExecutionSteps                                            *)
(*                                                                         *)
(* Its query joins step_runs with executions and locks the execution rows  *)
(* only.  PostgreSQL gives such a query the step rows of the snapshot it   *)
(* started with, and a retry followed by a claim leaves the execution row  *)
(* as it was, so the lock does not make the query read again.  Between the *)
(* snapshot and the lock every other transaction may commit.               *)

(* Any running step may have started before stalledBefore: nothing bounds  *)
(* how long a worker takes.                                                *)
RunningRows ==
  {<<i[1], i[2], stepRuns[i[1]][i[2]].attemptCount>> :
     i \in {j \in Executions \X Steps : CanSettle(j[1], j[2])}}

(* recoveryRunning keeps a process from starting a second scan.  LIMIT and *)
(* SKIP LOCKED make the result some of the running steps.                  *)
ReadStalledSteps(p) ==
  /\ scan[p] = {}
  /\ \E rows \in SUBSET RunningRows \ {{}} : scan' = [scan EXCEPT ![p] = rows]
  /\ UNCHANGED tables

(* Broken: a row that has been dealt with is dealt with again.             *)
NeverDoneWith(p, row) == row \in scan[p] /\ UNCHANGED scan

DoneWith(p, row) == scan' = [scan EXCEPT ![p] = @ \ {row}]

(* The query re-reads an execution that has changed when it locks it, and  *)
(* the UPDATE ... WHERE status = 'running' the step run.                   *)
StillRunning(e, k) == CanSettle(e, k)

(* step_recovery_lost, or a row the query has dropped at the lock.         *)
RecoveryLost(p, row) ==
  /\ ~StillRunning(row[1], row[2])
  /\ DoneWith(p, row)
  /\ UNCHANGED tables

(* The count that was read is compared with the policy, not the row's.     *)
ScannedAttemptsRemain(row) == row[3] < MaxAttempts[row[2]]

(* step.recovered names the attempt that was read; the intent is for the   *)
(* attempt after the one the UPDATE returns.                               *)
QueueAgain(p, row) ==
  LET e == row[1]
      k == row[2] IN
    /\ StillRunning(e, k)
    /\ ScannedAttemptsRemain(row)
    /\ stepRuns' = [stepRuns EXCEPT ![e][k] = InStatus(@, "queued")]
    /\ events' = Logged(e, <<StepEvent("step.recovered", k, row[3]),
                             StepEvent("step.queued", k, 0)>>)
    /\ outbox' = WithIntent(NextDispatchId(e, k), FALSE)
    /\ DoneWith(p, row)
    /\ UNCHANGED status

GiveUp(p, row) ==
  /\ StillRunning(row[1], row[2])
  /\ ~ScannedAttemptsRemain(row)
  /\ FailStepAndExecution(row[1], row[2])
  /\ DoneWith(p, row)

RecoverStalledExecutionStep(p, row) ==
  RecoveryLost(p, row) \/ QueueAgain(p, row) \/ GiveUp(p, row)

(* PostgreSQL undoes the transaction, or the process stops.                *)
RecoveryAborts(p) ==
  /\ scan' = [scan EXCEPT ![p] = {}]
  /\ UNCHANGED tables

RecoveryStep(p) ==
  \/ ReadStalledSteps(p)
  \/ \E row \in scan[p] : RecoverStalledExecutionStep(p, row)

-------------------------------------------------------------------------------
(* Functions of repositories/execution-outbox.ts                           *)

(* Broken: a lease never expires.                                          *)
UnleasedOutbox ==
  {i \in DOMAIN outbox :
     outbox[i].state = "pending" /\ outbox[i].due /\ outbox[i].lockedBy = NoOne}

(* A row is free when it is unlocked or its lease has expired.  A lease    *)
(* may expire at any moment, also before its holder is done.               *)
ClaimableOutbox == {i \in DOMAIN outbox : outbox[i].state = "pending" /\ outbox[i].due}

(* LIMIT and SKIP LOCKED make the batch some of the free rows.             *)
ClaimDueExecutionOutbox(d, batch) ==
  /\ batch # {}
  /\ batch \subseteq ClaimableOutbox
  /\ outbox' = [i \in DOMAIN outbox |->
       IF i \in batch
         THEN [state |-> "pending", due |-> TRUE, lockedBy |-> d]
         ELSE outbox[i]]
  /\ UNCHANGED <<status, stepRuns, events, scan>>

(* Broken: the row is marked whoever has leased it.                        *)
AnyoneHoldsLease(d, i) ==
  /\ i \in DOMAIN outbox
  /\ outbox[i].state = "pending"

HoldsLease(d, i) ==
  /\ i \in DOMAIN outbox
  /\ outbox[i].lockedBy = d
  /\ outbox[i].state = "pending"

MarkExecutionOutboxDispatched(d, i) ==
  /\ HoldsLease(d, i)
  /\ outbox' = [outbox EXCEPT ![i] =
       [state |-> "dispatched", due |-> @.due, lockedBy |-> NoOne]]
  /\ UNCHANGED <<status, stepRuns, events, scan>>

(* Broken: a dispatcher gives up on a job it could not publish.             *)
AbandonDispatch(d, i) ==
  /\ HoldsLease(d, i)
  /\ outbox' = [outbox EXCEPT ![i] =
       [state |-> "discarded", due |-> FALSE, lockedBy |-> NoOne]]
  /\ UNCHANGED <<status, stepRuns, events, scan>>

MarkExecutionOutboxFailed(d, i) ==
  /\ HoldsLease(d, i)
  /\ outbox' = [outbox EXCEPT ![i] =
       [state |-> "pending", due |-> FALSE, lockedBy |-> NoOne]]
  /\ UNCHANGED <<status, stepRuns, events, scan>>

(* available_at passes; only a pending row is ever asked for it.           *)
BecomeDue(i) ==
  /\ i \in DOMAIN outbox
  /\ outbox[i].state = "pending"
  /\ ~outbox[i].due
  /\ outbox' = [outbox EXCEPT ![i] =
       [state |-> "pending", due |-> TRUE, lockedBy |-> @.lockedBy]]
  /\ UNCHANGED <<status, stepRuns, events, scan>>

(* Broken: the reconciler trusts the list it read earlier.                  *)
BrokenStillQueuedFor(e, k, attempt) ==
  /\ status[e] \in {"queued", "running"}
  /\ stepRuns[e][k].attemptCount + 1 = attempt

(* The step and the attempt a reconciler asks about are still queued.      *)
StillQueuedFor(e, k, attempt) ==
  /\ stepRuns[e][k].status = "queued"
  /\ status[e] \in {"queued", "running"}
  /\ stepRuns[e][k].attemptCount + 1 = attempt

EnsureQueuedStepDispatch(e, k, attempt, resetDispatched) ==
  /\ StillQueuedFor(e, k, attempt)
  /\ LET i == <<e, k, attempt>> IN
       \/ /\ i \in DOMAIN outbox
          /\ resetDispatched
          /\ outbox[i].state # "discarded"
          /\ outbox' = [outbox EXCEPT ![i] =
               [state |-> "pending", due |-> TRUE, lockedBy |-> NoOne]]
       \/ /\ i \notin DOMAIN outbox
          /\ outbox' = WithIntent(i, TRUE)
  /\ UNCHANGED <<status, stepRuns, events, scan>>

-------------------------------------------------------------------------------
OtherTransaction ==
  \/ \E e \in Executions :
       \/ TriggerExecution(e)
       \/ CancelExecution(e)
       \/ \E k \in Steps :
            \/ ClaimQueuedExecutionStep(e, k)
            \/ CompleteClaimedExecutionStep(e, k)
            \/ \E retryable \in BOOLEAN : FailOrRetryClaimedExecutionStep(e, k, retryable)
            \/ \E resetDispatched \in BOOLEAN :
                 EnsureQueuedStepDispatch(e, k, stepRuns[e][k].attemptCount + 1, resetDispatched)
  \/ \E d \in Dispatchers :
       \/ \E batch \in SUBSET ClaimableOutbox : ClaimDueExecutionOutbox(d, batch)
       \/ \E i \in DOMAIN outbox :
            \/ MarkExecutionOutboxDispatched(d, i)
            \/ MarkExecutionOutboxFailed(d, i)
  \/ \E i \in DOMAIN outbox : BecomeDue(i)

Next ==
  \/ OtherTransaction
  \/ \E p \in Dispatchers : RecoveryStep(p) \/ RecoveryAborts(p)

Spec == Init /\ [][Next]_vars

-------------------------------------------------------------------------------
(* Properties                                                              *)

(* The tables hold rows of their types.                                    *)
RowsTypeOK ==
  /\ status \in [Executions -> ExecutionStatus \cup {Absent}]
  /\ stepRuns \in [Executions -> [Steps -> StepRun]]
  /\ events \in [Executions -> Seq(Event)]
  /\ DOMAIN outbox \subseteq DispatchIds
  /\ \A i \in DOMAIN outbox : outbox[i] \in OutboxRow

(* The tables, and the rows a recovery has read.                           *)
TypeOK ==
  /\ RowsTypeOK
  /\ scan \in [Dispatchers -> SUBSET ScannedRow]

(* A step run exists only when every earlier step has succeeded: the       *)
(* definition is executed in order, one step at a time.                    *)
StepsInDefinitionOrder(e) ==
  \A k \in Steps :
    stepRuns[e][k].status # Absent =>
      \A j \in 1..(k - 1) : stepRuns[e][j].status = "succeeded"

(* What the status of an execution says of its steps.                      *)
StatusAgreesWithSteps(e) ==
  /\ status[e] = Absent => \A k \in Steps : stepRuns[e][k] = NoStepRun
  /\ status[e] = "queued" =>
       /\ stepRuns[e][1] = QueuedStepRun
       /\ \A k \in Steps \ {1} : stepRuns[e][k] = NoStepRun
  /\ status[e] = "running" =>
       \E k \in Steps : stepRuns[e][k].status \in {"queued", "running"}
  /\ status[e] = "succeeded" =>
       \A k \in Steps : stepRuns[e][k].status = "succeeded"
  /\ status[e] \in {"failed", "cancelled"} =>
       \E k \in Steps : stepRuns[e][k].status = status[e]

(* The executions and step_runs tables always tell the same story, in      *)
(* every interleaving of triggers, cancels, claims, reports and recovery.  *)
ExecutionAndStepsAgree ==
  \A e \in Executions : StepsInDefinitionOrder(e) /\ StatusAgreesWithSteps(e)

(* A recovery that read an attempt before the last one.                    *)
ScansBeforeLastAttempt(e, k) ==
  {p \in Dispatchers : \E row \in scan[p] :
     row[1] = e /\ row[2] = k /\ row[3] < MaxAttempts[k]}

(* However often its job is delivered and its worker is taken for dead, a  *)
(* step starts no more than maxAttempts times plus once for every process  *)
(* that runs a recovery: only a stale read exceeds the policy, by one      *)
(* attempt, and only one that was read before the last attempt began.      *)
OverrunsBoundedByScans ==
  \A e \in Executions, k \in Steps :
    LET run == stepRuns[e][k]
        granted == run.attemptCount + (IF run.status = "queued" THEN 1 ELSE 0) IN
      granted + Cardinality(ScansBeforeLastAttempt(e, k))
        <= MaxAttempts[k] + Cardinality(Dispatchers)

(* An execution that was queued before the outbox existed and whose first  *)
(* step nobody has claimed yet.                                            *)
QueuedBeforeOutbox(e, k) ==
  e \in LegacyQueued /\ k = 1 /\ stepRuns[e][k].attemptCount = 0

HasIntent(e, k) ==
  /\ NextDispatchId(e, k) \in DOMAIN outbox
  /\ outbox[NextDispatchId(e, k)].state # "discarded"

(* A queued step is never forgotten: the outbox holds an intent for        *)
(* exactly its next attempt and nobody has discarded it.                   *)
QueuedStepHasIntent ==
  \A e \in Executions, k \in Steps :
    stepRuns[e][k].status = "queued" => HasIntent(e, k) \/ QueuedBeforeOutbox(e, k)

(* An attempt that has begun, or the one a queued step waits for; the      *)
(* latter may have been overtaken by a cancellation.                       *)
BegunOrAwaited(run, n) ==
  /\ run.status # Absent
  /\ \/ n <= run.attemptCount
     \/ run.status \in {"queued", "cancelled"} /\ n = run.attemptCount + 1

(* No intent runs ahead of its step, so the insert for a new attempt never *)
(* meets an old row, which ON CONFLICT DO NOTHING would silently keep.     *)
IntentsFollowAttempts ==
  \A i \in DOMAIN outbox : BegunOrAwaited(stepRuns[i[1]][i[2]], i[3])

(* Cancelling discards every pending intent and nothing else does, whatever *)
(* the dispatcher and the reconciler are doing to the same rows; only a    *)
(* pending row is leased.                                                  *)
IntentsEndWithCancellation ==
  \A i \in DOMAIN outbox :
    /\ status[i[1]] = "cancelled" => outbox[i].state # "pending"
    /\ outbox[i].state = "discarded" => status[i[1]] = "cancelled"
    /\ outbox[i].lockedBy # NoOne => outbox[i].state = "pending"

StoreInvariant ==
  /\ ExecutionAndStepsAgree
  /\ QueuedStepHasIntent
  /\ IntentsFollowAttempts
  /\ IntentsEndWithCancellation

(* A terminal execution is final: no late report, recovery, job or         *)
(* reconciliation changes it, its steps or its timeline.                   *)
TerminalIsFinal ==
  [][\A e \in Executions :
       status[e] \in ExecutionTerminalStatuses =>
         /\ status'[e] = status[e]
         /\ stepRuns'[e] = stepRuns[e]
         /\ events'[e] = events[e]]_vars

(* "Every transition that makes a step runnable writes an execution_outbox *)
(* record in the same PostgreSQL transaction" (ADR 002): a fresh, pending  *)
(* one for the attempt that is queued.                                     *)
RunnableTransitionWritesIntent ==
  [][\A e \in Executions, k \in Steps :
       stepRuns'[e][k].status = "queued" /\ stepRuns[e][k].status # "queued" =>
         LET i == <<e, k, stepRuns'[e][k].attemptCount + 1>> IN
           /\ i \notin DOMAIN outbox
           /\ i \in DOMAIN outbox'
           /\ outbox'[i].state = "pending"]_vars

-------------------------------------------------------------------------------
(* The timeline                                                            *)

NoView == [status |-> Absent, steps |-> [k \in Steps |-> NoStepRun]]

(* What an event tells a reader who knows only the earlier events.         *)
StepStatusAfter(type) ==
  CASE type = "step.queued"                          -> "queued"
    [] type = "step.started"                         -> "running"
    [] type = "step.succeeded"                       -> "succeeded"
    [] type \in {"step.retrying", "step.recovered"}  -> "retrying"
    [] type = "step.failed"                          -> "failed"
    [] type = "step.cancelled"                       -> "cancelled"

ExecutionStatusAfter(type) ==
  CASE type = "execution.queued"    -> "queued"
    [] type = "execution.started"   -> "running"
    [] type = "execution.completed" -> "succeeded"
    [] type = "execution.failed"    -> "failed"
    [] type = "execution.cancelled" -> "cancelled"

(* execution.queued also announces the first step (payload firstStepKey).  *)
ReadEvent(view, event) ==
  IF event.step = 0
    THEN [status |-> ExecutionStatusAfter(event.type),
          steps  |-> IF event.type = "execution.queued"
                       THEN [view.steps EXCEPT ![1] = InStatus(@, "queued")]
                       ELSE view.steps]
    ELSE [status |-> view.status,
          steps  |-> [view.steps EXCEPT ![event.step] =
            [status       |-> StepStatusAfter(event.type),
             attemptCount |-> IF event.type = "step.started"
                                THEN event.attempt ELSE @.attemptCount]]]

ViewAfter(log) ==
  LET view[n \in 0..Len(log)] ==
        IF n = 0 THEN NoView ELSE ReadEvent(view[n - 1], log[n])
  IN  view[Len(log)]

(* "PostgreSQL gives us a reliable audit trail and lets the UI rebuild     *)
(* execution state" (ADR-002): reading the events of an execution from the *)
(* first to the last gives exactly its row and its step rows.              *)
TimelineRebuildsState ==
  \A e \in Executions :
    ViewAfter(events[e]) = [status |-> status[e], steps |-> stepRuns[e]]

(* Two consecutive events never tell of a transition that the state        *)
(* machine of workflow-core forbids, the passage through "retrying"        *)
(* included; a step's first event finds it queued from nothing, and its    *)
(* attempts are numbered without a gap.                                    *)
LegalStep(old, new) ==
  \/ old = new
  \/ /\ \/ CanTransitionStepRun(old.status, new.status)
        \/ old.status = Absent /\ new.status = "queued"
     /\ new.attemptCount = old.attemptCount + (IF new.status = "running" THEN 1 ELSE 0)

LegalEvent(before, after, first) ==
  /\ \/ before.status = after.status
     \/ CanTransitionExecution(before.status, after.status)
     \/ first /\ after.status = "queued"
  /\ \A k \in Steps : LegalStep(before.steps[k], after.steps[k])

TimelineFollowsStateMachine ==
  \A e \in Executions : \A n \in DOMAIN events[e] :
    LET before == ViewAfter(SubSeq(events[e], 1, n - 1)) IN
      LegalEvent(before, ReadEvent(before, events[e][n]), n = 1)

-------------------------------------------------------------------------------
(* The abstract execution this layer implements                            *)

CompletedSteps == [e \in Executions |-> {k \in Steps : stepRuns[e][k].status = "succeeded"}]

Lifecycle == INSTANCE ExecutionLifecycle WITH
  AlreadyQueued <- LegacyQueued, phase <- status, completed <- CompletedSteps

(* The store implements the execution lifecycle: steps complete in order,  *)
(* each once, and an execution succeeds exactly with its last step.        *)
ImplementsLifecycle == Lifecycle!Spec
===============================================================================
