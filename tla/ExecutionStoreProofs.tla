------------------------- MODULE ExecutionStoreProofs -------------------------
(***************************************************************************)
(* Theorems about ExecutionStore, for every set of executions and          *)
(* dispatchers, every number of steps and every retry policy.              *)
(***************************************************************************)
EXTENDS ExecutionStore, SequenceTheorems, FiniteSetTheorems, TLAPS

USE DEF AttemptsRemain

(* A running step is queued again with an intent for its next attempt,     *)
(* whoever decides it, whatever the policy says and whatever attempt the   *)
(* event names.                                                            *)
Requeue(e, k) ==
  /\ CanSettle(e, k)
  /\ stepRuns' = [stepRuns EXCEPT ![e][k] = InStatus(@, "queued")]
  /\ \E reason \in {"step.retrying", "step.recovered"}, attempt \in Nat :
       events' = Logged(e, <<StepEvent(reason, k, attempt), StepEvent("step.queued", k, 0)>>)
  /\ outbox' = WithIntent(NextDispatchId(e, k), FALSE)
  /\ UNCHANGED status

(* What a step of the store does to its tables.  A recovery writes what    *)
(* every retry writes and every failure, whatever it has read: the reads   *)
(* decide how often a step is tried, and everything else holds without     *)
(* them.                                                                   *)
StoreStep ==
  \/ OtherTransaction
  \/ \E e \in Executions, k \in Steps :
       Requeue(e, k) \/ (CanSettle(e, k) /\ FailStepAndExecution(e, k))
  \/ UNCHANGED tables

-------------------------------------------------------------------------------
(* Lemmas about the parts of the transactions                              *)

(* A log stays a log when events are appended to it.                       *)
LEMMA LoggedType ==
  ASSUME events \in [Executions -> Seq(Event)],
         NEW e \in Executions, NEW newEvents \in Seq(Event)
  PROVE  /\ Logged(e, newEvents) \in [Executions -> Seq(Event)]
         /\ \A x \in Executions \ {e} : Logged(e, newEvents)[x] = events[x]
BY DEF Logged

(* The two kinds of events are events.                                     *)
LEMMA EventType ==
  /\ \A type \in EventTypes : ExecutionEvent(type) \in Event
  /\ \A type \in EventTypes, k \in Steps, attempt \in Nat :
       StepEvent(type, k, attempt) \in Event
BY StepCountAssumption DEF ExecutionEvent, StepEvent, Event, Steps

(* The intents table after an insert: the old rows and, if it is new, a    *)
(* pending one.                                                            *)
LEMMA WithIntentType ==
  ASSUME DOMAIN outbox \subseteq DispatchIds,
         \A i \in DOMAIN outbox : outbox[i] \in OutboxRow,
         NEW id \in DispatchIds, NEW due \in BOOLEAN
  PROVE  /\ DOMAIN WithIntent(id, due) = DOMAIN outbox \cup {id}
         /\ DOMAIN WithIntent(id, due) \subseteq DispatchIds
         /\ \A i \in DOMAIN WithIntent(id, due) : WithIntent(id, due)[i] \in OutboxRow
         /\ \A i \in DOMAIN outbox : WithIntent(id, due)[i] = outbox[i]
         /\ id \notin DOMAIN outbox =>
              /\ WithIntent(id, due)[id].state = "pending"
              /\ WithIntent(id, due)[id].lockedBy = NoOne
BY DEF WithIntent, OutboxRow

(* The same rows with the pending ones of one execution discarded.         *)
LEMMA WithPendingDiscardedType ==
  ASSUME DOMAIN outbox \subseteq DispatchIds,
         \A i \in DOMAIN outbox : outbox[i] \in OutboxRow,
         NEW e \in Executions
  PROVE  /\ DOMAIN WithPendingDiscarded(e) = DOMAIN outbox
         /\ \A i \in DOMAIN outbox :
              /\ WithPendingDiscarded(e)[i] \in OutboxRow
              /\ \/ WithPendingDiscarded(e)[i] = outbox[i]
                 \/ /\ i[1] = e
                    /\ WithPendingDiscarded(e)[i].state = "discarded"
                    /\ WithPendingDiscarded(e)[i].lockedBy = NoOne
              /\ i[1] = e => WithPendingDiscarded(e)[i].state # "pending"
BY DEF WithPendingDiscarded, OutboxRow

(* Every row a transaction writes in step_runs is one.                     *)
LEMMA StepRunType ==
  /\ NoStepRun \in StepRun
  /\ QueuedStepRun \in StepRun
  /\ \A run \in StepRun, s \in StepRunStatus :
       /\ InStatus(run, s) \in StepRun
       /\ InStatus(run, s).status = s
       /\ InStatus(run, s).attemptCount = run.attemptCount
BY DEF NoStepRun, QueuedStepRun, InStatus, StepRun, StepRunStatus, Absent

(* The rows after a completion that queues the next step.                  *)
LEMMA CompleteAndQueueNextRows ==
  ASSUME RowsTypeOK, NEW e \in Executions, NEW k \in Steps, CompleteAndQueueNext(e, k)
  PROVE  /\ k + 1 \in Steps
         /\ stepRuns'[e][k].status = "succeeded"
         /\ stepRuns'[e][k].attemptCount = stepRuns[e][k].attemptCount
         /\ stepRuns'[e][k + 1] = QueuedStepRun
         /\ \A j \in Steps \ {k, k + 1} : stepRuns'[e][j] = stepRuns[e][j]
         /\ \A x \in Executions \ {e} : stepRuns'[x] = stepRuns[x]
<1>1. k + 1 \in Steps /\ k # k + 1
  BY StepCountAssumption DEF CompleteAndQueueNext, Steps
<1>2. stepRuns'[e] = [stepRuns[e] EXCEPT ![k] = InStatus(stepRuns[e][k], "succeeded"),
                                         ![k + 1] = QueuedStepRun]
  BY DEF CompleteAndQueueNext, RowsTypeOK
<1>3. stepRuns[e] \in [Steps -> StepRun]
  BY DEF RowsTypeOK
<1>4. \A x \in Executions \ {e} : stepRuns'[x] = stepRuns[x]
  BY DEF CompleteAndQueueNext, RowsTypeOK
<1>5. /\ stepRuns'[e][k] = InStatus(stepRuns[e][k], "succeeded")
      /\ stepRuns'[e][k + 1] = QueuedStepRun
      /\ \A j \in Steps \ {k, k + 1} : stepRuns'[e][j] = stepRuns[e][j]
  BY <1>1, <1>2, <1>3
<1> QED
  BY <1>1, <1>3, <1>4, <1>5, StepRunType DEF StepRunStatus

(* The rows after a cancellation.                                          *)
LEMMA CancelRows ==
  ASSUME RowsTypeOK, NEW e \in Executions, CancelExecution(e)
  PROVE  /\ \A k \in CancellableSteps(e) :
              /\ stepRuns'[e][k].status = "cancelled"
              /\ stepRuns'[e][k].attemptCount = stepRuns[e][k].attemptCount
         /\ \A k \in Steps \ CancellableSteps(e) : stepRuns'[e][k] = stepRuns[e][k]
         /\ \A x \in Executions \ {e} : stepRuns'[x] = stepRuns[x]
<1>1. ASSUME NEW k \in CancellableSteps(e)
      PROVE  /\ stepRuns'[e][k].status = "cancelled"
             /\ stepRuns'[e][k].attemptCount = stepRuns[e][k].attemptCount
  <2>1. stepRuns'[e][k] = InStatus(stepRuns[e][k], "cancelled")
    BY DEF RowsTypeOK, CancelExecution, CancellableSteps
  <2>2. stepRuns[e][k] \in StepRun
    BY DEF RowsTypeOK, CancellableSteps
  <2> QED
    BY <2>1, <2>2, StepRunType DEF StepRunStatus
<1>2. /\ \A k \in Steps \ CancellableSteps(e) : stepRuns'[e][k] = stepRuns[e][k]
      /\ \A x \in Executions \ {e} : stepRuns'[x] = stepRuns[x]
  BY DEF RowsTypeOK, CancelExecution
<1> QED
  BY <1>1, <1>2

(* The attempts a step may have an intent for.                             *)
LEMMA NextDispatchIdType ==
  ASSUME RowsTypeOK, NEW e \in Executions, NEW k \in Steps
  PROVE  NextDispatchId(e, k) \in DispatchIds
BY DEF RowsTypeOK, NextDispatchId, DispatchIds, StepRun

-------------------------------------------------------------------------------
(* Type correctness                                                        *)

(* The initial tables are well typed.                                      *)
LEMMA InitType == Init => TypeOK
<1> SUFFICES ASSUME Init PROVE TypeOK
  OBVIOUS
<1>1. status \in [Executions -> ExecutionStatus \cup {Absent}]
  BY DEF Init, ExecutionStatus
<1>2. stepRuns \in [Executions -> [Steps -> StepRun]]
  BY StepRunType DEF Init
<1>3. events \in [Executions -> Seq(Event)]
  <2>1. ExecutionEvent("execution.queued") \in Event
    BY EventType DEF EventTypes
  <2> QED
    BY <2>1 DEF Init
<1>4. DOMAIN outbox = {}
  BY DEF Init
<1>5. scan \in [Dispatchers -> SUBSET ScannedRow]
  BY DEF Init
<1> QED
  BY <1>1, <1>2, <1>3, <1>4, <1>5 DEF RowsTypeOK, TypeOK

(* Queueing the next attempt keeps the types.                              *)
LEMMA RequeueType ==
  ASSUME RowsTypeOK, NEW e \in Executions, NEW k \in Steps, Requeue(e, k)
  PROVE  RowsTypeOK'
<1>1. stepRuns' \in [Executions -> [Steps -> StepRun]]
  BY StepRunType DEF RowsTypeOK, Requeue, StepRunStatus
<1>2. events' \in [Executions -> Seq(Event)]
  <2>1. PICK reason \in {"step.retrying", "step.recovered"}, attempt \in Nat :
          events' = Logged(e, <<StepEvent(reason, k, attempt), StepEvent("step.queued", k, 0)>>)
    BY DEF Requeue
  <2>2. <<StepEvent(reason, k, attempt), StepEvent("step.queued", k, 0)>> \in Seq(Event)
    BY EventType DEF EventTypes
  <2> QED
    BY <2>1, <2>2, LoggedType DEF RowsTypeOK
<1>3. /\ DOMAIN outbox' \subseteq DispatchIds
      /\ \A i \in DOMAIN outbox' : outbox'[i] \in OutboxRow
  BY NextDispatchIdType, WithIntentType DEF RowsTypeOK, Requeue
<1> QED
  BY <1>1, <1>2, <1>3 DEF RowsTypeOK, Requeue

(* Failing a step with its execution keeps the types.                      *)
LEMMA FailStepAndExecutionType ==
  ASSUME RowsTypeOK, NEW e \in Executions, NEW k \in Steps, FailStepAndExecution(e, k)
  PROVE  RowsTypeOK'
<1>1. stepRuns' \in [Executions -> [Steps -> StepRun]]
  BY StepRunType DEF RowsTypeOK, FailStepAndExecution, StepRunStatus
<1>2. events' \in [Executions -> Seq(Event)]
  <2>1. stepRuns[e][k].attemptCount \in Nat
    BY DEF RowsTypeOK, StepRun
  <2>2. <<StepEvent("step.failed", k, stepRuns[e][k].attemptCount),
          ExecutionEvent("execution.failed")>> \in Seq(Event)
    BY <2>1, EventType DEF EventTypes
  <2> QED
    BY <2>2, LoggedType DEF RowsTypeOK, FailStepAndExecution
<1>3. status' \in [Executions -> ExecutionStatus \cup {Absent}]
  BY DEF RowsTypeOK, FailStepAndExecution, ExecutionStatus
<1> QED
  BY <1>1, <1>2, <1>3 DEF RowsTypeOK, FailStepAndExecution

(* The transactions on one execution keep the types.                       *)
LEMMA TriggerType ==
  ASSUME RowsTypeOK, NEW e \in Executions, TriggerExecution(e)
  PROVE  RowsTypeOK'
<1>1. 1 \in Steps
  BY StepCountAssumption DEF Steps
<1>2. status' \in [Executions -> ExecutionStatus \cup {Absent}]
  BY DEF RowsTypeOK, TriggerExecution, ExecutionStatus
<1>3. stepRuns' \in [Executions -> [Steps -> StepRun]]
  BY <1>1, StepRunType DEF RowsTypeOK, TriggerExecution
<1>4. events' \in [Executions -> Seq(Event)]
  <2>1. ExecutionEvent("execution.queued") \in Event
    BY EventType DEF EventTypes
  <2>2. <<ExecutionEvent("execution.queued")>> \in Seq(Event)
    BY <2>1
  <2> QED
    BY <2>2, LoggedType DEF RowsTypeOK, TriggerExecution
<1>5. /\ DOMAIN outbox' \subseteq DispatchIds
      /\ \A i \in DOMAIN outbox' : outbox'[i] \in OutboxRow
  <2>1. <<e, 1, 1>> \in DispatchIds
    BY <1>1 DEF DispatchIds
  <2> QED
    BY <2>1, WithIntentType DEF RowsTypeOK, TriggerExecution
<1> QED
  BY <1>2, <1>3, <1>4, <1>5 DEF RowsTypeOK

LEMMA CancelType ==
  ASSUME RowsTypeOK, NEW e \in Executions, CancelExecution(e)
  PROVE  RowsTypeOK'
<1>1. status' \in [Executions -> ExecutionStatus \cup {Absent}]
  BY DEF RowsTypeOK, CancelExecution, ExecutionStatus
<1>2. stepRuns' \in [Executions -> [Steps -> StepRun]]
  BY StepRunType DEF RowsTypeOK, CancelExecution, StepRunStatus
<1>3. events' \in [Executions -> Seq(Event)]
  <2>1. PICK order \in SetToSeqs(CancellableSteps(e)) :
          events' = Logged(e,
            [n \in DOMAIN order |->
               StepEvent("step.cancelled", order[n], stepRuns[e][order[n]].attemptCount)]
            \o <<ExecutionEvent("execution.cancelled")>>)
    BY DEF CancelExecution
  <2>2. Cardinality(CancellableSteps(e)) \in Nat
    <3>1. IsFiniteSet(Steps)
      BY StepCountAssumption, FS_Interval DEF Steps
    <3>2. IsFiniteSet(CancellableSteps(e))
      BY <3>1, FS_Subset DEF CancellableSteps
    <3> QED
      BY <3>2, FS_CardinalityType
  <2>3. order \in [1..Cardinality(CancellableSteps(e)) -> Steps]
    BY DEF SetToSeqs, CancellableSteps
  <2> DEFINE cancelled ==
        [n \in DOMAIN order |->
           StepEvent("step.cancelled", order[n], stepRuns[e][order[n]].attemptCount)]
  <2>4. \A n \in DOMAIN order :
          StepEvent("step.cancelled", order[n], stepRuns[e][order[n]].attemptCount) \in Event
    BY <2>3, EventType DEF EventTypes, RowsTypeOK, StepRun
  <2>5. cancelled \in [1..Cardinality(CancellableSteps(e)) -> Event]
    BY <2>3, <2>4
  <2>6. cancelled \in Seq(Event)
    BY <2>2, <2>5, IsASeq
  <2>7. <<ExecutionEvent("execution.cancelled")>> \in Seq(Event)
    BY EventType DEF EventTypes
  <2>8. cancelled \o <<ExecutionEvent("execution.cancelled")>> \in Seq(Event)
    BY <2>6, <2>7, ConcatProperties
  <2> QED
    BY <2>1, <2>8, LoggedType DEF RowsTypeOK
<1>4. /\ DOMAIN outbox' \subseteq DispatchIds
      /\ \A i \in DOMAIN outbox' : outbox'[i] \in OutboxRow
  BY WithPendingDiscardedType DEF RowsTypeOK, CancelExecution
<1> QED
  BY <1>1, <1>2, <1>3, <1>4 DEF RowsTypeOK

LEMMA ClaimType ==
  ASSUME RowsTypeOK, NEW e \in Executions, NEW k \in Steps, ClaimQueuedExecutionStep(e, k)
  PROVE  RowsTypeOK'
<1>1. stepRuns[e][k].attemptCount \in Nat
  BY DEF RowsTypeOK, StepRun
<1>2. status' \in [Executions -> ExecutionStatus \cup {Absent}]
  BY DEF RowsTypeOK, ClaimQueuedExecutionStep, ExecutionStatus
<1>3. stepRuns' \in [Executions -> [Steps -> StepRun]]
  <2>1. [status |-> "running", attemptCount |-> stepRuns[e][k].attemptCount + 1] \in StepRun
    BY <1>1 DEF StepRun, StepRunStatus
  <2> QED
    BY <2>1 DEF RowsTypeOK, ClaimQueuedExecutionStep
<1>4. events' \in [Executions -> Seq(Event)]
  <2> DEFINE started ==
        IF status[e] = "queued" THEN <<ExecutionEvent("execution.started")>> ELSE <<>>
  <2>1. started \in Seq(Event)
    BY EventType DEF EventTypes
  <2>2. <<StepEvent("step.started", k, stepRuns[e][k].attemptCount + 1)>> \in Seq(Event)
    BY <1>1, EventType DEF EventTypes
  <2>3. started \o <<StepEvent("step.started", k, stepRuns[e][k].attemptCount + 1)>>
          \in Seq(Event)
    BY <2>1, <2>2, ConcatProperties
  <2> QED
    BY <2>3, LoggedType DEF RowsTypeOK, ClaimQueuedExecutionStep
<1> QED
  BY <1>2, <1>3, <1>4 DEF RowsTypeOK, ClaimQueuedExecutionStep

LEMMA CompleteType ==
  ASSUME RowsTypeOK, NEW e \in Executions, NEW k \in Steps, CompleteClaimedExecutionStep(e, k)
  PROVE  RowsTypeOK'
<1>1. stepRuns[e][k].attemptCount \in Nat
  BY DEF RowsTypeOK, StepRun
<1>2. CASE CompleteAndQueueNext(e, k)
  <2>1. k + 1 \in Steps
    BY <1>2, StepCountAssumption DEF CompleteAndQueueNext, Steps
  <2>2. stepRuns' \in [Executions -> [Steps -> StepRun]]
    <3> DEFINE run == [stepRuns[e] EXCEPT ![k] = InStatus(stepRuns[e][k], "succeeded"),
                                          ![k + 1] = QueuedStepRun]
    <3>1. InStatus(stepRuns[e][k], "succeeded") \in StepRun
      BY StepRunType DEF RowsTypeOK, StepRunStatus
    <3>2. run \in [Steps -> StepRun]
      BY <2>1, <3>1, StepRunType DEF RowsTypeOK
    <3>3. stepRuns' = [stepRuns EXCEPT ![e] = run]
      BY <1>2 DEF CompleteAndQueueNext
    <3> QED
      BY <3>2, <3>3 DEF RowsTypeOK
  <2>3. <<StepEvent("step.succeeded", k, stepRuns[e][k].attemptCount),
          StepEvent("step.queued", k + 1, 0)>> \in Seq(Event)
    BY <1>1, <2>1, EventType DEF EventTypes
  <2>4. events' \in [Executions -> Seq(Event)]
    BY <1>2, <2>3, LoggedType DEF RowsTypeOK, CompleteAndQueueNext
  <2>5. <<e, k + 1, 1>> \in DispatchIds
    BY <2>1 DEF DispatchIds
  <2>6. /\ DOMAIN outbox' \subseteq DispatchIds
        /\ \A i \in DOMAIN outbox' : outbox'[i] \in OutboxRow
    BY <1>2, <2>5, WithIntentType DEF RowsTypeOK, CompleteAndQueueNext
  <2> QED
    BY <1>2, <2>2, <2>4, <2>6 DEF RowsTypeOK, CompleteAndQueueNext
<1>3. CASE CompleteExecution(e, k)
  <2>1. status' \in [Executions -> ExecutionStatus \cup {Absent}]
    BY <1>3 DEF RowsTypeOK, CompleteExecution, ExecutionStatus
  <2>2. stepRuns' \in [Executions -> [Steps -> StepRun]]
    BY <1>3, StepRunType DEF RowsTypeOK, CompleteExecution, StepRunStatus
  <2>3. <<StepEvent("step.succeeded", k, stepRuns[e][k].attemptCount),
          ExecutionEvent("execution.completed")>> \in Seq(Event)
    BY <1>1, EventType DEF EventTypes
  <2>4. events' \in [Executions -> Seq(Event)]
    BY <1>3, <2>3, LoggedType DEF RowsTypeOK, CompleteExecution
  <2> QED
    BY <1>3, <2>1, <2>2, <2>4 DEF RowsTypeOK, CompleteExecution
<1> QED
  BY <1>2, <1>3 DEF CompleteClaimedExecutionStep

(* The transactions on the outbox keep the types and touch nothing else.   *)
DispatcherWrite ==
  \/ \E d \in Dispatchers :
       \/ \E batch \in SUBSET ClaimableOutbox : ClaimDueExecutionOutbox(d, batch)
       \/ \E i \in DOMAIN outbox :
            \/ MarkExecutionOutboxDispatched(d, i)
            \/ MarkExecutionOutboxFailed(d, i)
  \/ \E i \in DOMAIN outbox : BecomeDue(i)

LEMMA EnsureType ==
  ASSUME RowsTypeOK, NEW e \in Executions, NEW k \in Steps, NEW resetDispatched \in BOOLEAN,
         EnsureQueuedStepDispatch(e, k, stepRuns[e][k].attemptCount + 1, resetDispatched)
  PROVE  RowsTypeOK'
<1> DEFINE id == <<e, k, stepRuns[e][k].attemptCount + 1>>
<1>1. id \in DispatchIds
  BY NextDispatchIdType DEF NextDispatchId
<1>2. CASE id \in DOMAIN outbox
  <2>1. outbox' = [outbox EXCEPT ![id] =
                     [state |-> "pending", due |-> TRUE, lockedBy |-> NoOne]]
    BY <1>2 DEF EnsureQueuedStepDispatch
  <2>2. [state |-> "pending", due |-> TRUE, lockedBy |-> NoOne] \in OutboxRow
    BY DEF OutboxRow
  <2> QED
    BY <1>2, <2>1, <2>2 DEF RowsTypeOK, EnsureQueuedStepDispatch
<1>3. CASE id \notin DOMAIN outbox
  BY <1>1, <1>3, WithIntentType DEF RowsTypeOK, EnsureQueuedStepDispatch
<1> QED
  BY <1>2, <1>3

LEMMA DispatcherType ==
  ASSUME RowsTypeOK, DispatcherWrite
  PROVE  RowsTypeOK'
<1>1. CASE \E d \in Dispatchers, batch \in SUBSET ClaimableOutbox :
             ClaimDueExecutionOutbox(d, batch)
  BY <1>1 DEF RowsTypeOK, ClaimDueExecutionOutbox, OutboxRow
<1>2. CASE \E d \in Dispatchers, i \in DOMAIN outbox : MarkExecutionOutboxDispatched(d, i)
  BY <1>2 DEF RowsTypeOK, MarkExecutionOutboxDispatched, HoldsLease, OutboxRow
<1>3. CASE \E d \in Dispatchers, i \in DOMAIN outbox : MarkExecutionOutboxFailed(d, i)
  BY <1>3 DEF RowsTypeOK, MarkExecutionOutboxFailed, HoldsLease, OutboxRow
<1>4. CASE \E i \in DOMAIN outbox : BecomeDue(i)
  BY <1>4 DEF RowsTypeOK, BecomeDue, OutboxRow
<1> QED
  BY <1>1, <1>2, <1>3, <1>4 DEF DispatcherWrite

OutboxStep ==
  \/ DispatcherWrite
  \/ \E e \in Executions, k \in Steps, resetDispatched \in BOOLEAN :
       EnsureQueuedStepDispatch(e, k, stepRuns[e][k].attemptCount + 1, resetDispatched)

(* What a step of the tables may be: a retry and a recovery requeue.       *)
LEMMA StoreStepCases ==
  ASSUME RowsTypeOK, StoreStep
  PROVE  \/ \E e \in Executions : TriggerExecution(e) \/ CancelExecution(e)
         \/ \E e \in Executions, k \in Steps :
              \/ ClaimQueuedExecutionStep(e, k)
              \/ CompleteAndQueueNext(e, k)
              \/ CompleteExecution(e, k)
              \/ Requeue(e, k)
              \/ CanSettle(e, k) /\ FailStepAndExecution(e, k)
         \/ OutboxStep
         \/ UNCHANGED tables
<1>1. ASSUME NEW e \in Executions, NEW k \in Steps, CanSettle(e, k),
             \/ QueueNextAttempt(e, k, "step.retrying")
             \/ QueueNextAttempt(e, k, "step.recovered")
      PROVE  Requeue(e, k)
  <2>1. stepRuns[e][k].attemptCount \in Nat
    BY DEF RowsTypeOK, StepRun
  <2> QED
    BY <1>1, <2>1 DEF QueueNextAttempt, Requeue
<1>2. ASSUME NEW e \in Executions, NEW k \in Steps, NEW retryable \in BOOLEAN,
             FailOrRetryClaimedExecutionStep(e, k, retryable)
      PROVE  Requeue(e, k) \/ (CanSettle(e, k) /\ FailStepAndExecution(e, k))
  <2>1. CanSettle(e, k) /\ (QueueNextAttempt(e, k, "step.retrying") \/ FailStepAndExecution(e, k))
    BY <1>2, Zenon DEF FailOrRetryClaimedExecutionStep
  <2> QED
    BY <1>1, <2>1, Zenon
<1> QED
  BY <1>2 DEF StoreStep, OtherTransaction, CompleteClaimedExecutionStep, OutboxStep,
              DispatcherWrite

(* Every step of the store keeps its tables well typed.                    *)
LEMMA StoreStepType == ASSUME RowsTypeOK, StoreStep PROVE RowsTypeOK'
<1>1. ASSUME NEW e \in Executions, TriggerExecution(e) PROVE RowsTypeOK'
  BY <1>1, TriggerType
<1>2. ASSUME NEW e \in Executions, CancelExecution(e) PROVE RowsTypeOK'
  BY <1>2, CancelType
<1>3. ASSUME NEW e \in Executions, NEW k \in Steps, ClaimQueuedExecutionStep(e, k)
      PROVE  RowsTypeOK'
  BY <1>3, ClaimType
<1>4. ASSUME NEW e \in Executions, NEW k \in Steps,
             CompleteAndQueueNext(e, k) \/ CompleteExecution(e, k)
      PROVE  RowsTypeOK'
  BY <1>4, CompleteType DEF CompleteClaimedExecutionStep
<1>5. ASSUME NEW e \in Executions, NEW k \in Steps, Requeue(e, k) PROVE RowsTypeOK'
  BY <1>5, RequeueType
<1>6. ASSUME NEW e \in Executions, NEW k \in Steps, FailStepAndExecution(e, k) PROVE RowsTypeOK'
  BY <1>6, FailStepAndExecutionType
<1>7. CASE OutboxStep
  BY <1>7, EnsureType, DispatcherType DEF OutboxStep
<1>8. CASE UNCHANGED tables
  BY <1>8 DEF RowsTypeOK, tables
<1> QED
  BY <1>1, <1>2, <1>3, <1>4, <1>5, <1>6, <1>7, <1>8, StoreStepCases

(* A recovery queues a step again as every retry does and fails it as a    *)
(* worker's report does: only the decision rests on what was read.         *)
LEMMA NextIsStoreStep ==
  ASSUME TypeOK, [Next]_vars
  PROVE  StoreStep
<1>1. CASE OtherTransaction
  BY <1>1 DEF StoreStep
<1>2. CASE UNCHANGED tables
  BY <1>2 DEF StoreStep
<1>3. ASSUME NEW p \in Dispatchers, NEW row \in scan[p], QueueAgain(p, row) PROVE StoreStep
  <2> DEFINE e == row[1]
             k == row[2]
  <2>1. e \in Executions /\ k \in Steps /\ row[3] \in Nat
    BY DEF TypeOK, ScannedRow
  <2>2. Requeue(e, k)
    BY <1>3, <2>1 DEF QueueAgain, StillRunning, Requeue
  <2> QED
    BY <2>1, <2>2 DEF StoreStep
<1>4. ASSUME NEW p \in Dispatchers, NEW row \in scan[p], GiveUp(p, row) PROVE StoreStep
  <2> DEFINE e == row[1]
             k == row[2]
  <2>1. e \in Executions /\ k \in Steps
    BY DEF TypeOK, ScannedRow
  <2>2. CanSettle(e, k) /\ FailStepAndExecution(e, k)
    BY <1>4 DEF GiveUp, StillRunning
  <2> QED
    BY <2>1, <2>2 DEF StoreStep
<1> QED
  BY <1>1, <1>2, <1>3, <1>4
     DEF Next, RecoveryStep, ReadStalledSteps, RecoverStalledExecutionStep, RecoveryLost,
         RecoveryAborts, vars, tables

(* Every other transaction leaves the reads of a recovery alone.           *)
LEMMA OthersKeepScans == OtherTransaction => UNCHANGED scan
<1>1. ASSUME NEW e \in Executions, TriggerExecution(e) \/ CancelExecution(e)
      PROVE  UNCHANGED scan
  BY <1>1 DEF TriggerExecution, CancelExecution
<1>2. ASSUME NEW e \in Executions, NEW k \in Steps,
             \/ ClaimQueuedExecutionStep(e, k)
             \/ CompleteClaimedExecutionStep(e, k)
      PROVE  UNCHANGED scan
  BY <1>2 DEF ClaimQueuedExecutionStep, CompleteClaimedExecutionStep,
             CompleteAndQueueNext, CompleteExecution
<1>3. ASSUME NEW e \in Executions, NEW k \in Steps, NEW retryable \in BOOLEAN,
             FailOrRetryClaimedExecutionStep(e, k, retryable)
      PROVE  UNCHANGED scan
  BY <1>3 DEF FailOrRetryClaimedExecutionStep
<1>4. ASSUME NEW e \in Executions, NEW k \in Steps, NEW resetDispatched \in BOOLEAN,
             EnsureQueuedStepDispatch(e, k, stepRuns[e][k].attemptCount + 1, resetDispatched)
      PROVE  UNCHANGED scan
  BY <1>4 DEF EnsureQueuedStepDispatch
<1>5. ASSUME NEW d \in Dispatchers, NEW batch, ClaimDueExecutionOutbox(d, batch)
      PROVE  UNCHANGED scan
  BY <1>5 DEF ClaimDueExecutionOutbox
<1>6. ASSUME NEW d \in Dispatchers, NEW i,
             \/ MarkExecutionOutboxDispatched(d, i)
             \/ MarkExecutionOutboxFailed(d, i)
      PROVE  UNCHANGED scan
  BY <1>6 DEF MarkExecutionOutboxDispatched, MarkExecutionOutboxFailed
<1>7. ASSUME NEW i, BecomeDue(i) PROVE UNCHANGED scan
  BY <1>7 DEF BecomeDue
<1> QED
  BY <1>1, <1>2, <1>3, <1>4, <1>5, <1>6, <1>7 DEF OtherTransaction

(* A recovery reads ids and counts of rows.                                *)
LEMMA ScansKeepType ==
  ASSUME TypeOK, [Next]_vars
  PROVE  scan' \in [Dispatchers -> SUBSET ScannedRow]
<1>1. ASSUME NEW p \in Dispatchers, NEW row, DoneWith(p, row)
      PROVE  scan' \in [Dispatchers -> SUBSET ScannedRow]
  BY <1>1 DEF TypeOK, DoneWith
<1>2. ASSUME NEW p \in Dispatchers, ReadStalledSteps(p)
      PROVE  scan' \in [Dispatchers -> SUBSET ScannedRow]
  <2>1. RunningRows \subseteq ScannedRow
    BY DEF RunningRows, ScannedRow, TypeOK, RowsTypeOK, StepRun
  <2> QED
    BY <1>2, <2>1 DEF ReadStalledSteps, TypeOK
<1>3. ASSUME NEW p \in Dispatchers, RecoveryAborts(p)
      PROVE  scan' \in [Dispatchers -> SUBSET ScannedRow]
  BY <1>3 DEF TypeOK, RecoveryAborts
<1>4. CASE UNCHANGED scan
  BY <1>4 DEF TypeOK
<1> QED
  BY <1>1, <1>2, <1>3, <1>4, OthersKeepScans
     DEF Next, RecoveryStep, RecoverStalledExecutionStep, RecoveryLost, QueueAgain, GiveUp, vars

LEMMA NextType == TypeOK /\ [Next]_vars => TypeOK'
BY NextIsStoreStep, StoreStepType, ScansKeepType DEF TypeOK

(* The tables always hold rows of their types, and a recovery reads such.  *)
THEOREM StoreTypeCorrect == Spec => []TypeOK
<1>1. Init => TypeOK
  BY InitType
<1>2. TypeOK /\ [Next]_vars => TypeOK'
  BY NextType
<1> QED
  BY <1>1, <1>2, PTL DEF Spec

-------------------------------------------------------------------------------
(* Executions and steps agree                                              *)

(* An execution whose rows do not change keeps the agreement.              *)
LEMMA AgreementOfUnchanged ==
  ASSUME NEW x \in Executions,
         status'[x] = status[x], stepRuns'[x] = stepRuns[x],
         StepsInDefinitionOrder(x) /\ StatusAgreesWithSteps(x)
  PROVE  (StepsInDefinitionOrder(x) /\ StatusAgreesWithSteps(x))'
BY DEF StepsInDefinitionOrder, StatusAgreesWithSteps

(* A transaction on one execution keeps the agreement of all of them when  *)
(* it keeps that of its own.                                               *)
LEMMA AgreementOfOne ==
  ASSUME ExecutionAndStepsAgree, NEW e \in Executions,
         \A x \in Executions \ {e} : status'[x] = status[x] /\ stepRuns'[x] = stepRuns[x],
         (StepsInDefinitionOrder(e) /\ StatusAgreesWithSteps(e))'
  PROVE  ExecutionAndStepsAgree'
<1> SUFFICES ASSUME NEW x \in Executions
             PROVE  (StepsInDefinitionOrder(x) /\ StatusAgreesWithSteps(x))'
  BY DEF ExecutionAndStepsAgree
<1>1. CASE x = e
  BY <1>1
<1>2. CASE x # e
  BY <1>2, AgreementOfUnchanged DEF ExecutionAndStepsAgree
<1> QED
  BY <1>1, <1>2

(* Moving a running step of a running execution to a status that is not    *)
(* "absent" keeps the order of the steps.                                  *)
LEMMA OrderOfMovedStep ==
  ASSUME RowsTypeOK, NEW e \in Executions, NEW k \in Steps, StepsInDefinitionOrder(e),
         stepRuns[e][k].status \in {"queued", "running"},
         NEW run \in StepRun,
         stepRuns' = [stepRuns EXCEPT ![e][k] = run]
  PROVE  /\ StepsInDefinitionOrder(e)'
         /\ stepRuns'[e][k] = run
         /\ \A j \in Steps \ {k} : stepRuns'[e][j] = stepRuns[e][j]
         /\ \A j \in 1..(k - 1) : stepRuns[e][j].status = "succeeded"
<1>1. stepRuns'[e][k] = run /\ \A j \in Steps \ {k} : stepRuns'[e][j] = stepRuns[e][j]
  BY DEF RowsTypeOK
<1>2. \A j \in 1..(k - 1) : stepRuns[e][j].status = "succeeded"
  BY DEF StepsInDefinitionOrder, Absent
<1>3. \A m \in Steps : stepRuns[e][m].status # Absent => ~(k \in 1..(m - 1))
  BY DEF StepsInDefinitionOrder
<1>4. ASSUME NEW m \in Steps, stepRuns'[e][m].status # Absent, NEW j \in 1..(m - 1)
      PROVE  stepRuns'[e][j].status = "succeeded"
  <2>1. j \in Steps
    BY StepCountAssumption DEF Steps
  <2>2. CASE m = k
    BY <1>1, <1>2, <2>1, <2>2 DEF Steps
  <2>3. CASE m # k
    <3>1. stepRuns[e][m].status # Absent
      BY <1>1, <1>4, <2>3
    <3>2. j # k
      BY <1>3, <3>1
    <3> QED
      BY <1>1, <2>1, <3>1, <3>2 DEF StepsInDefinitionOrder
  <2> QED
    BY <2>2, <2>3
<1> QED
  BY <1>1, <1>2, <1>4 DEF StepsInDefinitionOrder

LEMMA TriggerAgreement ==
  ASSUME RowsTypeOK, ExecutionAndStepsAgree, NEW e \in Executions, TriggerExecution(e)
  PROVE  ExecutionAndStepsAgree'
<1>1. 1 \in Steps
  BY StepCountAssumption DEF Steps
<1>2. \A x \in Executions \ {e} : status'[x] = status[x] /\ stepRuns'[x] = stepRuns[x]
  BY DEF RowsTypeOK, TriggerExecution
<1>3. \A k \in Steps : stepRuns[e][k] = NoStepRun
  BY DEF ExecutionAndStepsAgree, StatusAgreesWithSteps, TriggerExecution
<1>4. /\ status'[e] = "queued"
      /\ stepRuns'[e][1] = QueuedStepRun
      /\ \A k \in Steps \ {1} : stepRuns'[e][k] = NoStepRun
  BY <1>1, <1>3 DEF RowsTypeOK, TriggerExecution
<1>5. StepsInDefinitionOrder(e)'
  BY <1>4 DEF StepsInDefinitionOrder, NoStepRun
<1>6. StatusAgreesWithSteps(e)'
  BY <1>4 DEF StatusAgreesWithSteps, Absent
<1> QED
  BY <1>2, <1>5, <1>6, AgreementOfOne

LEMMA CancelAgreement ==
  ASSUME RowsTypeOK, ExecutionAndStepsAgree, NEW e \in Executions, CancelExecution(e)
  PROVE  ExecutionAndStepsAgree'
<1>1. \A x \in Executions \ {e} : status'[x] = status[x] /\ stepRuns'[x] = stepRuns[x]
  BY DEF RowsTypeOK, CancelExecution
<1>2. status'[e] = "cancelled"
  BY DEF RowsTypeOK, CancelExecution
<1>3. \A k \in Steps :
        IF stepRuns[e][k].status \in CancellableStepRunStatuses
          THEN stepRuns'[e][k].status = "cancelled"
          ELSE stepRuns'[e][k] = stepRuns[e][k]
  BY DEF RowsTypeOK, CancelExecution, CancellableSteps, InStatus
<1>4. StepsInDefinitionOrder(e)'
  <2> SUFFICES ASSUME NEW k \in Steps, stepRuns'[e][k].status # Absent, NEW j \in 1..(k - 1)
               PROVE  stepRuns'[e][j].status = "succeeded"
    BY DEF StepsInDefinitionOrder
  <2>1. j \in Steps
    BY StepCountAssumption DEF Steps
  <2>2. stepRuns[e][k].status # Absent
    BY <1>3 DEF CancellableStepRunStatuses, Absent
  <2>3. stepRuns[e][j].status = "succeeded"
    BY <2>2 DEF ExecutionAndStepsAgree, StepsInDefinitionOrder
  <2> QED
    BY <1>3, <2>1, <2>3 DEF CancellableStepRunStatuses
<1>5. \E k \in Steps : stepRuns[e][k].status \in {"queued", "running"}
  <2>1. 1 \in Steps
    BY StepCountAssumption DEF Steps
  <2> QED
    BY <2>1 DEF ExecutionAndStepsAgree, StatusAgreesWithSteps, CancelExecution,
                CancellableExecutionStatuses, QueuedStepRun
<1>6. \E k \in Steps : stepRuns'[e][k].status = "cancelled"
  BY <1>3, <1>5 DEF CancellableStepRunStatuses
<1>7. StatusAgreesWithSteps(e)'
  BY <1>2, <1>6 DEF StatusAgreesWithSteps, Absent
<1> QED
  BY <1>1, <1>4, <1>7, AgreementOfOne

LEMMA ClaimAgreement ==
  ASSUME RowsTypeOK, ExecutionAndStepsAgree, NEW e \in Executions, NEW k \in Steps,
         ClaimQueuedExecutionStep(e, k)
  PROVE  ExecutionAndStepsAgree'
<1> DEFINE run == [status |-> "running", attemptCount |-> stepRuns[e][k].attemptCount + 1]
<1>1. \A x \in Executions \ {e} : status'[x] = status[x] /\ stepRuns'[x] = stepRuns[x]
  BY DEF RowsTypeOK, ClaimQueuedExecutionStep
<1>2. status'[e] = "running"
  BY DEF RowsTypeOK, ClaimQueuedExecutionStep
<1>3. run \in StepRun /\ stepRuns' = [stepRuns EXCEPT ![e][k] = run]
  BY DEF RowsTypeOK, ClaimQueuedExecutionStep, StepRun, StepRunStatus
<1>4. StepsInDefinitionOrder(e)' /\ stepRuns'[e][k] = run
  <2>1. StepsInDefinitionOrder(e) /\ stepRuns[e][k].status = "queued"
    BY DEF ClaimQueuedExecutionStep, IsOldestQueuedStep, ExecutionAndStepsAgree
  <2> QED
    BY <1>3, <2>1, OrderOfMovedStep
<1>5. StatusAgreesWithSteps(e)'
  BY <1>2, <1>4 DEF StatusAgreesWithSteps, Absent
<1> QED
  BY <1>1, <1>4, <1>5, AgreementOfOne

LEMMA CompleteAgreement ==
  ASSUME RowsTypeOK, ExecutionAndStepsAgree, NEW e \in Executions, NEW k \in Steps,
         CompleteClaimedExecutionStep(e, k)
  PROVE  ExecutionAndStepsAgree'
<1>1. \A x \in Executions \ {e} : status'[x] = status[x] /\ stepRuns'[x] = stepRuns[x]
  BY DEF RowsTypeOK, CompleteClaimedExecutionStep, CompleteAndQueueNext, CompleteExecution
<1>2. /\ StepsInDefinitionOrder(e)
      /\ status[e] = "running"
      /\ stepRuns[e][k].status = "running"
  BY DEF ExecutionAndStepsAgree, CompleteClaimedExecutionStep, CompleteAndQueueNext,
         CompleteExecution, CanSettle
<1>3. /\ InStatus(stepRuns[e][k], "succeeded") \in StepRun
      /\ InStatus(stepRuns[e][k], "succeeded").status = "succeeded"
  BY StepRunType DEF RowsTypeOK, StepRunStatus
<1>4. CASE CompleteAndQueueNext(e, k)
  <2>1. k + 1 \in Steps
    BY <1>4, StepCountAssumption DEF CompleteAndQueueNext, Steps
  <2>2. /\ status'[e] = "running"
        /\ stepRuns'[e][k].status = "succeeded"
        /\ stepRuns'[e][k + 1] = QueuedStepRun
        /\ \A j \in Steps \ {k, k + 1} : stepRuns'[e][j] = stepRuns[e][j]
    BY <1>2, <1>3, <1>4, CompleteAndQueueNextRows DEF CompleteAndQueueNext
  <2>3. StepsInDefinitionOrder(e)'
    <3> SUFFICES ASSUME NEW m \in Steps, stepRuns'[e][m].status # Absent, NEW j \in 1..(m - 1)
                 PROVE  stepRuns'[e][j].status = "succeeded"
      BY DEF StepsInDefinitionOrder
    <3>1. j \in Steps /\ j < m
      BY StepCountAssumption DEF Steps
    <3>2. CASE m \notin {k, k + 1}
      <4>1. stepRuns[e][j].status = "succeeded"
        BY <1>2, <2>2, <3>2 DEF StepsInDefinitionOrder
      <4>2. j # k /\ j # k + 1
        BY <1>2, <1>4, <4>1 DEF CompleteAndQueueNext, Absent
      <4> QED
        BY <2>2, <3>1, <4>1, <4>2
    <3>3. CASE m \in {k, k + 1}
      <4>1. j = k \/ j \in 1..(k - 1)
        BY <3>1, <3>3 DEF Steps
      <4>2. CASE j = k
        BY <2>2, <4>2
      <4>3. CASE j \in 1..(k - 1)
        <5>1. stepRuns[e][j].status = "succeeded"
          BY <1>2, <4>3 DEF StepsInDefinitionOrder, Absent
        <5>2. j \notin {k, k + 1}
          BY <4>3 DEF Steps
        <5> QED
          BY <2>2, <3>1, <5>1, <5>2
      <4> QED
        BY <4>1, <4>2, <4>3
    <3> QED
      BY <3>2, <3>3
  <2>4. StatusAgreesWithSteps(e)'
    BY <2>1, <2>2 DEF StatusAgreesWithSteps, Absent, QueuedStepRun
  <2> QED
    BY <1>1, <2>3, <2>4, AgreementOfOne
<1>5. CASE CompleteExecution(e, k)
  <2>1. status'[e] = "succeeded" /\ k = StepCount
    BY <1>5 DEF CompleteExecution, RowsTypeOK
  <2>2. stepRuns' = [stepRuns EXCEPT ![e][k] = InStatus(stepRuns[e][k], "succeeded")]
    BY <1>5 DEF CompleteExecution, RowsTypeOK
  <2>3. /\ StepsInDefinitionOrder(e)'
        /\ stepRuns'[e][k].status = "succeeded"
        /\ \A j \in Steps \ {k} : stepRuns'[e][j].status = "succeeded"
    <3>1. /\ StepsInDefinitionOrder(e)'
          /\ stepRuns'[e][k].status = "succeeded"
          /\ \A j \in Steps \ {k} : stepRuns'[e][j] = stepRuns[e][j]
          /\ \A j \in 1..(k - 1) : stepRuns[e][j].status = "succeeded"
      BY <1>2, <1>3, <2>2, OrderOfMovedStep
    <3>2. Steps \ {k} = 1..(k - 1)
      BY <2>1, StepCountAssumption DEF Steps
    <3> QED
      BY <3>1, <3>2
  <2>4. StatusAgreesWithSteps(e)'
    BY <2>1, <2>3 DEF StatusAgreesWithSteps, Absent
  <2> QED
    BY <1>1, <2>3, <2>4, AgreementOfOne
<1> QED
  BY <1>4, <1>5 DEF CompleteClaimedExecutionStep

LEMMA RequeueAgreement ==
  ASSUME RowsTypeOK, ExecutionAndStepsAgree, NEW e \in Executions, NEW k \in Steps,
         Requeue(e, k)
  PROVE  ExecutionAndStepsAgree'
<1>1. \A x \in Executions \ {e} : status'[x] = status[x] /\ stepRuns'[x] = stepRuns[x]
  BY DEF RowsTypeOK, Requeue
<1>2. /\ InStatus(stepRuns[e][k], "queued") \in StepRun
      /\ InStatus(stepRuns[e][k], "queued").status = "queued"
  BY StepRunType DEF RowsTypeOK, StepRunStatus
<1>3. StepsInDefinitionOrder(e)' /\ stepRuns'[e][k].status = "queued"
  BY <1>2, OrderOfMovedStep DEF Requeue, CanSettle, ExecutionAndStepsAgree
<1>4. StatusAgreesWithSteps(e)'
  BY <1>3 DEF StatusAgreesWithSteps, Absent, Requeue, CanSettle
<1> QED
  BY <1>1, <1>3, <1>4, AgreementOfOne

LEMMA FailStepAndExecutionAgreement ==
  ASSUME RowsTypeOK, ExecutionAndStepsAgree, NEW e \in Executions, NEW k \in Steps,
         CanSettle(e, k), FailStepAndExecution(e, k)
  PROVE  ExecutionAndStepsAgree'
<1>1. \A x \in Executions \ {e} : status'[x] = status[x] /\ stepRuns'[x] = stepRuns[x]
  BY DEF RowsTypeOK, FailStepAndExecution
<1>2. /\ InStatus(stepRuns[e][k], "failed") \in StepRun
      /\ InStatus(stepRuns[e][k], "failed").status = "failed"
  BY StepRunType DEF RowsTypeOK, StepRunStatus
<1>3. StepsInDefinitionOrder(e)' /\ stepRuns'[e][k].status = "failed"
  BY <1>2, OrderOfMovedStep DEF FailStepAndExecution, CanSettle, ExecutionAndStepsAgree
<1>4. status'[e] = "failed"
  BY DEF RowsTypeOK, FailStepAndExecution
<1>5. StatusAgreesWithSteps(e)'
  BY <1>3, <1>4 DEF StatusAgreesWithSteps, Absent
<1> QED
  BY <1>1, <1>3, <1>5, AgreementOfOne

-------------------------------------------------------------------------------
(* Intents                                                                 *)

(* A dispatch id is an execution, a step and an attempt.                   *)
LEMMA DispatchIdParts ==
  ASSUME RowsTypeOK, NEW i \in DOMAIN outbox
  PROVE  /\ i[1] \in Executions /\ i[2] \in Steps /\ i[3] \in Nat \ {0}
         /\ i = <<i[1], i[2], i[3]>>
         /\ outbox[i] \in OutboxRow
BY DEF RowsTypeOK, DispatchIds

(* A step that is neither queued nor cancelled has no intent for its next  *)
(* attempt, and one that does not exist has none at all.                   *)
LEMMA FreshIntent ==
  ASSUME RowsTypeOK, IntentsFollowAttempts, NEW e \in Executions, NEW k \in Steps
  PROVE  /\ stepRuns[e][k].status \notin {"queued", "cancelled"} =>
              NextDispatchId(e, k) \notin DOMAIN outbox
         /\ stepRuns[e][k].status = Absent => <<e, k, 1>> \notin DOMAIN outbox
<1>1. stepRuns[e][k].attemptCount \in Nat
  BY DEF RowsTypeOK, StepRun
<1>2. ASSUME NEW n \in Nat, <<e, k, n>> \in DOMAIN outbox
      PROVE  BegunOrAwaited(stepRuns[e][k], n)
  BY <1>2 DEF IntentsFollowAttempts
<1> QED
  BY <1>1, <1>2 DEF BegunOrAwaited, NextDispatchId

(* What the transactions do to the outbox rows an execution already has.   *)
RowsKept(x) ==
  \A i \in DOMAIN outbox :
    i[1] = x => i \in DOMAIN outbox' /\ outbox'[i] = outbox[i]

(* A queued step whose row does not change keeps its intent, as long as    *)
(* the rows of its execution are kept.                                     *)
LEMMA IntentKept ==
  ASSUME QueuedStepHasIntent, NEW x \in Executions, NEW j \in Steps,
         RowsKept(x),
         stepRuns'[x][j] = stepRuns[x][j], stepRuns'[x][j].status = "queued"
  PROVE  (HasIntent(x, j) \/ QueuedBeforeOutbox(x, j))'
BY DEF QueuedStepHasIntent, HasIntent, QueuedBeforeOutbox, NextDispatchId, RowsKept

(* Writing an intent keeps every row.                                      *)
LEMMA WithIntentKeepsRows ==
  ASSUME RowsTypeOK, NEW id \in DispatchIds, NEW due \in BOOLEAN,
         outbox' = WithIntent(id, due), NEW x
  PROVE  RowsKept(x)
BY WithIntentType DEF RowsKept, RowsTypeOK

LEMMA TriggerIntents ==
  ASSUME RowsTypeOK, StoreInvariant, NEW e \in Executions, TriggerExecution(e)
  PROVE  QueuedStepHasIntent'
<1>1. 1 \in Steps /\ <<e, 1, 1>> \in DispatchIds
  BY StepCountAssumption DEF Steps, DispatchIds
<1>2. \A x \in Executions : RowsKept(x)
  BY <1>1, WithIntentKeepsRows DEF TriggerExecution
<1>3. /\ stepRuns'[e][1] = QueuedStepRun
      /\ \A j \in Steps \ {1} : stepRuns'[e][j] = stepRuns[e][j]
      /\ \A x \in Executions \ {e} : stepRuns'[x] = stepRuns[x]
  BY <1>1 DEF RowsTypeOK, TriggerExecution
<1>4. HasIntent(e, 1)'
  <2>1. <<e, 1, 1>> \notin DOMAIN outbox
    BY <1>1, FreshIntent
       DEF StoreInvariant, ExecutionAndStepsAgree, StatusAgreesWithSteps,
           TriggerExecution, NoStepRun
  <2>2. <<e, 1, 1>> \in DOMAIN outbox' /\ outbox'[<<e, 1, 1>>].state = "pending"
    BY <1>1, <2>1, WithIntentType DEF RowsTypeOK, TriggerExecution
  <2> QED
    BY <1>3, <2>2 DEF HasIntent, NextDispatchId, QueuedStepRun
<1> SUFFICES ASSUME NEW x \in Executions, NEW j \in Steps, stepRuns'[x][j].status = "queued"
             PROVE  (HasIntent(x, j) \/ QueuedBeforeOutbox(x, j))'
  BY DEF QueuedStepHasIntent
<1>5. CASE x = e /\ j = 1
  BY <1>4, <1>5
<1>6. CASE x # e \/ j # 1
  BY <1>2, <1>3, <1>6, IntentKept DEF StoreInvariant
<1> QED
  BY <1>5, <1>6

LEMMA CancelIntents ==
  ASSUME RowsTypeOK, StoreInvariant, NEW e \in Executions, CancelExecution(e)
  PROVE  QueuedStepHasIntent'
<1> SUFFICES ASSUME NEW x \in Executions, NEW j \in Steps, stepRuns'[x][j].status = "queued"
             PROVE  (HasIntent(x, j) \/ QueuedBeforeOutbox(x, j))'
  BY DEF QueuedStepHasIntent
<1>1. x # e
  <2>1. ASSUME NEW k \in Steps PROVE stepRuns'[e][k].status # "queued"
    <3>1. CASE k \in CancellableSteps(e)
      BY <3>1, CancelRows
    <3>2. CASE k \notin CancellableSteps(e)
      BY <3>2, CancelRows DEF CancellableSteps, CancellableStepRunStatuses
    <3> QED
      BY <3>1, <3>2
  <2> QED
    BY <2>1
<1>2. stepRuns'[x] = stepRuns[x]
  BY <1>1, CancelRows
<1>3. RowsKept(x)
  BY <1>1, WithPendingDiscardedType DEF RowsKept, RowsTypeOK, CancelExecution
<1> QED
  BY <1>2, <1>3, IntentKept DEF StoreInvariant

LEMMA ClaimIntents ==
  ASSUME RowsTypeOK, StoreInvariant, NEW e \in Executions, NEW k \in Steps,
         ClaimQueuedExecutionStep(e, k)
  PROVE  QueuedStepHasIntent'
<1> SUFFICES ASSUME NEW x \in Executions, NEW j \in Steps, stepRuns'[x][j].status = "queued"
             PROVE  (HasIntent(x, j) \/ QueuedBeforeOutbox(x, j))'
  BY DEF QueuedStepHasIntent
<1>1. stepRuns'[x][j] = stepRuns[x][j]
  BY DEF RowsTypeOK, ClaimQueuedExecutionStep
<1>2. RowsKept(x)
  BY DEF RowsKept, ClaimQueuedExecutionStep
<1> QED
  BY <1>1, <1>2, IntentKept DEF StoreInvariant

LEMMA CompleteIntents ==
  ASSUME RowsTypeOK, StoreInvariant, NEW e \in Executions, NEW k \in Steps,
         CompleteClaimedExecutionStep(e, k)
  PROVE  QueuedStepHasIntent'
<1> SUFFICES ASSUME NEW x \in Executions, NEW j \in Steps, stepRuns'[x][j].status = "queued"
             PROVE  (HasIntent(x, j) \/ QueuedBeforeOutbox(x, j))'
  BY DEF QueuedStepHasIntent
<1>1. CASE CompleteAndQueueNext(e, k)
  <2>1. k + 1 \in Steps /\ <<e, k + 1, 1>> \in DispatchIds
    BY <1>1, CompleteAndQueueNextRows DEF DispatchIds
  <2>2. RowsKept(x)
    BY <1>1, <2>1, WithIntentKeepsRows DEF CompleteAndQueueNext
  <2>3. CASE x = e /\ j = k + 1
    <3>1. <<e, k + 1, 1>> \notin DOMAIN outbox
      BY <1>1, <2>1, FreshIntent DEF CompleteAndQueueNext, StoreInvariant
    <3>2. /\ <<e, k + 1, 1>> \in DOMAIN outbox'
          /\ outbox'[<<e, k + 1, 1>>].state = "pending"
      BY <1>1, <2>1, <3>1, WithIntentType DEF RowsTypeOK, CompleteAndQueueNext
    <3>3. stepRuns'[e][k + 1] = QueuedStepRun
      BY <1>1, CompleteAndQueueNextRows
    <3> QED
      BY <2>3, <3>2, <3>3 DEF HasIntent, NextDispatchId, QueuedStepRun
  <2>4. CASE x # e \/ j # k + 1
    <3>1. stepRuns'[e][k].status # "queued"
      BY <1>1, CompleteAndQueueNextRows
    <3>2. stepRuns'[x][j] = stepRuns[x][j]
      BY <1>1, <2>4, <3>1, CompleteAndQueueNextRows
    <3> QED
      BY <2>2, <3>2, IntentKept DEF StoreInvariant
  <2> QED
    BY <2>3, <2>4
<1>2. CASE CompleteExecution(e, k)
  <2>1. stepRuns'[x][j] = stepRuns[x][j]
    BY <1>2 DEF RowsTypeOK, CompleteExecution, InStatus
  <2>2. RowsKept(x)
    BY <1>2 DEF RowsKept, CompleteExecution
  <2> QED
    BY <2>1, <2>2, IntentKept DEF StoreInvariant
<1> QED
  BY <1>1, <1>2 DEF CompleteClaimedExecutionStep

LEMMA RequeueIntents ==
  ASSUME RowsTypeOK, StoreInvariant, NEW e \in Executions, NEW k \in Steps, Requeue(e, k)
  PROVE  QueuedStepHasIntent'
<1> SUFFICES ASSUME NEW x \in Executions, NEW j \in Steps, stepRuns'[x][j].status = "queued"
             PROVE  (HasIntent(x, j) \/ QueuedBeforeOutbox(x, j))'
  BY DEF QueuedStepHasIntent
<1>1. NextDispatchId(e, k) \in DispatchIds
  BY NextDispatchIdType
<1>2. RowsKept(x)
  BY <1>1, WithIntentKeepsRows DEF Requeue
<1>3. CASE x = e /\ j = k
  <2>1. NextDispatchId(e, k) \notin DOMAIN outbox
    BY FreshIntent DEF StoreInvariant, Requeue, CanSettle
  <2>2. /\ NextDispatchId(e, k) \in DOMAIN outbox'
        /\ outbox'[NextDispatchId(e, k)].state = "pending"
    BY <1>1, <2>1, WithIntentType DEF RowsTypeOK, Requeue
  <2>3. stepRuns'[e][k].attemptCount = stepRuns[e][k].attemptCount
    BY DEF RowsTypeOK, Requeue, InStatus
  <2> QED
    BY <1>3, <2>2, <2>3 DEF HasIntent, NextDispatchId
<1>4. CASE x # e \/ j # k
  <2>1. stepRuns'[x][j] = stepRuns[x][j]
    BY <1>4 DEF RowsTypeOK, Requeue
  <2> QED
    BY <1>2, <2>1, IntentKept DEF StoreInvariant
<1> QED
  BY <1>3, <1>4

LEMMA FailIntents ==
  ASSUME RowsTypeOK, StoreInvariant, NEW e \in Executions, NEW k \in Steps,
         FailStepAndExecution(e, k)
  PROVE  QueuedStepHasIntent'
<1> SUFFICES ASSUME NEW x \in Executions, NEW j \in Steps, stepRuns'[x][j].status = "queued"
             PROVE  (HasIntent(x, j) \/ QueuedBeforeOutbox(x, j))'
  BY DEF QueuedStepHasIntent
<1>1. stepRuns'[x][j] = stepRuns[x][j]
  BY DEF RowsTypeOK, FailStepAndExecution, InStatus
<1>2. RowsKept(x)
  BY DEF RowsKept, FailStepAndExecution
<1> QED
  BY <1>1, <1>2, IntentKept DEF StoreInvariant

(* The transactions that write only the outbox: no row disappears, the     *)
(* dispatcher moves pending rows only, and the reconciliation makes        *)
(* pending the row of a queued step's next attempt.                        *)
UntouchedRow(i) ==
  i \in DOMAIN outbox /\ outbox'[i] = outbox[i]

DispatcherRow(i) ==
  /\ i \in DOMAIN outbox
  /\ outbox[i].state = "pending"
  /\ \/ outbox'[i].state = "pending"
     \/ outbox'[i].state = "dispatched" /\ outbox'[i].lockedBy = NoOne

ReconciledRow(i) ==
  /\ outbox'[i].state = "pending"
  /\ \E e \in Executions, k \in Steps :
       /\ i = NextDispatchId(e, k)
       /\ stepRuns[e][k].status = "queued"
       /\ status[e] \in {"queued", "running"}

LEMMA OutboxStepRows ==
  ASSUME RowsTypeOK, OutboxStep
  PROVE  /\ UNCHANGED <<status, stepRuns, events>>
         /\ DOMAIN outbox \subseteq DOMAIN outbox'
         /\ \A i \in DOMAIN outbox' : UntouchedRow(i) \/ DispatcherRow(i) \/ ReconciledRow(i)
<1>1. ASSUME NEW d \in Dispatchers, NEW batch \in SUBSET ClaimableOutbox,
             ClaimDueExecutionOutbox(d, batch)
      PROVE  /\ UNCHANGED <<status, stepRuns, events>>
             /\ DOMAIN outbox' = DOMAIN outbox
             /\ \A i \in DOMAIN outbox : UntouchedRow(i) \/ DispatcherRow(i)
  BY <1>1 DEF ClaimDueExecutionOutbox, ClaimableOutbox, UntouchedRow, DispatcherRow
<1>2. ASSUME NEW d \in Dispatchers, NEW n \in DOMAIN outbox, MarkExecutionOutboxDispatched(d, n)
      PROVE  /\ UNCHANGED <<status, stepRuns, events>>
             /\ DOMAIN outbox' = DOMAIN outbox
             /\ \A i \in DOMAIN outbox : UntouchedRow(i) \/ DispatcherRow(i)
  BY <1>2 DEF MarkExecutionOutboxDispatched, HoldsLease, UntouchedRow, DispatcherRow
<1>3. ASSUME NEW d \in Dispatchers, NEW n \in DOMAIN outbox, MarkExecutionOutboxFailed(d, n)
      PROVE  /\ UNCHANGED <<status, stepRuns, events>>
             /\ DOMAIN outbox' = DOMAIN outbox
             /\ \A i \in DOMAIN outbox : UntouchedRow(i) \/ DispatcherRow(i)
  BY <1>3 DEF MarkExecutionOutboxFailed, HoldsLease, UntouchedRow, DispatcherRow
<1>4. ASSUME NEW n \in DOMAIN outbox, BecomeDue(n)
      PROVE  /\ UNCHANGED <<status, stepRuns, events>>
             /\ DOMAIN outbox' = DOMAIN outbox
             /\ \A i \in DOMAIN outbox : UntouchedRow(i) \/ DispatcherRow(i)
  BY <1>4 DEF BecomeDue, UntouchedRow, DispatcherRow
<1>5. ASSUME NEW e \in Executions, NEW k \in Steps, NEW resetDispatched \in BOOLEAN,
             EnsureQueuedStepDispatch(e, k, stepRuns[e][k].attemptCount + 1, resetDispatched)
      PROVE  /\ UNCHANGED <<status, stepRuns, events>>
             /\ DOMAIN outbox \subseteq DOMAIN outbox'
             /\ \A i \in DOMAIN outbox' : UntouchedRow(i) \/ ReconciledRow(i)
  <2> DEFINE id == NextDispatchId(e, k)
  <2>1. id \in DispatchIds
    BY NextDispatchIdType
  <2>2. /\ UNCHANGED <<status, stepRuns, events>>
        /\ stepRuns[e][k].status = "queued"
        /\ status[e] \in {"queued", "running"}
    BY <1>5 DEF EnsureQueuedStepDispatch, StillQueuedFor
  <2>3. CASE id \in DOMAIN outbox
    <3>1. outbox' = [outbox EXCEPT ![id] =
                       [state |-> "pending", due |-> TRUE, lockedBy |-> NoOne]]
      BY <1>5, <2>3 DEF EnsureQueuedStepDispatch, NextDispatchId
    <3> QED
      BY <2>2, <2>3, <3>1 DEF UntouchedRow, ReconciledRow
  <2>4. CASE id \notin DOMAIN outbox
    <3>1. outbox' = WithIntent(id, TRUE)
      BY <1>5, <2>4 DEF EnsureQueuedStepDispatch, NextDispatchId
    <3>2. /\ DOMAIN outbox' = DOMAIN outbox \cup {id}
          /\ outbox'[id].state = "pending"
          /\ \A i \in DOMAIN outbox : outbox'[i] = outbox[i]
      BY <2>1, <2>4, <3>1, WithIntentType DEF RowsTypeOK
    <3> QED
      BY <2>2, <3>2 DEF UntouchedRow, ReconciledRow
  <2> QED
    BY <2>3, <2>4
<1> QED
  BY <1>1, <1>2, <1>3, <1>4, <1>5 DEF OutboxStep, DispatcherWrite

LEMMA OutboxStepIntents ==
  ASSUME RowsTypeOK, StoreInvariant, OutboxStep
  PROVE  QueuedStepHasIntent'
<1> SUFFICES ASSUME NEW x \in Executions, NEW j \in Steps, stepRuns'[x][j].status = "queued"
             PROVE  (HasIntent(x, j) \/ QueuedBeforeOutbox(x, j))'
  BY DEF QueuedStepHasIntent
<1>1. stepRuns' = stepRuns /\ NextDispatchId(x, j)' = NextDispatchId(x, j)
  BY OutboxStepRows DEF NextDispatchId
<1>2. CASE HasIntent(x, j)
  <2>1. NextDispatchId(x, j) \in DOMAIN outbox'
    BY <1>2, OutboxStepRows DEF HasIntent
  <2>2. outbox'[NextDispatchId(x, j)].state # "discarded"
    BY <1>2, <2>1, OutboxStepRows DEF HasIntent, UntouchedRow, DispatcherRow, ReconciledRow
  <2> QED
    BY <1>1, <2>1, <2>2 DEF HasIntent
<1>3. CASE QueuedBeforeOutbox(x, j)
  BY <1>1, <1>3 DEF QueuedBeforeOutbox
<1> QED
  BY <1>1, <1>2, <1>3 DEF StoreInvariant, QueuedStepHasIntent

(* An attempt that has begun or is awaited stays so while the step moves   *)
(* on: its count grows, or it leaves no awaited attempt behind.            *)
LEMMA BegunOrAwaitedKept ==
  ASSUME NEW run \in StepRun, NEW new \in StepRun, NEW n \in Nat,
         BegunOrAwaited(run, n),
         new.status # Absent,
         \/ new.attemptCount = run.attemptCount + 1
         \/ /\ new.attemptCount = run.attemptCount
            /\ run.status \in {"queued", "cancelled"} => new.status \in {"queued", "cancelled"}
  PROVE  BegunOrAwaited(new, n)
BY DEF BegunOrAwaited, StepRun

(* A step run moves on in one of the ways just described.                  *)
MovesOn(run, new) ==
  \/ new = run
  \/ /\ new.status # Absent
     /\ \/ new.attemptCount = run.attemptCount + 1
        \/ /\ new.attemptCount = run.attemptCount
           /\ run.status \in {"queued", "cancelled"} => new.status \in {"queued", "cancelled"}

(* When every step moves on and every new intent is one a step waits for,  *)
(* the intents still follow the attempts.                                  *)
LEMMA IntentsFollow ==
  ASSUME RowsTypeOK, RowsTypeOK', IntentsFollowAttempts,
         \A e \in Executions, k \in Steps :
           (\E n \in Nat : <<e, k, n>> \in DOMAIN outbox) =>
             MovesOn(stepRuns[e][k], stepRuns'[e][k]),
         \A i \in DOMAIN outbox' \ DOMAIN outbox :
           /\ stepRuns'[i[1]][i[2]].status = "queued"
           /\ i[3] = stepRuns'[i[1]][i[2]].attemptCount + 1
  PROVE  IntentsFollowAttempts'
<1> SUFFICES ASSUME NEW i \in DOMAIN outbox'
             PROVE  BegunOrAwaited(stepRuns'[i[1]][i[2]], i[3])
  BY DEF IntentsFollowAttempts, BegunOrAwaited
<1>1. i[1] \in Executions /\ i[2] \in Steps /\ i[3] \in Nat /\ i = <<i[1], i[2], i[3]>>
  BY DEF RowsTypeOK, DispatchIds
<1>2. stepRuns[i[1]][i[2]] \in StepRun /\ stepRuns'[i[1]][i[2]] \in StepRun
  BY <1>1 DEF RowsTypeOK
<1>3. CASE i \in DOMAIN outbox
  <2>1. BegunOrAwaited(stepRuns[i[1]][i[2]], i[3])
    BY <1>3 DEF IntentsFollowAttempts
  <2>2. MovesOn(stepRuns[i[1]][i[2]], stepRuns'[i[1]][i[2]])
    BY <1>1, <1>3
  <2> QED
    BY <1>1, <1>2, <2>1, <2>2, BegunOrAwaitedKept DEF MovesOn
<1>4. CASE i \notin DOMAIN outbox
  BY <1>4 DEF BegunOrAwaited, Absent
<1> QED
  BY <1>3, <1>4

(* Every transaction moves steps on and writes no other intent.            *)
LEMMA NextFollow ==
  ASSUME RowsTypeOK, RowsTypeOK', StoreInvariant, StoreStep
  PROVE  IntentsFollowAttempts'
<1> DEFINE Moved == \A e \in Executions, k \in Steps :
                      (\E n \in Nat : <<e, k, n>> \in DOMAIN outbox) =>
                        MovesOn(stepRuns[e][k], stepRuns'[e][k])
           NewAwaited == \A i \in DOMAIN outbox' \ DOMAIN outbox :
                           /\ stepRuns'[i[1]][i[2]].status = "queued"
                           /\ i[3] = stepRuns'[i[1]][i[2]].attemptCount + 1
<1>1. SUFFICES Moved /\ NewAwaited
  BY IntentsFollow DEF StoreInvariant
<1>2. ASSUME NEW e \in Executions, TriggerExecution(e) PROVE Moved /\ NewAwaited
  <2>1. 1 \in Steps /\ <<e, 1, 1>> \in DispatchIds
    BY StepCountAssumption DEF Steps, DispatchIds
  <2>2. \A n \in Nat : <<e, 1, n>> \notin DOMAIN outbox
    BY <1>2, <2>1 DEF StoreInvariant, IntentsFollowAttempts, BegunOrAwaited,
         ExecutionAndStepsAgree, StatusAgreesWithSteps, TriggerExecution, NoStepRun
  <2>3. stepRuns' = [stepRuns EXCEPT ![e][1] = QueuedStepRun]
    BY <1>2 DEF TriggerExecution
  <2>4. Moved
    BY <2>1, <2>2, <2>3 DEF RowsTypeOK, MovesOn
  <2>5. NewAwaited
    <3>1. DOMAIN outbox' = DOMAIN outbox \cup {<<e, 1, 1>>}
      BY <1>2, <2>1, WithIntentType DEF RowsTypeOK, TriggerExecution
    <3>2. stepRuns'[e][1] = QueuedStepRun
      BY <2>1, <2>3 DEF RowsTypeOK
    <3> QED
      BY <3>1, <3>2 DEF QueuedStepRun
  <2> QED
    BY <2>4, <2>5
<1>3. ASSUME NEW e \in Executions, CancelExecution(e) PROVE Moved /\ NewAwaited
  <2>1. Moved
    <3> SUFFICES ASSUME NEW x \in Executions, NEW k \in Steps
                 PROVE  MovesOn(stepRuns[x][k], stepRuns'[x][k])
      OBVIOUS
    <3>1. CASE x = e /\ k \in CancellableSteps(e)
      BY <1>3, <3>1, CancelRows DEF MovesOn, Absent
    <3>2. CASE x # e \/ k \notin CancellableSteps(e)
      BY <1>3, <3>2, CancelRows DEF MovesOn
    <3> QED
      BY <3>1, <3>2
  <2>2. NewAwaited
    BY <1>3, WithPendingDiscardedType DEF RowsTypeOK, CancelExecution
  <2> QED
    BY <2>1, <2>2
<1>4. ASSUME NEW e \in Executions, NEW k \in Steps, ClaimQueuedExecutionStep(e, k)
      PROVE  Moved /\ NewAwaited
  BY <1>4 DEF RowsTypeOK, ClaimQueuedExecutionStep, MovesOn, Absent
<1>5. ASSUME NEW e \in Executions, NEW k \in Steps, CompleteAndQueueNext(e, k)
      PROVE  Moved /\ NewAwaited
  <2>1. <<e, k + 1, 1>> \in DispatchIds
    BY <1>5, CompleteAndQueueNextRows DEF DispatchIds
  <2>2. \A n \in Nat : <<e, k + 1, n>> \notin DOMAIN outbox
    BY <1>5 DEF StoreInvariant, IntentsFollowAttempts, BegunOrAwaited, CompleteAndQueueNext
  <2>3. stepRuns[e][k].status = "running"
    BY <1>5 DEF CompleteAndQueueNext, CanSettle
  <2>4. Moved
    <3> SUFFICES ASSUME NEW x \in Executions, NEW j \in Steps,
                        NEW n \in Nat, <<x, j, n>> \in DOMAIN outbox
                 PROVE  MovesOn(stepRuns[x][j], stepRuns'[x][j])
      OBVIOUS
    <3>1. CASE x = e /\ j = k
      BY <1>5, <2>3, <3>1, CompleteAndQueueNextRows DEF MovesOn, Absent
    <3>2. CASE x # e \/ j # k
      <4>1. stepRuns'[x][j] = stepRuns[x][j]
        BY <1>5, <2>2, <3>2, CompleteAndQueueNextRows
      <4> QED
        BY <4>1 DEF MovesOn
    <3> QED
      BY <3>1, <3>2
  <2>5. NewAwaited
    <3>1. DOMAIN outbox' = DOMAIN outbox \cup {<<e, k + 1, 1>>}
      BY <1>5, <2>1, WithIntentType DEF RowsTypeOK, CompleteAndQueueNext
    <3>2. stepRuns'[e][k + 1] = QueuedStepRun
      BY <1>5, CompleteAndQueueNextRows
    <3> QED
      BY <3>1, <3>2 DEF QueuedStepRun
  <2> QED
    BY <2>4, <2>5
<1>6. ASSUME NEW e \in Executions, NEW k \in Steps, CompleteExecution(e, k)
      PROVE  Moved /\ NewAwaited
  BY <1>6 DEF RowsTypeOK, CompleteExecution, CanSettle, MovesOn, InStatus, Absent
<1>7. ASSUME NEW e \in Executions, NEW k \in Steps, Requeue(e, k)
      PROVE  Moved /\ NewAwaited
  <2>1. NextDispatchId(e, k) \in DispatchIds
    BY NextDispatchIdType
  <2>2. Moved
    BY <1>7 DEF RowsTypeOK, Requeue, CanSettle, MovesOn, InStatus, Absent
  <2>3. /\ stepRuns'[e][k].status = "queued"
        /\ stepRuns'[e][k].attemptCount = stepRuns[e][k].attemptCount
    BY <1>7 DEF RowsTypeOK, Requeue, InStatus
  <2>4. DOMAIN outbox' = DOMAIN outbox \cup {NextDispatchId(e, k)}
    BY <1>7, <2>1, WithIntentType DEF RowsTypeOK, Requeue
  <2>5. NewAwaited
    BY <2>3, <2>4 DEF NextDispatchId
  <2> QED
    BY <2>2, <2>5
<1>8. ASSUME NEW e \in Executions, NEW k \in Steps,
             CanSettle(e, k), FailStepAndExecution(e, k)
      PROVE  Moved /\ NewAwaited
  BY <1>8 DEF RowsTypeOK, FailStepAndExecution, CanSettle, MovesOn, InStatus, Absent
<1>9. CASE OutboxStep
  <2>1. stepRuns' = stepRuns
    BY <1>9, OutboxStepRows
  <2>2. \A i \in DOMAIN outbox' \ DOMAIN outbox : ReconciledRow(i)
    BY <1>9, OutboxStepRows DEF UntouchedRow, DispatcherRow
  <2>3. NewAwaited
    BY <2>1, <2>2 DEF ReconciledRow, NextDispatchId
  <2> QED
    BY <2>1, <2>3 DEF MovesOn
<1>10. CASE UNCHANGED tables
  BY <1>10 DEF tables, MovesOn
<1> QED
  BY <1>2, <1>3, <1>4, <1>5, <1>6, <1>7, <1>8, <1>9, <1>10, StoreStepCases

(* Only a cancellation discards, and it leaves nothing pending.            *)
LEMMA NextEnd ==
  ASSUME RowsTypeOK, RowsTypeOK', StoreInvariant, StoreStep
  PROVE  IntentsEndWithCancellation'
<1> DEFINE Ended(i) == /\ status'[i[1]] = "cancelled" => outbox'[i].state # "pending"
                       /\ outbox'[i].state = "discarded" => status'[i[1]] = "cancelled"
                       /\ outbox'[i].lockedBy # NoOne => outbox'[i].state = "pending"
<1>1. SUFFICES \A i \in DOMAIN outbox' : Ended(i)
  BY DEF IntentsEndWithCancellation
<1>2. \A i \in DOMAIN outbox :
        /\ status[i[1]] = "cancelled" => outbox[i].state # "pending"
        /\ outbox[i].state = "discarded" => status[i[1]] = "cancelled"
        /\ outbox[i].lockedBy # NoOne => outbox[i].state = "pending"
  BY DEF StoreInvariant, IntentsEndWithCancellation
<1>3. \A i \in DOMAIN outbox : i[1] \in Executions
  BY DispatchIdParts
<1>4. ASSUME NEW e \in Executions, status[e] # "cancelled", status'[e] # "cancelled",
             \A x \in Executions \ {e} : status'[x] = status[x],
             NEW id \in DispatchIds, id[1] = e, NEW due \in BOOLEAN,
             outbox' = WithIntent(id, due)
      PROVE  \A i \in DOMAIN outbox' : Ended(i)
  <2>1. /\ DOMAIN outbox' = DOMAIN outbox \cup {id}
        /\ \A i \in DOMAIN outbox : outbox'[i] = outbox[i]
        /\ id \notin DOMAIN outbox =>
             outbox'[id].state = "pending" /\ outbox'[id].lockedBy = NoOne
    BY <1>4, WithIntentType DEF RowsTypeOK
  <2> QED
    BY <1>2, <1>3, <1>4, <2>1
<1>5. ASSUME NEW e \in Executions, status[e] # "cancelled", status'[e] # "cancelled",
             \A x \in Executions \ {e} : status'[x] = status[x],
             outbox' = outbox
      PROVE  \A i \in DOMAIN outbox' : Ended(i)
  BY <1>2, <1>3, <1>5
<1>6. ASSUME NEW e \in Executions, TriggerExecution(e)
      PROVE  \A i \in DOMAIN outbox' : Ended(i)
  <2>1. <<e, 1, 1>> \in DispatchIds
    BY StepCountAssumption DEF Steps, DispatchIds
  <2>2. /\ status[e] # "cancelled"
        /\ status'[e] # "cancelled"
        /\ \A x \in Executions \ {e} : status'[x] = status[x]
        /\ outbox' = WithIntent(<<e, 1, 1>>, TRUE)
    BY <1>6 DEF RowsTypeOK, TriggerExecution, Absent
  <2> QED
    BY <1>4, <2>1, <2>2
<1>7. ASSUME NEW e \in Executions, CancelExecution(e)
      PROVE  \A i \in DOMAIN outbox' : Ended(i)
  <2>1. /\ status'[e] = "cancelled"
        /\ \A x \in Executions \ {e} : status'[x] = status[x]
        /\ outbox' = WithPendingDiscarded(e)
    BY <1>7 DEF RowsTypeOK, CancelExecution
  <2> QED
    BY <1>2, <1>3, <2>1, WithPendingDiscardedType DEF RowsTypeOK
<1>8. ASSUME NEW e \in Executions, NEW k \in Steps, ClaimQueuedExecutionStep(e, k)
      PROVE  \A i \in DOMAIN outbox' : Ended(i)
  BY <1>5, <1>8 DEF RowsTypeOK, ClaimQueuedExecutionStep
<1>9. ASSUME NEW e \in Executions, NEW k \in Steps, CompleteAndQueueNext(e, k)
      PROVE  \A i \in DOMAIN outbox' : Ended(i)
  <2>1. <<e, k + 1, 1>> \in DispatchIds
    BY <1>9, CompleteAndQueueNextRows DEF DispatchIds
  <2>2. /\ status[e] # "cancelled"
        /\ status' = status
        /\ outbox' = WithIntent(<<e, k + 1, 1>>, TRUE)
    BY <1>9 DEF CompleteAndQueueNext, CanSettle
  <2> QED
    BY <1>4, <2>1, <2>2
<1>10. ASSUME NEW e \in Executions, NEW k \in Steps, CompleteExecution(e, k)
       PROVE  \A i \in DOMAIN outbox' : Ended(i)
  BY <1>5, <1>10 DEF RowsTypeOK, CompleteExecution, CanSettle
<1>11. ASSUME NEW e \in Executions, NEW k \in Steps, Requeue(e, k)
       PROVE  \A i \in DOMAIN outbox' : Ended(i)
  <2>1. NextDispatchId(e, k) \in DispatchIds /\ NextDispatchId(e, k)[1] = e
    BY NextDispatchIdType DEF NextDispatchId
  <2>2. /\ status[e] # "cancelled"
        /\ status' = status
        /\ outbox' = WithIntent(NextDispatchId(e, k), FALSE)
    BY <1>11 DEF Requeue, CanSettle
  <2> QED
    BY <1>4, <2>1, <2>2
<1>12. ASSUME NEW e \in Executions, NEW k \in Steps,
              CanSettle(e, k), FailStepAndExecution(e, k)
       PROVE  \A i \in DOMAIN outbox' : Ended(i)
  BY <1>5, <1>12 DEF RowsTypeOK, FailStepAndExecution, CanSettle
<1>13. CASE OutboxStep
  <2>1. status' = status
    BY <1>13, OutboxStepRows
  <2> SUFFICES ASSUME NEW i \in DOMAIN outbox' PROVE Ended(i)
    OBVIOUS
  <2>2. CASE UntouchedRow(i)
    BY <1>2, <2>1, <2>2 DEF UntouchedRow
  <2>3. CASE DispatcherRow(i)
    BY <1>2, <2>1, <2>3 DEF DispatcherRow
  <2>4. CASE ReconciledRow(i)
    BY <2>1, <2>4 DEF ReconciledRow, NextDispatchId
  <2> QED
    BY <1>13, <2>2, <2>3, <2>4, OutboxStepRows
<1>14. CASE UNCHANGED tables
  BY <1>2, <1>14 DEF tables
<1> QED
  BY <1>6, <1>7, <1>8, <1>9, <1>10, <1>11, <1>12, <1>13, <1>14, StoreStepCases

-------------------------------------------------------------------------------
(* The inductive invariant                                                 *)

LEMMA InitStoreInvariant == Init => StoreInvariant
<1> SUFFICES ASSUME Init PROVE StoreInvariant
  OBVIOUS
<1>1. DOMAIN outbox = {}
  BY DEF Init
<1>2. 1 \in Steps
  BY StepCountAssumption DEF Steps
<1>3. ExecutionAndStepsAgree
  BY <1>2 DEF Init, ExecutionAndStepsAgree, StepsInDefinitionOrder, StatusAgreesWithSteps,
              Absent, NoStepRun, QueuedStepRun, Steps
<1>4. QueuedStepHasIntent
  BY DEF Init, QueuedStepHasIntent, QueuedBeforeOutbox, NoStepRun, QueuedStepRun, Absent
<1> QED
  BY <1>1, <1>3, <1>4
     DEF StoreInvariant, IntentsFollowAttempts, IntentsEndWithCancellation

LEMMA NextAgreement ==
  ASSUME RowsTypeOK, StoreInvariant, StoreStep
  PROVE  ExecutionAndStepsAgree'
<1> USE DEF StoreInvariant
<1>1. ASSUME NEW e \in Executions, TriggerExecution(e) PROVE ExecutionAndStepsAgree'
  BY <1>1, TriggerAgreement
<1>2. ASSUME NEW e \in Executions, CancelExecution(e) PROVE ExecutionAndStepsAgree'
  BY <1>2, CancelAgreement
<1>3. ASSUME NEW e \in Executions, NEW k \in Steps, ClaimQueuedExecutionStep(e, k)
      PROVE  ExecutionAndStepsAgree'
  BY <1>3, ClaimAgreement
<1>4. ASSUME NEW e \in Executions, NEW k \in Steps, CompleteClaimedExecutionStep(e, k)
      PROVE  ExecutionAndStepsAgree'
  BY <1>4, CompleteAgreement
<1>5. ASSUME NEW e \in Executions, NEW k \in Steps, Requeue(e, k)
      PROVE  ExecutionAndStepsAgree'
  BY <1>5, RequeueAgreement
<1>6. ASSUME NEW e \in Executions, NEW k \in Steps, CanSettle(e, k), FailStepAndExecution(e, k)
      PROVE  ExecutionAndStepsAgree'
  BY <1>6, FailStepAndExecutionAgreement
<1>7. CASE OutboxStep
  BY <1>7, OutboxStepRows, AgreementOfUnchanged DEF ExecutionAndStepsAgree
<1>8. CASE UNCHANGED tables
  BY <1>8, AgreementOfUnchanged DEF tables, ExecutionAndStepsAgree
<1> QED
  BY <1>1, <1>2, <1>3, <1>4, <1>5, <1>6, <1>7, <1>8, StoreStepCases
     DEF CompleteClaimedExecutionStep

LEMMA NextIntents ==
  ASSUME RowsTypeOK, StoreInvariant, StoreStep
  PROVE  QueuedStepHasIntent'
<1>1. ASSUME NEW e \in Executions, TriggerExecution(e) PROVE QueuedStepHasIntent'
  BY <1>1, TriggerIntents
<1>2. ASSUME NEW e \in Executions, CancelExecution(e) PROVE QueuedStepHasIntent'
  BY <1>2, CancelIntents
<1>3. ASSUME NEW e \in Executions, NEW k \in Steps, ClaimQueuedExecutionStep(e, k)
      PROVE  QueuedStepHasIntent'
  BY <1>3, ClaimIntents
<1>4. ASSUME NEW e \in Executions, NEW k \in Steps, CompleteClaimedExecutionStep(e, k)
      PROVE  QueuedStepHasIntent'
  BY <1>4, CompleteIntents
<1>5. ASSUME NEW e \in Executions, NEW k \in Steps, Requeue(e, k)
      PROVE  QueuedStepHasIntent'
  BY <1>5, RequeueIntents
<1>6. ASSUME NEW e \in Executions, NEW k \in Steps, FailStepAndExecution(e, k)
      PROVE  QueuedStepHasIntent'
  BY <1>6, FailIntents
<1>7. CASE OutboxStep
  BY <1>7, OutboxStepIntents
<1>8. CASE UNCHANGED tables
  BY <1>8 DEF tables, StoreInvariant, QueuedStepHasIntent, HasIntent, QueuedBeforeOutbox,
              NextDispatchId
<1> QED
  BY <1>1, <1>2, <1>3, <1>4, <1>5, <1>6, <1>7, <1>8, StoreStepCases
     DEF CompleteClaimedExecutionStep

LEMMA StoreStepTables ==
  ASSUME RowsTypeOK, StoreInvariant, StoreStep
  PROVE  RowsTypeOK' /\ StoreInvariant'
<1>1. RowsTypeOK'
  BY StoreStepType
<1> QED
  BY <1>1, NextAgreement, NextIntents, NextFollow, NextEnd DEF StoreInvariant

LEMMA NextStoreInvariant ==
  TypeOK /\ StoreInvariant /\ [Next]_vars => (TypeOK /\ StoreInvariant)'
BY NextType, NextIsStoreStep, StoreStepTables DEF TypeOK

(* Tables and intents always agree, whatever stale rows the recoveries act *)
(* on: the conjunction of these invariants is itself inductive.            *)
THEOREM StoreSafe == Spec => []StoreInvariant
<1>1. Init => TypeOK /\ StoreInvariant
  BY InitType, InitStoreInvariant
<1>2. TypeOK /\ StoreInvariant /\ [Next]_vars => (TypeOK /\ StoreInvariant)'
  BY NextStoreInvariant
<1> QED
  BY <1>1, <1>2, PTL DEF Spec

(* The invariants one by one, as the model-checking runs name them.        *)

(* Execution and step rows agree in every reachable state.                 *)
THEOREM ExecutionsAgreeWithSteps == Spec => []ExecutionAndStepsAgree
BY StoreSafe, PTL DEF StoreInvariant

(* A queued step is never left without a dispatch intent.                  *)
THEOREM NoQueuedStepForgotten == Spec => []QueuedStepHasIntent
BY StoreSafe, PTL DEF StoreInvariant

(* The intent of an attempt is written when the attempt is queued, never   *)
(* earlier.                                                                *)
THEOREM NoIntentAhead == Spec => []IntentsFollowAttempts
BY StoreSafe, PTL DEF StoreInvariant

(* Cancellation, and only cancellation, discards intents.                  *)
THEOREM CancellationEndsIntents == Spec => []IntentsEndWithCancellation
BY StoreSafe, PTL DEF StoreInvariant

-------------------------------------------------------------------------------
(* What a step of the store may never do                                   *)

(* No transaction accepts a terminal execution, and none touches the rows  *)
(* of another execution than its own.                                      *)
LEMMA NextFrame ==
  ASSUME RowsTypeOK, StoreStep, NEW x \in Executions, status[x] \in ExecutionTerminalStatuses
  PROVE  status'[x] = status[x] /\ stepRuns'[x] = stepRuns[x] /\ events'[x] = events[x]
<1> USE DEF ExecutionTerminalStatuses
<1>1. \A e \in Executions \ {x} : \A log : Logged(e, log)[x] = events[x]
  BY DEF RowsTypeOK, Logged
<1>2. ASSUME NEW e \in Executions, TriggerExecution(e)
      PROVE  status'[x] = status[x] /\ stepRuns'[x] = stepRuns[x] /\ events'[x] = events[x]
  BY <1>1, <1>2 DEF RowsTypeOK, TriggerExecution, Absent
<1>3. ASSUME NEW e \in Executions, CancelExecution(e)
      PROVE  status'[x] = status[x] /\ stepRuns'[x] = stepRuns[x] /\ events'[x] = events[x]
  BY <1>1, <1>3 DEF RowsTypeOK, CancelExecution, CancellableExecutionStatuses
<1>4. ASSUME NEW e \in Executions, NEW k \in Steps, ClaimQueuedExecutionStep(e, k)
      PROVE  status'[x] = status[x] /\ stepRuns'[x] = stepRuns[x] /\ events'[x] = events[x]
  BY <1>1, <1>4 DEF RowsTypeOK, ClaimQueuedExecutionStep
<1>5. ASSUME NEW e \in Executions, NEW k \in Steps, CompleteClaimedExecutionStep(e, k)
      PROVE  status'[x] = status[x] /\ stepRuns'[x] = stepRuns[x] /\ events'[x] = events[x]
  <2>1. e # x
    BY <1>5 DEF CompleteClaimedExecutionStep, CompleteAndQueueNext, CompleteExecution, CanSettle
  <2>2. CASE CompleteAndQueueNext(e, k)
    BY <1>1, <2>1, <2>2 DEF RowsTypeOK, CompleteAndQueueNext
  <2>3. CASE CompleteExecution(e, k)
    BY <1>1, <2>1, <2>3 DEF RowsTypeOK, CompleteExecution
  <2> QED
    BY <1>5, <2>2, <2>3 DEF CompleteClaimedExecutionStep
<1>6. ASSUME NEW e \in Executions, NEW k \in Steps, Requeue(e, k)
      PROVE  status'[x] = status[x] /\ stepRuns'[x] = stepRuns[x] /\ events'[x] = events[x]
  BY <1>1, <1>6 DEF RowsTypeOK, Requeue, CanSettle
<1>7. ASSUME NEW e \in Executions, NEW k \in Steps, CanSettle(e, k), FailStepAndExecution(e, k)
      PROVE  status'[x] = status[x] /\ stepRuns'[x] = stepRuns[x] /\ events'[x] = events[x]
  BY <1>1, <1>7 DEF RowsTypeOK, FailStepAndExecution, CanSettle
<1>8. CASE OutboxStep
  BY <1>8, OutboxStepRows
<1>9. CASE UNCHANGED tables
  BY <1>9 DEF tables
<1> QED
  BY <1>2, <1>3, <1>4, <1>5, <1>6, <1>7, <1>8, <1>9, StoreStepCases
     DEF CompleteClaimedExecutionStep

(* Nothing changes a terminal execution, its steps or its timeline.        *)
THEOREM TerminalExecutionsAreFinal == Spec => TerminalIsFinal
<1>1. TypeOK /\ [Next]_vars =>
        [\A e \in Executions :
           status[e] \in ExecutionTerminalStatuses =>
             /\ status'[e] = status[e]
             /\ stepRuns'[e] = stepRuns[e]
             /\ events'[e] = events[e]]_vars
  BY NextIsStoreStep, NextFrame DEF TypeOK
<1> QED
  BY <1>1, StoreTypeCorrect, PTL DEF Spec, TerminalIsFinal

(* A step that becomes queued had no intent for the coming attempt, and    *)
(* has a pending one afterwards.                                           *)
LEMMA NextWritesIntent ==
  ASSUME RowsTypeOK, RowsTypeOK', StoreInvariant, StoreStep,
         NEW x \in Executions, NEW j \in Steps,
         stepRuns'[x][j].status = "queued", stepRuns[x][j].status # "queued"
  PROVE  /\ NextDispatchId(x, j)' \notin DOMAIN outbox
         /\ NextDispatchId(x, j)' \in DOMAIN outbox'
         /\ outbox'[NextDispatchId(x, j)'].state = "pending"
<1> DEFINE Goal == /\ NextDispatchId(x, j)' \notin DOMAIN outbox
                   /\ NextDispatchId(x, j)' \in DOMAIN outbox'
                   /\ outbox'[NextDispatchId(x, j)'].state = "pending"
<1>2. ASSUME NEW e \in Executions, TriggerExecution(e) PROVE Goal
  <2>1. 1 \in Steps /\ <<e, 1, 1>> \in DispatchIds
    BY StepCountAssumption DEF Steps, DispatchIds
  <2>2. x = e /\ j = 1 /\ stepRuns'[x][j] = QueuedStepRun
    BY <1>2, <2>1 DEF RowsTypeOK, TriggerExecution
  <2>3. <<e, 1, 1>> \notin DOMAIN outbox
    BY <1>2, <2>1, FreshIntent
       DEF StoreInvariant, ExecutionAndStepsAgree, StatusAgreesWithSteps,
           TriggerExecution, NoStepRun
  <2>4. NextDispatchId(x, j)' = <<e, 1, 1>>
    BY <2>2 DEF NextDispatchId, QueuedStepRun
  <2>5. outbox' = WithIntent(<<e, 1, 1>>, TRUE)
    BY <1>2 DEF TriggerExecution
  <2> QED
    BY <2>1, <2>3, <2>4, <2>5, WithIntentType DEF RowsTypeOK
<1>3. ASSUME NEW e \in Executions, CancelExecution(e) PROVE FALSE
  <2>1. x = e /\ j \in CancellableSteps(e)
    BY <1>3, CancelRows
  <2> QED
    BY <1>3, <2>1, CancelRows
<1>4. ASSUME NEW e \in Executions, NEW k \in Steps, ClaimQueuedExecutionStep(e, k) PROVE FALSE
  BY <1>4 DEF RowsTypeOK, ClaimQueuedExecutionStep
<1>5. ASSUME NEW e \in Executions, NEW k \in Steps, CompleteAndQueueNext(e, k) PROVE Goal
  <2>1. <<e, k + 1, 1>> \in DispatchIds
    BY <1>5, CompleteAndQueueNextRows DEF DispatchIds
  <2>2. x = e /\ j = k + 1 /\ stepRuns'[x][j] = QueuedStepRun
    BY <1>5, CompleteAndQueueNextRows
  <2>3. <<e, k + 1, 1>> \notin DOMAIN outbox
    BY <1>5, <2>2, FreshIntent DEF StoreInvariant, CompleteAndQueueNext
  <2>4. NextDispatchId(x, j)' = <<e, k + 1, 1>>
    BY <2>2 DEF NextDispatchId, QueuedStepRun
  <2>5. outbox' = WithIntent(<<e, k + 1, 1>>, TRUE)
    BY <1>5 DEF CompleteAndQueueNext
  <2> QED
    BY <2>1, <2>3, <2>4, <2>5, WithIntentType DEF RowsTypeOK
<1>6. ASSUME NEW e \in Executions, NEW k \in Steps, CompleteExecution(e, k) PROVE FALSE
  BY <1>6 DEF RowsTypeOK, CompleteExecution, InStatus
<1>7. ASSUME NEW e \in Executions, NEW k \in Steps, Requeue(e, k)
      PROVE  Goal
  <2>1. x = e /\ j = k
    BY <1>7 DEF RowsTypeOK, Requeue
  <2>2. stepRuns'[x][j].attemptCount = stepRuns[x][j].attemptCount
    BY <1>7, <2>1 DEF RowsTypeOK, Requeue, InStatus
  <2>3. NextDispatchId(x, j)' = NextDispatchId(e, k)
    BY <2>1, <2>2 DEF NextDispatchId
  <2>4. NextDispatchId(e, k) \in DispatchIds /\ NextDispatchId(e, k) \notin DOMAIN outbox
    BY <1>7, NextDispatchIdType, FreshIntent DEF StoreInvariant, Requeue, CanSettle
  <2>5. outbox' = WithIntent(NextDispatchId(e, k), FALSE)
    BY <1>7 DEF Requeue
  <2> QED
    BY <2>3, <2>4, <2>5, WithIntentType DEF RowsTypeOK
<1>8. ASSUME NEW e \in Executions, NEW k \in Steps, FailStepAndExecution(e, k) PROVE FALSE
  BY <1>8 DEF RowsTypeOK, FailStepAndExecution, InStatus
<1>9. CASE OutboxStep
  BY <1>9, OutboxStepRows
<1>10. CASE UNCHANGED tables
  BY <1>10 DEF tables
<1> QED
  BY <1>2, <1>3, <1>4, <1>5, <1>6, <1>7, <1>8, <1>9, <1>10, StoreStepCases

(* The transaction that makes a step runnable also writes its intent.      *)
THEOREM RunnableStepsAreDispatched == Spec => RunnableTransitionWritesIntent
<1>1. TypeOK /\ TypeOK' /\ StoreInvariant /\ [Next]_vars =>
        [\A e \in Executions, k \in Steps :
           stepRuns'[e][k].status = "queued" /\ stepRuns[e][k].status # "queued" =>
             LET i == <<e, k, stepRuns'[e][k].attemptCount + 1>> IN
               /\ i \notin DOMAIN outbox
               /\ i \in DOMAIN outbox'
               /\ outbox'[i].state = "pending"]_vars
  BY NextIsStoreStep, NextWritesIntent DEF TypeOK, NextDispatchId
<1> QED
  BY <1>1, StoreTypeCorrect, StoreSafe, PTL DEF Spec, RunnableTransitionWritesIntent

-------------------------------------------------------------------------------
(* The timeline                                                            *)

(* Induction over the naturals by a least counterexample: the theorem of   *)
(* the library about well-founded relations speaks of sets, which the      *)
(* provers can instantiate.                                                *)
Below == {pair \in Nat \X Nat : pair[1] < pair[2]}
LEMMA LeastNatural ==
  ASSUME NEW T, T \subseteq Nat, T # {}
  PROVE \E x \in T : \A y \in T : x <= y
<1>1. Below = OpToRel(<, Nat)
  BY DEF OpToRel, Below
<1>2. IsWellFoundedOn(Below, Nat)
  BY <1>1, NatLessThanWellFounded, Zenon
<1>3. PICK x \in T : \A y \in T : <<y, x>> \notin Below
  BY <1>2, WFMin
<1>4. \A y \in T : ~(y < x)
  BY <1>3 DEF Below
<1>. QED BY <1>3, <1>4

(* view lists the views after 0 to m events of the log.                    *)
IsReading(view, log, m) ==
  view = [n \in 0..m |-> IF n = 0 THEN NoView ELSE ReadEvent(view[n - 1], log[n])]

(* The first view, and each from the one before it.                        *)
LEMMA ReadingStep ==
  ASSUME NEW view, NEW log, NEW m \in Nat, IsReading(view, log, m)
  PROVE  /\ view[0] = NoView
         /\ \A n \in 1..m : view[n] = ReadEvent(view[n - 1], log[n])
<1> DEFINE V == [n \in 0..m |-> IF n = 0 THEN NoView ELSE ReadEvent(view[n - 1], log[n])]
<1>1. V[0] = NoView /\ \A n \in 1..m : V[n] = ReadEvent(view[n - 1], log[n])
  OBVIOUS
<1>2. view = V
  BY DEF IsReading
<1> HIDE DEF V
<1>. QED BY <1>1, <1>2

(* The recursion that reads a log is well defined.                         *)
LEMMA ReadingExists ==
  ASSUME NEW log, NEW m \in Nat
  PROVE  \E view : IsReading(view, log, m)
<1> DEFINE T == {n \in Nat : ~ \E view : IsReading(view, log, n)}
<1>1. SUFFICES ASSUME T # {} PROVE FALSE
  OBVIOUS
<1>2. PICK x \in T : \A y \in T : x <= y
  BY <1>1, LeastNatural
<1>3. CASE x = 0
  <2> DEFINE v == [n \in 0..0 |-> NoView]
  <2>1. v = [n \in 0..0 |-> IF n = 0 THEN NoView ELSE ReadEvent(v[n - 1], log[n])]
    OBVIOUS
  <2>. QED BY <1>2, <1>3, <2>1 DEF IsReading
<1>4. CASE x # 0
  <2>1. x - 1 \in Nat /\ x - 1 \notin T
    BY <1>2, <1>4
  <2>2. PICK v : IsReading(v, log, x - 1)
    BY <2>1
  <2> DEFINE w == [n \in 0..x |-> IF n = x THEN ReadEvent(v[x - 1], log[x]) ELSE v[n]]
  <2>3. ASSUME NEW n \in 0..x
        PROVE  w[n] = IF n = 0 THEN NoView ELSE ReadEvent(w[n - 1], log[n])
    <3>1. w[n] = (IF n = x THEN ReadEvent(v[x - 1], log[x]) ELSE v[n])
          /\ (n # 0 => w[n - 1] = v[n - 1])
      BY <1>4
    <3>2. v[0] = NoView /\ \A i \in 1..(x - 1) : v[i] = ReadEvent(v[i - 1], log[i])
      BY <2>1, <2>2, ReadingStep
    <3> HIDE DEF w
    <3>. QED BY <1>4, <3>1, <3>2
  <2>4. w = [n \in 0..x |-> IF n = 0 THEN NoView ELSE ReadEvent(w[n - 1], log[n])]
    <3>1. w = [n \in 0..x |-> w[n]]
      OBVIOUS
    <3> HIDE DEF w
    <3>. QED BY <2>3, <3>1
  <2>5. IsReading(w, log, x)
    BY <2>4 DEF IsReading
  <2>. QED BY <1>2, <2>5
<1>. QED BY <1>3, <1>4

(* ViewAfter is the last view.                                             *)
LEMMA ViewAfterIsReading ==
  ASSUME NEW log, Len(log) \in Nat
  PROVE  \E view : IsReading(view, log, Len(log)) /\ ViewAfter(log) = view[Len(log)]
<1> DEFINE view == CHOOSE v : IsReading(v, log, Len(log))
<1>1. IsReading(view, log, Len(log))
  BY ReadingExists
<1>2. ViewAfter(log) = view[Len(log)]
  BY DEF ViewAfter, IsReading
<1>. QED BY <1>1, <1>2

(* What a longer log tells first is what its prefix tells.                 *)
LEMMA ReadingsAgree ==
  ASSUME NEW v, NEW w, NEW log, NEW longer, NEW m \in Nat, NEW l \in Nat, m <= l,
         IsReading(v, log, m), IsReading(w, longer, l),
         \A n \in 1..m : log[n] = longer[n]
  PROVE  \A n \in 0..m : v[n] = w[n]
<1> DEFINE T == {n \in 0..m : v[n] # w[n]}
<1>1. SUFFICES ASSUME T # {} PROVE FALSE
  OBVIOUS
<1>2. PICK x \in T : \A y \in T : x <= y
  <2>1. T \subseteq Nat
    OBVIOUS
  <2> HIDE DEF T
  <2>. QED BY <1>1, <2>1, LeastNatural
<1>3. x # 0
  BY ReadingStep
<1>4. v[x - 1] = w[x - 1]
  BY <1>2, <1>3
<1>5. v[x] = ReadEvent(v[x - 1], log[x]) /\ w[x] = ReadEvent(w[x - 1], longer[x])
  BY <1>3, ReadingStep
<1>. QED BY <1>3, <1>4, <1>5

(* Before its first event an execution does not exist.                     *)
LEMMA ViewOfEmptyLog == ViewAfter(<<>>) = NoView
BY ViewAfterIsReading, ReadingStep

(* An event is read on top of what the log has told before.                *)
LEMMA ViewOfAppend ==
  ASSUME NEW S, NEW log \in Seq(S), NEW event \in S
  PROVE  ViewAfter(Append(log, event)) = ReadEvent(ViewAfter(log), event)
<1> DEFINE longer == Append(log, event)
<1>1. /\ Len(log) \in Nat /\ Len(longer) = Len(log) + 1
      /\ longer[Len(longer)] = event
      /\ \A n \in 1..Len(log) : longer[n] = log[n]
  OBVIOUS
<1> HIDE DEF longer
<1>2. PICK v : IsReading(v, log, Len(log)) /\ ViewAfter(log) = v[Len(log)]
  BY <1>1, ViewAfterIsReading
<1>3. PICK w : IsReading(w, longer, Len(longer)) /\ ViewAfter(longer) = w[Len(longer)]
  BY <1>1, ViewAfterIsReading
<1>4. v[Len(log)] = w[Len(log)]
  BY <1>1, <1>2, <1>3, ReadingsAgree
<1>5. w[Len(longer)] = ReadEvent(w[Len(log)], event)
  BY <1>1, <1>3, ReadingStep
<1>. QED BY <1>2, <1>3, <1>4, <1>5 DEF longer

(* The rows of an execution, as a view.                                    *)
Row(e) == [status |-> status[e], steps |-> stepRuns[e]]

(* The log tells of the view, by steps that the state machine allows.      *)
Told(log, view) ==
  /\ log \in Seq(Event)
  /\ ViewAfter(log) = view
  /\ \A n \in DOMAIN log :
       LET before == ViewAfter(SubSeq(log, 1, n - 1)) IN
         LegalEvent(before, ReadEvent(before, log[n]), n = 1)

(* A legal event extends what is told.                                     *)
LEMMA ToldAppend ==
  ASSUME NEW log, NEW view, Told(log, view), NEW event \in Event,
         NEW after, after = ReadEvent(view, event), LegalEvent(view, after, log = <<>>)
  PROVE  Told(Append(log, event), after)
<1> DEFINE longer == Append(log, event)
<1>1. log \in Seq(Event) /\ longer \in Seq(Event) /\ Len(longer) = Len(log) + 1
      /\ longer[Len(log) + 1] = event /\ Len(log) \in Nat
      /\ DOMAIN log = 1..Len(log) /\ DOMAIN longer = 1..(Len(log) + 1)
      /\ \A n \in 1..Len(log) : longer[n] = log[n]
  BY DEF Told
<1>2. ViewAfter(longer) = after
  BY <1>1, ViewOfAppend DEF Told
<1>3. \A n \in 1..(Len(log) + 1) : SubSeq(longer, 1, n - 1) = SubSeq(log, 1, n - 1)
  <2> TAKE n \in 1..(Len(log) + 1)
  <2>1. /\ SubSeq(longer, 1, n - 1) \in Seq(Event) /\ Len(SubSeq(longer, 1, n - 1)) = n - 1
        /\ \A i \in 1..(n - 1) : SubSeq(longer, 1, n - 1)[i] = longer[i]
    <3> HIDE DEF longer
    <3>1. \A i \in 1..(n - 1) : longer[i] \in Event
      BY <1>1
    <3>. QED BY <3>1, SubSeqProperties
  <2>2. /\ SubSeq(log, 1, n - 1) \in Seq(Event) /\ Len(SubSeq(log, 1, n - 1)) = n - 1
        /\ \A i \in 1..(n - 1) : SubSeq(log, 1, n - 1)[i] = log[i]
    <3>1. \A i \in 1..(n - 1) : log[i] \in Event
      BY <1>1
    <3>. QED BY <1>1, <3>1, SubSeqProperties
  <2> HIDE DEF longer
  <2>3. \A i \in 1..(n - 1) : longer[i] = log[i]
    BY <1>1
  <2>. QED BY <2>1, <2>2, <2>3, SeqEqual
<1>4. SubSeq(log, 1, Len(log)) = log
  BY <1>1, SubSeqFull
<1>5. log = <<>> <=> Len(log) + 1 = 1
  BY <1>1
<1> HIDE DEF longer
<1>6. ASSUME NEW n \in DOMAIN longer
      PROVE  LET before == ViewAfter(SubSeq(longer, 1, n - 1)) IN
               LegalEvent(before, ReadEvent(before, longer[n]), n = 1)
  <2>1. CASE n \in 1..Len(log)
    <3>1. SubSeq(longer, 1, n - 1) = SubSeq(log, 1, n - 1) /\ longer[n] = log[n] /\ n \in DOMAIN log
      BY <1>1, <1>3, <2>1
    <3>. QED BY <3>1 DEF Told
  <2>2. CASE n = Len(log) + 1
    <3>1. SubSeq(longer, 1, n - 1) = log /\ longer[n] = event
      BY <1>1, <1>3, <1>4, <2>2
    <3>2. ViewAfter(SubSeq(longer, 1, n - 1)) = view
      BY <3>1 DEF Told
    <3>3. (n = 1) = (log = <<>>)
      BY <1>5, <2>2, Zenon
    <3>. QED BY <3>1, <3>2, <3>3
  <2>. QED BY <1>1, <2>1, <2>2
<1>. QED BY <1>1, <1>2, <1>6 DEF Told, longer

(* The event of a step that makes a legal transition.                      *)
LEMMA TellStep ==
  ASSUME NEW log, NEW s, NEW rows, rows \in [Steps -> StepRun],
         Told(log, [status |-> s, steps |-> rows]),
         NEW k \in Steps, NEW type \in EventTypes, NEW attempt \in Nat, NEW new \in StepRun,
         new.status = StepStatusAfter(type),
         new.attemptCount = IF type = "step.started" THEN attempt ELSE rows[k].attemptCount,
         LegalStep(rows[k], new)
  PROVE  Told(Append(log, StepEvent(type, k, attempt)),
              [status |-> s, steps |-> [rows EXCEPT ![k] = new]])
<1> DEFINE before == [status |-> s, steps |-> rows]
           event == StepEvent(type, k, attempt)
           after == [status |-> s, steps |-> [rows EXCEPT ![k] = new]]
<1>1. event \in Event /\ event.step = k /\ event.step # 0 /\ event.type = type /\ event.attempt = attempt
  BY EventType DEF StepEvent, Steps
<1>2. new = [status |-> new.status, attemptCount |-> new.attemptCount]
  BY DEF StepRun
<1>3. before.status = s /\ before.steps = rows /\ after.status = s
      /\ after.steps = [rows EXCEPT ![k] = new]
  OBVIOUS
<1>4. after = ReadEvent(before, event)
  <2> HIDE DEF event
  <2>. QED BY <1>1, <1>2 DEF ReadEvent
<1>5. \A j \in Steps : LegalStep(rows[j], [rows EXCEPT ![k] = new][j])
  BY DEF LegalStep
<1>6. LegalEvent(before, after, log = <<>>)
  BY <1>3, <1>5, Zenon DEF LegalEvent
<1> HIDE DEF before, after, event
<1>7. Told(log, before)
  BY DEF before
<1>8. Told(Append(log, event), after)
  BY <1>1, <1>4, <1>6, <1>7, ToldAppend
<1>. QED BY <1>8 DEF event, after

(* The event of an execution that makes a legal transition.                *)
LEMMA TellExecution ==
  ASSUME NEW log, NEW s, NEW rows, NEW type \in EventTypes, NEW new,
         Told(log, [status |-> s, steps |-> rows]),
         type # "execution.queued", new = ExecutionStatusAfter(type),
         CanTransitionExecution(s, new)
  PROVE  Told(Append(log, ExecutionEvent(type)), [status |-> new, steps |-> rows])
<1> DEFINE before == [status |-> s, steps |-> rows]
           event == ExecutionEvent(type)
           after == [status |-> new, steps |-> rows]
<1>1. event \in Event /\ event.step = 0 /\ event.type = type
  BY EventType DEF ExecutionEvent
<1>2. before.status = s /\ before.steps = rows /\ after.status = new /\ after.steps = rows
  OBVIOUS
<1>3. after = ReadEvent(before, event)
  <2> HIDE DEF event
  <2>. QED BY <1>1 DEF ReadEvent
<1>4. \A j \in Steps : LegalStep(rows[j], rows[j])
  BY DEF LegalStep
<1>5. LegalEvent(before, after, log = <<>>)
  BY <1>2, <1>4, Zenon DEF LegalEvent
<1> HIDE DEF before, after, event
<1>6. Told(log, before)
  BY DEF before
<1>7. Told(Append(log, event), after)
  BY <1>1, <1>3, <1>5, <1>6, ToldAppend
<1>. QED BY <1>7 DEF event, after

(* The event of a new execution, which queues its first step as well.      *)
LEMMA TellQueued ==
  Told(Append(<<>>, ExecutionEvent("execution.queued")),
       [status |-> "queued", steps |-> [NoView.steps EXCEPT ![1] = QueuedStepRun]])
<1> DEFINE event == ExecutionEvent("execution.queued")
           after == [status |-> "queued", steps |-> [NoView.steps EXCEPT ![1] = QueuedStepRun]]
<1>1. event \in Event /\ event.step = 0 /\ event.type = "execution.queued"
  BY EventType DEF ExecutionEvent, EventTypes
<1>2. 1 \in Steps /\ NoView.steps = [k \in Steps |-> NoStepRun]
  BY StepCountAssumption DEF NoView, Steps
<1>3. [NoView.steps EXCEPT ![1] = InStatus(@, "queued")] = [NoView.steps EXCEPT ![1] = QueuedStepRun]
  <2>1. NoView.steps[1] = NoStepRun
    BY <1>2
  <2>2. InStatus(NoStepRun, "queued") = QueuedStepRun
    BY DEF InStatus, NoStepRun, QueuedStepRun
  <2>. QED BY <2>1, <2>2
<1>4. after = ReadEvent(NoView, event)
  <2>1. ReadEvent(NoView, event) =
          [status |-> ExecutionStatusAfter("execution.queued"),
           steps  |-> [NoView.steps EXCEPT ![1] = InStatus(@, "queued")]]
    <3> HIDE DEF event
    <3>. QED BY <1>1 DEF ReadEvent
  <2>2. ExecutionStatusAfter("execution.queued") = "queued"
    BY DEF ExecutionStatusAfter
  <2>. QED BY <1>3, <2>1, <2>2
<1>5. \A j \in Steps : LegalStep(NoView.steps[j], after.steps[j])
  BY <1>2 DEF LegalStep, NoStepRun, QueuedStepRun
<1>6. LegalEvent(NoView, after, TRUE)
  BY <1>5 DEF LegalEvent
<1>7. Told(<<>>, NoView)
  BY ViewOfEmptyLog DEF Told
<1> HIDE DEF after, event
<1>8. Told(Append(<<>>, event), after)
  BY <1>1, <1>4, <1>6, <1>7, ToldAppend
<1>. QED BY <1>8 DEF event, after

(* The log of each execution tells of its rows; one that does not exist    *)
(* has told nothing, and a step that does not exist has no attempts.       *)
TimelineInv ==
  \A e \in Executions :
    /\ Told(events[e], Row(e))
    /\ status[e] = Absent => events[e] = <<>>
    /\ \A k \in Steps : stepRuns[e][k].status = Absent => stepRuns[e][k] = NoStepRun

(* The types of the rows and the log of one execution.                     *)
LEMMA RowShape == ASSUME RowsTypeOK, NEW e \in Executions
  PROVE /\ status[e] \in ExecutionStatus \cup {Absent}
        /\ stepRuns[e] \in [Steps -> StepRun]
        /\ events[e] \in Seq(Event)
BY DEF RowsTypeOK

(* A transaction that logs one event.                                      *)
LEMMA LoggedOne ==
  ASSUME RowsTypeOK, NEW e \in Executions, NEW a \in Event, events' = Logged(e, <<a>>)
  PROVE  /\ events'[e] = Append(events[e], a)
         /\ \A x \in Executions \ {e} : events'[x] = events[x]
<1>1. events'[e] = events[e] \o <<a>>
  BY DEF RowsTypeOK, Logged
<1>2. events[e] \o <<a>> = Append(events[e], a)
  BY RowShape
<1>. QED BY <1>1, <1>2 DEF RowsTypeOK, Logged

(* A transaction that logs two events.                                     *)
LEMMA LoggedTwo ==
  ASSUME RowsTypeOK, NEW e \in Executions, NEW a \in Event, NEW b \in Event,
         events' = Logged(e, <<a, b>>)
  PROVE  /\ events'[e] = Append(Append(events[e], a), b)
         /\ \A x \in Executions \ {e} : events'[x] = events[x]
<1>1. events'[e] = events[e] \o <<a, b>>
  BY DEF RowsTypeOK, Logged
<1>2. events[e] \o <<a, b>> = Append(Append(events[e], a), b)
  BY RowShape
<1>. QED BY <1>1, <1>2 DEF RowsTypeOK, Logged

(* The two parts of the log that a claim writes.                           *)
LEMMA PairOfSingletons == \A x, y \in Event : <<x>> \o <<y>> = <<x, y>>
<1> SUFFICES ASSUME NEW x \in Event, NEW y \in Event PROVE <<x>> \o <<y>> = <<x, y>>
  OBVIOUS
<1>1. <<x>> \in Seq(Event) /\ <<y>> \in Seq(Event) /\ <<x, y>> \in Seq(Event)
  OBVIOUS
<1>2. /\ <<x>> \o <<y>> \in Seq(Event)
      /\ Len(<<x>> \o <<y>>) = 2
      /\ \A i \in 1..2 : (<<x>> \o <<y>>)[i] = IF i <= 1 THEN x ELSE y
  BY <1>1, ConcatProperties
<1>3. \A i \in 1..2 : <<x, y>>[i] = IF i <= 1 THEN x ELSE y
  OBVIOUS
<1>. QED BY <1>1, <1>2, <1>3, SeqEqual

(* What remains to be shown of one execution's transaction.                *)
TimelineWritten(e) ==
  /\ Told(events'[e], [status |-> status'[e], steps |-> stepRuns'[e]])
  /\ status'[e] # Absent
  /\ \A k \in Steps : stepRuns'[e][k].status = Absent => stepRuns'[e][k] = NoStepRun
  /\ \A x \in Executions \ {e} :
       events'[x] = events[x] /\ status'[x] = status[x] /\ stepRuns'[x] = stepRuns[x]

(* A transaction that has told of what it changed keeps the timelines.     *)
LEMMA TimelineKept ==
  ASSUME TimelineInv, NEW e \in Executions, TimelineWritten(e)
  PROVE  TimelineInv'
BY DEF TimelineInv, TimelineWritten, Row

(* A trigger tells of the new execution and its first step.                *)
LEMMA TriggerTold ==
  ASSUME RowsTypeOK, StoreInvariant, TimelineInv, NEW e \in Executions, TriggerExecution(e)
  PROVE  TimelineWritten(e)
<1>1. 1 \in Steps /\ NoView.steps = [k \in Steps |-> NoStepRun]
  BY StepCountAssumption DEF NoView, Steps
<1>2. status[e] = Absent /\ events[e] = <<>>
  BY DEF TriggerExecution, TimelineInv
<1>3. stepRuns[e] = NoView.steps
  <2>1. \A k \in Steps : stepRuns[e][k] = NoStepRun
    BY <1>2 DEF StoreInvariant, ExecutionAndStepsAgree, StatusAgreesWithSteps
  <2>. QED BY <1>1, <2>1, RowShape
<1>4. /\ stepRuns'[e] = [stepRuns[e] EXCEPT ![1] = QueuedStepRun]
      /\ status'[e] = "queued"
      /\ \A x \in Executions \ {e} : status'[x] = status[x] /\ stepRuns'[x] = stepRuns[x]
  BY <1>1 DEF TriggerExecution, RowsTypeOK
<1>5. ExecutionEvent("execution.queued") \in Event /\ events' = Logged(e, <<ExecutionEvent("execution.queued")>>)
  BY EventType DEF TriggerExecution, EventTypes
<1>6. /\ events'[e] = Append(<<>>, ExecutionEvent("execution.queued"))
      /\ \A x \in Executions \ {e} : events'[x] = events[x]
  BY <1>2, <1>5, LoggedOne
<1>7. Told(events'[e], [status |-> status'[e], steps |-> stepRuns'[e]])
  BY <1>3, <1>4, <1>6, TellQueued
<1>8. \A k \in Steps : stepRuns'[e][k].status = Absent => stepRuns'[e][k] = NoStepRun
  BY <1>1, <1>3, <1>4 DEF QueuedStepRun, Absent
<1>. QED BY <1>4, <1>6, <1>7, <1>8 DEF TimelineWritten, Absent

(* A step that is there does not bring one that is not.                    *)
LEMMA AbsentRows ==
  ASSUME TimelineInv, NEW e \in Executions, NEW k \in Steps, NEW run,
         stepRuns[e] \in [Steps -> StepRun],
         stepRuns'[e] = [stepRuns[e] EXCEPT ![k] = run], run.status # Absent
  PROVE  \A j \in Steps : stepRuns'[e][j].status = Absent => stepRuns'[e][j] = NoStepRun
BY DEF TimelineInv

(* A claim tells of the step, and of the execution that starts with it.    *)
LEMMA ClaimTold ==
  ASSUME RowsTypeOK, TimelineInv, NEW e \in Executions, NEW k \in Steps, ClaimQueuedExecutionStep(e, k)
  PROVE  TimelineWritten(e)
<1> DEFINE n == stepRuns[e][k].attemptCount + 1
           run == [status |-> "running", attemptCount |-> n]
           started == StepEvent("step.started", k, n)
           log == IF status[e] = "queued"
                    THEN Append(events[e], ExecutionEvent("execution.started"))
                    ELSE events[e]
<1>1. /\ stepRuns[e] \in [Steps -> StepRun] /\ n \in Nat /\ run \in StepRun
      /\ stepRuns[e][k].status = "queued" /\ status[e] \in {"queued", "running"}
  BY DEF RowsTypeOK, StepRun, ClaimQueuedExecutionStep, IsOldestQueuedStep, StepRunStatus
<1>2. /\ stepRuns'[e] = [stepRuns[e] EXCEPT ![k] = run]
      /\ status'[e] = "running"
      /\ \A x \in Executions \ {e} : status'[x] = status[x] /\ stepRuns'[x] = stepRuns[x]
  BY DEF ClaimQueuedExecutionStep, RowsTypeOK
<1>3. started \in Event /\ ExecutionEvent("execution.started") \in Event
  BY <1>1, EventType DEF EventTypes
<1>4. Told(log, [status |-> "running", steps |-> stepRuns[e]])
  <2>1. Told(events[e], [status |-> status[e], steps |-> stepRuns[e]])
    BY DEF TimelineInv, Row
  <2>2. CASE status[e] = "queued"
    <3>1. CanTransitionExecution("queued", "running")
      BY DEF CanTransitionExecution, AllowedExecutionTransitions
    <3>2. ExecutionStatusAfter("execution.started") = "running" /\ "execution.started" \in EventTypes
      BY DEF ExecutionStatusAfter, EventTypes
    <3>. QED BY <2>1, <2>2, <3>1, <3>2, TellExecution
  <2>3. CASE status[e] # "queued"
    BY <1>1, <2>1, <2>3
  <2>. QED BY <2>2, <2>3
<1>5. /\ events'[e] = Append(log, started)
      /\ \A x \in Executions \ {e} : events'[x] = events[x]
  <2>1. CASE status[e] = "queued"
    <3>1. \A x, y \in Event : <<x>> \o <<y>> = <<x, y>>
      BY PairOfSingletons
    <3>2. events' = Logged(e, <<ExecutionEvent("execution.started"), started>>)
      BY <1>3, <2>1, <3>1 DEF ClaimQueuedExecutionStep
    <3> HIDE DEF started
    <3>. QED BY <1>3, <2>1, <3>2, LoggedTwo
  <2>2. CASE status[e] # "queued"
    <3>1. <<>> \o <<started>> = <<started>>
      OBVIOUS
    <3>2. events' = Logged(e, <<started>>)
      BY <2>2, <3>1 DEF ClaimQueuedExecutionStep
    <3> HIDE DEF started
    <3>. QED BY <1>3, <2>2, <3>2, LoggedOne
  <2>. QED BY <2>1, <2>2
<1>6. LegalStep(stepRuns[e][k], run)
  BY <1>1 DEF LegalStep, CanTransitionStepRun, AllowedStepRunTransitions
<1>7. "step.started" \in EventTypes /\ StepStatusAfter("step.started") = "running"
  BY DEF EventTypes, StepStatusAfter
<1>8. run.status = "running" /\ run.attemptCount = n
  OBVIOUS
<1> HIDE DEF run, log, n
<1>9. Told(Append(log, started), [status |-> "running", steps |-> [stepRuns[e] EXCEPT ![k] = run]])
  BY <1>1, <1>4, <1>6, <1>7, <1>8, TellStep
<1>10. \A j \in Steps : stepRuns'[e][j].status = Absent => stepRuns'[e][j] = NoStepRun
  BY <1>1, <1>2, <1>8, AbsentRows DEF Absent
<1>. QED BY <1>2, <1>5, <1>9, <1>10 DEF TimelineWritten, Absent

(* A retry or a recovery tells of "retrying", which no row ever shows.     *)
LEMMA RequeueTold ==
  ASSUME RowsTypeOK, TimelineInv, NEW e \in Executions, NEW k \in Steps, Requeue(e, k)
  PROVE  TimelineWritten(e)
<1> DEFINE n == stepRuns[e][k].attemptCount
           between == InStatus(stepRuns[e][k], "retrying")
           run == InStatus(stepRuns[e][k], "queued")
           rows == [stepRuns[e] EXCEPT ![k] = between]
           b == StepEvent("step.queued", k, 0)
<1>0. PICK reason \in {"step.retrying", "step.recovered"}, attempt \in Nat :
        events' = Logged(e, <<StepEvent(reason, k, attempt), b>>)
  BY DEF Requeue
<1> DEFINE a == StepEvent(reason, k, attempt)
<1>1. /\ stepRuns[e] \in [Steps -> StepRun] /\ n \in Nat /\ n = stepRuns[e][k].attemptCount
      /\ stepRuns[e][k].status = "running" /\ status[e] = "running"
  BY DEF RowsTypeOK, StepRun, Requeue, CanSettle
<1>2. /\ stepRuns'[e] = [stepRuns[e] EXCEPT ![k] = run]
      /\ status'[e] = "running"
      /\ \A x \in Executions \ {e} : status'[x] = status[x] /\ stepRuns'[x] = stepRuns[x]
  BY <1>1 DEF Requeue, RowsTypeOK
<1>3. a \in Event /\ b \in Event /\ reason \in EventTypes /\ "step.queued" \in EventTypes
  BY <1>1, EventType DEF EventTypes
<1>4. /\ events'[e] = Append(Append(events[e], a), b)
      /\ \A x \in Executions \ {e} : events'[x] = events[x]
  <2>1. events' = Logged(e, <<a, b>>)
    BY <1>0
  <2> HIDE DEF a, b
  <2>. QED BY <1>3, <2>1, LoggedTwo
<1>5. /\ between \in StepRun /\ between.status = "retrying" /\ between.attemptCount = n
      /\ run \in StepRun /\ run.status = "queued" /\ run.attemptCount = n
  BY <1>1, StepRunType DEF StepRunStatus, InStatus, StepRun
<1>6. StepStatusAfter(reason) = "retrying" /\ StepStatusAfter("step.queued") = "queued"
  BY DEF StepStatusAfter
<1>7. LegalStep(stepRuns[e][k], between) /\ LegalStep(between, run)
  BY <1>1, <1>5 DEF LegalStep, CanTransitionStepRun, AllowedStepRunTransitions
<1>8. Told(events[e], [status |-> "running", steps |-> stepRuns[e]])
  BY <1>1 DEF TimelineInv, Row
<1>9. rows \in [Steps -> StepRun] /\ rows[k] = between /\ [rows EXCEPT ![k] = run] = stepRuns'[e]
  BY <1>1, <1>2, <1>5
<1> HIDE DEF rows, between, run, n
<1>10. Told(Append(events[e], a), [status |-> "running", steps |-> rows])
  BY <1>1, <1>3, <1>5, <1>6, <1>7, <1>8, TellStep DEF rows
<1> HIDE DEF a
<1>11. Told(Append(Append(events[e], a), b), [status |-> "running", steps |-> stepRuns'[e]])
  <2> DEFINE log == Append(events[e], a)
  <2>1. Told(log, [status |-> "running", steps |-> rows])
    BY <1>10
  <2>2. run.attemptCount = rows[k].attemptCount
    BY <1>5, <1>9
  <2> HIDE DEF log
  <2>3. Told(Append(log, b), [status |-> "running", steps |-> [rows EXCEPT ![k] = run]])
    BY <1>3, <1>5, <1>6, <1>7, <1>9, <2>1, <2>2, TellStep
  <2>. QED BY <1>9, <2>3 DEF log
<1>12. \A j \in Steps : stepRuns'[e][j].status = Absent => stepRuns'[e][j] = NoStepRun
  BY <1>1, <1>2, <1>5, AbsentRows DEF Absent
<1>. QED BY <1>2, <1>4, <1>11, <1>12 DEF TimelineWritten, Absent

(* A running step and its execution end together.                          *)
LEMMA BothEndTold ==
  ASSUME RowsTypeOK, TimelineInv, NEW e \in Executions, NEW k \in Steps, CanSettle(e, k),
         NEW new \in {"succeeded", "failed"}, NEW stepType, NEW type,
         \/ new = "succeeded" /\ stepType = "step.succeeded" /\ type = "execution.completed"
         \/ new = "failed" /\ stepType = "step.failed" /\ type = "execution.failed",
         status' = [status EXCEPT ![e] = new],
         stepRuns' = [stepRuns EXCEPT ![e][k] = InStatus(@, new)],
         events' = Logged(e, <<StepEvent(stepType, k, stepRuns[e][k].attemptCount),
                               ExecutionEvent(type)>>)
  PROVE  TimelineWritten(e)
<1> DEFINE n == stepRuns[e][k].attemptCount
           run == InStatus(stepRuns[e][k], new)
           a == StepEvent(stepType, k, n)
           b == ExecutionEvent(type)
<1>1. /\ stepRuns[e] \in [Steps -> StepRun] /\ n \in Nat /\ n = stepRuns[e][k].attemptCount
      /\ stepRuns[e][k].status = "running" /\ status[e] = "running"
  BY DEF RowsTypeOK, StepRun, CanSettle
<1>2. /\ stepRuns'[e] = [stepRuns[e] EXCEPT ![k] = run]
      /\ status'[e] = new
      /\ \A x \in Executions \ {e} : status'[x] = status[x] /\ stepRuns'[x] = stepRuns[x]
  BY <1>1 DEF RowsTypeOK
<1>3. a \in Event /\ b \in Event /\ stepType \in EventTypes /\ type \in EventTypes
  BY <1>1, EventType DEF EventTypes
<1>4. /\ events'[e] = Append(Append(events[e], a), b)
      /\ \A x \in Executions \ {e} : events'[x] = events[x]
  <2>1. events' = Logged(e, <<a, b>>)
    OBVIOUS
  <2> HIDE DEF a, b
  <2>. QED BY <1>3, <2>1, LoggedTwo
<1>5. run \in StepRun /\ run.status = new /\ run.attemptCount = n
  BY <1>1, StepRunType DEF StepRunStatus, InStatus, StepRun
<1>6. StepStatusAfter(stepType) = new /\ stepType # "step.started"
  BY DEF StepStatusAfter
<1>7. ExecutionStatusAfter(type) = new /\ type # "execution.queued"
  BY DEF ExecutionStatusAfter
<1>8. LegalStep(stepRuns[e][k], run)
  BY <1>1, <1>5 DEF LegalStep, CanTransitionStepRun, AllowedStepRunTransitions
<1>9. CanTransitionExecution("running", new)
  BY DEF CanTransitionExecution, AllowedExecutionTransitions
<1>10. Told(events[e], [status |-> "running", steps |-> stepRuns[e]])
  BY <1>1 DEF TimelineInv, Row
<1> HIDE DEF run, n
<1>11. Told(Append(events[e], a), [status |-> "running", steps |-> stepRuns'[e]])
  BY <1>1, <1>2, <1>3, <1>5, <1>6, <1>8, <1>10, TellStep
<1> HIDE DEF a
<1>12. Told(Append(Append(events[e], a), b), [status |-> new, steps |-> stepRuns'[e]])
  BY <1>3, <1>7, <1>9, <1>11, TellExecution
<1>13. \A j \in Steps : stepRuns'[e][j].status = Absent => stepRuns'[e][j] = NoStepRun
  BY <1>1, <1>2, <1>5, AbsentRows DEF Absent
<1>. QED BY <1>2, <1>4, <1>12, <1>13 DEF TimelineWritten, Absent

(* A completion tells of the step and of the next one.                     *)
LEMMA CompleteTold ==
  ASSUME RowsTypeOK, TimelineInv, NEW e \in Executions, NEW k \in Steps, CompleteAndQueueNext(e, k)
  PROVE  TimelineWritten(e)
<1> DEFINE n == stepRuns[e][k].attemptCount
           run == InStatus(stepRuns[e][k], "succeeded")
           rows == [stepRuns[e] EXCEPT ![k] = run]
           a == StepEvent("step.succeeded", k, n)
           b == StepEvent("step.queued", k + 1, 0)
<1>1. /\ stepRuns[e] \in [Steps -> StepRun] /\ n \in Nat /\ n = stepRuns[e][k].attemptCount
      /\ k + 1 \in Steps /\ k # k + 1
      /\ stepRuns[e][k].status = "running" /\ status[e] = "running"
      /\ stepRuns[e][k + 1].status = Absent
  <2>1. stepRuns[e] \in [Steps -> StepRun] /\ n \in Nat
    BY DEF RowsTypeOK, StepRun
  <2>2. k + 1 \in Steps /\ k # k + 1
    BY CompleteAndQueueNextRows DEF Steps
  <2>. QED BY <2>1, <2>2 DEF CompleteAndQueueNext, CanSettle
<1>2. stepRuns[e][k + 1] = NoStepRun
  BY <1>1 DEF TimelineInv
<1>3. /\ stepRuns'[e] = [rows EXCEPT ![k + 1] = QueuedStepRun]
      /\ status'[e] = "running"
      /\ \A x \in Executions \ {e} : status'[x] = status[x] /\ stepRuns'[x] = stepRuns[x]
  <2>1. stepRuns'[e] = [stepRuns[e] EXCEPT ![k] = run, ![k + 1] = QueuedStepRun]
    BY DEF CompleteAndQueueNext, RowsTypeOK
  <2>2. [stepRuns[e] EXCEPT ![k] = run, ![k + 1] = QueuedStepRun]
          = [rows EXCEPT ![k + 1] = QueuedStepRun]
    BY <1>1
  <2>. QED BY <1>1, <2>1, <2>2 DEF CompleteAndQueueNext, RowsTypeOK
<1>4. a \in Event /\ b \in Event /\ "step.succeeded" \in EventTypes /\ "step.queued" \in EventTypes
  BY <1>1, EventType DEF EventTypes
<1>5. /\ events'[e] = Append(Append(events[e], a), b)
      /\ \A x \in Executions \ {e} : events'[x] = events[x]
  <2>1. events' = Logged(e, <<a, b>>)
    BY DEF CompleteAndQueueNext
  <2> HIDE DEF a, b
  <2>. QED BY <1>4, <2>1, LoggedTwo
<1>6. /\ run \in StepRun /\ run.status = "succeeded" /\ run.attemptCount = n
      /\ QueuedStepRun \in StepRun /\ QueuedStepRun.status = "queued"
      /\ QueuedStepRun.attemptCount = 0 /\ NoStepRun.attemptCount = 0 /\ NoStepRun.status = Absent
  BY <1>1, StepRunType DEF StepRunStatus, InStatus, StepRun, QueuedStepRun, NoStepRun
<1>7. StepStatusAfter("step.succeeded") = "succeeded" /\ StepStatusAfter("step.queued") = "queued"
  BY DEF StepStatusAfter
<1>8. LegalStep(stepRuns[e][k], run) /\ LegalStep(NoStepRun, QueuedStepRun)
  BY <1>1, <1>6 DEF LegalStep, CanTransitionStepRun, AllowedStepRunTransitions
<1>9. Told(events[e], [status |-> "running", steps |-> stepRuns[e]])
  BY <1>1 DEF TimelineInv, Row
<1>10. rows \in [Steps -> StepRun] /\ rows[k + 1] = NoStepRun
  BY <1>1, <1>2, <1>6
<1>11. \A j \in Steps : stepRuns'[e][j].status = Absent => stepRuns'[e][j] = NoStepRun
  BY <1>1, <1>3, <1>6 DEF TimelineInv, Absent
<1> HIDE DEF rows, run, n
<1>12. Told(Append(events[e], a), [status |-> "running", steps |-> rows])
  BY <1>1, <1>4, <1>6, <1>7, <1>8, <1>9, TellStep DEF rows
<1> HIDE DEF a
<1>13. Told(Append(Append(events[e], a), b), [status |-> "running", steps |-> stepRuns'[e]])
  BY <1>1, <1>3, <1>4, <1>6, <1>7, <1>8, <1>10, <1>12, TellStep
<1>. QED BY <1>3, <1>5, <1>11, <1>13 DEF TimelineWritten, Absent

(* An enumeration without repetition of a finite set names every element.  *)
LEMMA EveryElementInOrder ==
  ASSUME NEW S, IsFiniteSet(S), NEW order \in SetToSeqs(S)
  PROVE  /\ Cardinality(S) \in Nat
         /\ order \in [1..Cardinality(S) -> S]
         /\ \A i, j \in 1..Cardinality(S) : i # j => order[i] # order[j]
         /\ \A x \in S : \E i \in 1..Cardinality(S) : order[i] = x
<1> DEFINE D == 1..Cardinality(S)
<1>1. Cardinality(S) \in Nat
  BY FS_CardinalityType
<1>2. order \in [D -> S] /\ \A i, j \in D : i # j => order[i] # order[j]
  BY DEF SetToSeqs
<1>3. order \in Injection(D, S)
  BY <1>2, Zenon DEF Injection, IsInjective
<1>4. Cardinality(D) = Cardinality(S)
  BY <1>1, FS_Interval
<1>5. order \in Surjection(D, S)
  BY <1>3, <1>4, FS_Injection
<1>. QED BY <1>1, <1>2, <1>5 DEF Surjection

(* One more event after those of a transaction.                            *)
LEMMA AppendAfterConcat ==
  ASSUME NEW s \in Seq(Event), NEW t \in Seq(Event), NEW x \in Event
  PROVE  s \o (t \o <<x>>) = Append(s \o t, x)
<1>1. <<x>> \in Seq(Event)
  OBVIOUS
<1>2. s \o (t \o <<x>>) = (s \o t) \o <<x>>
  BY <1>1, ConcatAssociative
<1>. QED BY <1>2

(* The rows in which the steps of S are cancelled.                         *)
CancelledRows(rows, S) ==
  [k \in Steps |-> IF k \in S THEN InStatus(rows[k], "cancelled") ELSE rows[k]]

(* The events of one cancellation, which names each of the m steps in S    *)
(* once.                                                                   *)
CancellationOf(rows, S, m, order, cancels) ==
  /\ rows \in [Steps -> StepRun]
  /\ m \in Nat /\ order \in [1..m -> Steps]
  /\ \A i, j \in 1..m : i # j => order[i] # order[j]
  /\ \A i \in 1..m : rows[order[i]].status \in CancellableStepRunStatuses
  /\ {order[i] : i \in 1..m} = S
  /\ cancels \in Seq(Event) /\ Len(cancels) = m
  /\ \A i \in 1..m :
       cancels[i] = StepEvent("step.cancelled", order[i], rows[order[i]].attemptCount)

(* The cancellations of the steps can be told in any order.                *)
LEMMA TellCancellations ==
  ASSUME NEW log, NEW s, NEW rows, NEW S, NEW m, NEW order, NEW cancels,
         Told(log, [status |-> s, steps |-> rows]),
         CancellationOf(rows, S, m, order, cancels)
  PROVE  Told(log \o cancels, [status |-> s, steps |-> CancelledRows(rows, S)])
<1> USE DEF CancellationOf
<1> DEFINE Event1(i) == StepEvent("step.cancelled", order[i], rows[order[i]].attemptCount)
           Part(n) == [i \in 1..n |-> Event1(i)]
           View(n) == [status |-> s, steps |-> CancelledRows(rows, {order[i] : i \in 1..n})]
           T == {n \in 0..m : ~Told(log \o Part(n), View(n))}
<1>1. \A i \in 1..m : Event1(i) \in Event
  BY EventType DEF EventTypes, StepRun
<1>2. \A n \in 0..m : Part(n) \in Seq(Event) /\ Len(Part(n)) = n
  <2> TAKE n \in 0..m
  <2>1. Part(n) \in [1..n -> Event]
    BY <1>1
  <2> HIDE DEF Part
  <2>. QED BY <2>1, IsASeq
<1>3. T = {}
  <2>1. SUFFICES ASSUME T # {} PROVE FALSE
    OBVIOUS
  <2>2. T \subseteq Nat
    OBVIOUS
  <2>3. PICK x \in T : \A y \in T : x <= y
    <3> HIDE DEF T
    <3>. QED BY <2>1, <2>2, LeastNatural
  <2>4. log \in Seq(Event)
    BY DEF Told
  <2>5. CASE x = 0
    <3>1. Part(0) = <<>>
      BY <1>2
    <3>2. log \o Part(0) = log
      BY <2>4, <3>1
    <3>3. CancelledRows(rows, {order[i] : i \in 1..0}) = rows
      BY DEF CancelledRows
    <3>. QED BY <2>3, <2>5, <3>2, <3>3
  <2>6. CASE x # 0
    <3> DEFINE p == x - 1
               k == order[x]
               before == CancelledRows(rows, {order[i] : i \in 1..p})
               run == InStatus(rows[k], "cancelled")
    <3>1. p \in 0..m /\ x = p + 1 /\ x \in 1..m /\ p \notin T
      <4>1. x \in 0..m /\ T \subseteq 0..m
        BY <2>3
      <4>2. \A y \in T : x <= y
        BY <2>3
      <4> HIDE DEF T
      <4>. QED BY <2>6, <4>1, <4>2
    <3>2. Told(log \o Part(p), View(p))
      <4> HIDE DEF Part, View
      <4>. QED BY <3>1
    <3>3. log \o Part(x) = Append(log \o Part(p), Event1(x))
      <4>1. Part(x) \in Seq(Event) /\ Part(p) \in Seq(Event) /\ Len(Part(x)) = p + 1 /\ Len(Part(p)) = p
        BY <1>2, <3>1
      <4>2. \A i \in 1..p : Part(x)[i] = Part(p)[i]
        BY <3>1
      <4>3. Part(x)[p + 1] = Event1(x) /\ Event1(x) \in Event
        BY <1>1, <3>1
      <4> HIDE DEF Part, Event1
      <4>4. Part(x) = Append(Part(p), Event1(x))
        BY <3>1, <4>1, <4>2, <4>3
      <4>. QED BY <2>4, <4>1, <4>3, <4>4
    <3>4. k \in Steps /\ \A i \in 1..p : order[i] # k
      BY <3>1
    <3>5. /\ before \in [Steps -> StepRun] /\ before[k] = rows[k]
          /\ run \in StepRun /\ run.status = "cancelled" /\ run.attemptCount = rows[k].attemptCount
      <4>1. \A j \in Steps : InStatus(rows[j], "cancelled") \in StepRun
        BY StepRunType DEF StepRunStatus
      <4>2. run.status = "cancelled" /\ run.attemptCount = rows[k].attemptCount
        BY DEF InStatus
      <4>. QED BY <3>4, <4>1, <4>2 DEF CancelledRows
    <3>6. CancelledRows(rows, {order[i] : i \in 1..x}) = [before EXCEPT ![k] = run]
      <4>1. {order[i] : i \in 1..x} = {order[i] : i \in 1..p} \cup {k}
        BY <3>1
      <4>. QED BY <3>4, <4>1 DEF CancelledRows
    <3>7. LegalStep(before[k], run)
      <4>1. rows[k].status \in CancellableStepRunStatuses
        BY <3>1
      <4>2. rows[k].attemptCount \in Nat
        BY <3>4 DEF StepRun
      <4> HIDE DEF k, before, run
      <4>. QED BY <3>5, <4>1, <4>2
               DEF LegalStep, CanTransitionStepRun, AllowedStepRunTransitions,
                   CancellableStepRunStatuses
    <3>8. "step.cancelled" \in EventTypes /\ StepStatusAfter("step.cancelled") = "cancelled"
      BY DEF EventTypes, StepStatusAfter
    <3>9. rows[k].attemptCount \in Nat
      BY <3>4 DEF StepRun
    <3>10. Told(log \o Part(p), [status |-> s, steps |-> before])
      BY <3>2
    <3> DEFINE shorter == log \o Part(p)
    <3> HIDE DEF before, run, shorter
    <3>11. Told(Append(shorter, StepEvent("step.cancelled", k, rows[k].attemptCount)),
               [status |-> s, steps |-> [before EXCEPT ![k] = run]])
      BY <3>4, <3>5, <3>7, <3>8, <3>9, <3>10, TellStep DEF shorter
    <3>12. Told(log \o Part(x), View(x))
      BY <3>3, <3>6, <3>11 DEF shorter
    <3>. QED BY <2>3, <3>12
  <2>. QED BY <2>5, <2>6
<1>4. cancels = Part(m)
  <2>1. \A i \in 1..m : cancels[i] = Part(m)[i]
    OBVIOUS
  <2> HIDE DEF Part
  <2>. QED BY <1>2, <2>1, SeqEqual
<1>5. Told(log \o Part(m), View(m))
  <2> HIDE DEF Part, View
  <2>. QED BY <1>3
<1>6. View(m) = [status |-> s, steps |-> CancelledRows(rows, S)]
  <2>1. {order[i] : i \in 1..m} = S
    OBVIOUS
  <2>. QED BY <2>1
<1> HIDE DEF Part, View
<1>. QED BY <1>2, <1>4, <1>5, <1>6

(* A cancellation tells of the steps, in any order, and of the execution.  *)
LEMMA CancelTold ==
  ASSUME RowsTypeOK, TimelineInv, NEW e \in Executions, CancelExecution(e)
  PROVE  TimelineWritten(e)
<1> DEFINE S == CancellableSteps(e)
           m == Cardinality(S)
           last == ExecutionEvent("execution.cancelled")
<1>1. /\ stepRuns[e] \in [Steps -> StepRun] /\ events[e] \in Seq(Event)
      /\ status[e] \in {"queued", "running"}
  BY DEF RowsTypeOK, CancelExecution, CancellableExecutionStatuses
<1>2. PICK order \in SetToSeqs(S) :
        events' = Logged(e, [n \in DOMAIN order |->
            StepEvent("step.cancelled", order[n], stepRuns[e][order[n]].attemptCount)] \o <<last>>)
  BY DEF CancelExecution
<1> DEFINE cancels == [n \in 1..m |->
             StepEvent("step.cancelled", order[n], stepRuns[e][order[n]].attemptCount)]
<1>3. IsFiniteSet(S) /\ S \subseteq Steps
  <2>1. IsFiniteSet(Steps)
    BY StepCountAssumption, FS_Interval DEF Steps
  <2>. QED BY <2>1, FS_Subset DEF CancellableSteps
<1>4. /\ m \in Nat /\ order \in [1..m -> Steps] /\ DOMAIN order = 1..m
      /\ \A i, j \in 1..m : i # j => order[i] # order[j]
      /\ {order[i] : i \in 1..m} = S
  <2> HIDE DEF S
  <2>1. /\ m \in Nat /\ order \in [1..m -> S]
        /\ \A i, j \in 1..m : i # j => order[i] # order[j]
        /\ \A x \in S : \E i \in 1..m : order[i] = x
    BY <1>3, EveryElementInOrder
  <2> HIDE DEF m
  <2>. QED BY <1>3, <2>1
<1>5. \A i \in 1..m : stepRuns[e][order[i]].status \in CancellableStepRunStatuses
  <2>1. \A k \in S : stepRuns[e][k].status \in CancellableStepRunStatuses
    BY DEF CancellableSteps
  <2> HIDE DEF S, m
  <2>. QED BY <1>4, <2>1
<1>6. events' = Logged(e, cancels \o <<last>>)
  BY <1>2, <1>4
<1>7. Told(events[e], [status |-> status[e], steps |-> stepRuns[e]])
  BY DEF TimelineInv, Row
<1>8. /\ cancels \in Seq(Event)
      /\ Told(events[e] \o cancels, [status |-> status[e], steps |-> CancelledRows(stepRuns[e], S)])
  <2>1. cancels \in [1..m -> Event]
    BY <1>1, <1>4, EventType DEF EventTypes, StepRun
  <2>2. \A i \in 1..m : cancels[i] =
          StepEvent("step.cancelled", order[i], stepRuns[e][order[i]].attemptCount)
    OBVIOUS
  <2> HIDE DEF m, S, cancels
  <2>3. cancels \in Seq(Event) /\ Len(cancels) = m
    BY <1>4, <2>1, IsASeq
  <2>4. CancellationOf(stepRuns[e], S, m, order, cancels)
    BY <1>1, <1>4, <1>5, <2>2, <2>3 DEF CancellationOf
  <2>. QED BY <1>7, <2>3, <2>4, TellCancellations
<1>9. /\ stepRuns'[e] = CancelledRows(stepRuns[e], S)
      /\ status'[e] = "cancelled"
      /\ \A x \in Executions \ {e} : status'[x] = status[x] /\ stepRuns'[x] = stepRuns[x]
  BY DEF CancelExecution, RowsTypeOK, CancelledRows
<1>10. last \in Event
  BY EventType DEF EventTypes
<1>11. /\ events'[e] = Append(events[e] \o cancels, last)
       /\ \A x \in Executions \ {e} : events'[x] = events[x]
  <2> HIDE DEF cancels, last
  <2>1. events'[e] = events[e] \o (cancels \o <<last>>)
    BY <1>6 DEF RowsTypeOK, Logged
  <2>2. events[e] \o (cancels \o <<last>>) = Append(events[e] \o cancels, last)
    <3>1. events[e] \in Seq(Event) /\ cancels \in Seq(Event)
      BY <1>1, <1>8
    <3>. QED BY <1>10, <3>1, AppendAfterConcat
  <2>. QED BY <1>6, <2>1, <2>2 DEF RowsTypeOK, Logged
<1>12. CanTransitionExecution(status[e], "cancelled")
  BY <1>1 DEF CanTransitionExecution, AllowedExecutionTransitions
<1>13. ExecutionStatusAfter("execution.cancelled") = "cancelled" /\ "execution.cancelled" \in EventTypes
  BY DEF ExecutionStatusAfter, EventTypes
<1>14. Told(Append(events[e] \o cancels, last), [status |-> "cancelled", steps |-> stepRuns'[e]])
  <2> DEFINE log == events[e] \o cancels
  <2>1. Told(log, [status |-> status[e], steps |-> stepRuns'[e]])
    BY <1>8, <1>9
  <2> HIDE DEF log
  <2>2. Told(Append(log, last), [status |-> "cancelled", steps |-> stepRuns'[e]])
    BY <1>12, <1>13, <2>1, TellExecution
  <2>. QED BY <2>2 DEF log
<1>15. \A k \in Steps : stepRuns'[e][k].status = Absent => stepRuns'[e][k] = NoStepRun
  <2>1. \A k \in S : stepRuns'[e][k].status # Absent
    BY CancelRows DEF Absent
  <2>2. \A k \in Steps \ S : stepRuns'[e][k] = stepRuns[e][k]
    BY CancelRows
  <2>. QED BY <2>1, <2>2 DEF TimelineInv
<1> HIDE DEF cancels, last
<1>. QED BY <1>9, <1>11, <1>14, <1>15 DEF TimelineWritten, Absent

(* The executions from before the outbox have logged that they are queued. *)
LEMMA InitTimeline == Init => TimelineInv
<1> SUFFICES ASSUME Init, NEW e \in Executions
             PROVE  /\ Told(events[e], [status |-> status[e], steps |-> stepRuns[e]])
                    /\ status[e] = Absent => events[e] = <<>>
                    /\ \A k \in Steps : stepRuns[e][k].status = Absent => stepRuns[e][k] = NoStepRun
  BY DEF TimelineInv, Row
<1>1. 1 \in Steps /\ NoView = [status |-> Absent, steps |-> [k \in Steps |-> NoStepRun]]
      /\ NoView.steps = [k \in Steps |-> NoStepRun]
  BY StepCountAssumption DEF NoView, Steps
<1>2. CASE e \in LegacyQueued
  <2>1. /\ status[e] = "queued" /\ events[e] = <<ExecutionEvent("execution.queued")>>
        /\ stepRuns[e] = [NoView.steps EXCEPT ![1] = QueuedStepRun]
    BY <1>1, <1>2 DEF Init
  <2>2. events[e] = Append(<<>>, ExecutionEvent("execution.queued"))
    BY <2>1
  <2>3. \A k \in Steps : stepRuns[e][k].status = Absent => stepRuns[e][k] = NoStepRun
    BY <1>1, <2>1 DEF QueuedStepRun, Absent
  <2>. QED BY <2>1, <2>2, <2>3, TellQueued DEF Absent
<1>3. CASE e \notin LegacyQueued
  <2>1. status[e] = Absent /\ events[e] = <<>> /\ stepRuns[e] = [k \in Steps |-> NoStepRun]
    BY <1>3 DEF Init
  <2>2. Told(<<>>, NoView)
    BY ViewOfEmptyLog DEF Told
  <2>. QED BY <1>1, <2>1, <2>2
<1>. QED BY <1>2, <1>3

(* Every step of the store tells of what it changes.                       *)
LEMMA NextTimeline ==
  ASSUME RowsTypeOK, StoreInvariant, TimelineInv, StoreStep
  PROVE  TimelineInv'
<1>1. ASSUME NEW e \in Executions, TriggerExecution(e) PROVE TimelineInv'
  BY <1>1, TriggerTold, TimelineKept
<1>2. ASSUME NEW e \in Executions, CancelExecution(e) PROVE TimelineInv'
  BY <1>2, CancelTold, TimelineKept
<1>3. ASSUME NEW e \in Executions, NEW k \in Steps, ClaimQueuedExecutionStep(e, k)
      PROVE  TimelineInv'
  BY <1>3, ClaimTold, TimelineKept
<1>4. ASSUME NEW e \in Executions, NEW k \in Steps, CompleteClaimedExecutionStep(e, k)
      PROVE  TimelineInv'
  <2>1. CASE CompleteAndQueueNext(e, k)
    BY <2>1, CompleteTold, TimelineKept
  <2>2. CASE CompleteExecution(e, k)
    <3>1. TimelineWritten(e)
      BY <2>2, BothEndTold DEF CompleteExecution
    <3>. QED BY <3>1, TimelineKept
  <2>. QED BY <1>4, <2>1, <2>2 DEF CompleteClaimedExecutionStep
<1>5. ASSUME NEW e \in Executions, NEW k \in Steps, Requeue(e, k)
      PROVE  TimelineInv'
  BY <1>5, RequeueTold, TimelineKept
<1>6. ASSUME NEW e \in Executions, NEW k \in Steps, CanSettle(e, k), FailStepAndExecution(e, k)
      PROVE  TimelineInv'
  <2>1. TimelineWritten(e)
    BY <1>6, BothEndTold DEF FailStepAndExecution
  <2>. QED BY <2>1, TimelineKept
<1>7. CASE OutboxStep
  BY <1>7, OutboxStepRows DEF TimelineInv, Row
<1>8. CASE UNCHANGED tables
  BY <1>8 DEF tables, TimelineInv, Row
<1> QED
  BY <1>1, <1>2, <1>3, <1>4, <1>5, <1>6, <1>7, <1>8, StoreStepCases
     DEF CompleteClaimedExecutionStep

(* Both at once, from the types and the invariant of the store.            *)
LEMMA TimelinesKept == Spec => []TimelineInv
<1>1. Init => TypeOK /\ StoreInvariant /\ TimelineInv
  BY InitType, InitStoreInvariant, InitTimeline
<1>2. TypeOK /\ StoreInvariant /\ TimelineInv /\ [Next]_vars
        => (TypeOK /\ StoreInvariant /\ TimelineInv)'
  BY NextStoreInvariant, NextIsStoreStep, NextTimeline DEF TypeOK
<1>. QED BY <1>1, <1>2, PTL DEF Spec

(* Whatever the length of its log, reading the events of an execution      *)
(* rebuilds its row and its step rows: no transaction changes a row        *)
(* without saying so, and none says what it does not do.                   *)
THEOREM TimelineIsAuditTrail == Spec => []TimelineRebuildsState
<1>1. TimelineInv => TimelineRebuildsState
  BY DEF TimelineInv, Told, Row, TimelineRebuildsState
<1>. QED BY <1>1, TimelinesKept, PTL

(* No log ever tells of a transition that the state machine forbids, and   *)
(* the attempts of a step are numbered without a gap.                      *)
THEOREM TimelineIsLegal == Spec => []TimelineFollowsStateMachine
<1>1. TimelineInv => TimelineFollowsStateMachine
  BY DEF TimelineInv, Told, TimelineFollowsStateMachine
<1>. QED BY <1>1, TimelinesKept, PTL

-------------------------------------------------------------------------------
(* The store implements the lifecycle                                      *)

(* The completed steps are those that have succeeded.                      *)
LEMMA CompletedKept ==
  ASSUME \A x \in Executions, j \in Steps :
           stepRuns'[x][j].status = "succeeded" <=> stepRuns[x][j].status = "succeeded"
  PROVE  CompletedSteps' = CompletedSteps
BY DEF CompletedSteps

(* The step that runs is the first one that has not been completed.        *)
LEMMA RunningStepIsNext ==
  ASSUME StoreInvariant, NEW e \in Executions, NEW k \in Steps, CanSettle(e, k)
  PROVE  CompletedSteps[e] = 1..(k - 1)
<1>1. \A j \in 1..(k - 1) : j \in Steps /\ stepRuns[e][j].status = "succeeded"
  BY StepCountAssumption
     DEF StoreInvariant, ExecutionAndStepsAgree, StepsInDefinitionOrder, CanSettle, Steps, Absent
<1>2. ASSUME NEW j \in Steps, stepRuns[e][j].status = "succeeded" PROVE j \in 1..(k - 1)
  <2>1. j # k
    BY <1>2 DEF CanSettle
  <2>2. ~ (j > k)
    <3>1. k \in 1..(j - 1) => stepRuns[e][k].status = "succeeded"
      BY <1>2 DEF StoreInvariant, ExecutionAndStepsAgree, StepsInDefinitionOrder, Absent
    <3> QED
      BY <3>1, StepCountAssumption DEF CanSettle, Steps
  <2> QED
    BY <2>1, <2>2 DEF Steps
<1> QED
  BY <1>1, <1>2 DEF CompletedSteps

(* Completing a step of the store completes that step of the lifecycle.    *)
LEMMA CompleteIsCompleteStep ==
  ASSUME RowsTypeOK, StoreInvariant, NEW e \in Executions, NEW k \in Steps,
         CompleteClaimedExecutionStep(e, k)
  PROVE  Lifecycle!CompleteStep(e, k)
<1>1. CanSettle(e, k)
  BY DEF CompleteClaimedExecutionStep, CompleteAndQueueNext, CompleteExecution
<1>2. CompletedSteps[e] = 1..(k - 1)
  BY <1>1, RunningStepIsNext
<1>3. CASE CompleteAndQueueNext(e, k)
  <2>1. \A x \in Executions, j \in Steps :
          stepRuns'[x][j].status = "succeeded" <=>
            stepRuns[x][j].status = "succeeded" \/ (x = e /\ j = k)
    <3>1. k + 1 \in Steps /\ stepRuns[e][k + 1].status = Absent
      BY <1>3, CompleteAndQueueNextRows DEF CompleteAndQueueNext
    <3> QED
      BY <1>3, <3>1, CompleteAndQueueNextRows DEF QueuedStepRun, Absent
  <2>2. CompletedSteps' = [CompletedSteps EXCEPT ![e] = @ \cup {k}]
    BY <2>1 DEF CompletedSteps
  <2>3. k # StepCount /\ UNCHANGED status
    BY <1>3 DEF CompleteAndQueueNext, Steps
  <2> QED
    BY <1>1, <1>2, <2>2, <2>3 DEF CanSettle, Lifecycle!CompleteStep
<1>4. CASE CompleteExecution(e, k)
  <2>1. \A x \in Executions, j \in Steps :
          stepRuns'[x][j].status = "succeeded" <=>
            stepRuns[x][j].status = "succeeded" \/ (x = e /\ j = k)
    BY <1>4 DEF RowsTypeOK, CompleteExecution, InStatus
  <2>2. CompletedSteps' = [CompletedSteps EXCEPT ![e] = @ \cup {k}]
    BY <2>1 DEF CompletedSteps
  <2>3. k = StepCount /\ status' = [status EXCEPT ![e] = "succeeded"]
    BY <1>4 DEF CompleteExecution
  <2> QED
    BY <1>1, <1>2, <2>2, <2>3 DEF CanSettle, Lifecycle!CompleteStep
<1> QED
  BY <1>3, <1>4 DEF CompleteClaimedExecutionStep

(* Every transaction is a step of the lifecycle or invisible to it.        *)
LEMMA NextLifecycle ==
  ASSUME RowsTypeOK, StoreInvariant, StoreStep
  PROVE  [Lifecycle!Next]_(Lifecycle!vars)
<1> USE DEF Lifecycle!Move
<1>1. ASSUME NEW e \in Executions, TriggerExecution(e) PROVE Lifecycle!Trigger(e)
  <2>1. stepRuns[e][1] = NoStepRun /\ 1 \in Steps
    BY <1>1, StepCountAssumption
       DEF StoreInvariant, ExecutionAndStepsAgree, StatusAgreesWithSteps, TriggerExecution, Steps
  <2>2. CompletedSteps' = CompletedSteps
    BY <1>1, <2>1, CompletedKept DEF RowsTypeOK, TriggerExecution, NoStepRun, QueuedStepRun, Absent
  <2> QED
    BY <1>1, <2>2 DEF TriggerExecution, Absent, Lifecycle!Trigger
<1>2. ASSUME NEW e \in Executions, CancelExecution(e) PROVE Lifecycle!Cancel(e)
  <2>1. CompletedSteps' = CompletedSteps
    BY <1>2, CancelRows, CompletedKept DEF CancellableSteps, CancellableStepRunStatuses
  <2> QED
    BY <1>2, <2>1 DEF CancelExecution, CancellableExecutionStatuses, Lifecycle!Cancel
<1>3. ASSUME NEW e \in Executions, NEW k \in Steps, ClaimQueuedExecutionStep(e, k)
      PROVE  Lifecycle!Start(e) \/ UNCHANGED Lifecycle!vars
  <2>1. CompletedSteps' = CompletedSteps
    BY <1>3, CompletedKept DEF RowsTypeOK, ClaimQueuedExecutionStep, IsOldestQueuedStep
  <2>2. CASE status[e] = "queued"
    BY <1>3, <2>1, <2>2 DEF ClaimQueuedExecutionStep, Lifecycle!Start
  <2>3. CASE status[e] = "running"
    BY <1>3, <2>1, <2>3 DEF RowsTypeOK, ClaimQueuedExecutionStep, Lifecycle!vars
  <2> QED
    BY <1>3, <2>2, <2>3 DEF ClaimQueuedExecutionStep
<1>4. ASSUME NEW e \in Executions, NEW k \in Steps, CompleteClaimedExecutionStep(e, k)
      PROVE  Lifecycle!CompleteStep(e, k)
  BY <1>4, CompleteIsCompleteStep
<1>5. ASSUME NEW e \in Executions, NEW k \in Steps, Requeue(e, k)
      PROVE  UNCHANGED Lifecycle!vars
  <2>1. CompletedSteps' = CompletedSteps
    BY <1>5, CompletedKept DEF RowsTypeOK, Requeue, CanSettle, InStatus
  <2> QED
    BY <1>5, <2>1 DEF Requeue, Lifecycle!vars
<1>6. ASSUME NEW e \in Executions, NEW k \in Steps, CanSettle(e, k), FailStepAndExecution(e, k)
      PROVE  Lifecycle!Fail(e)
  <2>1. CompletedSteps' = CompletedSteps
    BY <1>6, CompletedKept DEF RowsTypeOK, FailStepAndExecution, CanSettle, InStatus
  <2> QED
    BY <1>6, <2>1 DEF FailStepAndExecution, CanSettle, Lifecycle!Fail
<1>7. ASSUME status' = status, stepRuns' = stepRuns PROVE UNCHANGED Lifecycle!vars
  BY <1>7 DEF CompletedSteps, Lifecycle!vars
<1>8. CASE OutboxStep
  BY <1>7, <1>8, OutboxStepRows
<1>9. CASE UNCHANGED tables
  BY <1>7, <1>9 DEF tables
<1> QED
  BY <1>1, <1>2, <1>3, <1>4, <1>5, <1>6, <1>8, <1>9, StoreStepCases
     DEF CompleteClaimedExecutionStep, Lifecycle!Next, Steps

(* The tables, retries, recovery and dispatch implement the lifecycle.     *)
THEOREM StoreImplementsLifecycle == Spec => ImplementsLifecycle
<1>1. Init => Lifecycle!Init
  BY DEF Init, Lifecycle!Init, CompletedSteps, Absent, QueuedStepRun, NoStepRun
<1>2. TypeOK /\ StoreInvariant /\ [Next]_vars => [Lifecycle!Next]_(Lifecycle!vars)
  BY NextIsStoreStep, NextLifecycle DEF TypeOK
<1> QED
  BY <1>1, <1>2, StoreTypeCorrect, StoreSafe, PTL
     DEF Spec, ImplementsLifecycle, Lifecycle!Spec
===============================================================================
