----------------------------- MODULE WorkerRuntime -----------------------------
(***************************************************************************)
(* The worker processes of apps/worker around the tables of                *)
(* ExecutionStore and the BullMQ queue between them.                       *)
(*                                                                         *)
(* Each process runs four loops that interleave at every await: an outbox  *)
(* dispatcher, a reconciler, the recovery scan, and up to Concurrency      *)
(* BullMQ jobs.  Processes crash, publications fail, jobs stall and Redis  *)
(* loses jobs, at most MaxFaults times in a behaviour.                     *)
(*                                                                         *)
(* A process and its dispatcher share a name here.  The code draws a new   *)
(* dispatcher id when a process restarts; the restarted process has an     *)
(* empty batch, and a lease can be taken over at any moment, so no action  *)
(* can tell the difference.                                                *)
(***************************************************************************)
EXTENDS ExecutionStore

CONSTANTS
  Concurrency, \* jobs a worker process works on at the same time
  MaxFaults    \* bound on the faults of a behaviour, for TLC

ASSUME ConcurrencyAssumption == Concurrency \in Nat \ {0}
ASSUME MaxFaultsAssumption == MaxFaults \in Nat

VARIABLES
  jobs,       \* the BullMQ jobs that Redis holds, by deterministic job id
  slots,      \* what each job processor of each worker is doing
  batch,      \* the outbox rows a dispatcher has claimed and not dealt with
  publishing, \* the row among them that it has published and not yet marked
  inspection, \* the local variables of a reconciler
  confirmed,  \* history: job ids BullMQ has confirmed since their row was reset
  faults      \* how many faults have happened

queueVars == <<jobs, slots>>
dispatchVars == <<batch, publishing, inspection, confirmed>>
runtimeVars == <<vars, queueVars, dispatchVars, faults>>

-------------------------------------------------------------------------------
(* Processes and jobs                                                      *)

Slots == Dispatchers \X (1..Concurrency)

Idle == [phase |-> "idle", job |-> NoOne, run |-> NoOne]

NothingInspected == [phase |-> "idle", id |-> NoOne, resetDispatched |-> FALSE]

Waiting == [state |-> "waiting", holder |-> NoOne]
Terminal == [state |-> "terminal", holder |-> NoOne]

JobState(i) == IF i \in DOMAIN jobs THEN jobs[i].state ELSE "missing"

(* BullMQ ignores an add whose job id it still holds, in whatever state.   *)
WithJob(i) == [j \in DOMAIN jobs \cup {i} |-> IF j \in DOMAIN jobs THEN jobs[j] ELSE Waiting]

WithoutJob(i) == [j \in DOMAIN jobs \ {i} |-> jobs[j]]

RuntimeInit ==
  /\ Init
  /\ jobs = [i \in {} |-> Waiting]
  /\ slots = [s \in Slots |-> Idle]
  /\ batch = [p \in Dispatchers |-> {}]
  /\ publishing = [p \in Dispatchers |-> NoOne]
  /\ inspection = [p \in Dispatchers |-> NothingInspected]
  /\ confirmed = {}
  /\ faults = 0

Fault == faults < MaxFaults /\ faults' = faults + 1

-------------------------------------------------------------------------------
(* dispatchExecutionOutboxBatch                                            *)

(* The holder of the row's lease is still about to publish or mark it.     *)
InProgress(i) == \E p \in Dispatchers : outbox[i].lockedBy = p /\ i \in batch[p]

(* dispatchRunning keeps a process from claiming a second batch.  That a   *)
(* lease expires under a live dispatcher is a fault: it has been slower    *)
(* than OUTBOX_DISPATCH_LEASE_MS.                                          *)
ClaimBatch(p) ==
  /\ batch[p] = {}
  /\ \E rows \in SUBSET ClaimableOutbox :
       /\ ClaimDueExecutionOutbox(p, rows)
       /\ batch' = [batch EXCEPT ![p] = rows]
       /\ IF \E i \in rows : InProgress(i) THEN Fault ELSE UNCHANGED faults
  /\ UNCHANGED <<queueVars, publishing, inspection, confirmed>>

Publish(p, i) ==
  /\ publishing[p] = NoOne
  /\ i \in batch[p]
  /\ jobs' = WithJob(i)
  /\ publishing' = [publishing EXCEPT ![p] = i]
  /\ confirmed' = confirmed \cup {i}
  /\ UNCHANGED <<vars, slots, batch, inspection, faults>>

Dealt(p, i) ==
  /\ batch' = [batch EXCEPT ![p] = @ \ {i}]
  /\ publishing' = [publishing EXCEPT ![p] = NoOne]
  /\ UNCHANGED <<queueVars, inspection, confirmed>>

(* Broken: the row is marked by its id alone.                              *)
UnguardedMark(p) ==
  LET i == publishing[p] IN
    /\ i # NoOne
    /\ outbox' = [outbox EXCEPT ![i] =
         [state |-> "dispatched", due |-> TRUE, lockedBy |-> NoOne]]
    /\ UNCHANGED <<status, stepRuns, events, scan>>
    /\ Dealt(p, i)
    /\ UNCHANGED faults

MarkPublished(p) ==
  LET i == publishing[p] IN
    /\ i # NoOne
    /\ IF HoldsLease(p, i) THEN MarkExecutionOutboxDispatched(p, i) ELSE UNCHANGED vars
    /\ Dealt(p, i)
    /\ UNCHANGED faults

(* Redis or PostgreSQL fails before the row is marked, perhaps after the   *)
(* queue has taken the job.                                                *)
DispatchFails(p, i) ==
  /\ Fault
  /\ i \in batch[p]
  /\ publishing[p] \in {NoOne, i}
  /\ IF HoldsLease(p, i) THEN MarkExecutionOutboxFailed(p, i) ELSE UNCHANGED vars
  /\ Dealt(p, i)

(* PostgreSQL also fails when the failure is recorded: the rest of the     *)
(* batch keeps its lease until it expires.                                 *)
DispatchAborts(p) ==
  /\ Fault
  /\ batch[p] # {}
  /\ batch' = [batch EXCEPT ![p] = {}]
  /\ publishing' = [publishing EXCEPT ![p] = NoOne]
  /\ UNCHANGED <<vars, queueVars, inspection, confirmed>>

-------------------------------------------------------------------------------
(* reconcileQueuedExecutionDispatches, one candidate of its list at a time *)

Inspect(p, found) ==
  /\ inspection' = [inspection EXCEPT ![p] = found]
  /\ UNCHANGED <<batch, publishing>>

ListCandidate(p, e, k) ==
  /\ inspection[p].phase = "idle"
  /\ stepRuns[e][k].status = "queued"
  /\ status[e] \in {"queued", "running"}
  /\ Inspect(p, [phase |-> "listed", id |-> NextDispatchId(e, k), resetDispatched |-> FALSE])
  /\ UNCHANGED <<vars, queueVars, confirmed, faults>>

ReadIntent(p) ==
  LET i == inspection[p].id IN
    /\ inspection[p].phase = "listed"
    /\ IF i \in DOMAIN outbox /\ outbox[i].state # "dispatched"
         THEN Inspect(p, NothingInspected)
         ELSE Inspect(p, [phase |-> "read", id |-> i, resetDispatched |-> i \in DOMAIN outbox])
    /\ UNCHANGED <<vars, queueVars, confirmed, faults>>

(* Broken: a job that Redis no longer holds is taken for one on its way.    *)
OnlyTerminalJobsRepaired(p) ==
  LET i == inspection[p].id IN
    /\ inspection[p].phase = "read"
    /\ IF JobState(i) # "terminal"
         THEN Inspect(p, NothingInspected)
         ELSE Inspect(p, [inspection[p] EXCEPT !.phase = JobState(i)])
    /\ UNCHANGED <<vars, queueVars, confirmed, faults>>

ReadJob(p) ==
  LET i == inspection[p].id IN
    /\ inspection[p].phase = "read"
    /\ IF JobState(i) \in {"waiting", "active"}
         THEN Inspect(p, NothingInspected)
         ELSE Inspect(p, [inspection[p] EXCEPT !.phase = JobState(i)])
    /\ UNCHANGED <<vars, queueVars, confirmed, faults>>

(* By now another process may have published the job again.  BullMQ        *)
(* refuses to remove an active job, which ends the pass.                   *)
RemoveTerminalJob(p) ==
  LET i == inspection[p].id IN
    /\ inspection[p].phase = "terminal"
    /\ IF JobState(i) = "active"
         THEN Inspect(p, NothingInspected) /\ UNCHANGED jobs
         ELSE Inspect(p, [inspection[p] EXCEPT !.phase = "missing"]) /\ jobs' = WithoutJob(i)
    /\ UNCHANGED <<vars, slots, confirmed, faults>>

(* Broken: a step that never had an intent gets none.                      *)
NeverCreatesIntent(i, resetDispatched) ==
  /\ StillQueuedFor(i[1], i[2], i[3])
  /\ i \in DOMAIN outbox
  /\ resetDispatched /\ outbox[i].state # "discarded"

NeedsRepair(i, resetDispatched) ==
  /\ StillQueuedFor(i[1], i[2], i[3])
  /\ i \in DOMAIN outbox => resetDispatched /\ outbox[i].state # "discarded"

Repair(p) ==
  LET i == inspection[p].id
      reset == inspection[p].resetDispatched IN
    /\ inspection[p].phase = "missing"
    /\ IF NeedsRepair(i, reset)
         THEN /\ EnsureQueuedStepDispatch(i[1], i[2], i[3], reset)
              /\ confirmed' = confirmed \ {i}
         ELSE UNCHANGED <<vars, confirmed>>
    /\ Inspect(p, NothingInspected)
    /\ UNCHANGED <<queueVars, faults>>

-------------------------------------------------------------------------------
(* The BullMQ processor                                                    *)

ReceiveJob(s, i) ==
  /\ slots[s].phase = "idle"
  /\ JobState(i) = "waiting"
  /\ jobs' = [jobs EXCEPT ![i] = [state |-> "active", holder |-> s]]
  /\ slots' = [slots EXCEPT ![s] = [phase |-> "received", job |-> i, run |-> NoOne]]
  /\ UNCHANGED <<vars, dispatchVars, faults>>

(* A processor that has lost the lock of its job cannot move the job.      *)
MoveJob(s, moved) ==
  LET i == slots[s].job IN
    jobs' = IF JobState(i) = "active" /\ jobs[i].holder = s
              THEN [jobs EXCEPT ![i] = moved]
              ELSE jobs

FinishJob(s) ==
  /\ MoveJob(s, Terminal)
  /\ slots' = [slots EXCEPT ![s] = Idle]
  /\ UNCHANGED <<dispatchVars, faults>>

Claimable(e) ==
  /\ status[e] \in {"queued", "running"}
  /\ \E k \in Steps : stepRuns[e][k].status = "queued"

ClaimStep(s) ==
  LET e == slots[s].job[1] IN
    /\ slots[s].phase = "received"
    /\ \E k \in Steps :
         /\ ClaimQueuedExecutionStep(e, k)
         /\ slots' = [slots EXCEPT ![s] =
              [phase |-> "executing", job |-> @.job,
               run |-> <<e, k, stepRuns'[e][k].attemptCount>>]]
    /\ UNCHANGED <<jobs, dispatchVars, faults>>

SkipJob(s) ==
  /\ slots[s].phase = "received"
  /\ ~Claimable(slots[s].job[1])
  /\ FinishJob(s)
  /\ UNCHANGED vars

ReportSuccess(s) ==
  LET e == slots[s].run[1]
      k == slots[s].run[2] IN
    /\ slots[s].phase = "executing"
    /\ IF CanSettle(e, k) THEN CompleteClaimedExecutionStep(e, k) ELSE UNCHANGED vars
    /\ FinishJob(s)

ReportFailure(s, retryable) ==
  LET e == slots[s].run[1]
      k == slots[s].run[2] IN
    /\ slots[s].phase = "executing"
    /\ IF CanSettle(e, k)
         THEN FailOrRetryClaimedExecutionStep(e, k, retryable)
         ELSE UNCHANGED vars
    /\ FinishJob(s)

(* PostgreSQL fails in the claim or in the report: BullMQ delivers the job *)
(* again, or gives up after its third attempt.                             *)
JobThrows(s) ==
  /\ Fault
  /\ slots[s].phase # "idle"
  /\ \E moved \in {Waiting, Terminal} : MoveJob(s, moved)
  /\ slots' = [slots EXCEPT ![s] = Idle]
  /\ UNCHANGED <<vars, dispatchVars>>

-------------------------------------------------------------------------------
(* Redis and the processes                                                 *)

Orphaned(i) == JobState(i) = "active" /\ slots[jobs[i].holder].job # i

Stall(i) ==
  /\ \E moved \in {Waiting, Terminal} : jobs' = [jobs EXCEPT ![i] = moved]
  /\ UNCHANGED <<vars, slots, dispatchVars>>

(* The lock of a crashed worker's job expires.                             *)
OrphanStalls(i) == Orphaned(i) /\ Stall(i) /\ UNCHANGED faults

(* A live worker fails to renew the lock of its job in time.               *)
LiveJobStalls(i) == Fault /\ JobState(i) = "active" /\ ~Orphaned(i) /\ Stall(i)

(* Redis keeps a limited number of completed and of failed jobs.           *)
EvictJob(i) ==
  /\ JobState(i) = "terminal"
  /\ jobs' = WithoutJob(i)
  /\ UNCHANGED <<vars, slots, dispatchVars, faults>>

LoseJob(i) ==
  /\ Fault
  /\ JobState(i) = "waiting"
  /\ jobs' = WithoutJob(i)
  /\ UNCHANGED <<vars, slots, dispatchVars>>

Crash(p) ==
  /\ Fault
  /\ slots' = [s \in Slots |-> IF s[1] = p THEN Idle ELSE slots[s]]
  /\ batch' = [batch EXCEPT ![p] = {}]
  /\ publishing' = [publishing EXCEPT ![p] = NoOne]
  /\ inspection' = [inspection EXCEPT ![p] = NothingInspected]
  /\ RecoveryAborts(p)
  /\ UNCHANGED <<jobs, confirmed>>

(* PostgreSQL fails in the transaction of a recovery.                      *)
RecoveryFails(p) ==
  /\ Fault
  /\ scan[p] # {}
  /\ RecoveryAborts(p)
  /\ UNCHANGED <<queueVars, dispatchVars>>

-------------------------------------------------------------------------------
(* The API and the clock                                                   *)

Quietly(StoreStep) == StoreStep /\ UNCHANGED <<queueVars, dispatchVars, faults>>

Trigger(e) == Quietly(TriggerExecution(e))
Cancel(e) == Quietly(CancelExecution(e))
Recover(p) == Quietly(RecoveryStep(p))
Due(i) == Quietly(BecomeDue(i))

-------------------------------------------------------------------------------
ReconcilerStep(p) ==
  \/ \E e \in Executions, k \in Steps : ListCandidate(p, e, k)
  \/ ReadIntent(p) \/ ReadJob(p) \/ RemoveTerminalJob(p) \/ Repair(p)

DispatcherStep(p) ==
  ClaimBatch(p) \/ MarkPublished(p) \/ \E i \in batch[p] : Publish(p, i)

ReportStep(s) ==
  ReportSuccess(s) \/ \E retryable \in BOOLEAN : ReportFailure(s, retryable)

ProcessorStep(s) == ClaimStep(s) \/ SkipJob(s) \/ ReportStep(s)

RuntimeNext ==
  \/ \E e \in Executions : Trigger(e) \/ Cancel(e)
  \/ \E i \in DOMAIN outbox : Due(i)
  \/ \E p \in Dispatchers :
       \/ DispatcherStep(p) \/ ReconcilerStep(p) \/ Recover(p)
       \/ DispatchAborts(p) \/ RecoveryFails(p) \/ Crash(p)
       \/ \E i \in batch[p] : DispatchFails(p, i)
  \/ \E s \in Slots :
       \/ ProcessorStep(s) \/ JobThrows(s)
       \/ \E i \in DOMAIN jobs : ReceiveJob(s, i)
  \/ \E i \in DOMAIN jobs :
       OrphanStalls(i) \/ LiveJobStalls(i) \/ EvictJob(i) \/ LoseJob(i)

(* The loops are timers that fire forever and a restarted process starts   *)
(* them again; every step ends, since the requests of an executor have     *)
(* timeouts, its own or the client library's; BullMQ delivers a waiting    *)
(* job to an idle processor and checks for stalled jobs; the recovery scan *)
(* runs in every process.  Nothing is fair about triggers, cancellations,  *)
(* evictions and faults.                                                   *)
Fairness ==
  /\ \A p \in Dispatchers :
       /\ WF_runtimeVars(DispatcherStep(p)) /\ WF_runtimeVars(ReconcilerStep(p))
       /\ WF_runtimeVars(Recover(p))
  /\ \A s \in Slots :
       /\ WF_runtimeVars(ProcessorStep(s))
       /\ WF_runtimeVars(\E i \in DOMAIN jobs : ReceiveJob(s, i))
  /\ WF_runtimeVars(\E i \in DOMAIN jobs : OrphanStalls(i))
  /\ WF_runtimeVars(\E i \in DOMAIN outbox : Due(i))

RuntimeSpec == RuntimeInit /\ [][RuntimeNext]_runtimeVars

FairRuntimeSpec == RuntimeSpec /\ Fairness

-------------------------------------------------------------------------------
(* Properties                                                              *)

(* Redelivered jobs, retries and recovery never make two processors work   *)
(* on the same attempt of a step: "PostgreSQL step claiming makes          *)
(* execution idempotent" (ADR 002).                                        *)
AttemptHasOneWorker ==
  \A s, t \in Slots :
    s # t /\ slots[s].phase = "executing" /\ slots[t].phase = "executing" =>
      slots[s].run # slots[t].run

(* A dispatcher "marks an outbox row dispatched only after BullMQ confirms *)
(* publication" (ADR 002), even when its lease has expired, another one    *)
(* has published and marked the row, and the reconciler has reset it.      *)
DispatchedAfterPublication ==
  [][\A i \in DOMAIN outbox :
       outbox[i].state = "pending" /\ outbox'[i].state = "dispatched" =>
         i \in confirmed]_runtimeVars

(* Whatever the processes do to the tables, they do by the functions of    *)
(* the repository layer, so what holds of ExecutionStore holds here.       *)
RuntimeUsesStore == Spec

(* A triggered execution ends: no crash, lost job, expired lease or failed *)
(* publication leaves it queued or running forever.                        *)
EveryExecutionEnds ==
  \A e \in Executions : status[e] = "queued" ~> status[e] \in ExecutionTerminalStatuses

Undispatched(i) == i \in DOMAIN outbox /\ outbox[i].state = "pending"

(* A step that is tried once is never recovered, whatever a scan has read; *)
(* the others are bounded by OverrunsBoundedByScans.                       *)
PossibleAttempts(k) ==
  1..(IF MaxAttempts[k] = 1 THEN 1 ELSE MaxAttempts[k] + Cardinality(Dispatchers))

(* An intent does not stay pending: it is dispatched, or a cancellation    *)
(* has discarded it.                                                       *)
EveryIntentIsSettled ==
  \A e \in Executions, k \in Steps : \A n \in PossibleAttempts(k) :
    Undispatched(<<e, k, n>>) ~> ~Undispatched(<<e, k, n>>)

(* Recovery "marks the execution failed when attempts are exhausted"       *)
(* (apps/worker/README.md): a worker whose attempt was recovered does not  *)
(* fail the execution when it reports late, while the attempt that was     *)
(* queued in its place is still running.                                   *)
OnlyLatestAttemptFails ==
  [][\A s \in Slots :
       LET e == slots[s].run[1]
           k == slots[s].run[2] IN
         /\ slots[s].phase = "executing" /\ slots'[s].phase = "idle"
         /\ status[e] = "running" /\ status'[e] = "failed"
         => slots[s].run[3] = stepRuns[e][k].attemptCount]_runtimeVars
===============================================================================
