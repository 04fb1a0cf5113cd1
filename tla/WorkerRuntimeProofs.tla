------------------------- MODULE WorkerRuntimeProofs -------------------------
(***************************************************************************)
(* Proofs that the worker processes do to the tables only what the store   *)
(* allows, so that its theorems hold of the runtime, and that no attempt   *)
(* has two workers, for every number of processes, processors and faults.  *)
(***************************************************************************)
EXTENDS WorkerRuntime, RetryPolicyProofs

JobsHold == DOMAIN jobs \subseteq DispatchIds

BatchesHold == batch \in [Dispatchers -> SUBSET DispatchIds]

SlotHolds(slot) ==
  /\ slot = [phase |-> slot.phase, job |-> slot.job, run |-> slot.run]
  /\ slot.phase \in {"idle", "received", "executing"}
  /\ slot.phase # "idle" => slot.job \in DispatchIds
  /\ slot.phase = "executing" => slot.run \in DispatchIds

SlotsHold ==
  /\ slots = [s \in Slots |-> slots[s]]
  /\ \A s \in Slots : SlotHolds(slots[s])

InspectionHolds(found) ==
  /\ found = [phase |-> found.phase, id |-> found.id,
              resetDispatched |-> found.resetDispatched]
  /\ found.phase # "idle" => found.id \in DispatchIds /\ found.resetDispatched \in BOOLEAN

InspectionsHold ==
  /\ inspection = [p \in Dispatchers |-> inspection[p]]
  /\ \A p \in Dispatchers : InspectionHolds(inspection[p])

(* What the loops remember are ids of rows and jobs.                       *)
RuntimeTypes == TypeOK /\ JobsHold /\ BatchesHold /\ SlotsHold /\ InspectionsHold

-------------------------------------------------------------------------------
LEMMA RuntimeInitTypes == RuntimeInit => RuntimeTypes
<1> SUFFICES ASSUME RuntimeInit PROVE RuntimeTypes
  OBVIOUS
<1>1. TypeOK
  BY InitType DEF RuntimeInit
<1>2. JobsHold /\ BatchesHold
  BY DEF RuntimeInit, JobsHold, BatchesHold
<1>3. SlotsHold
  BY DEF RuntimeInit, SlotsHold, SlotHolds, Idle
<1>4. InspectionsHold
  BY DEF RuntimeInit, InspectionsHold, InspectionHolds, NothingInspected
<1> QED
  BY <1>1, <1>2, <1>3, <1>4 DEF RuntimeTypes

(* The transactions of the API, the recovery and the clock.                *)
LEMMA QuietStep ==
  ASSUME \/ \E e \in Executions : Trigger(e) \/ Cancel(e)
         \/ \E i \in DOMAIN outbox : Due(i)
         \/ \E p \in Dispatchers : Recover(p) \/ RecoveryFails(p)
  PROVE  Next /\ UNCHANGED <<queueVars, dispatchVars>>
<1>1. ASSUME NEW e \in Executions, Trigger(e)
      PROVE  Next /\ UNCHANGED <<queueVars, dispatchVars>>
  BY <1>1, SMT DEF Trigger, Quietly, Next, OtherTransaction
<1>2. ASSUME NEW e \in Executions, Cancel(e)
      PROVE  Next /\ UNCHANGED <<queueVars, dispatchVars>>
  BY <1>2, SMT DEF Cancel, Quietly, Next, OtherTransaction
<1>3. ASSUME NEW p \in Dispatchers, Recover(p) \/ RecoveryFails(p)
      PROVE  Next /\ UNCHANGED <<queueVars, dispatchVars>>
  BY <1>3, SMT DEF Recover, RecoveryFails, Quietly, Next
<1>4. ASSUME NEW i \in DOMAIN outbox, Due(i)
      PROVE  Next /\ UNCHANGED <<queueVars, dispatchVars>>
  BY <1>4, SMT DEF Due, Quietly, Next, OtherTransaction
<1> QED
  BY <1>1, <1>2, <1>3, <1>4, SMT

(* A dispatcher claims, marks and gives back rows.                         *)
LEMMA DispatcherUsesStore ==
  ASSUME NEW p \in Dispatchers,
         \/ DispatcherStep(p) \/ DispatchAborts(p)
         \/ \E i \in batch[p] : DispatchFails(p, i)
  PROVE  Next \/ UNCHANGED vars
<1>1. CASE ClaimBatch(p)
  BY <1>1 DEF ClaimBatch, Next, OtherTransaction
<1>2. CASE MarkPublished(p)
  BY <1>2 DEF MarkPublished, HoldsLease, Next, OtherTransaction
<1>3. CASE \E i \in batch[p] : DispatchFails(p, i)
  BY <1>3 DEF DispatchFails, HoldsLease, Next, OtherTransaction
<1>4. CASE DispatchAborts(p) \/ \E i \in batch[p] : Publish(p, i)
  BY <1>4 DEF DispatchAborts, Publish
<1> QED
  BY <1>1, <1>2, <1>3, <1>4 DEF DispatcherStep

(* A reconciler repairs rows of steps that are still queued.               *)
LEMMA ReconcilerUsesStore ==
  ASSUME RuntimeTypes, NEW p \in Dispatchers, ReconcilerStep(p)
  PROVE  Next \/ UNCHANGED vars
<1>1. CASE Repair(p)
  <2> DEFINE i == inspection[p].id
             reset == inspection[p].resetDispatched
  <2>1. i \in DispatchIds /\ reset \in BOOLEAN
    BY <1>1 DEF Repair, RuntimeTypes, InspectionsHold, InspectionHolds
  <2>2. i[1] \in Executions /\ i[2] \in Steps
    BY <2>1 DEF DispatchIds
  <2>3. CASE NeedsRepair(i, reset)
    <3>1. i[3] = stepRuns[i[1]][i[2]].attemptCount + 1
      BY <2>3 DEF NeedsRepair, StillQueuedFor
    <3>2. EnsureQueuedStepDispatch(i[1], i[2], i[3], reset)
      BY <1>1, <2>3 DEF Repair
    <3> HIDE DEF i, reset
    <3>3. EnsureQueuedStepDispatch(i[1], i[2], stepRuns[i[1]][i[2]].attemptCount + 1, reset)
      BY <3>1, <3>2, Zenon
    <3> QED
      BY <2>1, <2>2, <3>3 DEF Next, OtherTransaction
  <2>4. CASE ~NeedsRepair(i, reset)
    BY <1>1, <2>4 DEF Repair
  <2> QED
    BY <2>3, <2>4
<1>2. CASE \/ \E e \in Executions, k \in Steps : ListCandidate(p, e, k)
           \/ ReadIntent(p) \/ ReadJob(p) \/ RemoveTerminalJob(p)
  BY <1>2 DEF ListCandidate, ReadIntent, ReadJob, RemoveTerminalJob
<1> QED
  BY <1>1, <1>2 DEF ReconcilerStep

(* A processor claims and reports steps of executions that exist.          *)
LEMMA ProcessorUsesStore ==
  ASSUME RuntimeTypes, NEW s \in Slots,
         ProcessorStep(s) \/ JobThrows(s) \/ \E i \in DOMAIN jobs : ReceiveJob(s, i)
  PROVE  Next \/ UNCHANGED vars
<1>1. CASE ClaimStep(s)
  <2>1. slots[s].job[1] \in Executions
    BY <1>1 DEF ClaimStep, RuntimeTypes, SlotsHold, SlotHolds, DispatchIds
  <2> QED
    BY <1>1, <2>1 DEF ClaimStep, Next, OtherTransaction
<1>2. CASE ReportStep(s)
  <2>1. slots[s].run \in DispatchIds
    BY <1>2 DEF ReportStep, ReportSuccess, ReportFailure, RuntimeTypes, SlotsHold, SlotHolds
  <2>2. slots[s].run[1] \in Executions /\ slots[s].run[2] \in Steps
    BY <2>1 DEF DispatchIds
  <2> QED
    BY <1>2, <2>2 DEF ReportStep, ReportSuccess, ReportFailure, Next, OtherTransaction
<1>3. CASE SkipJob(s) \/ JobThrows(s) \/ \E i \in DOMAIN jobs : ReceiveJob(s, i)
  BY <1>3 DEF SkipJob, JobThrows, ReceiveJob
<1> QED
  BY <1>1, <1>2, <1>3 DEF ProcessorStep

LEMMA RuntimeStepUsesStore ==
  ASSUME RuntimeTypes, [RuntimeNext]_runtimeVars
  PROVE  [Next]_vars
<1>1. CASE UNCHANGED runtimeVars
  BY <1>1 DEF runtimeVars
<1>2. CASE \E p \in Dispatchers :
             \/ DispatcherStep(p) \/ ReconcilerStep(p) \/ DispatchAborts(p) \/ Crash(p)
             \/ \E i \in batch[p] : DispatchFails(p, i)
  <2>1. PICK p \in Dispatchers :
             \/ DispatcherStep(p) \/ ReconcilerStep(p) \/ DispatchAborts(p) \/ Crash(p)
             \/ \E i \in batch[p] : DispatchFails(p, i)
    BY <1>2
  <2>2. CASE Crash(p)
    BY <2>2 DEF Crash, Next
  <2> QED
    BY <2>1, <2>2, DispatcherUsesStore, ReconcilerUsesStore
<1>3. CASE \E i \in DOMAIN jobs :
             OrphanStalls(i) \/ LiveJobStalls(i) \/ EvictJob(i) \/ LoseJob(i)
  BY <1>3 DEF OrphanStalls, LiveJobStalls, Stall, EvictJob, LoseJob
<1> QED
  BY <1>1, <1>2, <1>3, QuietStep, ProcessorUsesStore DEF RuntimeNext

-------------------------------------------------------------------------------
(* The queue                                                               *)

(* Moving a job changes no key of the queue.                               *)
LEMMA MoveJobKeys ==
  ASSUME NEW s \in Slots, NEW moved, MoveJob(s, moved)
  PROVE  DOMAIN jobs' = DOMAIN jobs
BY DEF MoveJob

LEMMA StallKeys ==
  ASSUME NEW i \in DOMAIN jobs, Stall(i)
  PROVE  DOMAIN jobs' = DOMAIN jobs
BY DEF Stall

(* Only a publication gives the queue a new job, that of a claimed row.    *)
LEMMA JobsStep ==
  ASSUME RuntimeTypes, [RuntimeNext]_runtimeVars
  PROVE  JobsHold'
<1> SUFFICES DOMAIN jobs' \subseteq DispatchIds
  BY DEF JobsHold
<1>1. DOMAIN jobs \subseteq DispatchIds
  BY DEF RuntimeTypes, JobsHold
<1>2. SUFFICES ASSUME RuntimeNext, jobs' # jobs
               PROVE  DOMAIN jobs' \subseteq DispatchIds
  BY <1>1 DEF runtimeVars, queueVars
<1>3. ASSUME NEW p \in Dispatchers, NEW i \in batch[p], Publish(p, i)
      PROVE  DOMAIN jobs' \subseteq DispatchIds
  <2>1. i \in DispatchIds
    BY DEF RuntimeTypes, BatchesHold
  <2> QED
    BY <1>1, <1>3, <2>1 DEF Publish, WithJob
<1>4. ASSUME NEW p \in Dispatchers, ReconcilerStep(p)
      PROVE  DOMAIN jobs' \subseteq DispatchIds
  <2>1. CASE RemoveTerminalJob(p)
    BY <1>1, <1>2, <2>1 DEF RemoveTerminalJob, WithoutJob
  <2> QED
    BY <1>2, <1>4, <2>1 DEF ReconcilerStep, ListCandidate, ReadIntent, ReadJob, Repair, queueVars
<1>5. ASSUME NEW s \in Slots, ProcessorStep(s) \/ JobThrows(s)
      PROVE  DOMAIN jobs' \subseteq DispatchIds
  <2>1. CASE ClaimStep(s)
    BY <1>2, <2>1 DEF ClaimStep
  <2>2. CASE SkipJob(s) \/ ReportStep(s)
    <3>1. MoveJob(s, Terminal)
      BY <2>2 DEF SkipJob, ReportStep, ReportSuccess, ReportFailure, FinishJob
    <3> QED
      BY <1>1, <3>1, MoveJobKeys
  <2>3. CASE JobThrows(s)
    <3>1. \E moved \in {Waiting, Terminal} : MoveJob(s, moved)
      BY <2>3 DEF JobThrows
    <3> QED
      BY <1>1, <3>1, MoveJobKeys
  <2> QED
    BY <1>5, <2>1, <2>2, <2>3 DEF ProcessorStep
<1>6. ASSUME NEW s \in Slots, NEW i \in DOMAIN jobs, ReceiveJob(s, i)
      PROVE  DOMAIN jobs' \subseteq DispatchIds
  BY <1>1, <1>6 DEF ReceiveJob
<1>7. ASSUME NEW i \in DOMAIN jobs,
             OrphanStalls(i) \/ LiveJobStalls(i) \/ EvictJob(i) \/ LoseJob(i)
      PROVE  DOMAIN jobs' \subseteq DispatchIds
  <2>1. CASE Stall(i)
    BY <1>1, <2>1, StallKeys
  <2> QED
    BY <1>1, <1>7, <2>1 DEF OrphanStalls, LiveJobStalls, EvictJob, LoseJob, WithoutJob
<1>8. ASSUME NEW p \in Dispatchers,
             \/ ClaimBatch(p) \/ MarkPublished(p) \/ DispatchAborts(p) \/ Crash(p)
             \/ \E i \in batch[p] : DispatchFails(p, i)
      PROVE  FALSE
  BY <1>2, <1>8
     DEF ClaimBatch, MarkPublished, DispatchAborts, Crash, DispatchFails, Dealt, queueVars
<1>9. ASSUME UNCHANGED <<queueVars, dispatchVars>> PROVE FALSE
  BY <1>2, <1>9 DEF queueVars
<1> QED
  BY <1>2, <1>3, <1>4, <1>5, <1>6, <1>7, <1>8, <1>9, QuietStep DEF RuntimeNext, DispatcherStep

-------------------------------------------------------------------------------
(* The dispatchers and the reconcilers                                     *)

(* A dispatcher works on rows the outbox had when it claimed them.         *)
LEMMA BatchesStep ==
  ASSUME RuntimeTypes, [RuntimeNext]_runtimeVars
  PROVE  BatchesHold'
<1> SUFFICES batch' \in [Dispatchers -> SUBSET DispatchIds]
  BY DEF BatchesHold
<1>1. batch \in [Dispatchers -> SUBSET DispatchIds] /\ DOMAIN outbox \subseteq DispatchIds
  BY DEF RuntimeTypes, BatchesHold, TypeOK, RowsTypeOK
<1>2. SUFFICES ASSUME RuntimeNext, batch' # batch
               PROVE  batch' \in [Dispatchers -> SUBSET DispatchIds]
  BY <1>1 DEF runtimeVars, dispatchVars
<1>3. ASSUME NEW p \in Dispatchers, ClaimBatch(p)
      PROVE  batch' \in [Dispatchers -> SUBSET DispatchIds]
  <2>1. PICK rows \in SUBSET ClaimableOutbox : batch' = [batch EXCEPT ![p] = rows]
    BY <1>3 DEF ClaimBatch
  <2>2. rows \subseteq DispatchIds
    BY <1>1 DEF ClaimableOutbox
  <2> QED
    BY <1>1, <2>1, <2>2
<1>4. ASSUME NEW p \in Dispatchers, NEW i, Dealt(p, i)
      PROVE  batch' \in [Dispatchers -> SUBSET DispatchIds]
  BY <1>1, <1>4 DEF Dealt
<1>5. ASSUME NEW p \in Dispatchers,
             \/ DispatcherStep(p) \/ DispatchAborts(p) \/ Crash(p)
             \/ \E i \in batch[p] : DispatchFails(p, i)
      PROVE  batch' \in [Dispatchers -> SUBSET DispatchIds]
  <2>1. CASE MarkPublished(p)
    BY <1>4, <2>1 DEF MarkPublished
  <2>2. CASE \E i \in batch[p] : DispatchFails(p, i)
    BY <1>4, <2>2 DEF DispatchFails
  <2>3. CASE DispatchAborts(p) \/ Crash(p)
    BY <1>1, <2>3 DEF DispatchAborts, Crash
  <2>4. CASE \E i \in batch[p] : Publish(p, i)
    BY <1>2, <2>4 DEF Publish
  <2> QED
    BY <1>3, <1>5, <2>1, <2>2, <2>3, <2>4 DEF DispatcherStep
<1>6. ASSUME NEW p \in Dispatchers, ReconcilerStep(p)
      PROVE  FALSE
  BY <1>2, <1>6
     DEF ReconcilerStep, ListCandidate, ReadIntent, ReadJob, RemoveTerminalJob, Repair, Inspect
<1>7. ASSUME NEW s \in Slots,
             ProcessorStep(s) \/ JobThrows(s) \/ \E i \in DOMAIN jobs : ReceiveJob(s, i)
      PROVE  FALSE
  BY <1>2, <1>7
     DEF ProcessorStep, ClaimStep, SkipJob, ReportStep, ReportSuccess, ReportFailure,
         FinishJob, JobThrows, ReceiveJob, dispatchVars
<1>8. ASSUME NEW i \in DOMAIN jobs,
             OrphanStalls(i) \/ LiveJobStalls(i) \/ EvictJob(i) \/ LoseJob(i)
      PROVE  FALSE
  BY <1>2, <1>8 DEF OrphanStalls, LiveJobStalls, Stall, EvictJob, LoseJob, dispatchVars
<1>9. ASSUME UNCHANGED <<queueVars, dispatchVars>> PROVE FALSE
  BY <1>2, <1>9 DEF dispatchVars
<1> QED
  BY <1>2, <1>5, <1>6, <1>7, <1>8, <1>9, QuietStep DEF RuntimeNext

(* A reconciler remembers the next attempt of a step it has listed.        *)
LEMMA InspectHolds ==
  ASSUME InspectionsHold, NEW p \in Dispatchers, NEW found, Inspect(p, found),
         InspectionHolds(found)
  PROVE  InspectionsHold'
<1>1. inspection' = [inspection EXCEPT ![p] = found]
  BY DEF Inspect
<1>2. \A q \in Dispatchers : inspection'[q] = inspection[q] \/ inspection'[q] = found
  BY <1>1 DEF InspectionsHold
<1>3. inspection' = [q \in Dispatchers |-> inspection'[q]]
  BY <1>1 DEF InspectionsHold
<1>4. \A q \in Dispatchers : InspectionHolds(inspection'[q])
  BY <1>2 DEF InspectionsHold
<1> QED
  BY <1>3, <1>4 DEF InspectionsHold

LEMMA InspectionsStep ==
  ASSUME RuntimeTypes, [RuntimeNext]_runtimeVars
  PROVE  InspectionsHold'
<1>1. InspectionsHold /\ TypeOK
  BY DEF RuntimeTypes
<1>2. CASE inspection' = inspection
  BY <1>1, <1>2 DEF InspectionsHold
<1>3. InspectionHolds(NothingInspected)
  BY DEF InspectionHolds, NothingInspected
<1>4. ASSUME NEW p \in Dispatchers, NEW phase, inspection[p].phase # "idle"
      PROVE  InspectionHolds([inspection[p] EXCEPT !.phase = phase])
  <2>1. InspectionHolds(inspection[p])
    BY <1>1 DEF InspectionsHold
  <2>2. /\ inspection[p].id \in DispatchIds /\ inspection[p].resetDispatched \in BOOLEAN
        /\ [inspection[p] EXCEPT !.phase = phase]
             = [phase |-> phase, id |-> inspection[p].id,
                resetDispatched |-> inspection[p].resetDispatched]
    BY <1>4, <2>1 DEF InspectionHolds
  <2> QED
    BY <2>2 DEF InspectionHolds
<1>5. ASSUME NEW p \in Dispatchers, ReconcilerStep(p)
      PROVE  InspectionsHold'
  <2>1. ASSUME NEW e \in Executions, NEW k \in Steps, ListCandidate(p, e, k)
        PROVE  InspectionsHold'
    <3>1. NextDispatchId(e, k) \in DispatchIds
      BY <1>1, NextDispatchIdType DEF TypeOK
    <3>2. InspectionHolds([phase |-> "listed", id |-> NextDispatchId(e, k),
                           resetDispatched |-> FALSE])
      BY <3>1 DEF InspectionHolds
    <3> QED
      BY <1>1, <2>1, <3>2, InspectHolds DEF ListCandidate
  <2>2. CASE ReadIntent(p)
    <3>1. InspectionHolds(inspection[p]) /\ inspection[p].phase = "listed"
      BY <1>1, <2>2 DEF InspectionsHold, ReadIntent
    <3>2. inspection[p].id \in DispatchIds
      BY <3>1 DEF InspectionHolds
    <3>3. InspectionHolds([phase |-> "read", id |-> inspection[p].id,
                           resetDispatched |-> inspection[p].id \in DOMAIN outbox])
      BY <3>2 DEF InspectionHolds
    <3> QED
      BY <1>1, <1>3, <2>2, <3>3, InspectHolds DEF ReadIntent
  <2>3. CASE ReadJob(p)
    BY <1>1, <1>3, <1>4, <2>3, InspectHolds DEF ReadJob
  <2>4. CASE RemoveTerminalJob(p)
    BY <1>1, <1>3, <1>4, <2>4, InspectHolds DEF RemoveTerminalJob
  <2>5. CASE Repair(p)
    BY <1>1, <1>3, <2>5, InspectHolds DEF Repair
  <2> QED
    BY <1>5, <2>1, <2>2, <2>3, <2>4, <2>5 DEF ReconcilerStep
<1>6. ASSUME NEW p \in Dispatchers, Crash(p)
      PROVE  InspectionsHold'
  <2>1. inspection' = [inspection EXCEPT ![p] = NothingInspected]
    BY <1>6 DEF Crash
  <2>2. \A q \in Dispatchers : inspection'[q] = inspection[q] \/ inspection'[q] = NothingInspected
    BY <1>1, <2>1 DEF InspectionsHold
  <2>3. inspection' = [q \in Dispatchers |-> inspection'[q]]
    BY <1>1, <2>1 DEF InspectionsHold
  <2>4. \A q \in Dispatchers : InspectionHolds(inspection'[q])
    BY <1>1, <1>3, <2>2 DEF InspectionsHold
  <2> QED
    BY <2>3, <2>4 DEF InspectionsHold
<1>7. ASSUME NEW p \in Dispatchers,
             \/ DispatcherStep(p) \/ DispatchAborts(p)
             \/ \E i \in batch[p] : DispatchFails(p, i)
      PROVE  inspection' = inspection
  BY <1>7 DEF DispatcherStep, ClaimBatch, MarkPublished, Publish, DispatchAborts,
              DispatchFails, Dealt
<1>8. ASSUME NEW s \in Slots,
             ProcessorStep(s) \/ JobThrows(s) \/ \E i \in DOMAIN jobs : ReceiveJob(s, i)
      PROVE  inspection' = inspection
  BY <1>8
     DEF ProcessorStep, ClaimStep, SkipJob, ReportStep, ReportSuccess, ReportFailure,
         FinishJob, JobThrows, ReceiveJob, dispatchVars
<1>9. ASSUME NEW i \in DOMAIN jobs,
             OrphanStalls(i) \/ LiveJobStalls(i) \/ EvictJob(i) \/ LoseJob(i)
      PROVE  inspection' = inspection
  BY <1>9 DEF OrphanStalls, LiveJobStalls, Stall, EvictJob, LoseJob, dispatchVars
<1>10. ASSUME UNCHANGED <<queueVars, dispatchVars>> \/ UNCHANGED runtimeVars
       PROVE  inspection' = inspection
  BY <1>10 DEF dispatchVars, runtimeVars
<1> QED
  BY <1>2, <1>5, <1>6, <1>7, <1>8, <1>9, <1>10, QuietStep DEF RuntimeNext

-------------------------------------------------------------------------------
(* The processors                                                          *)

(* A processor claims the step it is going to execute.                     *)
Claims(s) ==
  \E k \in Steps :
    LET e == slots[s].job[1] IN
      /\ slots[s].phase = "received"
      /\ ClaimQueuedExecutionStep(e, k)
      /\ slots' = [slots EXCEPT ![s] =
           [phase |-> "executing", job |-> slots[s].job,
            run |-> <<e, k, stepRuns'[e][k].attemptCount>>]]

(* Everything else leaves a processor alone, gives it a job or frees it.   *)
Released(s) ==
  \/ slots'[s] = slots[s]
  \/ slots'[s] = Idle
  \/ \E i \in DOMAIN jobs : slots'[s] = [phase |-> "received", job |-> i, run |-> NoOne]

LEMMA SlotsStep ==
  ASSUME RuntimeTypes, [RuntimeNext]_runtimeVars
  PROVE  /\ slots' = [s \in Slots |-> slots'[s]]
         /\ (\E s \in Slots : Claims(s)) \/ (\A s \in Slots : Released(s))
<1>1. slots = [s \in Slots |-> slots[s]]
  BY DEF RuntimeTypes, SlotsHold
<1> DEFINE Shape == slots' = [s \in Slots |-> slots'[s]]
           AllReleased == \A s \in Slots : Released(s)
<1>2. CASE slots' = slots
  <2>1. AllReleased
    BY <1>2 DEF Released
  <2> QED
    BY <1>1, <1>2, <2>1
<1>3. ASSUME NEW s \in Slots, slots' = [slots EXCEPT ![s] = Idle]
      PROVE  Shape /\ AllReleased
  BY <1>1, <1>3 DEF Released
<1>4. ASSUME NEW s \in Slots, ProcessorStep(s) \/ JobThrows(s)
      PROVE  Shape /\ (AllReleased \/ \E t \in Slots : Claims(t))
  <2>1. CASE ClaimStep(s)
    <3>1. PICK k \in Steps :
             /\ ClaimQueuedExecutionStep(slots[s].job[1], k)
             /\ slots' = [slots EXCEPT ![s] =
                  [phase |-> "executing", job |-> slots[s].job,
                   run |-> <<slots[s].job[1], k, stepRuns'[slots[s].job[1]][k].attemptCount>>]]
      BY <1>1, <2>1 DEF ClaimStep
    <3>2. Shape
      BY <1>1, <3>1
    <3>3. Claims(s)
      BY <2>1, <3>1 DEF Claims, ClaimStep
    <3> QED
      BY <3>2, <3>3
  <2>2. CASE SkipJob(s) \/ ReportStep(s) \/ JobThrows(s)
    <3>1. slots' = [slots EXCEPT ![s] = Idle]
      BY <2>2 DEF SkipJob, ReportStep, ReportSuccess, ReportFailure, FinishJob, JobThrows
    <3> QED
      BY <1>3, <3>1
  <2> QED
    BY <1>4, <2>1, <2>2 DEF ProcessorStep
<1>5. ASSUME NEW s \in Slots, NEW i \in DOMAIN jobs, ReceiveJob(s, i)
      PROVE  Shape /\ AllReleased
  BY <1>1, <1>5 DEF ReceiveJob, Released
<1>6. ASSUME NEW p \in Dispatchers, Crash(p)
      PROVE  Shape /\ AllReleased
  <2>1. slots' = [s \in Slots |-> IF s[1] = p THEN Idle ELSE slots[s]]
    BY <1>6 DEF Crash
  <2> QED
    BY <2>1 DEF Released
<1>7. ASSUME NEW p \in Dispatchers,
             \/ DispatcherStep(p) \/ ReconcilerStep(p) \/ DispatchAborts(p)
             \/ \E i \in batch[p] : DispatchFails(p, i)
      PROVE  slots' = slots
  BY <1>7 DEF DispatcherStep, ClaimBatch, MarkPublished, Publish, DispatchAborts,
              DispatchFails, Dealt, queueVars, ReconcilerStep, ListCandidate, ReadIntent,
              ReadJob, RemoveTerminalJob, Repair
<1>8. ASSUME NEW i \in DOMAIN jobs,
             OrphanStalls(i) \/ LiveJobStalls(i) \/ EvictJob(i) \/ LoseJob(i)
      PROVE  slots' = slots
  BY <1>8 DEF OrphanStalls, LiveJobStalls, Stall, EvictJob, LoseJob
<1>9. ASSUME UNCHANGED <<queueVars, dispatchVars>> \/ UNCHANGED runtimeVars
      PROVE  slots' = slots
  BY <1>9 DEF queueVars, runtimeVars
<1> QED
  BY <1>2, <1>4, <1>5, <1>6, <1>7, <1>8, <1>9, QuietStep DEF RuntimeNext

(* What a processor that claims comes to hold.                             *)
LEMMA ClaimedRun ==
  ASSUME RuntimeTypes, NEW s \in Slots, Claims(s)
  PROVE  \E e \in Executions, k \in Steps :
           /\ slots[s].job \in DispatchIds
           /\ stepRuns[e][k] \in StepRun /\ stepRuns[e][k].status = "queued"
           /\ stepRuns'[e][k] = [status |-> "running",
                                 attemptCount |-> stepRuns[e][k].attemptCount + 1]
           /\ slots' = [slots EXCEPT ![s] =
                [phase |-> "executing", job |-> slots[s].job,
                 run |-> <<e, k, stepRuns[e][k].attemptCount + 1>>]]
<1>1. slots[s].job \in DispatchIds
  BY DEF Claims, RuntimeTypes, SlotsHold, SlotHolds
<1> DEFINE e == slots[s].job[1]
<1>2. e \in Executions
  BY <1>1 DEF DispatchIds
<1>3. PICK k \in Steps :
         /\ ClaimQueuedExecutionStep(e, k)
         /\ slots' = [slots EXCEPT ![s] =
              [phase |-> "executing", job |-> slots[s].job,
               run |-> <<e, k, stepRuns'[e][k].attemptCount>>]]
  BY DEF Claims
<1> HIDE DEF e
<1>4. stepRuns[e][k] \in StepRun
  BY <1>2 DEF RuntimeTypes, TypeOK, RowsTypeOK
<1>5. /\ stepRuns[e][k].status = "queued"
      /\ stepRuns'[e][k] = [status |-> "running",
                            attemptCount |-> stepRuns[e][k].attemptCount + 1]
  BY <1>2, <1>3 DEF RuntimeTypes, TypeOK, RowsTypeOK, ClaimQueuedExecutionStep, IsOldestQueuedStep
<1>6. stepRuns'[e][k].attemptCount = stepRuns[e][k].attemptCount + 1
  BY <1>5
<1> QED
  BY <1>1, <1>2, <1>3, <1>4, <1>5, <1>6

LEMMA SlotsHoldStep ==
  ASSUME RuntimeTypes, [RuntimeNext]_runtimeVars
  PROVE  SlotsHold'
<1>1. \A s \in Slots : SlotHolds(slots[s])
  BY DEF RuntimeTypes, SlotsHold
<1>2. DOMAIN jobs \subseteq DispatchIds
  BY DEF RuntimeTypes, JobsHold
<1>3. SUFFICES \A s \in Slots : SlotHolds(slots'[s])
  BY SlotsStep DEF SlotsHold
<1>4. ASSUME NEW s \in Slots, Released(s)
      PROVE  SlotHolds(slots'[s])
  <2>1. CASE slots'[s] = slots[s]
    BY <1>1, <2>1
  <2>2. CASE slots'[s] = Idle
    BY <2>2 DEF SlotHolds, Idle
  <2>3. ASSUME NEW i \in DOMAIN jobs,
               slots'[s] = [phase |-> "received", job |-> i, run |-> NoOne]
        PROVE  SlotHolds(slots'[s])
    BY <1>2, <2>3 DEF SlotHolds
  <2> QED
    BY <1>4, <2>1, <2>2, <2>3 DEF Released
<1>5. ASSUME NEW s \in Slots, Claims(s)
      PROVE  \A t \in Slots : SlotHolds(slots'[t])
  <2>1. PICK e \in Executions, k \in Steps :
           /\ slots[s].job \in DispatchIds
           /\ stepRuns[e][k] \in StepRun
           /\ slots' = [slots EXCEPT ![s] =
                [phase |-> "executing", job |-> slots[s].job,
                 run |-> <<e, k, stepRuns[e][k].attemptCount + 1>>]]
    BY <1>5, ClaimedRun
  <2>2. <<e, k, stepRuns[e][k].attemptCount + 1>> \in DispatchIds
    BY <2>1 DEF DispatchIds, StepRun
  <2>3. slots'[s] = [phase |-> "executing", job |-> slots[s].job,
                     run |-> <<e, k, stepRuns[e][k].attemptCount + 1>>]
    BY <2>1 DEF RuntimeTypes, SlotsHold
  <2>4. SlotHolds(slots'[s])
    BY <2>1, <2>2, <2>3 DEF SlotHolds
  <2>5. \A t \in Slots \ {s} : slots'[t] = slots[t]
    BY <2>1 DEF RuntimeTypes, SlotsHold
  <2> QED
    BY <1>1, <2>4, <2>5
<1> QED
  BY <1>4, <1>5, SlotsStep

-------------------------------------------------------------------------------
(* The runtime does to the tables what the store allows                    *)

LEMMA RuntimeNextTypes ==
  ASSUME RuntimeTypes, [RuntimeNext]_runtimeVars
  PROVE  RuntimeTypes'
<1>1. TypeOK'
  BY RuntimeStepUsesStore, NextType DEF RuntimeTypes
<1> QED
  BY <1>1, JobsStep, BatchesStep, InspectionsStep, SlotsHoldStep DEF RuntimeTypes

(* The rows, jobs and steps the processes remember are of their types.     *)
THEOREM RuntimeTypesHold == RuntimeSpec => []RuntimeTypes
<1>1. RuntimeInit => RuntimeTypes
  BY RuntimeInitTypes
<1>2. RuntimeTypes /\ [RuntimeNext]_runtimeVars => RuntimeTypes'
  BY RuntimeNextTypes
<1> QED
  BY <1>1, <1>2, PTL DEF RuntimeSpec

(* Whatever the processes do, with whatever faults, a change of the tables *)
(* is one transaction of the repository layer.                             *)
THEOREM RuntimeImplementsStore == RuntimeSpec => RuntimeUsesStore
<1>1. RuntimeInit => Init
  BY DEF RuntimeInit
<1>2. RuntimeTypes /\ [RuntimeNext]_runtimeVars => [Next]_vars
  BY RuntimeStepUsesStore
<1> QED
  BY <1>1, <1>2, RuntimeTypesHold, PTL DEF RuntimeSpec, RuntimeUsesStore, Spec

(* Crashes, lost jobs, expired leases and redelivered jobs leave the       *)
(* tables, the attempts and the intents in agreement ...                   *)
THEOREM RuntimeSafe == RuntimeSpec => []StoreInvariant
BY RuntimeImplementsStore, StoreSafe DEF RuntimeUsesStore

(* ... recoveries that act on stale reads cost one attempt for each of the *)
(* processes and no more ...                                               *)
THEOREM RuntimeAttemptsBounded ==
  ASSUME IsFiniteSet(Dispatchers)
  PROVE  RuntimeSpec => []OverrunsBoundedByScans
BY RuntimeImplementsStore, AttemptsBounded DEF RuntimeUsesStore

(* ... every transition that makes a step runnable has its intent ...      *)
THEOREM RuntimeWritesIntents == RuntimeSpec => RunnableTransitionWritesIntent
BY RuntimeImplementsStore, RunnableStepsAreDispatched DEF RuntimeUsesStore

(* ... the timelines tell the rows ...                                     *)
THEOREM RuntimeTimelines == RuntimeSpec => [](TimelineRebuildsState /\ TimelineFollowsStateMachine)
BY RuntimeImplementsStore, TimelineIsAuditTrail, TimelineIsLegal, PTL DEF RuntimeUsesStore

(* ... and the worker processes and the queue keep what an execution       *)
(* promises to the user who triggers it.                                   *)
THEOREM RuntimeImplementsLifecycle == RuntimeSpec => ImplementsLifecycle
BY RuntimeImplementsStore, StoreImplementsLifecycle DEF RuntimeUsesStore

-------------------------------------------------------------------------------
(* No attempt has two workers                                              *)

(* A step run that exists is never overwritten and its attempts only grow. *)
LEMMA BegunStepMovesOn ==
  ASSUME RowsTypeOK, StoreInvariant, StoreStep,
         NEW x \in Executions, NEW j \in Steps, stepRuns[x][j].status # Absent
  PROVE  MovesOn(stepRuns[x][j], stepRuns'[x][j])
<1>1. ASSUME NEW e \in Executions, TriggerExecution(e)
      PROVE  MovesOn(stepRuns[x][j], stepRuns'[x][j])
  <2>1. e # x
    BY <1>1 DEF TriggerExecution, StoreInvariant, ExecutionAndStepsAgree,
                StatusAgreesWithSteps, NoStepRun
  <2> QED
    BY <1>1, <2>1 DEF RowsTypeOK, TriggerExecution, MovesOn
<1>2. ASSUME NEW e \in Executions, CancelExecution(e)
      PROVE  MovesOn(stepRuns[x][j], stepRuns'[x][j])
  <2>1. CASE x = e /\ j \in CancellableSteps(e)
    BY <1>2, <2>1, CancelRows DEF MovesOn, Absent
  <2>2. CASE x # e \/ j \notin CancellableSteps(e)
    BY <1>2, <2>2, CancelRows DEF MovesOn
  <2> QED
    BY <2>1, <2>2
<1>3. ASSUME NEW e \in Executions, NEW k \in Steps, ClaimQueuedExecutionStep(e, k)
      PROVE  MovesOn(stepRuns[x][j], stepRuns'[x][j])
  BY <1>3 DEF RowsTypeOK, ClaimQueuedExecutionStep, MovesOn, Absent
<1>4. ASSUME NEW e \in Executions, NEW k \in Steps, CompleteAndQueueNext(e, k)
      PROVE  MovesOn(stepRuns[x][j], stepRuns'[x][j])
  <2>1. stepRuns[e][k + 1].status = Absent /\ stepRuns[e][k].status = "running"
    BY <1>4 DEF CompleteAndQueueNext, CanSettle
  <2>2. CASE x = e /\ j = k
    BY <1>4, <2>1, <2>2, CompleteAndQueueNextRows DEF MovesOn, Absent
  <2>3. CASE x # e \/ j # k
    <3>1. stepRuns'[x][j] = stepRuns[x][j]
      BY <1>4, <2>1, <2>3, CompleteAndQueueNextRows
    <3> QED
      BY <3>1 DEF MovesOn
  <2> QED
    BY <2>2, <2>3
<1>5. ASSUME NEW e \in Executions, NEW k \in Steps, CompleteExecution(e, k)
      PROVE  MovesOn(stepRuns[x][j], stepRuns'[x][j])
  BY <1>5 DEF RowsTypeOK, CompleteExecution, CanSettle, MovesOn, InStatus, Absent
<1>6. ASSUME NEW e \in Executions, NEW k \in Steps, Requeue(e, k)
      PROVE  MovesOn(stepRuns[x][j], stepRuns'[x][j])
  BY <1>6 DEF RowsTypeOK, Requeue, CanSettle, MovesOn, InStatus, Absent
<1>7. ASSUME NEW e \in Executions, NEW k \in Steps,
             CanSettle(e, k), FailStepAndExecution(e, k)
      PROVE  MovesOn(stepRuns[x][j], stepRuns'[x][j])
  BY <1>7 DEF RowsTypeOK, FailStepAndExecution, CanSettle, MovesOn, InStatus, Absent
<1>8. CASE OutboxStep
  BY <1>8, OutboxStepRows DEF MovesOn
<1>9. CASE UNCHANGED tables
  BY <1>9 DEF tables, MovesOn
<1> QED
  BY <1>1, <1>2, <1>3, <1>4, <1>5, <1>6, <1>7, <1>8, <1>9, StoreStepCases

(* The attempt a processor executes has begun.                             *)
Begun(run) ==
  /\ stepRuns[run[1]][run[2]].status # Absent
  /\ run[3] <= stepRuns[run[1]][run[2]].attemptCount

ExecutingHasBegun ==
  \A s \in Slots : slots[s].phase = "executing" => Begun(slots[s].run)

LEMMA BegunKept ==
  ASSUME RowsTypeOK, RowsTypeOK', StoreInvariant, StoreStep,
         NEW run \in DispatchIds, Begun(run)
  PROVE  /\ stepRuns'[run[1]][run[2]].status # Absent
         /\ run[3] <= stepRuns'[run[1]][run[2]].attemptCount
<1>1. run[1] \in Executions /\ run[2] \in Steps /\ run[3] \in Nat
  BY DEF DispatchIds
<1>2. /\ stepRuns[run[1]][run[2]].attemptCount \in Nat
      /\ stepRuns'[run[1]][run[2]].attemptCount \in Nat
  BY <1>1 DEF RowsTypeOK, StepRun
<1>3. MovesOn(stepRuns[run[1]][run[2]], stepRuns'[run[1]][run[2]])
  BY <1>1, BegunStepMovesOn DEF Begun
<1> QED
  BY <1>1, <1>2, <1>3 DEF Begun, MovesOn

LEMMA OneWorkerStep ==
  ASSUME RuntimeTypes, RuntimeTypes', StoreInvariant, ExecutingHasBegun, AttemptHasOneWorker,
         [RuntimeNext]_runtimeVars
  PROVE  ExecutingHasBegun' /\ AttemptHasOneWorker'
<1>1. StoreStep /\ RowsTypeOK /\ RowsTypeOK'
  BY RuntimeStepUsesStore, NextIsStoreStep DEF RuntimeTypes, TypeOK
<1>2. ASSUME NEW s \in Slots, slots[s].phase = "executing"
      PROVE  /\ slots[s].run \in DispatchIds
             /\ stepRuns'[slots[s].run[1]][slots[s].run[2]].status # Absent
             /\ slots[s].run[3] <= stepRuns'[slots[s].run[1]][slots[s].run[2]].attemptCount
  <2>1. slots[s].run \in DispatchIds
    BY <1>2 DEF RuntimeTypes, SlotsHold, SlotHolds
  <2> QED
    BY <1>1, <1>2, <2>1, BegunKept DEF ExecutingHasBegun
<1>3. CASE \A s \in Slots : Released(s)
  <2>1. ASSUME NEW s \in Slots, slots'[s].phase = "executing"
        PROVE  slots'[s] = slots[s]
    <3>1. Idle.phase # "executing"
      BY DEF Idle
    <3>2. \A i : [phase |-> "received", job |-> i, run |-> NoOne].phase # "executing"
      OBVIOUS
    <3>3. Released(s)
      BY <1>3
    <3> QED
      BY <2>1, <3>1, <3>2, <3>3, Zenon DEF Released
  <2>2. ExecutingHasBegun'
    BY <1>2, <2>1 DEF ExecutingHasBegun, Begun
  <2>3. AttemptHasOneWorker'
    BY <2>1 DEF AttemptHasOneWorker
  <2> QED
    BY <2>2, <2>3
<1>4. ASSUME NEW s \in Slots, Claims(s)
      PROVE  ExecutingHasBegun' /\ AttemptHasOneWorker'
  <2>1. PICK e \in Executions, k \in Steps :
           /\ stepRuns[e][k] \in StepRun /\ stepRuns[e][k].status = "queued"
           /\ stepRuns'[e][k] = [status |-> "running",
                                 attemptCount |-> stepRuns[e][k].attemptCount + 1]
           /\ slots' = [slots EXCEPT ![s] =
                [phase |-> "executing", job |-> slots[s].job,
                 run |-> <<e, k, stepRuns[e][k].attemptCount + 1>>]]
    BY <1>4, ClaimedRun
  <2> DEFINE n == stepRuns[e][k].attemptCount + 1
  <2>2. /\ stepRuns'[e][k].status = "running"
        /\ stepRuns'[e][k].attemptCount = n
        /\ n \in Nat /\ n > stepRuns[e][k].attemptCount
    BY <2>1 DEF StepRun
  <2>3. slots'[s].run = <<e, k, n>>
    BY <2>1 DEF RuntimeTypes, SlotsHold
  <2>4. \A t \in Slots \ {s} : slots'[t] = slots[t]
    BY <2>1 DEF RuntimeTypes, SlotsHold
  <2> HIDE DEF n
  <2>5. ExecutingHasBegun'
    <3>1. stepRuns'[e][k].status # Absent /\ n <= stepRuns'[e][k].attemptCount
      BY <2>2 DEF Absent
    <3> QED
      BY <1>2, <2>3, <2>4, <3>1 DEF ExecutingHasBegun, Begun
  <2>6. ASSUME NEW t \in Slots \ {s}, slots[t].phase = "executing"
        PROVE  slots[t].run # <<e, k, n>>
    <3>1. SUFFICES ASSUME slots[t].run = <<e, k, n>> PROVE FALSE
      OBVIOUS
    <3>2. n <= stepRuns[e][k].attemptCount
      BY <2>6, <3>1 DEF ExecutingHasBegun, Begun
    <3> QED
      BY <2>1, <2>2, <3>2 DEF StepRun
  <2>7. AttemptHasOneWorker'
    BY <2>3, <2>4, <2>6 DEF AttemptHasOneWorker
  <2> QED
    BY <2>5, <2>7
<1> QED
  BY <1>3, <1>4, SlotsStep

(* However often a job is delivered, stalled, lost and published again, an *)
(* attempt of a step has at most one processor at work on it.              *)
THEOREM AttemptsHaveOneWorker == RuntimeSpec => []AttemptHasOneWorker
<1>1. RuntimeInit => ExecutingHasBegun /\ AttemptHasOneWorker
  BY DEF RuntimeInit, ExecutingHasBegun, AttemptHasOneWorker, Idle
<1>2. /\ RuntimeTypes /\ RuntimeTypes' /\ StoreInvariant
      /\ ExecutingHasBegun /\ AttemptHasOneWorker
      /\ [RuntimeNext]_runtimeVars
      => ExecutingHasBegun' /\ AttemptHasOneWorker'
  BY OneWorkerStep
<1> QED
  BY <1>1, <1>2, RuntimeSafe, RuntimeTypesHold, PTL DEF RuntimeSpec

-------------------------------------------------------------------------------
(* A row is marked only after its publication                              *)

(* The rows after a transaction that neither claims nor marks: no lease is *)
(* given to anyone and no pending row becomes a dispatched one.            *)
LeasesKept ==
  /\ \A i \in DOMAIN outbox' :
       outbox'[i].lockedBy # NoOne =>
         i \in DOMAIN outbox /\ outbox'[i].lockedBy = outbox[i].lockedBy
  /\ \A i \in DOMAIN outbox :
       outbox[i].state = "pending" => outbox'[i].state # "dispatched"

LEMMA WithIntentLeases ==
  ASSUME NEW i, NEW due, outbox' = WithIntent(i, due)
  PROVE  LeasesKept
BY DEF LeasesKept, WithIntent

LEMMA UnchangedLeases ==
  ASSUME outbox' = outbox
  PROVE  LeasesKept
BY DEF LeasesKept

LEMMA ApiLeases ==
  ASSUME NEW e \in Executions, TriggerExecution(e) \/ CancelExecution(e)
  PROVE  LeasesKept
<1>1. CASE TriggerExecution(e)
  BY <1>1, WithIntentLeases DEF TriggerExecution
<1>2. CASE CancelExecution(e)
  BY <1>2 DEF CancelExecution, WithPendingDiscarded, LeasesKept
<1> QED
  BY <1>1, <1>2

LEMMA RecoveryLeases ==
  ASSUME NEW p \in Dispatchers, RecoveryStep(p) \/ RecoveryAborts(p)
  PROVE  LeasesKept
<1>1. CASE UNCHANGED tables
  BY <1>1, UnchangedLeases DEF tables
<1>2. ASSUME NEW row, QueueAgain(p, row) PROVE LeasesKept
  BY <1>2, WithIntentLeases DEF QueueAgain
<1>3. ASSUME NEW row, GiveUp(p, row) PROVE LeasesKept
  BY <1>3, UnchangedLeases DEF GiveUp, FailStepAndExecution
<1> QED
  BY <1>1, <1>2, <1>3
     DEF RecoveryStep, ReadStalledSteps, RecoverStalledExecutionStep, RecoveryLost,
         RecoveryAborts

LEMMA WorkerLeases ==
  ASSUME TypeOK, NEW e, NEW k, NEW retryable \in BOOLEAN,
         \/ ClaimQueuedExecutionStep(e, k) \/ CompleteClaimedExecutionStep(e, k)
         \/ FailOrRetryClaimedExecutionStep(e, k, retryable)
  PROVE  LeasesKept
<1>1. CASE ClaimQueuedExecutionStep(e, k)
  BY <1>1, UnchangedLeases DEF ClaimQueuedExecutionStep
<1>2. CASE CompleteClaimedExecutionStep(e, k)
  BY <1>2, WithIntentLeases, UnchangedLeases
     DEF CompleteClaimedExecutionStep, CompleteAndQueueNext, CompleteExecution
<1>3. CASE FailOrRetryClaimedExecutionStep(e, k, retryable)
  BY <1>3, WithIntentLeases, UnchangedLeases
     DEF FailOrRetryClaimedExecutionStep, QueueNextAttempt, FailStepAndExecution
<1> QED
  BY <1>1, <1>2, <1>3

LEMMA RowLeases ==
  ASSUME TypeOK, NEW p \in Dispatchers, NEW i, BecomeDue(i) \/ MarkExecutionOutboxFailed(p, i)
  PROVE  LeasesKept
BY DEF BecomeDue, MarkExecutionOutboxFailed, HoldsLease, LeasesKept

(* What a dispatcher has published and not marked is in its batch, and as  *)
(* long as it holds the lease nobody has reset the row since.              *)
PublishedIsConfirmed ==
  /\ publishing = [p \in Dispatchers |-> publishing[p]]
  /\ \A p \in Dispatchers : publishing[p] # NoOne =>
       /\ publishing[p] \in batch[p]
       /\ publishing[p] \in DOMAIN outbox /\ outbox[publishing[p]].lockedBy = p =>
            publishing[p] \in confirmed

MarksConfirmed ==
  \A i \in DOMAIN outbox :
    outbox[i].state = "pending" /\ outbox'[i].state = "dispatched" => i \in confirmed

LEMMA QuietPublication ==
  ASSUME PublishedIsConfirmed, LeasesKept, UNCHANGED <<batch, publishing>>,
         confirmed \subseteq confirmed'
  PROVE  PublishedIsConfirmed' /\ MarksConfirmed
<1>1. MarksConfirmed
  BY DEF LeasesKept, MarksConfirmed
<1>2. \A p \in Dispatchers : p # NoOne
  BY NoOneAssumption
<1>3. PublishedIsConfirmed'
  BY <1>2 DEF PublishedIsConfirmed, LeasesKept
<1> QED
  BY <1>1, <1>3

LEMMA DispatcherPublication ==
  ASSUME RuntimeTypes, PublishedIsConfirmed, NEW p \in Dispatchers,
         \/ DispatcherStep(p) \/ DispatchAborts(p) \/ Crash(p)
         \/ \E i \in batch[p] : DispatchFails(p, i)
  PROVE  PublishedIsConfirmed' /\ MarksConfirmed
<1>1. /\ publishing = [q \in Dispatchers |-> publishing[q]]
      /\ batch = [q \in Dispatchers |-> batch[q]]
      /\ \A i \in DOMAIN outbox : outbox[i] \in OutboxRow
  BY DEF RuntimeTypes, BatchesHold, PublishedIsConfirmed, TypeOK, RowsTypeOK
<1>2. CASE ClaimBatch(p)
  <2>1. publishing[p] = NoOne
    BY <1>2 DEF ClaimBatch, PublishedIsConfirmed
  <2>2. PICK rows \in SUBSET ClaimableOutbox :
           /\ ClaimDueExecutionOutbox(p, rows)
           /\ batch' = [batch EXCEPT ![p] = rows]
           /\ UNCHANGED <<publishing, confirmed>>
    BY <1>2 DEF ClaimBatch
  <2>3. /\ DOMAIN outbox' = DOMAIN outbox
        /\ \A i \in DOMAIN outbox :
             \/ outbox'[i] = outbox[i]
             \/ outbox'[i].state = "pending" /\ outbox'[i].lockedBy = p
    BY <2>2 DEF ClaimDueExecutionOutbox
  <2>4. MarksConfirmed
    BY <2>3 DEF MarksConfirmed
  <2>5. ASSUME NEW q \in Dispatchers, publishing[q] # NoOne
        PROVE  /\ publishing[q] \in batch'[q]
               /\ publishing[q] \in DOMAIN outbox' /\ outbox'[publishing[q]].lockedBy = q =>
                    publishing[q] \in confirmed
    <3>1. q # p
      BY <2>1, <2>5
    <3>2. batch'[q] = batch[q]
      BY <1>1, <2>2, <3>1
    <3> QED
      BY <2>3, <2>5, <3>1, <3>2 DEF PublishedIsConfirmed
  <2>6. PublishedIsConfirmed'
    BY <1>1, <2>2, <2>5 DEF PublishedIsConfirmed
  <2> QED
    BY <2>4, <2>6
<1>3. ASSUME NEW i \in batch[p], Publish(p, i)
      PROVE  PublishedIsConfirmed' /\ MarksConfirmed
  <2>1. /\ publishing' = [publishing EXCEPT ![p] = i]
        /\ confirmed' = confirmed \cup {i}
        /\ UNCHANGED <<outbox, batch>>
    BY <1>3 DEF Publish, vars
  <2>2. publishing'[p] = i /\ \A q \in Dispatchers \ {p} : publishing'[q] = publishing[q]
    BY <1>1, <2>1
  <2>3. publishing' = [q \in Dispatchers |-> publishing'[q]]
    BY <1>1, <2>1
  <2>4. PublishedIsConfirmed'
    BY <2>1, <2>2, <2>3 DEF PublishedIsConfirmed
  <2>5. MarksConfirmed
    BY <2>1 DEF MarksConfirmed
  <2> QED
    BY <2>4, <2>5
<1>4. ASSUME NEW i, Dealt(p, i), publishing[p] \in {NoOne, i},
             LeasesKept \/ (outbox' = outbox) \/ MarkExecutionOutboxDispatched(p, i)
      PROVE  PublishedIsConfirmed'
  <2>1. /\ publishing' = [publishing EXCEPT ![p] = NoOne]
        /\ batch' = [batch EXCEPT ![p] = batch[p] \ {i}]
        /\ confirmed' = confirmed
    BY <1>4 DEF Dealt
  <2>2. /\ publishing'[p] = NoOne
        /\ \A q \in Dispatchers \ {p} : publishing'[q] = publishing[q] /\ batch'[q] = batch[q]
        /\ publishing' = [q \in Dispatchers |-> publishing'[q]]
    BY <1>1, <2>1
  <2>3. \A j \in DOMAIN outbox' : outbox'[j].lockedBy # NoOne =>
           j \in DOMAIN outbox /\ outbox'[j].lockedBy = outbox[j].lockedBy
    BY <1>4 DEF LeasesKept, MarkExecutionOutboxDispatched, HoldsLease
  <2>4. \A q \in Dispatchers : q # NoOne
    BY NoOneAssumption
  <2> QED
    BY <2>1, <2>2, <2>3, <2>4 DEF PublishedIsConfirmed
<1>5. CASE MarkPublished(p)
  <2> DEFINE i == publishing[p]
  <2>1. Dealt(p, i) /\ i # NoOne
    BY <1>5 DEF MarkPublished
  <2>2. CASE HoldsLease(p, i)
    <3>1. MarkExecutionOutboxDispatched(p, i)
      BY <1>5, <2>2 DEF MarkPublished
    <3>2. i \in confirmed
      BY <2>1, <2>2 DEF PublishedIsConfirmed, HoldsLease
    <3>3. \A j \in DOMAIN outbox \ {i} : outbox'[j] = outbox[j]
      BY <3>1 DEF MarkExecutionOutboxDispatched
    <3>4. MarksConfirmed
      BY <3>2, <3>3 DEF MarksConfirmed
    <3> QED
      BY <1>4, <2>1, <3>1, <3>4
  <2>3. CASE ~HoldsLease(p, i)
    <3>1. outbox' = outbox
      BY <1>5, <2>3 DEF MarkPublished, vars
    <3> QED
      BY <1>4, <2>1, <3>1 DEF MarksConfirmed
  <2> QED
    BY <2>2, <2>3
<1>6. ASSUME NEW i \in batch[p], DispatchFails(p, i)
      PROVE  PublishedIsConfirmed' /\ MarksConfirmed
  <2>1. Dealt(p, i) /\ publishing[p] \in {NoOne, i}
    BY <1>6 DEF DispatchFails
  <2>2. LeasesKept
    BY <1>6, RowLeases, UnchangedLeases DEF DispatchFails, RuntimeTypes, vars
  <2>3. MarksConfirmed
    BY <2>2 DEF LeasesKept, MarksConfirmed
  <2> QED
    BY <1>4, <2>1, <2>2, <2>3
<1>7. CASE DispatchAborts(p) \/ Crash(p)
  <2>1. /\ publishing' = [publishing EXCEPT ![p] = NoOne]
        /\ batch' = [batch EXCEPT ![p] = {}]
        /\ confirmed' = confirmed /\ outbox' = outbox
    BY <1>7 DEF DispatchAborts, Crash, RecoveryAborts, vars, tables
  <2>2. /\ publishing'[p] = NoOne
        /\ \A q \in Dispatchers \ {p} : publishing'[q] = publishing[q] /\ batch'[q] = batch[q]
        /\ publishing' = [q \in Dispatchers |-> publishing'[q]]
    BY <1>1, <2>1
  <2>3. PublishedIsConfirmed'
    BY <2>1, <2>2 DEF PublishedIsConfirmed
  <2> QED
    BY <2>1, <2>3 DEF MarksConfirmed
<1> QED
  BY <1>2, <1>3, <1>5, <1>6, <1>7 DEF DispatcherStep

(* A reconciler that resets a row takes its lease away.                    *)
LEMMA RepairPublication ==
  ASSUME RuntimeTypes, PublishedIsConfirmed, NEW p \in Dispatchers, Repair(p)
  PROVE  PublishedIsConfirmed' /\ MarksConfirmed
<1> DEFINE i == inspection[p].id
           reset == inspection[p].resetDispatched
<1>1. UNCHANGED <<batch, publishing>>
  BY DEF Repair, Inspect
<1>2. CASE ~NeedsRepair(i, reset)
  <2>1. outbox' = outbox /\ confirmed' = confirmed
    BY <1>2 DEF Repair, vars
  <2> QED
    BY <1>1, <2>1, UnchangedLeases, QuietPublication
<1>3. CASE NeedsRepair(i, reset)
  <2>1. i \in DispatchIds
    BY DEF Repair, RuntimeTypes, InspectionsHold, InspectionHolds
  <2>2. i = <<i[1], i[2], i[3]>>
    BY <2>1 DEF DispatchIds
  <2>3. EnsureQueuedStepDispatch(i[1], i[2], i[3], reset) /\ confirmed' = confirmed \ {i}
    BY <1>3 DEF Repair
  <2> HIDE DEF i, reset
  <2>4. \/ /\ i \in DOMAIN outbox
           /\ outbox' = [outbox EXCEPT ![i] =
                [state |-> "pending", due |-> TRUE, lockedBy |-> NoOne]]
        \/ i \notin DOMAIN outbox /\ outbox' = WithIntent(i, TRUE)
    BY <2>2, <2>3 DEF EnsureQueuedStepDispatch
  <2>5. /\ outbox'[i].lockedBy = NoOne
        /\ \A j \in DOMAIN outbox' \ {i} : j \in DOMAIN outbox /\ outbox'[j] = outbox[j]
        /\ i \in DOMAIN outbox => outbox'[i].state = "pending"
        /\ DOMAIN outbox \subseteq DOMAIN outbox'
    BY <2>4 DEF WithIntent
  <2>6. MarksConfirmed
    BY <2>5 DEF MarksConfirmed
  <2>7. PublishedIsConfirmed'
    BY <1>1, <2>3, <2>5, NoOneAssumption DEF PublishedIsConfirmed
  <2> QED
    BY <2>6, <2>7
<1> QED
  BY <1>2, <1>3

LEMMA PublicationStep ==
  ASSUME RuntimeTypes, PublishedIsConfirmed, [RuntimeNext]_runtimeVars
  PROVE  PublishedIsConfirmed' /\ MarksConfirmed
<1>1. TypeOK
  BY DEF RuntimeTypes
<1> DEFINE Quiet == LeasesKept /\ UNCHANGED <<batch, publishing, confirmed>>
<1>2. CASE Quiet
  BY <1>2, QuietPublication
<1>3. ASSUME \/ \E e \in Executions : Trigger(e) \/ Cancel(e)
             \/ \E p \in Dispatchers : Recover(p) \/ RecoveryFails(p)
      PROVE  Quiet
  BY <1>3, ApiLeases, RecoveryLeases
     DEF Trigger, Cancel, Recover, RecoveryFails, Quietly, dispatchVars
<1>4. ASSUME NEW i \in DOMAIN outbox, Due(i)
      PROVE  LeasesKept /\ UNCHANGED <<batch, publishing, confirmed>>
  <2>1. LeasesKept
    BY <1>4 DEF Due, Quietly, BecomeDue, LeasesKept
  <2> QED
    BY <1>4, <2>1 DEF Due, Quietly, dispatchVars
<1>5. ASSUME NEW p \in Dispatchers, ReconcilerStep(p)
      PROVE  Quiet \/ Repair(p)
  BY <1>5, UnchangedLeases
     DEF ReconcilerStep, ListCandidate, ReadIntent, ReadJob, RemoveTerminalJob, Inspect, vars
<1>6. ASSUME NEW s \in Slots, ClaimStep(s)
      PROVE  Quiet
  BY <1>1, <1>6, WorkerLeases DEF ClaimStep, dispatchVars
<1>7. ASSUME NEW s \in Slots, ReportStep(s)
      PROVE  Quiet
  <2>1. UNCHANGED <<batch, publishing, confirmed>>
    BY <1>7 DEF ReportStep, ReportSuccess, ReportFailure, FinishJob, dispatchVars
  <2>2. LeasesKept
    BY <1>1, <1>7, WorkerLeases, UnchangedLeases
       DEF ReportStep, ReportSuccess, ReportFailure, vars
  <2> QED
    BY <2>1, <2>2
<1>8. ASSUME NEW s \in Slots,
             SkipJob(s) \/ JobThrows(s) \/ \E i \in DOMAIN jobs : ReceiveJob(s, i)
      PROVE  Quiet
  BY <1>8, UnchangedLeases DEF SkipJob, FinishJob, JobThrows, ReceiveJob, dispatchVars, vars
<1>9. ASSUME NEW i \in DOMAIN jobs,
             OrphanStalls(i) \/ LiveJobStalls(i) \/ EvictJob(i) \/ LoseJob(i)
      PROVE  Quiet
  BY <1>9, UnchangedLeases
     DEF OrphanStalls, LiveJobStalls, Stall, EvictJob, LoseJob, dispatchVars, vars
<1>10. CASE UNCHANGED runtimeVars
  BY <1>10, UnchangedLeases, QuietPublication DEF runtimeVars, vars, dispatchVars
<1> HIDE DEF Quiet
<1>11. ASSUME NEW p \in Dispatchers, ReconcilerStep(p)
       PROVE  PublishedIsConfirmed' /\ MarksConfirmed
  BY <1>2, <1>5, <1>11, RepairPublication
<1>12. ASSUME NEW i \in DOMAIN outbox, Due(i)
       PROVE  PublishedIsConfirmed' /\ MarksConfirmed
  BY <1>4, <1>12, QuietPublication
<1> QED
  BY <1>2, <1>3, <1>6, <1>7, <1>8, <1>9, <1>10, <1>11, <1>12, DispatcherPublication
     DEF RuntimeNext, ProcessorStep

(* A row is marked dispatched only when BullMQ has confirmed its job since *)
(* the row was last reset.                                                 *)
THEOREM MarksFollowPublication == RuntimeSpec => DispatchedAfterPublication
<1>1. RuntimeInit => PublishedIsConfirmed
  BY DEF RuntimeInit, PublishedIsConfirmed
<1>2. RuntimeTypes /\ PublishedIsConfirmed /\ [RuntimeNext]_runtimeVars => PublishedIsConfirmed'
  BY PublicationStep
<1>3. RuntimeTypes /\ PublishedIsConfirmed /\ [RuntimeNext]_runtimeVars =>
        [\A i \in DOMAIN outbox :
           outbox[i].state = "pending" /\ outbox'[i].state = "dispatched" =>
             i \in confirmed]_runtimeVars
  BY PublicationStep DEF MarksConfirmed
<1> QED
  BY <1>1, <1>2, <1>3, RuntimeTypesHold, PTL DEF RuntimeSpec, DispatchedAfterPublication
===============================================================================
