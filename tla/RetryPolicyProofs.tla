--------------------------- MODULE RetryPolicyProofs ---------------------------
(***************************************************************************)
(* How often a step may start, for every number of processes, executions   *)
(* and steps: what recoveries that act on stale reads add to the policy.   *)
(***************************************************************************)
EXTENDS ExecutionStoreProofs

(* The attempts a step run has started and the one it is queued for.       *)
Granted(run) == run.attemptCount + (IF run.status = "queued" THEN 1 ELSE 0)

(* A scan reads a row once.                                                *)
RowsReadOnce ==
  \A p \in Dispatchers : \A row, other \in scan[p] :
    row[1] = other[1] /\ row[2] = other[2] => row = other

ScanTypes ==
  /\ stepRuns \in [Executions -> [Steps -> StepRun]]
  /\ scan \in [Dispatchers -> SUBSET ScannedRow]
  /\ RowsReadOnce

-------------------------------------------------------------------------------
(* Step runs                                                               *)

LEMMA GrantedType ==
  ASSUME NEW run \in StepRun
  PROVE  /\ Granted(run) \in Nat
         /\ run.status # "queued" => Granted(run) = run.attemptCount
         /\ run.status = "queued" => Granted(run) = run.attemptCount + 1
BY DEF Granted, StepRun

LEMMA PolicyType ==
  ASSUME NEW k \in Steps
  PROVE  MaxAttempts[k] \in Nat /\ MaxAttempts[k] >= 1
BY MaxAttemptsAssumption DEF Steps

(* A step that takes a status other than queued is granted nothing more.   *)
LEMMA InStatusGrants ==
  ASSUME NEW run \in StepRun, NEW newStatus \in StepRunStatus
  PROVE  /\ InStatus(run, newStatus) \in StepRun
         /\ InStatus(run, newStatus).attemptCount = run.attemptCount
         /\ newStatus # "queued" => Granted(InStatus(run, newStatus)) <= Granted(run)
         /\ newStatus = "queued" =>
              Granted(InStatus(run, newStatus)) = run.attemptCount + 1
<1>1. /\ InStatus(run, newStatus) \in StepRun
      /\ InStatus(run, newStatus).attemptCount = run.attemptCount
      /\ InStatus(run, newStatus).status = newStatus
  BY DEF InStatus, StepRun
<1>2. run.attemptCount \in Nat /\ run.attemptCount <= Granted(run)
  BY DEF Granted, StepRun
<1> QED
  BY <1>1, <1>2, GrantedType

(* No transaction but a stale recovery grants an attempt the policy lacks. *)
GrantsWithinPolicy ==
  /\ stepRuns' \in [Executions -> [Steps -> StepRun]]
  /\ \A x \in Executions, j \in Steps :
       \/ Granted(stepRuns'[x][j]) <= Granted(stepRuns[x][j])
       \/ Granted(stepRuns'[x][j]) <= MaxAttempts[j]

LEMMA OneRowGrants ==
  ASSUME ScanTypes, NEW e \in Executions, NEW k \in Steps, NEW run \in StepRun,
         stepRuns' = [stepRuns EXCEPT ![e][k] = run],
         Granted(run) <= Granted(stepRuns[e][k]) \/ Granted(run) <= MaxAttempts[k]
  PROVE  GrantsWithinPolicy
<1>1. stepRuns' \in [Executions -> [Steps -> StepRun]]
  BY DEF ScanTypes
<1>2. ASSUME NEW x \in Executions, NEW j \in Steps, x # e \/ j # k
      PROVE  Granted(stepRuns'[x][j]) <= Granted(stepRuns[x][j])
  <2>1. stepRuns'[x][j] = stepRuns[x][j]
    BY <1>2 DEF ScanTypes
  <2>2. Granted(stepRuns[x][j]) \in Nat
    BY GrantedType DEF ScanTypes
  <2> QED
    BY <2>1, <2>2
<1>3. stepRuns'[e][k] = run
  BY DEF ScanTypes
<1> QED
  BY <1>1, <1>2, <1>3 DEF GrantsWithinPolicy

LEMMA FreshStepGrants ==
  ASSUME NEW k \in Steps
  PROVE  QueuedStepRun \in StepRun /\ Granted(QueuedStepRun) <= MaxAttempts[k]
BY PolicyType DEF QueuedStepRun, Granted, StepRun, StepRunStatus

LEMMA UnchangedGrants ==
  ASSUME ScanTypes, stepRuns' = stepRuns
  PROVE  GrantsWithinPolicy
<1>1. \A x \in Executions, j \in Steps : Granted(stepRuns[x][j]) \in Nat
  BY GrantedType DEF ScanTypes
<1> QED
  BY <1>1 DEF GrantsWithinPolicy, ScanTypes

LEMMA OthersGrantWithinPolicy ==
  ASSUME ScanTypes, OtherTransaction
  PROVE  GrantsWithinPolicy
<1> USE DEF StepRunStatus
<1>1. ASSUME NEW e \in Executions, TriggerExecution(e)
      PROVE  GrantsWithinPolicy
  <2>1. 1 \in Steps
    BY StepCountAssumption DEF Steps
  <2> QED
    BY <1>1, <2>1, FreshStepGrants, OneRowGrants DEF TriggerExecution
<1>2. ASSUME NEW e \in Executions, CancelExecution(e)
      PROVE  GrantsWithinPolicy
  <2>1. stepRuns' = [stepRuns EXCEPT ![e] = [k \in Steps |->
          IF k \in CancellableSteps(e)
            THEN InStatus(stepRuns[e][k], "cancelled") ELSE stepRuns[e][k]]]
    BY <1>2 DEF CancelExecution, ScanTypes
  <2>2. ASSUME NEW x \in Executions, NEW j \in Steps
        PROVE  /\ \/ stepRuns'[x][j] = stepRuns[x][j]
                  \/ stepRuns'[x][j] = InStatus(stepRuns[x][j], "cancelled")
               /\ stepRuns[x][j] \in StepRun
    BY <2>1 DEF ScanTypes
  <2>3. ASSUME NEW x \in Executions, NEW j \in Steps
        PROVE  /\ stepRuns'[x][j] \in StepRun
               /\ Granted(stepRuns'[x][j]) <= Granted(stepRuns[x][j])
    BY <2>2, InStatusGrants, GrantedType
  <2>4. stepRuns' = [x \in Executions |-> [j \in Steps |-> stepRuns'[x][j]]]
    BY <2>1 DEF ScanTypes
  <2>5. stepRuns' \in [Executions -> [Steps -> StepRun]]
    BY <2>3, <2>4
  <2> QED
    BY <2>3, <2>5 DEF GrantsWithinPolicy
<1>3. ASSUME NEW e \in Executions, NEW k \in Steps, ClaimQueuedExecutionStep(e, k)
      PROVE  GrantsWithinPolicy
  <2> DEFINE run == [status |-> "running", attemptCount |-> stepRuns[e][k].attemptCount + 1]
  <2>1. stepRuns[e][k] \in StepRun /\ stepRuns[e][k].status = "queued"
    BY <1>3 DEF ScanTypes, ClaimQueuedExecutionStep, IsOldestQueuedStep
  <2>2. run \in StepRun /\ Granted(run) <= Granted(stepRuns[e][k])
    BY <2>1 DEF StepRun, Granted
  <2>3. stepRuns' = [stepRuns EXCEPT ![e][k] = run]
    BY <1>3 DEF ClaimQueuedExecutionStep
  <2> QED
    BY <2>2, <2>3, OneRowGrants
<1>4. ASSUME NEW e \in Executions, NEW k \in Steps, CompleteAndQueueNext(e, k)
      PROVE  GrantsWithinPolicy
  <2>1. k + 1 \in Steps /\ k # k + 1
    BY <1>4, StepCountAssumption DEF CompleteAndQueueNext, Steps
  <2>2. stepRuns' = [stepRuns EXCEPT ![e] =
          [stepRuns[e] EXCEPT ![k] = InStatus(stepRuns[e][k], "succeeded"),
                              ![k + 1] = QueuedStepRun]]
    BY <1>4 DEF CompleteAndQueueNext
  <2>3. stepRuns[e][k] \in StepRun /\ stepRuns[e] \in [Steps -> StepRun]
    BY DEF ScanTypes
  <2>4. /\ InStatus(stepRuns[e][k], "succeeded") \in StepRun
        /\ Granted(InStatus(stepRuns[e][k], "succeeded")) <= Granted(stepRuns[e][k])
    BY <2>3, InStatusGrants
  <2>5. stepRuns' \in [Executions -> [Steps -> StepRun]]
    BY <2>1, <2>2, <2>3, <2>4, FreshStepGrants DEF ScanTypes
  <2>6. /\ stepRuns'[e][k] = InStatus(stepRuns[e][k], "succeeded")
        /\ stepRuns'[e][k + 1] = QueuedStepRun
        /\ \A j \in Steps \ {k, k + 1} : stepRuns'[e][j] = stepRuns[e][j]
        /\ \A x \in Executions \ {e} : stepRuns'[x] = stepRuns[x]
    BY <2>1, <2>2, <2>3 DEF ScanTypes
  <2>7. \A x \in Executions, j \in Steps : Granted(stepRuns[x][j]) <= Granted(stepRuns[x][j])
    BY GrantedType DEF ScanTypes
  <2> HIDE DEF GrantsWithinPolicy
  <2>8. ASSUME NEW x \in Executions, NEW j \in Steps
        PROVE  \/ Granted(stepRuns'[x][j]) <= Granted(stepRuns[x][j])
               \/ Granted(stepRuns'[x][j]) <= MaxAttempts[j]
    <3>1. CASE x # e \/ j \notin {k, k + 1}
      BY <2>6, <2>7, <3>1
    <3>2. CASE x = e /\ j = k
      BY <2>4, <2>6, <3>2
    <3>3. CASE x = e /\ j = k + 1
      BY <2>1, <2>6, <3>3, FreshStepGrants
    <3> QED
      BY <3>1, <3>2, <3>3
  <2> QED
    BY <2>5, <2>8 DEF GrantsWithinPolicy
<1>5. ASSUME NEW e \in Executions, NEW k \in Steps, NEW newStatus \in {"succeeded", "failed"},
             stepRuns' = [stepRuns EXCEPT ![e][k] = InStatus(stepRuns[e][k], newStatus)]
      PROVE  GrantsWithinPolicy
  <2>1. stepRuns[e][k] \in StepRun
    BY DEF ScanTypes
  <2> QED
    BY <1>5, <2>1, InStatusGrants, OneRowGrants
<1>6. ASSUME NEW e \in Executions, NEW k \in Steps, CompleteExecution(e, k)
      PROVE  GrantsWithinPolicy
  BY <1>5, <1>6 DEF CompleteExecution
<1>7. ASSUME NEW e \in Executions, NEW k \in Steps, FailStepAndExecution(e, k)
      PROVE  GrantsWithinPolicy
  BY <1>5, <1>7 DEF FailStepAndExecution
<1>8. ASSUME NEW e \in Executions, NEW k \in Steps, NEW reason, QueueNextAttempt(e, k, reason)
      PROVE  GrantsWithinPolicy
  <2>1. stepRuns[e][k] \in StepRun /\ stepRuns[e][k].attemptCount \in Nat
    BY DEF ScanTypes, StepRun
  <2>2. stepRuns[e][k].attemptCount < MaxAttempts[k]
    BY <1>8 DEF QueueNextAttempt, AttemptsRemain
  <2>3. InStatus(stepRuns[e][k], "queued") \in StepRun
    BY <2>1, InStatusGrants
  <2>4. Granted(InStatus(stepRuns[e][k], "queued")) <= MaxAttempts[k]
    BY <2>1, <2>2, InStatusGrants, PolicyType
  <2>5. stepRuns' = [stepRuns EXCEPT ![e][k] = InStatus(stepRuns[e][k], "queued")]
    BY <1>8 DEF QueueNextAttempt
  <2> QED
    BY <2>3, <2>4, <2>5, OneRowGrants
<1>9. ASSUME stepRuns' = stepRuns PROVE GrantsWithinPolicy
  BY <1>9, UnchangedGrants
<1> QED
  BY <1>1, <1>2, <1>3, <1>4, <1>6, <1>7, <1>8, <1>9
     DEF OtherTransaction, CompleteClaimedExecutionStep, FailOrRetryClaimedExecutionStep,
         EnsureQueuedStepDispatch, ClaimDueExecutionOutbox, MarkExecutionOutboxDispatched,
         MarkExecutionOutboxFailed, BecomeDue

-------------------------------------------------------------------------------
(* Scans                                                                   *)

Overrun(e, k) ==
  Granted(stepRuns[e][k]) + Cardinality(ScansBeforeLastAttempt(e, k))
    <= MaxAttempts[k] + Cardinality(Dispatchers)

LEMMA OverrunIsProperty ==
  OverrunsBoundedByScans <=> \A e \in Executions, k \in Steps : Overrun(e, k)
BY DEF OverrunsBoundedByScans, Overrun, Granted

LEMMA NextOverruns ==
  ASSUME \A e \in Executions, k \in Steps : Overrun(e, k)'
  PROVE  OverrunsBoundedByScans'
BY DEF OverrunsBoundedByScans, Overrun, Granted

(* There are no more scans than processes.                                 *)
LEMMA ScansCounted ==
  ASSUME IsFiniteSet(Dispatchers), NEW S \in SUBSET Dispatchers
  PROVE  /\ IsFiniteSet(S)
         /\ Cardinality(S) \in Nat /\ Cardinality(Dispatchers) \in Nat
         /\ Cardinality(S) <= Cardinality(Dispatchers)
<1>1. IsFiniteSet(S) /\ Cardinality(S) <= Cardinality(Dispatchers)
  BY FS_Subset
<1> QED
  BY <1>1, FS_CardinalityType

(* An execution that is granted nothing over the policy, or nothing new.   *)
LEMMA KeptScansOverrun ==
  ASSUME IsFiniteSet(Dispatchers), ScanTypes, GrantsWithinPolicy,
         NEW e \in Executions, NEW k \in Steps, Overrun(e, k),
         ScansBeforeLastAttempt(e, k)' \subseteq ScansBeforeLastAttempt(e, k)
  PROVE  Overrun(e, k)'
<1> DEFINE S == ScansBeforeLastAttempt(e, k)
           T == ScansBeforeLastAttempt(e, k)'
<1>1. S \in SUBSET Dispatchers /\ T \in SUBSET Dispatchers /\ T \subseteq S
  BY DEF ScansBeforeLastAttempt
<1>2. Cardinality(T) \in Nat /\ Cardinality(S) \in Nat /\ Cardinality(Dispatchers) \in Nat
  BY <1>1, ScansCounted
<1>3. Cardinality(T) <= Cardinality(S) /\ Cardinality(T) <= Cardinality(Dispatchers)
  BY <1>1, ScansCounted, FS_Subset
<1>4. Granted(stepRuns[e][k]) \in Nat /\ Granted(stepRuns'[e][k]) \in Nat
  BY GrantedType DEF ScanTypes, GrantsWithinPolicy
<1>5. MaxAttempts[k] \in Nat
  BY PolicyType
<1>6. Granted(stepRuns[e][k]) + Cardinality(S) <= MaxAttempts[k] + Cardinality(Dispatchers)
  BY DEF Overrun
<1>7. \/ Granted(stepRuns'[e][k]) <= Granted(stepRuns[e][k])
      \/ Granted(stepRuns'[e][k]) <= MaxAttempts[k]
  BY DEF GrantsWithinPolicy
<1>8. Granted(stepRuns'[e][k]) + Cardinality(T) <= MaxAttempts[k] + Cardinality(Dispatchers)
  <2> HIDE DEF S, T
  <2> QED
    BY <1>2, <1>3, <1>4, <1>5, <1>6, <1>7
<1> QED
  BY <1>8 DEF Overrun, Granted

(* A row that is dealt with leaves the scan it was in and no other.        *)
LEMMA DoneWithScans ==
  ASSUME ScanTypes, NEW p \in Dispatchers, NEW row \in scan[p], DoneWith(p, row)
  PROVE  /\ scan' \in [Dispatchers -> SUBSET ScannedRow]
         /\ RowsReadOnce'
         /\ row \in ScannedRow
         /\ \A e \in Executions, k \in Steps :
              ScansBeforeLastAttempt(e, k)' \subseteq ScansBeforeLastAttempt(e, k)
         /\ row[3] < MaxAttempts[row[2]] =>
              /\ p \in ScansBeforeLastAttempt(row[1], row[2])
              /\ ScansBeforeLastAttempt(row[1], row[2])'
                   \subseteq ScansBeforeLastAttempt(row[1], row[2]) \ {p}
<1>1. scan' = [scan EXCEPT ![p] = scan[p] \ {row}]
  BY DEF DoneWith
<1>2. scan'[p] = scan[p] \ {row} /\ \A q \in Dispatchers \ {p} : scan'[q] = scan[q]
  BY <1>1 DEF ScanTypes
<1>3. scan' \in [Dispatchers -> SUBSET ScannedRow] /\ row \in ScannedRow
  BY <1>1 DEF ScanTypes
<1>4. \A q \in Dispatchers : scan'[q] \subseteq scan[q]
  BY <1>2
<1>5. RowsReadOnce'
  BY <1>4 DEF ScanTypes, RowsReadOnce
<1>6. \A e \in Executions, k \in Steps :
        ScansBeforeLastAttempt(e, k)' \subseteq ScansBeforeLastAttempt(e, k)
  BY <1>4 DEF ScansBeforeLastAttempt
<1>7. row[3] < MaxAttempts[row[2]] => p \in ScansBeforeLastAttempt(row[1], row[2])
  BY DEF ScansBeforeLastAttempt
<1>8. p \notin ScansBeforeLastAttempt(row[1], row[2])'
  <2>1. SUFFICES ASSUME NEW other \in scan'[p], other[1] = row[1], other[2] = row[2]
                 PROVE  FALSE
    BY DEF ScansBeforeLastAttempt
  <2>2. other \in scan[p] /\ other # row
    BY <1>2, <2>1
  <2> QED
    BY <2>1, <2>2 DEF ScanTypes, RowsReadOnce
<1>9. row[1] \in Executions /\ row[2] \in Steps
  BY <1>3 DEF ScannedRow
<1> QED
  BY <1>3, <1>5, <1>6, <1>7, <1>8, <1>9

LEMMA ScanStepHolds ==
  ASSUME IsFiniteSet(Dispatchers), ScanTypes, OverrunsBoundedByScans, [Next]_vars
  PROVE  ScanTypes' /\ OverrunsBoundedByScans'
<1>1. \A e \in Executions, k \in Steps : Overrun(e, k)
  BY OverrunIsProperty
<1>2. ASSUME stepRuns' = stepRuns PROVE GrantsWithinPolicy
  BY <1>2, UnchangedGrants
<1>3. ASSUME scan' = scan, GrantsWithinPolicy
      PROVE  ScanTypes' /\ OverrunsBoundedByScans'
  <2>1. ScanTypes'
    BY <1>3 DEF ScanTypes, RowsReadOnce, GrantsWithinPolicy
  <2>2. \A e \in Executions, k \in Steps :
          ScansBeforeLastAttempt(e, k)' \subseteq ScansBeforeLastAttempt(e, k)
    BY <1>3 DEF ScansBeforeLastAttempt
  <2>3. \A e \in Executions, k \in Steps : Overrun(e, k)'
    BY <1>1, <1>3, <2>2, KeptScansOverrun
  <2> QED
    BY <2>1, <2>3, NextOverruns
<1>4. CASE OtherTransaction
  BY <1>3, <1>4, OthersGrantWithinPolicy, OthersKeepScans
<1>5. CASE UNCHANGED vars
  BY <1>2, <1>3, <1>5 DEF vars
<1>6. ASSUME NEW p \in Dispatchers, NEW row \in scan[p], DoneWith(p, row), GrantsWithinPolicy
      PROVE  ScanTypes' /\ OverrunsBoundedByScans'
  <2>1. ScanTypes'
    BY <1>6, DoneWithScans DEF ScanTypes, GrantsWithinPolicy
  <2>2. \A e \in Executions, k \in Steps : Overrun(e, k)'
    BY <1>1, <1>6, DoneWithScans, KeptScansOverrun
  <2> QED
    BY <2>1, <2>2, NextOverruns
<1>7. ASSUME NEW p \in Dispatchers, NEW row \in scan[p], RecoveryLost(p, row)
      PROVE  ScanTypes' /\ OverrunsBoundedByScans'
  BY <1>2, <1>6, <1>7 DEF RecoveryLost, tables
<1>8. ASSUME NEW p \in Dispatchers, NEW row \in scan[p], GiveUp(p, row)
      PROVE  ScanTypes' /\ OverrunsBoundedByScans'
  <2> DEFINE e == row[1]
             k == row[2]
  <2>1. e \in Executions /\ k \in Steps
    BY DEF ScanTypes, ScannedRow
  <2>2. stepRuns' = [stepRuns EXCEPT ![e][k] = InStatus(stepRuns[e][k], "failed")]
    BY <1>8 DEF GiveUp, FailStepAndExecution
  <2>3. DoneWith(p, row)
    BY <1>8 DEF GiveUp
  <2> HIDE DEF e, k
  <2>4. stepRuns[e][k] \in StepRun
    BY <2>1 DEF ScanTypes
  <2>5. GrantsWithinPolicy
    BY <2>1, <2>2, <2>4, InStatusGrants, OneRowGrants DEF StepRunStatus
  <2> QED
    BY <1>6, <2>3, <2>5
<1>9. ASSUME NEW p \in Dispatchers, NEW row \in scan[p], QueueAgain(p, row)
      PROVE  ScanTypes' /\ OverrunsBoundedByScans'
  <2> DEFINE e == row[1]
             k == row[2]
             S == ScansBeforeLastAttempt(e, k)
             T == ScansBeforeLastAttempt(e, k)'
  <2>1. e \in Executions /\ k \in Steps
    BY DEF ScanTypes, ScannedRow
  <2>2. /\ stepRuns' = [stepRuns EXCEPT ![e][k] = InStatus(stepRuns[e][k], "queued")]
        /\ stepRuns[e][k].status = "running"
        /\ row[3] < MaxAttempts[k]
        /\ DoneWith(p, row)
    BY <1>9 DEF QueueAgain, StillRunning, CanSettle, ScannedAttemptsRemain
  <2>3. /\ scan' \in [Dispatchers -> SUBSET ScannedRow]
        /\ RowsReadOnce'
        /\ p \in S /\ T \subseteq S \ {p}
        /\ \A x \in Executions, j \in Steps :
             ScansBeforeLastAttempt(x, j)' \subseteq ScansBeforeLastAttempt(x, j)
    BY <2>2, DoneWithScans
  <2>4. S \in SUBSET Dispatchers /\ T \in SUBSET Dispatchers
    BY DEF ScansBeforeLastAttempt
  <2>5. /\ Granted(stepRuns[e][k]) + Cardinality(S)
             <= MaxAttempts[k] + Cardinality(Dispatchers)
        /\ MaxAttempts[k] \in Nat
    BY <1>1, <2>1, PolicyType DEF Overrun
  <2>6. Cardinality(T) + 1 <= Cardinality(S)
    <3>1. IsFiniteSet(S) /\ IsFiniteSet(S \ {p})
      BY <2>4, ScansCounted, FS_RemoveElement
    <3>2. Cardinality(S \ {p}) = Cardinality(S) - 1
      BY <2>3, <3>1, FS_RemoveElement
    <3>3. Cardinality(T) <= Cardinality(S \ {p})
      BY <2>3, <3>1, FS_Subset
    <3>4. Cardinality(T) \in Nat /\ Cardinality(S) \in Nat
      BY <2>4, ScansCounted
    <3> HIDE DEF S, T
    <3> QED
      BY <3>2, <3>3, <3>4
  <2>7. Cardinality(T) \in Nat /\ Cardinality(S) \in Nat /\ Cardinality(Dispatchers) \in Nat
    BY <2>4, ScansCounted
  <2> HIDE DEF e, k, S, T
  <2>8. stepRuns[e][k] \in StepRun
    BY <2>1 DEF ScanTypes
  <2>9. InStatus(stepRuns[e][k], "queued") \in StepRun
    BY <2>8, InStatusGrants DEF StepRunStatus
  <2>10. Granted(InStatus(stepRuns[e][k], "queued")) = Granted(stepRuns[e][k]) + 1
    BY <2>2, <2>8, GrantedType, InStatusGrants DEF StepRunStatus
  <2>11. stepRuns' \in [Executions -> [Steps -> StepRun]]
    BY <2>1, <2>2, <2>9 DEF ScanTypes
  <2>12. stepRuns'[e][k] = InStatus(stepRuns[e][k], "queued")
    BY <2>1, <2>2 DEF ScanTypes
  <2>13. Granted(stepRuns[e][k]) \in Nat
    BY <2>8, GrantedType
  <2>14. Granted(stepRuns'[e][k]) + Cardinality(T) <= MaxAttempts[k] + Cardinality(Dispatchers)
    BY <2>5, <2>6, <2>7, <2>10, <2>12, <2>13
  <2>15. Overrun(e, k)'
    BY <2>14 DEF Overrun, Granted, T
  <2>16. ASSUME NEW x \in Executions, NEW j \in Steps, x # e \/ j # k
         PROVE  Overrun(x, j)'
    <3> DEFINE U == ScansBeforeLastAttempt(x, j)
               V == ScansBeforeLastAttempt(x, j)'
    <3>1. stepRuns'[x][j] = stepRuns[x][j]
      BY <2>1, <2>2, <2>16 DEF ScanTypes
    <3>2. U \in SUBSET Dispatchers /\ V \in SUBSET Dispatchers /\ V \subseteq U
      BY <2>3 DEF ScansBeforeLastAttempt
    <3>3. Cardinality(V) <= Cardinality(U) /\ Cardinality(U) \in Nat /\ Cardinality(V) \in Nat
      BY <3>2, ScansCounted, FS_Subset
    <3>4. Granted(stepRuns[x][j]) \in Nat /\ MaxAttempts[j] \in Nat
      BY GrantedType, PolicyType DEF ScanTypes
    <3>5. Granted(stepRuns[x][j]) + Cardinality(U) <= MaxAttempts[j] + Cardinality(Dispatchers)
      BY <1>1 DEF Overrun
    <3> HIDE DEF U, V
    <3>6. Granted(stepRuns'[x][j]) + Cardinality(V) <= MaxAttempts[j] + Cardinality(Dispatchers)
      BY <2>7, <3>1, <3>3, <3>4, <3>5
    <3> QED
      BY <3>6 DEF Overrun, Granted, V
  <2>17. \A x \in Executions, j \in Steps : Overrun(x, j)'
    BY <2>15, <2>16
  <2>18. ScanTypes'
    BY <2>3, <2>11 DEF ScanTypes
  <2> QED
    BY <2>17, <2>18, NextOverruns
<1>10. ASSUME NEW p \in Dispatchers, ReadStalledSteps(p)
       PROVE  ScanTypes' /\ OverrunsBoundedByScans'
  <2>1. PICK rows \in SUBSET RunningRows : scan' = [scan EXCEPT ![p] = rows]
    BY <1>10 DEF ReadStalledSteps
  <2>2. stepRuns' = stepRuns
    BY <1>10 DEF ReadStalledSteps, tables
  <2>3. \A row \in rows :
          /\ row \in ScannedRow
          /\ CanSettle(row[1], row[2])
          /\ row[3] = stepRuns[row[1]][row[2]].attemptCount
    BY <2>1 DEF RunningRows, ScannedRow, ScanTypes, StepRun
  <2>4. scan'[p] = rows /\ \A q \in Dispatchers \ {p} : scan'[q] = scan[q]
    BY <2>1 DEF ScanTypes
  <2>5. RowsReadOnce'
    <3>1. \A row, other \in rows : row[1] = other[1] /\ row[2] = other[2] => row = other
      BY <2>3 DEF ScannedRow
    <3> QED
      BY <2>4, <3>1 DEF ScanTypes, RowsReadOnce
  <2>6. ScanTypes'
    BY <2>1, <2>2, <2>3, <2>5 DEF ScanTypes
  <2>7. ASSUME NEW e \in Executions, NEW k \in Steps
        PROVE  Overrun(e, k)'
    <3> DEFINE T == ScansBeforeLastAttempt(e, k)'
    <3>1. CASE T \subseteq ScansBeforeLastAttempt(e, k)
      BY <1>1, <1>2, <2>2, <3>1, KeptScansOverrun
    <3>2. CASE ~(T \subseteq ScansBeforeLastAttempt(e, k))
      <4>1. PICK row \in rows : row[1] = e /\ row[2] = k /\ row[3] < MaxAttempts[k]
        BY <2>4, <3>2 DEF ScansBeforeLastAttempt
      <4>2. stepRuns[e][k].attemptCount < MaxAttempts[k] /\ stepRuns[e][k].status = "running"
        BY <2>3, <4>1 DEF CanSettle
      <4>3. stepRuns[e][k] \in StepRun /\ stepRuns[e][k].attemptCount \in Nat
        BY DEF ScanTypes, StepRun
      <4>4. Granted(stepRuns[e][k]) = stepRuns[e][k].attemptCount
        BY <4>2, <4>3, GrantedType
      <4>5. T \in SUBSET Dispatchers
        BY DEF ScansBeforeLastAttempt
      <4>6. /\ Cardinality(T) <= Cardinality(Dispatchers)
            /\ Cardinality(T) \in Nat /\ Cardinality(Dispatchers) \in Nat
        BY <4>5, ScansCounted
      <4>7. MaxAttempts[k] \in Nat
        BY PolicyType
      <4> HIDE DEF T
      <4>8. Granted(stepRuns'[e][k]) + Cardinality(T)
              <= MaxAttempts[k] + Cardinality(Dispatchers)
        BY <2>2, <4>2, <4>3, <4>4, <4>6, <4>7
      <4> QED
        BY <4>8 DEF Overrun, Granted, T
    <3> QED
      BY <3>1, <3>2
  <2>8. \A e \in Executions, k \in Steps : Overrun(e, k)'
    BY <2>7
  <2> QED
    BY <2>6, <2>8, NextOverruns
<1>11. ASSUME NEW p \in Dispatchers, RecoveryAborts(p)
       PROVE  ScanTypes' /\ OverrunsBoundedByScans'
  <2>1. stepRuns' = stepRuns /\ scan' = [scan EXCEPT ![p] = {}]
    BY <1>11 DEF RecoveryAborts, tables
  <2>2. \A q \in Dispatchers : scan'[q] \subseteq scan[q]
    BY <2>1 DEF ScanTypes
  <2>3. ScanTypes'
    BY <2>1, <2>2 DEF ScanTypes, RowsReadOnce
  <2>4. \A e \in Executions, k \in Steps :
          ScansBeforeLastAttempt(e, k)' \subseteq ScansBeforeLastAttempt(e, k)
    BY <2>2 DEF ScansBeforeLastAttempt
  <2>5. \A e \in Executions, k \in Steps : Overrun(e, k)'
    BY <1>1, <1>2, <2>1, <2>4, KeptScansOverrun
  <2> QED
    BY <2>3, <2>5, NextOverruns
<1> QED
  BY <1>4, <1>5, <1>7, <1>8, <1>9, <1>10, <1>11
     DEF Next, RecoveryStep, RecoverStalledExecutionStep

LEMMA ScanInitHolds ==
  ASSUME IsFiniteSet(Dispatchers), Init
  PROVE  ScanTypes /\ OverrunsBoundedByScans
<1>1. stepRuns \in [Executions -> [Steps -> StepRun]]
  BY DEF Init, Init, StepRun, NoStepRun, QueuedStepRun, StepRunStatus
<1>2. scan \in [Dispatchers -> SUBSET ScannedRow] /\ RowsReadOnce
  BY DEF Init, RowsReadOnce
<1>3. ASSUME NEW e \in Executions, NEW k \in Steps
      PROVE  Overrun(e, k)
  <2>1. ScansBeforeLastAttempt(e, k) = {}
    BY DEF Init, ScansBeforeLastAttempt
  <2>2. Granted(stepRuns[e][k]) \in {0, 1}
    BY DEF Init, Init, Granted, NoStepRun, QueuedStepRun, Absent
  <2>3. Cardinality(Dispatchers) \in Nat
    BY FS_CardinalityType
  <2> QED
    BY <2>1, <2>2, <2>3, PolicyType, FS_EmptySet DEF Overrun
<1> QED
  BY <1>1, <1>2, <1>3, OverrunIsProperty DEF ScanTypes

(* However many executions there are and however the scans interleave, a   *)
(* step starts at most maxAttempts times plus once per worker process.     *)
THEOREM AttemptsBounded ==
  ASSUME IsFiniteSet(Dispatchers)
  PROVE  Spec => []OverrunsBoundedByScans
<1>1. Init => ScanTypes /\ OverrunsBoundedByScans
  BY ScanInitHolds
<1>2. ScanTypes /\ OverrunsBoundedByScans /\ [Next]_vars =>
        ScanTypes' /\ OverrunsBoundedByScans'
  BY ScanStepHolds
<1> QED
  BY <1>1, <1>2, PTL DEF Spec
===============================================================================
