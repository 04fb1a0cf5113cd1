-------------------------- MODULE ExecutionLifecycle --------------------------
(***************************************************************************)
(* What an execution promises to the user who triggers it, without queues, *)
(* workers, retries or dispatch: it is queued, it runs, it completes the   *)
(* steps of its definition one at a time in their order, and it ends once, *)
(* as succeeded only when every step is complete.                          *)
(*                                                                         *)
(* ExecutionStore implements this specification.                           *)
(***************************************************************************)
EXTENDS Integers

CONSTANTS
  Executions,    \* ids of executions
  AlreadyQueued, \* those that exist from the beginning
  StepCount      \* steps of the workflow definition

VARIABLES
  phase,    \* the execution's status, as the user sees it
  completed \* the steps it has completed

vars == <<phase, completed>>

Init ==
  /\ phase = [e \in Executions |-> IF e \in AlreadyQueued THEN "queued" ELSE "absent"]
  /\ completed = [e \in Executions |-> {}]

Move(e, from, to) ==
  /\ phase[e] = from
  /\ phase' = [phase EXCEPT ![e] = to]

Trigger(e) == Move(e, "absent", "queued") /\ UNCHANGED completed

Start(e) == Move(e, "queued", "running") /\ UNCHANGED completed

CompleteStep(e, k) ==
  /\ phase[e] = "running"
  /\ completed[e] = 1..(k - 1)
  /\ completed' = [completed EXCEPT ![e] = @ \cup {k}]
  /\ IF k = StepCount
       THEN phase' = [phase EXCEPT ![e] = "succeeded"]
       ELSE UNCHANGED phase

Fail(e) == Move(e, "running", "failed") /\ UNCHANGED completed

Cancel(e) ==
  /\ \E from \in {"queued", "running"} : Move(e, from, "cancelled")
  /\ UNCHANGED completed

Next ==
  \E e \in Executions :
    \/ Trigger(e) \/ Start(e) \/ Fail(e) \/ Cancel(e)
    \/ \E k \in 1..StepCount : CompleteStep(e, k)

Spec == Init /\ [][Next]_vars
===============================================================================
