----------------------------- MODULE StateMachine -----------------------------
(***************************************************************************)
(* The execution and step-run state machines of packages/workflow-core.    *)
(*                                                                         *)
(* The transition tables of the source are records from a status to a list *)
(* of successors.  Here each table is the set of its allowed pairs, which  *)
(* is all canTransition* and assert*Transition ever ask of it.             *)
(***************************************************************************)

(* "absent" is not a status of the code: it stands for "there is no row".  *)
Absent == "absent"

ExecutionStatus == {"queued", "running", "succeeded", "failed", "cancelled"}

StepRunStatus ==
  {"pending", "queued", "running", "succeeded",
   "retrying", "failed", "skipped", "cancelled"}

ExecutionTerminalStatuses == {"succeeded", "failed", "cancelled"}

StepRunTerminalStatuses == {"succeeded", "failed", "skipped", "cancelled"}

AllowedExecutionTransitions ==
  ({"queued"} \X {"running", "cancelled"})
    \cup ({"running"} \X {"succeeded", "failed", "cancelled"})

AllowedStepRunTransitions ==
  ({"pending"} \X {"queued", "skipped", "cancelled"})
    \cup ({"queued"} \X {"running", "skipped", "cancelled"})
    \cup ({"running"} \X {"succeeded", "retrying", "failed", "cancelled"})
    \cup ({"retrying"} \X {"queued", "failed", "cancelled"})

CanTransitionExecution(from, to) == <<from, to>> \in AllowedExecutionTransitions

CanTransitionStepRun(from, to) == <<from, to>> \in AllowedStepRunTransitions
===============================================================================
