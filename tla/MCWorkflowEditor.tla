--------------------------- MODULE MCWorkflowEditor ---------------------------
(* Small instances of WorkflowEditor for TLC.                              *)
EXTENDS WorkflowEditor

CONSTANT key

OneKey == {key}
AllConfigs == {"first", "second", "refused"}
AcceptedConfigs == {"first", "second"}
SingleSteps == {<<[id |-> key, config |-> config]>> : config \in AcceptedConfigs}
NewWorkflow == {<<>>} \cup SingleSteps
================================================================================
