---------------------------- MODULE MCWorkflowGraph ----------------------------
(* Small instances of WorkflowGraph for TLC.                               *)
EXTENDS WorkflowGraph

CONSTANTS a, b, c, d

FourKeys == {a, b, c, d}
OneConfig == {"default"}
OneStep == {<<[id |-> id, config |-> "default"]>> : id \in FourKeys}
KeysAreAlike == Permutations(FourKeys)
================================================================================
