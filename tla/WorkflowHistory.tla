---------------------------- MODULE WorkflowHistory ----------------------------
(***************************************************************************)
(* What a workflow promises to those who save, publish and trigger it      *)
(* (docs/adr/003), without rows, locks, statuses and requests: it is the   *)
(* sequence of the definitions ever saved, of which one is active, and the *)
(* last is a draft until it is published.                                  *)
(*                                                                         *)
(* WorkflowRegistry implements this specification for every workflow, and  *)
(* what WorkflowEditor takes for the server implements it too.             *)
(***************************************************************************)
EXTENDS Integers, Sequences

CONSTANT Definitions

VARIABLES
  saved,   \* the definitions in the order in which they were saved
  active,  \* the position of the active one; 0 for none
  drafted  \* whether the last one has not been published

vars == <<saved, active, drafted>>

Init == saved = <<>> /\ active = 0 /\ drafted = FALSE

(* The draft there was will never be published.                            *)
Save(definition) ==
  /\ saved' = Append(saved, definition)
  /\ drafted' = TRUE
  /\ UNCHANGED active

Publish ==
  /\ drafted
  /\ active' = Len(saved)
  /\ drafted' = FALSE
  /\ UNCHANGED saved

Next == Publish \/ \E definition \in Definitions : Save(definition)

Spec == Init /\ [][Next]_vars
===============================================================================
