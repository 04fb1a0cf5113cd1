------------------------- MODULE MCWorkflowRegistry --------------------------
(* The instances of WorkflowRegistry that TLC checks; their cfg files give *)
(* all constants.                                                          *)
EXTENDS WorkflowRegistry
===============================================================================
