-------------------------- MODULE MCExecutionScreens --------------------------
(* The small instance of ExecutionScreens that TLC checks.                 *)
EXTENDS ExecutionScreens

OnePerMillisecond == <<3, 7>>
================================================================================
