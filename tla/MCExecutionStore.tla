--------------------------- MODULE MCExecutionStore ---------------------------
(* The small instance of ExecutionStore that TLC checks.  The worker       *)
(* processes are interchangeable, and none of the properties names one.    *)
EXTENDS ExecutionStore

TwoThenOne == <<2, 1>>

ProcessSymmetry == Permutations(Dispatchers)
===============================================================================
