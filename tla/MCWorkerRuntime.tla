--------------------------- MODULE MCWorkerRuntime ---------------------------
(* Small instances of WorkerRuntime for TLC.  The worker processes are     *)
(* interchangeable: the run that checks safety alone uses that.            *)
EXTENDS WorkerRuntime

OneAttempt == <<1>>
TwoAttempts == <<2>>

ProcessSymmetry == Permutations(Dispatchers)
===============================================================================
