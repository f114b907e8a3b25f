------------------------ MODULE MCExecutionLifecycle ------------------------
(* ExecutionLifecycle for TLC: the ids of stop orders are interchangeable. *)
EXTENDS ExecutionLifecycle, TLC

StopSymmetry == Permutations(StopIds)
=============================================================================
