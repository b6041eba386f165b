------------------------------- MODULE MCRecovery -------------------------------
(* Model checking of Recovery: interchangeable handlers and records.            *)
EXTENDS Recovery, TLC

RecoverySymmetry == Permutations(Writers) \cup Permutations(Values)

================================================================================
