------------------------------ MODULE MCAtomicFile ------------------------------
(* Model checking of AtomicFile: interchangeable writers and versions.          *)
EXTENDS AtomicFile, TLC

FileSymmetry == Permutations(Writers) \cup Permutations(Values)

================================================================================
