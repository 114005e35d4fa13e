---------------------------- MODULE MCDbAccessor ----------------------------
(* Symmetry of the threads and of the values, for the safety runs.          *)
EXTENDS DbAccessor, TLC

ThreadSymmetry == Permutations(Thread) \cup Permutations(Value)
=============================================================================
