---------------------------- MODULE MCAutoRequest ---------------------------
(* Model-checking instance of AutoRequest: the workers are interchangeable.  *)
EXTENDS AutoRequest, TLC

ThreadSymmetry == Permutations(Threads)
=============================================================================
