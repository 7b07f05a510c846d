---------------------------- MODULE MCToolPathGo ----------------------------
(* Model-checking instance of ToolPathGo: the workers are interchangeable.   *)
EXTENDS ToolPathGo, TLC

ThreadSymmetry == Permutations(Threads)
=============================================================================
