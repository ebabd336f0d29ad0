--------------------------- MODULE MCSessionStream ---------------------------
(* Model-checking instance of SessionStream: jobs are interchangeable.     *)
EXTENDS SessionStream, TLC

Symmetry == Permutations(Jobs)
===============================================================================
