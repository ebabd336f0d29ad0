---------------------------- MODULE MCJobLifecycle ----------------------------
(* Model-checking instance of JobLifecycle.                                *)
EXTENDS JobLifecycle

\* All submissions carry the same key and the same parameters.
SameKey(j) == CHOOSE k \in Keys : TRUE
SameHash(j) == "params"
===============================================================================
