------------------------- MODULE MCContextLifecycle -------------------------
(* Model-checking instance of ContextLifecycle.                             *)
EXTENDS ContextLifecycle, TLC

Symmetry == Permutations(Requests)
=============================================================================
