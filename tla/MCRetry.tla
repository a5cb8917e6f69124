------------------------------- MODULE MCRetry -------------------------------
(* Retry for TLC: the callers are interchangeable.                         *)
EXTENDS Retry, TLC

Symmetry == Permutations(Caller)
=============================================================================
