------------------------------- MODULE Callers -------------------------------
(* The goroutines that share the breakers and limiters of                  *)
(* internal/resilience.                                                    *)
CONSTANT Caller
=============================================================================
