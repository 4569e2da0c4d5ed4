--------------------------- MODULE MCCircuitBreaker ---------------------------
(* Model-checking constants for CircuitBreaker. *)
EXTENDS CircuitBreaker, TLC

\* The calls are interchangeable (not used where liveness is checked).
CallSymmetry == Permutations(Calls)
===============================================================================
