--------------------------- MODULE MCCircuitBreaker ---------------------------
(* CircuitBreaker for TLC: the calls are interchangeable.                   *)
EXTENDS CircuitBreaker, TLC

CallSymmetry == Permutations(Call)
===============================================================================
