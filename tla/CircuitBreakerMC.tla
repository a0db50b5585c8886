---------------------------- MODULE CircuitBreakerMC ----------------------------
(* Small instances of CircuitBreaker for TLC. *)
EXTENDS CircuitBreaker, TLC

CONSTANTS c1, c2

TwoCallers == {c1, c2}
Alike      == Permutations(TwoCallers)
================================================================================
