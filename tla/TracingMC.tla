------------------------------ MODULE TracingMC ------------------------------
(* Tracing for TLC: two processes, a message and its relays, all drivers.   *)
EXTENDS Tracing

CONSTANTS p1, p2

Symmetric == Permutations({p1, p2})
=============================================================================
