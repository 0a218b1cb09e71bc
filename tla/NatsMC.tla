------------------------------- MODULE NatsMC -------------------------------
(* Nats for TLC: two producer keys and a consumer key of one fingerprint,   *)
(* a producer key of another.                                               *)
EXTENDS Nats, TLC

CONSTANTS p1, p2, c1, c2, c3

MCPrintOf == [k \in {"orders", "orders2", "reader", "audit"} |->
                IF k = "audit" THEN "f2" ELSE "f1"]
Symmetric == Permutations({p1, p2}) \cup Permutations({c1, c2, c3})
=============================================================================
