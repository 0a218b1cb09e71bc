------------------------------- MODULE PulsarMC -------------------------------
(***************************************************************************)
(* Pulsar for TLC: a producer and a consumer of one config share a client. *)
(***************************************************************************)
EXTENDS Pulsar, TLC

MCPrintOf == [k \in Keys |-> "f"]

Symmetry == Permutations(Procs) \cup Permutations(Handles)
              \cup Permutations(Clients)
=============================================================================
