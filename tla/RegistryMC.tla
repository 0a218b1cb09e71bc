----------------------------- MODULE RegistryMC -----------------------------
(***************************************************************************)
(* Registry for TLC. Goroutines, clients and mutexes are interchangeable.  *)
(***************************************************************************)
EXTENDS RegistryStore, TLC

Symmetry == Permutations(Procs) \cup Permutations(Clients)
              \cup Permutations(Mutexes)
=============================================================================
