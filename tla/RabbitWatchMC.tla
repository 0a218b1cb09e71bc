---------------------------- MODULE RabbitWatchMC ----------------------------
(***************************************************************************)
(* RabbitWatch for TLC.                                                    *)
(***************************************************************************)
EXTENDS RabbitWatch, TLC

Symmetry == Permutations(Procs) \cup Permutations(Clients)
              \cup Permutations(Mutexes)
=============================================================================
