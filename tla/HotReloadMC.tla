----------------------------- MODULE HotReloadMC -----------------------------
(***************************************************************************)
(* HotReload for TLC: every path's file has one section, "main".              *)
(***************************************************************************)
EXTENDS HotReload

MCNameOf == [a \in Paths |-> "main"]

\* Every version of the config has a fingerprint of its own.
DistinctPrints == [c \in Contents |-> c]
=============================================================================
