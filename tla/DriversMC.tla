------------------------------ MODULE DriversMC ------------------------------
(***************************************************************************)
(* Drivers for TLC: a path whose file changes once, by dropping the        *)
(* dead-letter queue, and wrappers of both roles and modes.                *)
(***************************************************************************)
EXTENDS Drivers, TLC

Section(dlq) == [present |-> TRUE, dlq |-> dlq, exchange |-> TRUE, queue |-> TRUE,
                 prefetch |-> FALSE, confirm |-> TRUE]
MCSections == <<Section(TRUE), Section(FALSE)>>

W(role, via, mode) == [role |-> role, via |-> via, mode |-> mode]
MCWrappers == {W("producer", "path", "single"), W("producer", "path", "cluster"),
               W("producer", "config", "single"), W("consumer", "path", "single")}

MCFileModes == <<"", "cluster">>
Symmetry == Permutations(Procs)
=============================================================================
