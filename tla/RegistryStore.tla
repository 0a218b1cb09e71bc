---------------------------- MODULE RegistryStore ----------------------------
(***************************************************************************)
(* Registry implements ClientStore. A cached client counts as published    *)
(* until a Shutdown has deleted the key's entry, a caller's val as given    *)
(* once getOrCreate has returned.                                           *)
(***************************************************************************)
EXTENDS Registry

storedClient == [k \in Keys |-> IF Untouched(k) THEN cache[k] ELSE NoClient]
givenClient  == [p \in Procs |-> IF pc[p] = "idle" THEN val[p] ELSE NoClient]
retiredKeys  == {k \in Keys : ~Untouched(k)}

Shared == INSTANCE ClientStore
            WITH stored <- storedClient, asked <- req,
                 given <- givenClient, retired <- retiredKeys

\* Whatever the callers of getOrCreate and Shutdown interleave to, it is a
\* behaviour of the abstract store: the first creator publishes the key's
\* client, and everyone who asks is given that client until Shutdown.
SharesOneClient == Shared!Spec
=============================================================================
