----------------------------- MODULE ClientStore -----------------------------
(***************************************************************************)
(* What a connection registry promises, with no cache, lock or creation in *)
(* sight: one client per key, published once, and given to everyone who    *)
(* asks for the key from then on until the key is retired by a Shutdown.   *)
(* Nothing is promised about a retired key.                                *)
(***************************************************************************)
CONSTANTS Procs, Keys, Clients, NoKey, NoClient

VARIABLES stored,   \* the client of each key
          asked,    \* the key each caller asked for last
          given,    \* and the answer it has, if it has one
          retired   \* the keys a Shutdown has emptied

storeVars == <<stored, asked, given, retired>>

Init ==
  /\ stored = [k \in Keys |-> NoClient]
  /\ asked = [p \in Procs |-> NoKey]
  /\ given = [p \in Procs |-> NoClient]
  /\ retired = {}

Ask(p, k) ==
  /\ asked' = [asked EXCEPT ![p] = k]
  /\ given' = [given EXCEPT ![p] = NoClient]
  /\ UNCHANGED <<stored, retired>>

\* A client becomes the one of its key, which has none, and of no other.
Publish(k, c) ==
  /\ k \notin retired
  /\ stored[k] = NoClient
  /\ \A j \in Keys : stored[j] # c
  /\ stored' = [stored EXCEPT ![k] = c]
  /\ UNCHANGED <<asked, given, retired>>

\* Who asked is given the client of the key, and keeps it until it asks again.
Give(p, c) ==
  /\ given[p] = NoClient
  /\ asked[p] \in Keys
  /\ asked[p] \in retired \/ stored[asked[p]] = c
  /\ given' = [given EXCEPT ![p] = c]
  /\ UNCHANGED <<stored, asked, retired>>

Retire(k) ==
  /\ stored' = [stored EXCEPT ![k] = NoClient]
  /\ retired' = retired \cup {k}
  /\ UNCHANGED <<asked, given>>

Next ==
  \/ \E p \in Procs, k \in Keys : Ask(p, k)
  \/ \E p \in Procs, c \in Clients : Give(p, c)
  \/ \E k \in Keys : Retire(k) \/ \E c \in Clients : Publish(k, c)

Spec == Init /\ [][Next]_storeVars
=============================================================================
