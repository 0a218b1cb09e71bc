-------------------------------- MODULE Pulsar --------------------------------
(***************************************************************************)
(* pulsarx: two registries, one above the other. A producer or consumer    *)
(* (a handle) is made on a client that handles of one fingerprint share,    *)
(* so getOrCreateProducer calls getOrCreateClient with its own mutex held.  *)
(* Shutdown closes the producers, sleeps, and closes the clients.          *)
(*                                                                         *)
(* A mutex is the generation of its key's entry in the lock table: deleting *)
(* the entry makes the next caller store another mutex. Taking a mutex and *)
(* looking again into the cache is one step, for taking it is seen by      *)
(* nobody who does not want it too. Registry has these steps one by one.   *)
(***************************************************************************)
EXTENDS Naturals

CONSTANTS Procs,
          ProducerKeys, ConsumerKeys,
          Prints, PrintOf,  \* ConfigFingerprint of each key's config
          Handles, Clients,
          NoKey, NoHandle, NoClient

Keys == ProducerKeys \cup ConsumerKeys

ASSUME PulsarAssumption ==
  /\ ProducerKeys \cap ConsumerKeys = {}
  /\ Keys \cap Prints = {}
  /\ PrintOf \in [Keys -> Prints]
  /\ NoKey \notin Keys /\ {NoHandle, NoClient} \cap (Handles \cup Clients) = {}

\* What has a mutex, and what Shutdown visits.
Entries == Keys \cup Prints
Visited == ProducerKeys \cup Prints

VARIABLES
  cache, clientCache,  \* producerCache and consumerCache; clientCache
  gen,                 \* the lock tables
  handle, parent,      \* each handle's life, and the client it was made on
  client, printOf,     \* each client's life, and the fingerprint it was made for
  pc, req, val, cli,   \* a caller: place, key, handle, client
  mu, cmu,             \* the mutexes a caller waits for or holds
  sd, seen, closer, target,  \* Shutdown and its closing goroutines
  owed                 \* history: the producers cached when Shutdown began

cacheVars  == <<cache, clientCache, gen>>
handleVars == <<handle, parent>>
clientVars == <<client, printOf>>
callVars   == <<pc, req, val, cli, mu, cmu>>
sdVars     == <<sd, seen, closer, target, owed>>
vars       == <<cacheVars, handleVars, clientVars, callVars, sdVars>>

Life == {"unborn", "open", "closed"}

\* Types; and every handle that was made has a client it was made on.
TypeOK ==
  /\ cache \in [Keys -> Handles \cup {NoHandle}]
  /\ clientCache \in [Prints -> Clients \cup {NoClient}]
  /\ gen \in [Entries -> Nat]
  /\ handle \in [Handles -> Life] /\ client \in [Clients -> Life]
  /\ parent \in [Handles -> Clients \cup {NoClient}]
  /\ printOf \in [Clients -> Prints \cup {NoKey}]
  /\ pc \in [Procs -> {"idle", "load", "lock", "client", "clientLock",
                       "makeClient", "storeClient", "create", "store"}]
  /\ req \in [Procs -> Keys \cup {NoKey}]
  /\ val \in [Procs -> Handles \cup {NoHandle}]
  /\ cli \in [Procs -> Clients \cup {NoClient}]
  /\ mu \in [Procs -> Nat] /\ cmu \in [Procs -> Nat]
  /\ sd \in {"ready", "producers", "sleep", "clients", "wait", "graceful", "timedOut"}
  /\ seen \subseteq Visited
  /\ closer \in [Visited -> {"none", "close", "uncache", "dropLock", "done"}]
  /\ target \in [Visited -> Handles \cup Clients \cup {NoHandle}]
  /\ owed \subseteq Handles
  /\ \A h \in Handles : handle[h] = "unborn" <=> parent[h] = NoClient

Init ==
  /\ cache = [k \in Keys |-> NoHandle]
  /\ clientCache = [f \in Prints |-> NoClient]
  /\ gen = [e \in Entries |-> 0]
  /\ handle = [h \in Handles |-> "unborn"] /\ parent = [h \in Handles |-> NoClient]
  /\ client = [c \in Clients |-> "unborn"] /\ printOf = [c \in Clients |-> NoKey]
  /\ pc = [p \in Procs |-> "idle"]
  /\ req = [p \in Procs |-> NoKey]
  /\ val = [p \in Procs |-> NoHandle]
  /\ cli = [p \in Procs |-> NoClient]
  /\ mu = [p \in Procs |-> 0] /\ cmu = [p \in Procs |-> 0]
  /\ sd = "ready" /\ seen = {}
  /\ closer = [e \in Visited |-> "none"]
  /\ target = [e \in Visited |-> NoHandle]
  /\ owed = {}

-----------------------------------------------------------------------------
Goto(p, label) == pc' = [pc EXCEPT ![p] = label]

\* p holds the mutex of its key; of its fingerprint. Both are released when
\* their function returns.
InKey(p) == pc[p] \in {"client", "clientLock", "makeClient", "storeClient",
                       "create", "store"}
InPrint(p) == pc[p] \in {"makeClient", "storeClient"}

KeyFree(p) ==
  \A q \in Procs \ {p} : ~ (InKey(q) /\ req[q] = req[p] /\ mu[q] = mu[p])
PrintFree(p) ==
  \A q \in Procs \ {p} :
    ~ (InPrint(q) /\ PrintOf[req[q]] = PrintOf[req[p]] /\ cmu[q] = cmu[p])

Call(p, k) ==
  /\ pc[p] = "idle"
  /\ Goto(p, "load")
  /\ req' = [req EXCEPT ![p] = k]
  /\ val' = [val EXCEPT ![p] = NoHandle]
  /\ UNCHANGED <<cacheVars, handleVars, clientVars, cli, mu, cmu, sdVars>>

LoadHit(p) ==
  /\ pc[p] = "load" /\ cache[req[p]] # NoHandle
  /\ val' = [val EXCEPT ![p] = cache[req[p]]]
  /\ Goto(p, "idle")
  /\ UNCHANGED <<cacheVars, handleVars, clientVars, req, cli, mu, cmu, sdVars>>

LoadMiss(p) ==
  /\ pc[p] = "load" /\ cache[req[p]] = NoHandle
  /\ mu' = [mu EXCEPT ![p] = gen[req[p]]]
  /\ Goto(p, "lock")
  /\ UNCHANGED <<cacheVars, handleVars, clientVars, req, val, cli, cmu, sdVars>>

LockKey(p) ==
  /\ pc[p] = "lock" /\ KeyFree(p)
  /\ val' = [val EXCEPT ![p] = cache[req[p]]]
  /\ Goto(p, IF cache[req[p]] # NoHandle THEN "idle" ELSE "client")
  /\ UNCHANGED <<cacheVars, handleVars, clientVars, req, cli, mu, cmu, sdVars>>

\* getOrCreateClient.
ClientHit(p) ==
  LET c == clientCache[PrintOf[req[p]]] IN
  /\ pc[p] = "client" /\ c # NoClient
  /\ cli' = [cli EXCEPT ![p] = c]
  /\ Goto(p, "create")
  /\ UNCHANGED <<cacheVars, handleVars, clientVars, req, val, mu, cmu, sdVars>>

ClientMiss(p) ==
  /\ pc[p] = "client" /\ clientCache[PrintOf[req[p]]] = NoClient
  /\ cmu' = [cmu EXCEPT ![p] = gen[PrintOf[req[p]]]]
  /\ Goto(p, "clientLock")
  /\ UNCHANGED <<cacheVars, handleVars, clientVars, req, val, cli, mu, sdVars>>

\* Mutant of LockPrint: no second look.
LockPrintUnchecked(p) ==
  /\ pc[p] = "clientLock" /\ PrintFree(p)
  /\ Goto(p, "makeClient")
  /\ UNCHANGED <<cacheVars, handleVars, clientVars, req, val, cli, mu, cmu, sdVars>>

LockPrint(p) ==
  LET c == clientCache[PrintOf[req[p]]] IN
  /\ pc[p] = "clientLock" /\ PrintFree(p)
  /\ cli' = [cli EXCEPT ![p] = c]
  /\ Goto(p, IF c # NoClient THEN "create" ELSE "makeClient")
  /\ UNCHANGED <<cacheVars, handleVars, clientVars, req, val, mu, cmu, sdVars>>

MakeClient(p) ==
  /\ pc[p] = "makeClient"
  /\ \E c \in Clients :
       /\ client[c] = "unborn"
       /\ client' = [client EXCEPT ![c] = "open"]
       /\ printOf' = [printOf EXCEPT ![c] = PrintOf[req[p]]]
       /\ cli' = [cli EXCEPT ![p] = c]
  /\ Goto(p, "storeClient")
  /\ UNCHANGED <<cacheVars, handleVars, req, val, mu, cmu, sdVars>>

\* Mutant of StoreClient: the client is not stored.
StoreNoClient(p) ==
  /\ pc[p] = "storeClient"
  /\ Goto(p, "create")
  /\ UNCHANGED <<cacheVars, handleVars, clientVars, req, val, cli, mu, cmu, sdVars>>

StoreClient(p) ==
  /\ pc[p] = "storeClient"
  /\ clientCache' = [clientCache EXCEPT ![PrintOf[req[p]]] = cli[p]]
  /\ Goto(p, "create")
  /\ UNCHANGED <<cache, gen, handleVars, clientVars, req, val, cli, mu, cmu, sdVars>>

\* Mutant of Create: the handle is made on no client.
CreateOrphan(p) ==
  /\ pc[p] = "create"
  /\ \E h \in Handles :
       /\ handle[h] = "unborn"
       /\ handle' = [handle EXCEPT ![h] = "open"]
       /\ val' = [val EXCEPT ![p] = h]
  /\ Goto(p, "store")
  /\ UNCHANGED <<cacheVars, parent, clientVars, req, cli, mu, cmu, sdVars>>

\* client.CreateProducer or client.Subscribe; a closed client makes none.
Create(p) ==
  /\ pc[p] = "create" /\ client[cli[p]] = "open"
  /\ \E h \in Handles :
       /\ handle[h] = "unborn"
       /\ handle' = [handle EXCEPT ![h] = "open"]
       /\ parent' = [parent EXCEPT ![h] = cli[p]]
       /\ val' = [val EXCEPT ![p] = h]
  /\ Goto(p, "store")
  /\ UNCHANGED <<cacheVars, clientVars, req, cli, mu, cmu, sdVars>>

\* The config is another driver's, or the client or the handle cannot be made:
\* the error is returned. A client made for the handle stays.
Fail(p) ==
  /\ \/ pc[p] = "load" /\ cache[req[p]] = NoHandle
     \/ pc[p] \in {"makeClient", "create"}
  /\ Goto(p, "idle")
  /\ UNCHANGED <<cacheVars, handleVars, clientVars, req, val, cli, mu, cmu, sdVars>>

Store(p) ==
  /\ pc[p] = "store"
  /\ cache' = [cache EXCEPT ![req[p]] = val[p]]
  /\ Goto(p, "idle")
  /\ UNCHANGED <<clientCache, gen, handleVars, clientVars, req, val, cli, mu, cmu,
                 sdVars>>

Proceed(p) ==
  \/ LoadHit(p) \/ LoadMiss(p) \/ ClientHit(p) \/ ClientMiss(p)
  \/ MakeClient(p) \/ StoreClient(p) \/ Create(p) \/ Fail(p) \/ Store(p)

-----------------------------------------------------------------------------
Open == {h \in Handles : handle[h] = "open"}

StartShutdown ==
  /\ sd = "ready"
  /\ sd' = "producers"
  /\ owed' = {h \in Open : \E k \in ProducerKeys : cache[k] = h}
  /\ UNCHANGED <<cacheVars, handleVars, clientVars, callVars, seen, closer, target>>

\* The entries of the Range loop that runs.
Ranged == CASE sd = "producers" -> ProducerKeys
            [] sd = "clients" -> Prints
            [] OTHER -> {}

Cached(e) == IF e \in Keys THEN cache[e] ELSE clientCache[e]

\* The callback for entry e, if the cache has one: a closing goroutine starts.
Visit(e) ==
  /\ e \in Ranged \ seen
  /\ seen' = seen \cup {e}
  /\ IF Cached(e) \in {NoHandle, NoClient} THEN UNCHANGED <<closer, target>>
     ELSE /\ closer' = [closer EXCEPT ![e] = "close"]
          /\ target' = [target EXCEPT ![e] = Cached(e)]
  /\ UNCHANGED <<cacheVars, handleVars, clientVars, callVars, sd, owed>>

\* The end of a loop, and of the 100 ms between the two: neither waits
\* for the producers' goroutines.
RangeEnd ==
  /\ \/ sd = "producers" /\ sd' = "sleep"
     \/ sd = "clients" /\ sd' = "wait"
  /\ Ranged \subseteq seen
  /\ UNCHANGED <<cacheVars, handleVars, clientVars, callVars, seen, closer, target,
                 owed>>

Wake ==
  /\ sd = "sleep"
  /\ sd' = "clients"
  /\ UNCHANGED <<cacheVars, handleVars, clientVars, callVars, seen, closer, target,
                 owed>>

\* p.Close() of a producer.
CloseProducer(k) ==
  /\ k \in ProducerKeys /\ closer[k] = "close"
  /\ handle' = [handle EXCEPT ![target[k]] = "closed"]
  /\ closer' = [closer EXCEPT ![k] = "uncache"]
  /\ UNCHANGED <<cacheVars, parent, clientVars, callVars, sd, seen, target, owed>>

\* c.Close() of a client closes every producer and consumer made on it.
CloseClient(f) ==
  /\ f \in Prints /\ closer[f] = "close"
  /\ client' = [client EXCEPT ![target[f]] = "closed"]
  /\ handle' = [h \in Handles |-> IF parent[h] = target[f] THEN "closed" ELSE handle[h]]
  /\ closer' = [closer EXCEPT ![f] = "uncache"]
  /\ UNCHANGED <<cacheVars, parent, printOf, callVars, sd, seen, target, owed>>

Uncache(e) ==
  /\ closer[e] = "uncache"
  /\ IF e \in Keys
     THEN cache' = [cache EXCEPT ![e] = NoHandle] /\ UNCHANGED clientCache
     ELSE clientCache' = [clientCache EXCEPT ![e] = NoClient] /\ UNCHANGED cache
  /\ closer' = [closer EXCEPT ![e] = "dropLock"]
  /\ UNCHANGED <<gen, handleVars, clientVars, callVars, sd, seen, target, owed>>

DropLock(e) ==
  /\ closer[e] = "dropLock"
  /\ gen' = [gen EXCEPT ![e] = @ + 1]
  /\ closer' = [closer EXCEPT ![e] = "done"]
  /\ UNCHANGED <<cache, clientCache, handleVars, clientVars, callVars, sd, seen,
                 target, owed>>

Closing(e) == CloseProducer(e) \/ CloseClient(e) \/ Uncache(e) \/ DropLock(e)

\* Mutant of Return: wg.Add inside the goroutine.
ReturnEarly ==
  /\ sd = "wait"
  /\ sd' \in {"graceful", "timedOut"}
  /\ UNCHANGED <<cacheVars, handleVars, clientVars, callVars, seen, closer, target,
                 owed>>

\* wg.Wait returned, or ctx ended.
Return ==
  /\ sd = "wait"
  /\ \/ (\A e \in Visited : closer[e] \in {"none", "done"}) /\ sd' = "graceful"
     \/ sd' = "timedOut"
  /\ UNCHANGED <<cacheVars, handleVars, clientVars, callVars, seen, closer, target,
                 owed>>

ShutdownStep == (\E e \in Visited : Visit(e)) \/ RangeEnd \/ Wake

Next ==
  \/ \E p \in Procs :
       \/ \E k \in Keys : Call(p, k)
       \/ Proceed(p) \/ LockKey(p) \/ LockPrint(p)
  \/ StartShutdown \/ ShutdownStep \/ Return
  \/ \E e \in Visited : Closing(e)

Spec == Init /\ [][Next]_vars

-----------------------------------------------------------------------------
\* Shutdown has not deleted the entry yet.
Untouched(e) == closer[e] \in {"none", "close", "uncache"}

\* "We make the client a singleton first": callers of different keys that share
\* a fingerprint get one client, each under a mutex of its own key, until
\* Shutdown deletes it.
OneClientPerPrint ==
  \A c, d \in Clients :
    /\ client[c] = "open" /\ client[d] = "open"
    /\ printOf[c] = printOf[d] /\ Untouched(printOf[c])
    => c = d

\* Every cached handle lives on the client that the client registry has for the
\* fingerprint of its key: closing the cached clients reaches all handles.
HandlesOnCachedClient ==
  \A k \in Keys :
    LET h == cache[k] IN
    h # NoHandle =>
      /\ printOf[parent[h]] = PrintOf[k]
      /\ Untouched(PrintOf[k]) => clientCache[PrintOf[k]] = parent[h]

\* A Shutdown that ends gracefully has closed every producer that was cached
\* when it began, whichever of the two goroutines came first.
GracefulClosesProducers ==
  sd = "graceful" => \A h \in owed : handle[h] = "closed"

\* "Producers first, the clients last": no client is closed under a producer
\* that Shutdown is still closing.
ClientsLast ==
  [][\A c \in Clients :
       client[c] = "open" /\ client'[c] = "closed" =>
         \A h \in owed : parent[h] = c => handle[h] = "closed"]_vars
=============================================================================
