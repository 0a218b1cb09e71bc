----------------------------- MODULE PulsarProofs -----------------------------
(***************************************************************************)
(* Proofs about Pulsar, for any number of callers, keys, fingerprints,     *)
(* handles and clients.                                                    *)
(***************************************************************************)
EXTENDS Pulsar, TLAPS

\* Shutdown has not deleted the entry of key k; nobody deletes a consumer's.
KeyKept(k) == k \in Visited => Untouched(k)

PrintFor(p) == PrintOf[req[p]]

\* A caller inside has a key, and what it made or found is for that key.
LocalsInv ==
  \A p \in Procs :
    /\ pc[p] # "idle" => req[p] \in Keys
    /\ pc[p] \in {"storeClient", "create"} =>
         /\ cli[p] \in Clients /\ client[cli[p]] # "unborn"
         /\ printOf[cli[p]] = PrintFor(p)
    /\ pc[p] = "store" =>
         /\ val[p] \in Handles /\ parent[val[p]] # NoClient
         /\ printOf[parent[val[p]]] = PrintFor(p)

\* What is cached was made for its key.
CachedInv ==
  /\ \A c \in Clients : client[c] # "unborn" => printOf[c] \in Prints
  /\ \A h \in Handles : parent[h] # NoClient => client[parent[h]] # "unborn"
  /\ \A f \in Prints : clientCache[f] # NoClient =>
       client[clientCache[f]] # "unborn" /\ printOf[clientCache[f]] = f
  /\ \A k \in Keys : cache[k] # NoHandle =>
       parent[cache[k]] # NoClient /\ printOf[parent[cache[k]]] = PrintOf[k]

\* A closing goroutine comes from a visit, which found what it closes.
CloserInv ==
  /\ sd = "ready" => seen = {} /\ owed = {}
  /\ \A e \in Visited : closer[e] # "none" => e \in seen
  /\ \A k \in ProducerKeys : closer[k] = "close" =>
       target[k] \in Handles /\ parent[target[k]] # NoClient
  /\ \A f \in Prints : closer[f] = "close" => target[f] \in Clients /\ client[target[f]] # "unborn"

\* Until Shutdown deletes a key's entry, its callers share one mutex, and who
\* holds it found the cache empty.
KeyInv ==
  \A p \in Procs : KeyKept(req[p]) =>
    /\ pc[p] = "lock" \/ InKey(p) => mu[p] = gen[req[p]]
    /\ InKey(p) => /\ cache[req[p]] = NoHandle
                   /\ \A q \in Procs : InKey(q) /\ req[q] = req[p] => q = p

\* The same of a fingerprint.
PrintInv ==
  \A p \in Procs : (pc[p] = "clientLock" \/ InPrint(p)) /\ Untouched(PrintFor(p)) =>
    /\ cmu[p] = gen[PrintFor(p)]
    /\ InPrint(p) => /\ clientCache[PrintFor(p)] = NoClient
                     /\ \A q \in Procs : InPrint(q) /\ PrintFor(q) = PrintFor(p) => q = p

\* Until then a client that was made is cached or about to be, and what a
\* caller has or made is on the cached one.
BelongInv ==
  /\ \A c \in Clients : client[c] # "unborn" /\ Untouched(printOf[c]) =>
       \/ clientCache[printOf[c]] = c
       \/ \E p \in Procs : pc[p] = "storeClient" /\ cli[p] = c
  /\ \A p \in Procs : pc[p] = "create" /\ Untouched(PrintFor(p)) =>
       clientCache[PrintFor(p)] = cli[p]
  /\ \A p \in Procs : pc[p] = "store" /\ Untouched(PrintFor(p)) =>
       clientCache[PrintFor(p)] = parent[val[p]]

\* A producer that was cached when Shutdown began is closed, or still ahead of
\* the loop, or in the hands of a goroutine.
OwedInv ==
  \A h \in owed :
    \/ handle[h] = "closed"
    \/ \E k \in ProducerKeys :
         \/ sd = "producers" /\ k \notin seen /\ cache[k] = h
         \/ closer[k] = "close" /\ target[k] = h

PulsarInv ==
  /\ TypeOK /\ LocalsInv /\ CachedInv /\ CloserInv /\ KeyInv /\ PrintInv
  /\ BelongInv /\ OwedInv /\ HandlesOnCachedClient

-----------------------------------------------------------------------------
\* The empty registries satisfy the invariant.
LEMMA PulsarInit == Init => PulsarInv
<1> SUFFICES ASSUME Init PROVE PulsarInv
  OBVIOUS
<1>1. TypeOK
  BY PulsarAssumption DEF Init, TypeOK, Life, Entries, Visited, Keys
<1>2. LocalsInv /\ CachedInv /\ CloserInv
  BY PulsarAssumption DEF Init, LocalsInv, CachedInv, CloserInv, Visited
<1>3. KeyInv /\ PrintInv /\ BelongInv
  BY DEF Init, KeyInv, PrintInv, BelongInv, InKey, InPrint
<1>4. OwedInv /\ HandlesOnCachedClient
  BY DEF Init, OwedInv, HandlesOnCachedClient
<1> QED
  BY <1>1, <1>2, <1>3, <1>4 DEF PulsarInv

\* Every key has a fingerprint; keys and fingerprints have a mutex.
LEMMA KeyPrints ==
  /\ \A k \in Keys : PrintOf[k] \in Prints /\ k \in Entries
  /\ \A f \in Prints : f \in Entries /\ f \in Visited /\ f \notin Keys
  /\ \A k \in ProducerKeys : k \in Keys /\ k \in Visited /\ k \notin Prints
  /\ \A e \in Visited : e \in ProducerKeys \/ e \in Prints
BY PulsarAssumption DEF Keys, Entries, Visited

\* Every action keeps the types.
LEMMA PulsarTypeStep == PulsarInv /\ [Next]_vars => TypeOK'
<1> SUFFICES ASSUME PulsarInv, [Next]_vars PROVE TypeOK'
  OBVIOUS
<1>0. TypeOK /\ LocalsInv /\ CloserInv
  BY DEF PulsarInv
<1> USE <1>0, PulsarAssumption, KeyPrints DEF TypeOK, Life
<1>1. ASSUME NEW p \in Procs, NEW k \in Keys, Call(p, k) PROVE TypeOK'
  BY <1>1 DEF Call, Goto, cacheVars, handleVars, clientVars, sdVars
<1>2. ASSUME NEW p \in Procs, LoadHit(p) \/ LoadMiss(p) \/ LockKey(p) PROVE TypeOK'
  <2>1. req[p] \in Keys
    BY <1>2 DEF LocalsInv, LoadHit, LoadMiss, LockKey
  <2> QED
    BY <1>2, <2>1 DEF LoadHit, LoadMiss, LockKey, Goto, cacheVars, handleVars, clientVars,
       sdVars
<1>3. ASSUME NEW p \in Procs, ClientHit(p) \/ ClientMiss(p) \/ LockPrint(p) PROVE TypeOK'
  <2>1. req[p] \in Keys
    BY <1>3 DEF LocalsInv, ClientHit, ClientMiss, LockPrint
  <2> QED
    BY <1>3, <2>1 DEF ClientHit, ClientMiss, LockPrint, Goto, cacheVars, handleVars,
       clientVars, sdVars
<1>4. ASSUME NEW p \in Procs, MakeClient(p) PROVE TypeOK'
  <2>1. req[p] \in Keys
    BY <1>4 DEF LocalsInv, MakeClient
  <2> QED
    BY <1>4, <2>1 DEF MakeClient, Goto, cacheVars, handleVars, sdVars
<1>5. ASSUME NEW p \in Procs, StoreClient(p) \/ Fail(p) \/ Store(p) PROVE TypeOK'
  BY <1>5 DEF StoreClient, Fail, Store, Goto, cacheVars, handleVars, clientVars, sdVars
<1>6. ASSUME NEW p \in Procs, Create(p) PROVE TypeOK'
  <2>1. cli[p] \in Clients
    BY <1>6 DEF LocalsInv, Create
  <2> QED
    BY <1>6, <2>1 DEF Create, Goto, cacheVars, clientVars, sdVars
<1>7. CASE StartShutdown
  BY <1>7 DEF StartShutdown, cacheVars, handleVars, clientVars, callVars, Open
<1>8. ASSUME NEW e \in Visited, Visit(e) PROVE TypeOK'
  <2>1. Cached(e) \in Handles \cup Clients \cup {NoHandle, NoClient}
    BY DEF Cached
  <2>2. target' \in [Visited -> Handles \cup Clients \cup {NoHandle}]
    BY <1>8, <2>1 DEF Visit
  <2>3. closer' \in [Visited -> {"none", "close", "uncache", "dropLock", "done"}]
    BY <1>8 DEF Visit
  <2> QED
    BY <1>8, <2>2, <2>3 DEF Visit, cacheVars, handleVars, clientVars, callVars
<1>9. CASE RangeEnd \/ Wake \/ Return
  BY <1>9 DEF RangeEnd, Wake, Return, cacheVars, handleVars, clientVars, callVars
<1>10. ASSUME NEW e \in Visited, CloseProducer(e) \/ CloseClient(e) PROVE TypeOK'
  BY <1>10 DEF CloserInv, CloseProducer, CloseClient, cacheVars, clientVars, callVars
<1>11. ASSUME NEW e \in Visited, Uncache(e) PROVE TypeOK'
  BY <1>11 DEF Uncache, handleVars, clientVars, callVars
<1>12. ASSUME NEW e \in Visited, DropLock(e) PROVE TypeOK'
  BY <1>12 DEF DropLock, handleVars, clientVars, callVars, Entries
<1>13. CASE UNCHANGED vars
  BY <1>13 DEF vars, cacheVars, handleVars, clientVars, callVars, sdVars
<1> QED
  BY <1>1, <1>2, <1>3, <1>4, <1>5, <1>6, <1>7, <1>8, <1>9, <1>10, <1>11, <1>12, <1>13
     DEF Next, Proceed, ShutdownStep, Closing

\* A client keeps its fingerprint, a handle its client, once made.
LEMMA MadeKept ==
  ASSUME PulsarInv, [Next]_vars
  PROVE  /\ \A c \in Clients : client[c] # "unborn" =>
              client'[c] # "unborn" /\ printOf'[c] = printOf[c]
         /\ \A h \in Handles : parent[h] # NoClient => parent'[h] = parent[h]
<1>0. TypeOK
  BY DEF PulsarInv
<1> USE <1>0 DEF TypeOK, Life
<1>1. ASSUME NEW p \in Procs, MakeClient(p) \/ Create(p)
      PROVE  /\ \A c \in Clients : client[c] # "unborn" =>
                  client'[c] # "unborn" /\ printOf'[c] = printOf[c]
             /\ \A h \in Handles : parent[h] # NoClient => parent'[h] = parent[h]
  BY <1>1 DEF MakeClient, Create, handleVars, clientVars
<1>2. ASSUME NEW e \in Visited, CloseClient(e)
      PROVE  /\ \A c \in Clients : client[c] # "unborn" =>
                  client'[c] # "unborn" /\ printOf'[c] = printOf[c]
             /\ \A h \in Handles : parent[h] # NoClient => parent'[h] = parent[h]
  BY <1>2 DEF CloseClient
<1>3. CASE UNCHANGED <<parent, clientVars>>
  BY <1>3 DEF clientVars
<1>4. ASSUME NEW p \in Procs,
             (\E k \in Keys : Call(p, k)) \/ LoadHit(p) \/ LoadMiss(p) \/ LockKey(p)
               \/ ClientHit(p) \/ ClientMiss(p) \/ LockPrint(p) \/ StoreClient(p)
               \/ Fail(p) \/ Store(p)
      PROVE  UNCHANGED <<parent, clientVars>>
  BY <1>4 DEF Call, LoadHit, LoadMiss, LockKey, ClientHit, ClientMiss, LockPrint,
     StoreClient, Fail, Store, handleVars, clientVars
<1>5. ASSUME StartShutdown \/ ShutdownStep \/ Return PROVE UNCHANGED <<parent, clientVars>>
  BY <1>5 DEF StartShutdown, ShutdownStep, Visit, RangeEnd, Wake, Return, handleVars,
     clientVars
<1>6. ASSUME NEW e \in Visited, CloseProducer(e) \/ Uncache(e) \/ DropLock(e)
      PROVE  UNCHANGED <<parent, clientVars>>
  BY <1>6 DEF CloseProducer, Uncache, DropLock, handleVars, clientVars
<1>7. ASSUME UNCHANGED vars PROVE UNCHANGED <<parent, clientVars>>
  BY <1>7 DEF vars, handleVars, clientVars
<1> QED
  BY <1>1, <1>2, <1>3, <1>4, <1>5, <1>6, <1>7 DEF Next, Proceed, Closing

\* What Shutdown has touched stays touched: it meets an entry once.
LEMMA TouchedKept ==
  ASSUME PulsarInv, [Next]_vars, NEW e \in Visited, Untouched(e)'
  PROVE  Untouched(e) /\ gen'[e] = gen[e]
<1>0. TypeOK /\ CloserInv
  BY DEF PulsarInv
<1> USE <1>0, KeyPrints DEF TypeOK, CloserInv, Untouched
<1>1. CASE UNCHANGED <<closer, gen>>
  BY <1>1
<1>2. ASSUME NEW p \in Procs, (\E k \in Keys : Call(p, k)) \/ Proceed(p) \/ LockKey(p) \/ LockPrint(p)
      PROVE  UNCHANGED <<closer, gen>>
  BY <1>2 DEF Call, Proceed, LoadHit, LoadMiss, LockKey, ClientHit, ClientMiss, LockPrint,
     MakeClient, StoreClient, Create, Fail, Store, cacheVars, sdVars
<1>3. ASSUME StartShutdown \/ RangeEnd \/ Wake \/ Return \/ UNCHANGED vars
      PROVE  UNCHANGED <<closer, gen>>
  BY <1>3 DEF StartShutdown, RangeEnd, Wake, Return, vars, cacheVars, sdVars
<1>4. ASSUME NEW d \in Visited, Visit(d) PROVE Untouched(e) /\ gen'[e] = gen[e]
  BY <1>4 DEF Visit, cacheVars
<1>5. ASSUME NEW d \in Visited, Closing(d) PROVE Untouched(e) /\ gen'[e] = gen[e]
  BY <1>5 DEF Closing, CloseProducer, CloseClient, Uncache, DropLock, cacheVars, Entries
<1> QED
  BY <1>1, <1>2, <1>3, <1>4, <1>5 DEF Next, ShutdownStep

\* The steps of Shutdown and its goroutines leave the callers alone.
LEMMA NextSplit ==
  ASSUME [Next]_vars
  PROVE  \/ \E p \in Procs : (\E k \in Keys : Call(p, k)) \/ Proceed(p) \/ LockKey(p) \/ LockPrint(p)
         \/ /\ UNCHANGED callVars
            /\ \/ StartShutdown \/ RangeEnd \/ Wake \/ Return \/ UNCHANGED vars
               \/ \E e \in Visited : Visit(e) \/ CloseProducer(e) \/ CloseClient(e)
                                       \/ Uncache(e) \/ DropLock(e)
BY DEF Next, ShutdownStep, StartShutdown, RangeEnd, Wake, Return, Visit, Closing,
   CloseProducer, CloseClient, Uncache, DropLock, vars

\* A caller's clauses are about what it, and nobody else, sets.
LEMMA LocalsStep == PulsarInv /\ [Next]_vars => LocalsInv'
<1> SUFFICES ASSUME PulsarInv, [Next]_vars PROVE LocalsInv'
  OBVIOUS
<1>0. TypeOK /\ LocalsInv /\ CachedInv
  BY DEF PulsarInv
<1>1. /\ \A c \in Clients : client[c] # "unborn" =>
           client'[c] # "unborn" /\ printOf'[c] = printOf[c]
      /\ \A h \in Handles : parent[h] # NoClient => parent'[h] = parent[h]
  BY MadeKept
<1>2. \A h \in Handles : parent[h] # NoClient => parent[h] \in Clients /\ client[parent[h]] # "unborn"
  BY <1>0 DEF TypeOK, CachedInv
<1>3. CASE UNCHANGED callVars
  BY <1>0, <1>1, <1>2, <1>3 DEF LocalsInv, PrintFor, callVars, TypeOK
<1>4. ASSUME NEW p \in Procs, (\E k \in Keys : Call(p, k)) \/ LoadHit(p) \/ LoadMiss(p)
               \/ LockKey(p) \/ ClientMiss(p) \/ Fail(p) \/ Store(p)
      PROVE  LocalsInv'
  BY <1>0, <1>1, <1>2, <1>4 DEF LocalsInv, PrintFor, TypeOK, Call, LoadHit, LoadMiss, LockKey,
     ClientMiss, Fail, Store, Goto
<1>5. ASSUME NEW p \in Procs, ClientHit(p) \/ LockPrint(p) PROVE LocalsInv'
  <2>1. req[p] \in Keys /\ PrintFor(p) \in Prints
    BY <1>0, <1>5, KeyPrints DEF LocalsInv, ClientHit, LockPrint, PrintFor
  <2> QED
    BY <1>0, <1>1, <1>2, <1>5, <2>1 DEF LocalsInv, CachedInv, PrintFor, TypeOK, ClientHit,
       LockPrint, Goto
<1>6. ASSUME NEW p \in Procs, MakeClient(p) \/ StoreClient(p) PROVE LocalsInv'
  BY <1>0, <1>1, <1>2, <1>6 DEF LocalsInv, PrintFor, TypeOK, MakeClient, StoreClient, Goto
<1>7. ASSUME NEW p \in Procs, Create(p) PROVE LocalsInv'
  <2>1. cli[p] \in Clients /\ printOf[cli[p]] = PrintFor(p) /\ client[cli[p]] # "unborn"
    BY <1>0, <1>7 DEF LocalsInv, Create
  <2> QED
    BY <1>0, <1>1, <1>2, <1>7, <2>1, PulsarAssumption DEF LocalsInv, PrintFor, TypeOK, Create, Goto
<1> QED
  BY <1>3, <1>4, <1>5, <1>6, <1>7, NextSplit DEF Proceed

\* The caches change by Store, StoreClient and a deletion.
LEMMA CachedStep == PulsarInv /\ [Next]_vars => CachedInv'
<1> SUFFICES ASSUME PulsarInv, [Next]_vars PROVE CachedInv'
  OBVIOUS
<1>0. TypeOK /\ LocalsInv /\ CachedInv /\ CloserInv
  BY DEF PulsarInv
<1>1. /\ \A c \in Clients : client[c] # "unborn" =>
           client'[c] # "unborn" /\ printOf'[c] = printOf[c]
      /\ \A h \in Handles : parent[h] # NoClient => parent'[h] = parent[h]
  BY MadeKept
<1> USE <1>0, <1>1, PulsarAssumption DEF TypeOK, CachedInv
<1>2. CASE UNCHANGED <<cache, clientCache, client, printOf, parent>>
  BY <1>2
<1>3. ASSUME NEW p \in Procs, MakeClient(p) \/ Create(p) PROVE CachedInv'
  <2>1. req[p] \in Keys /\ PrintOf[req[p]] \in Prints
    BY <1>3, KeyPrints DEF LocalsInv, MakeClient, Create
  <2>2. CASE MakeClient(p)
    BY <2>1, <2>2 DEF MakeClient, cacheVars, handleVars
  <2>3. CASE Create(p)
    <3>1. cli[p] \in Clients /\ client[cli[p]] # "unborn"
      BY <2>3 DEF LocalsInv, Create
    <3> QED
      BY <2>1, <2>3, <3>1 DEF Create, cacheVars, clientVars
  <2> QED
    BY <1>3, <2>2, <2>3
<1>4. ASSUME NEW p \in Procs, StoreClient(p) \/ Store(p) PROVE CachedInv'
  BY <1>4, KeyPrints DEF StoreClient, Store, LocalsInv, PrintFor, handleVars, clientVars
<1>5. ASSUME NEW e \in Visited, CloseClient(e) \/ Uncache(e) PROVE CachedInv'
  <2>1. CASE CloseClient(e)
    <3>1. \A c \in Clients : client'[c] # "unborn" => client[c] # "unborn" \/ c = target[e]
      BY <2>1 DEF CloseClient
    <3>2. e \in Prints /\ target[e] \in Clients
      BY <2>1 DEF CloseClient, CloserInv
    <3>3. client[target[e]] # "unborn"
      BY <2>1, <3>2 DEF CloserInv, CloseClient
    <3> QED
      BY <2>1, <3>1, <3>2, <3>3 DEF CloseClient, cacheVars
  <2>2. CASE Uncache(e) /\ e \in Keys
    BY <2>2 DEF Uncache, handleVars, clientVars
  <2>3. CASE Uncache(e) /\ e \notin Keys
    BY <2>3 DEF Uncache, handleVars, clientVars
  <2> QED
    BY <1>5, <2>1, <2>2, <2>3
<1>6. ASSUME NEW p \in Procs, (\E k \in Keys : Call(p, k)) \/ LoadHit(p) \/ LoadMiss(p)
               \/ LockKey(p) \/ ClientHit(p) \/ ClientMiss(p) \/ LockPrint(p) \/ Fail(p)
      PROVE  UNCHANGED <<cache, clientCache, client, printOf, parent>>
  BY <1>6 DEF Call, LoadHit, LoadMiss, LockKey, ClientHit, ClientMiss, LockPrint, Fail,
     cacheVars, handleVars, clientVars
<1>7. ASSUME NEW e \in Visited, StartShutdown \/ RangeEnd \/ Wake \/ Return \/ UNCHANGED vars
               \/ Visit(e) \/ CloseProducer(e) \/ DropLock(e)
      PROVE  UNCHANGED <<cache, clientCache, client, printOf, parent>>
  BY <1>7 DEF StartShutdown, RangeEnd, Wake, Return, Visit, CloseProducer, DropLock, vars,
     cacheVars, handleVars, clientVars
<1>8. ASSUME StartShutdown \/ RangeEnd \/ Wake \/ Return \/ UNCHANGED vars
      PROVE  UNCHANGED <<cache, clientCache, client, printOf, parent>>
  BY <1>8 DEF StartShutdown, RangeEnd, Wake, Return, vars, cacheVars, handleVars, clientVars
<1> QED
  BY <1>2, <1>3, <1>4, <1>5, <1>6, <1>7, <1>8, NextSplit DEF Proceed

\* Only Visit starts a closing goroutine.
LEMMA CloserStep == PulsarInv /\ [Next]_vars => CloserInv'
<1> SUFFICES ASSUME PulsarInv, [Next]_vars PROVE CloserInv'
  OBVIOUS
<1>0. TypeOK /\ CloserInv /\ CachedInv
  BY DEF PulsarInv
<1>1. /\ \A c \in Clients : client[c] # "unborn" => client'[c] # "unborn"
      /\ \A h \in Handles : parent[h] # NoClient => parent'[h] = parent[h]
  BY MadeKept
<1> USE <1>0, <1>1, KeyPrints DEF TypeOK, CloserInv
<1>2. CASE UNCHANGED sdVars
  BY <1>2 DEF sdVars
<1>3. ASSUME NEW e \in Visited, Visit(e) PROVE CloserInv'
  <2>1. e \in ProducerKeys /\ Cached(e) \notin {NoHandle, NoClient} =>
          Cached(e) \in Handles /\ parent[Cached(e)] # NoClient
    BY DEF Cached, CachedInv
  <2>2. e \in Prints /\ Cached(e) \notin {NoHandle, NoClient} =>
          Cached(e) \in Clients /\ client[Cached(e)] # "unborn"
    BY DEF Cached, CachedInv
  <2>3. sd # "ready" /\ sd' = sd
    BY <1>3 DEF Visit, Ranged
  <2> QED
    BY <1>3, <2>1, <2>2, <2>3 DEF Visit
<1>4. ASSUME NEW e \in Visited, CloseProducer(e) \/ CloseClient(e) \/ Uncache(e) \/ DropLock(e)
      PROVE  CloserInv'
  BY <1>4 DEF CloseProducer, CloseClient, Uncache, DropLock
<1>5. CASE StartShutdown \/ RangeEnd \/ Wake \/ Return
  BY <1>5 DEF StartShutdown, RangeEnd, Wake, Return
<1>6. ASSUME NEW p \in Procs, (\E k \in Keys : Call(p, k)) \/ Proceed(p) \/ LockKey(p) \/ LockPrint(p)
      PROVE  UNCHANGED sdVars
  BY <1>6 DEF Call, Proceed, LoadHit, LoadMiss, LockKey, ClientHit, ClientMiss, LockPrint,
     MakeClient, StoreClient, Create, Fail, Store
<1>7. UNCHANGED vars => UNCHANGED sdVars
  BY DEF vars
<1> QED
  BY <1>2, <1>3, <1>4, <1>5, <1>6, <1>7, NextSplit

\* An entry of the caches changes by Store, StoreClient and Uncache only.
LEMMA KeptBack ==
  ASSUME PulsarInv, [Next]_vars
  PROVE  /\ \A k \in Keys : KeyKept(k)' => KeyKept(k) /\ gen'[k] = gen[k]
         /\ \A f \in Prints : Untouched(f)' => Untouched(f) /\ gen'[f] = gen[f]
<1>1. \A e \in Visited : Untouched(e)' => Untouched(e) /\ gen'[e] = gen[e]
  BY TouchedKept
<1>2. ASSUME NEW k \in Keys, k \notin Visited PROVE gen'[k] = gen[k]
  <2>1. CASE UNCHANGED gen
    BY <2>1
  <2>2. ASSUME NEW e \in Visited, DropLock(e) PROVE gen'[k] = gen[k]
    BY <1>2, <2>2, KeyPrints DEF DropLock, PulsarInv, TypeOK
  <2>3. ASSUME NEW p \in Procs, (\E j \in Keys : Call(p, j)) \/ Proceed(p) \/ LockKey(p) \/ LockPrint(p)
        PROVE  UNCHANGED gen
    BY <2>3 DEF Call, Proceed, LoadHit, LoadMiss, LockKey, ClientHit, ClientMiss, LockPrint,
       MakeClient, StoreClient, Create, Fail, Store, cacheVars
  <2>4. ASSUME NEW e \in Visited, Visit(e) \/ CloseProducer(e) \/ CloseClient(e) \/ Uncache(e)
        PROVE  UNCHANGED gen
    BY <2>4 DEF Visit, CloseProducer, CloseClient, Uncache, cacheVars
  <2>5. ASSUME StartShutdown \/ RangeEnd \/ Wake \/ Return \/ UNCHANGED vars
        PROVE  UNCHANGED gen
    BY <2>5 DEF StartShutdown, RangeEnd, Wake, Return, vars, cacheVars
  <2> QED
    BY <2>1, <2>2, <2>3, <2>4, <2>5, NextSplit
<1> QED
  BY <1>1, <1>2, KeyPrints DEF KeyKept

\* LoadMiss takes the mutex of the table, LockKey waits until nobody has it, and
\* the one that has it is the only one to fill the cache.
LEMMA KeyStep == PulsarInv /\ [Next]_vars => KeyInv'
<1> SUFFICES ASSUME PulsarInv, [Next]_vars PROVE KeyInv'
  OBVIOUS
<1>0. TypeOK /\ LocalsInv /\ KeyInv
  BY DEF PulsarInv
<1>1. \A k \in Keys : KeyKept(k)' => KeyKept(k) /\ gen'[k] = gen[k]
  BY KeptBack
<1> USE <1>0, <1>1 DEF TypeOK, LocalsInv, KeyInv, InKey
<1>2. CASE UNCHANGED <<callVars, cache>>
  BY <1>2 DEF callVars
<1>3. ASSUME NEW e \in Visited, Uncache(e), UNCHANGED callVars PROVE KeyInv'
  <2>1. \A k \in Keys : cache[k] = NoHandle => cache'[k] = NoHandle
    BY <1>3 DEF Uncache
  <2> QED
    BY <1>3, <2>1 DEF callVars
<1>4. ASSUME NEW p \in Procs, (\E k \in Keys : Call(p, k)) \/ LoadHit(p) PROVE KeyInv'
  BY <1>4 DEF Call, LoadHit, Goto, cacheVars
<1>5. ASSUME NEW p \in Procs, LoadMiss(p) PROVE KeyInv'
  BY <1>5 DEF LoadMiss, Goto, cacheVars
<1>6. ASSUME NEW p \in Procs, LockKey(p) PROVE KeyInv'
  BY <1>6 DEF LockKey, KeyFree, Goto, cacheVars
<1>7. ASSUME NEW p \in Procs, ClientHit(p) \/ ClientMiss(p) \/ LockPrint(p) PROVE KeyInv'
  BY <1>7 DEF ClientHit, ClientMiss, LockPrint, Goto, cacheVars
<1>8. ASSUME NEW p \in Procs, MakeClient(p) \/ StoreClient(p) \/ Create(p) PROVE KeyInv'
  BY <1>8 DEF MakeClient, StoreClient, Create, Goto, cacheVars
<1>9. ASSUME NEW p \in Procs, Fail(p) \/ Store(p) PROVE KeyInv'
  BY <1>9 DEF Fail, Store, Goto, cacheVars
<1>10. ASSUME NEW e \in Visited, Visit(e) \/ CloseProducer(e) \/ CloseClient(e) \/ DropLock(e)
       PROVE  UNCHANGED cache
  BY <1>10 DEF Visit, CloseProducer, CloseClient, DropLock, cacheVars
<1>11. ASSUME StartShutdown \/ RangeEnd \/ Wake \/ Return \/ UNCHANGED vars
       PROVE  UNCHANGED cache
  BY <1>11 DEF StartShutdown, RangeEnd, Wake, Return, vars, cacheVars
<1> QED
  BY <1>2, <1>3, <1>4, <1>5, <1>6, <1>7, <1>8, <1>9, <1>10, <1>11, NextSplit DEF Proceed

\* The same of a fingerprint's mutex and the client cache.
LEMMA PrintStep == PulsarInv /\ [Next]_vars => PrintInv'
<1> SUFFICES ASSUME PulsarInv, [Next]_vars PROVE PrintInv'
  OBVIOUS
<1>0. TypeOK /\ LocalsInv /\ PrintInv
  BY DEF PulsarInv
<1>1. \A f \in Prints : Untouched(f)' => Untouched(f) /\ gen'[f] = gen[f]
  BY KeptBack
<1>1a. \A k \in Keys : PrintOf[k] \in Prints
  BY KeyPrints
<1> USE <1>0, <1>1, <1>1a DEF TypeOK, LocalsInv, PrintInv, InPrint, PrintFor
<1>2. CASE UNCHANGED <<callVars, clientCache>>
  BY <1>2 DEF callVars
<1>3. ASSUME NEW e \in Visited, Uncache(e), UNCHANGED callVars PROVE PrintInv'
  <2>1. \A f \in Prints : clientCache[f] = NoClient => clientCache'[f] = NoClient
    BY <1>3 DEF Uncache
  <2> QED
    BY <1>3, <2>1 DEF callVars
<1>4. ASSUME NEW p \in Procs, (\E k \in Keys : Call(p, k)) \/ LoadHit(p) \/ LoadMiss(p) \/ LockKey(p)
      PROVE  PrintInv'
  BY <1>4 DEF Call, LoadHit, LoadMiss, LockKey, Goto, cacheVars
<1>5. ASSUME NEW p \in Procs, ClientHit(p) \/ ClientMiss(p) PROVE PrintInv'
  BY <1>5 DEF ClientHit, ClientMiss, Goto, cacheVars
<1>6. ASSUME NEW p \in Procs, LockPrint(p) PROVE PrintInv'
  BY <1>6 DEF LockPrint, PrintFree, Goto, cacheVars
<1>7. ASSUME NEW p \in Procs, MakeClient(p) PROVE PrintInv'
  BY <1>7 DEF MakeClient, Goto, cacheVars
<1>8. ASSUME NEW p \in Procs, StoreClient(p) PROVE PrintInv'
  BY <1>8 DEF StoreClient, Goto
<1>9. ASSUME NEW p \in Procs, Create(p) \/ Fail(p) \/ Store(p) PROVE PrintInv'
  BY <1>9 DEF Create, Fail, Store, Goto, cacheVars
<1>10. ASSUME NEW e \in Visited, Visit(e) \/ CloseProducer(e) \/ CloseClient(e) \/ DropLock(e)
       PROVE  UNCHANGED clientCache
  BY <1>10 DEF Visit, CloseProducer, CloseClient, DropLock, cacheVars
<1>11. ASSUME StartShutdown \/ RangeEnd \/ Wake \/ Return \/ UNCHANGED vars
       PROVE  UNCHANGED clientCache
  BY <1>11 DEF StartShutdown, RangeEnd, Wake, Return, vars, cacheVars
<1> QED
  BY <1>2, <1>3, <1>4, <1>5, <1>6, <1>7, <1>8, <1>9, <1>10, <1>11, NextSplit DEF Proceed

\* Until a fingerprint is touched its cache entry is only ever filled.
LEMMA ClientCacheKept ==
  ASSUME PulsarInv, [Next]_vars, NEW f \in Prints, Untouched(f)', clientCache[f] # NoClient
  PROVE  clientCache'[f] = clientCache[f]
<1>0. TypeOK /\ LocalsInv /\ PrintInv /\ Untouched(f)
  BY KeptBack DEF PulsarInv
<1> USE <1>0 DEF TypeOK, LocalsInv, PrintInv, InPrint, PrintFor
<1>1. ASSUME NEW p \in Procs, StoreClient(p) PROVE clientCache'[f] = clientCache[f]
  <2>1. PrintOf[req[p]] # f
    BY <1>1 DEF StoreClient
  <2> QED
    BY <1>1, <2>1 DEF StoreClient
<1>2. ASSUME NEW e \in Visited, Uncache(e) PROVE clientCache'[f] = clientCache[f]
  <2>1. e # f
    BY <1>2 DEF Uncache, Untouched
  <2> QED
    BY <1>2, <2>1 DEF Uncache
<1>3. ASSUME NEW p \in Procs, (\E k \in Keys : Call(p, k)) \/ LoadHit(p) \/ LoadMiss(p)
               \/ LockKey(p) \/ ClientHit(p) \/ ClientMiss(p) \/ LockPrint(p)
               \/ MakeClient(p) \/ Create(p) \/ Fail(p) \/ Store(p)
      PROVE  UNCHANGED clientCache
  BY <1>3 DEF Call, LoadHit, LoadMiss, LockKey, ClientHit, ClientMiss, LockPrint, MakeClient,
     Create, Fail, Store, cacheVars
<1>4. ASSUME NEW e \in Visited, Visit(e) \/ CloseProducer(e) \/ CloseClient(e) \/ DropLock(e)
      PROVE  UNCHANGED clientCache
  BY <1>4 DEF Visit, CloseProducer, CloseClient, DropLock, cacheVars
<1>5. ASSUME StartShutdown \/ RangeEnd \/ Wake \/ Return \/ UNCHANGED vars
      PROVE  UNCHANGED clientCache
  BY <1>5 DEF StartShutdown, RangeEnd, Wake, Return, vars, cacheVars
<1> QED
  BY <1>1, <1>2, <1>3, <1>4, <1>5, NextSplit DEF Proceed

\* A client goes from MakeClient to StoreClient in the hands of one caller, and
\* from the cache to the handles.
LEMMA BelongStep == PulsarInv /\ [Next]_vars => BelongInv'
<1> SUFFICES ASSUME PulsarInv, [Next]_vars PROVE BelongInv'
  OBVIOUS
<1>0. TypeOK /\ LocalsInv /\ CachedInv /\ BelongInv /\ LocalsInv' /\ CachedInv' /\ TypeOK'
  BY LocalsStep, CachedStep, PulsarTypeStep DEF PulsarInv
<1>1. \A f \in Prints : Untouched(f)' => Untouched(f)
  BY KeptBack
<1>2. \A f \in Prints : Untouched(f)' /\ clientCache[f] # NoClient => clientCache'[f] = clientCache[f]
  BY ClientCacheKept
<1>3. /\ \A c \in Clients : client[c] # "unborn" =>
           client'[c] # "unborn" /\ printOf'[c] = printOf[c]
      /\ \A h \in Handles : parent[h] # NoClient => parent'[h] = parent[h]
  BY MadeKept
<1>4. \A k \in Keys : PrintOf[k] \in Prints
  BY KeyPrints
<1> DEFINE Has(c) == \/ clientCache[printOf[c]] = c
                     \/ \E p \in Procs : pc[p] = "storeClient" /\ cli[p] = c
           Made == \A c \in Clients : client[c] # "unborn" /\ Untouched(printOf[c]) => Has(c)
           AtCreate == \A p \in Procs : pc[p] = "create" /\ Untouched(PrintFor(p)) =>
                         clientCache[PrintFor(p)] = cli[p]
           AtStore == \A p \in Procs : pc[p] = "store" /\ Untouched(PrintFor(p)) =>
                         clientCache[PrintFor(p)] = parent[val[p]]
<1>5. Made /\ AtCreate /\ AtStore
  BY <1>0 DEF BelongInv
<1>6. Made'
  <2> SUFFICES ASSUME NEW c \in Clients, client'[c] # "unborn", Untouched(printOf[c])' PROVE Has(c)'
    OBVIOUS
  <2>1. printOf'[c] \in Prints
    BY <1>0 DEF CachedInv
  <2>2. CASE client[c] = "unborn"
    <3>1. PICK p \in Procs : MakeClient(p)
      <4>1. ASSUME NEW p \in Procs, (\E k \in Keys : Call(p, k)) \/ LoadHit(p) \/ LoadMiss(p)
                     \/ LockKey(p) \/ ClientHit(p) \/ ClientMiss(p) \/ LockPrint(p)
                     \/ StoreClient(p) \/ Create(p) \/ Fail(p) \/ Store(p)
            PROVE  UNCHANGED client
        BY <4>1 DEF Call, LoadHit, LoadMiss, LockKey, ClientHit, ClientMiss, LockPrint,
           StoreClient, Create, Fail, Store, clientVars
      <4>2. ASSUME NEW e \in Visited, Visit(e) \/ CloseProducer(e) \/ Uncache(e) \/ DropLock(e)
            PROVE  UNCHANGED client
        BY <4>2 DEF Visit, CloseProducer, Uncache, DropLock, clientVars
      <4>3. ASSUME StartShutdown \/ RangeEnd \/ Wake \/ Return \/ UNCHANGED vars
            PROVE  UNCHANGED client
        BY <4>3 DEF StartShutdown, RangeEnd, Wake, Return, vars, clientVars
      <4>4. ASSUME NEW e \in Visited, CloseClient(e) PROVE client'[c] = "unborn"
        BY <2>2, <4>4, <1>0 DEF CloseClient, PulsarInv, CloserInv, TypeOK
      <4> QED
        BY <2>2, <4>1, <4>2, <4>3, <4>4, NextSplit DEF Proceed
    <3>2. pc'[p] = "storeClient" /\ cli'[p] = c
      BY <1>0, <2>2, <3>1 DEF MakeClient, Goto, TypeOK
    <3> QED
      BY <3>2
  <2>3. CASE client[c] # "unborn"
    <3>1. printOf'[c] = printOf[c] /\ Untouched(printOf[c])
      BY <1>1, <1>3, <2>1, <2>3
    <3>2. CASE clientCache[printOf[c]] = c
      BY <1>2, <2>1, <3>1, <3>2, PulsarAssumption
    <3>3. ASSUME NEW p \in Procs, pc[p] = "storeClient", cli[p] = c PROVE Has(c)'
      <4>1. CASE pc'[p] = pc[p] /\ cli'[p] = cli[p]
        BY <3>3, <4>1
      <4>2. CASE StoreClient(p)
        <5>1. printOf[c] = PrintOf[req[p]] /\ req[p] \in Keys
          BY <1>0, <3>3 DEF LocalsInv, PrintFor
        <5>2. clientCache'[printOf[c]] = c
          BY <1>0, <1>4, <3>3, <4>2, <5>1 DEF StoreClient, TypeOK
        <5> QED
          BY <3>1, <5>2
      <4>3. ASSUME NEW q \in Procs, q # p, (\E k \in Keys : Call(q, k)) \/ Proceed(q) \/ LockKey(q) \/ LockPrint(q)
            PROVE  pc'[p] = pc[p] /\ cli'[p] = cli[p]
        BY <1>0, <4>3 DEF TypeOK, Goto, Call, Proceed, LoadHit, LoadMiss, LockKey, ClientHit,
           ClientMiss, LockPrint, MakeClient, StoreClient, Create, Fail, Store
      <4>4. ASSUME (\E k \in Keys : Call(p, k)) \/ LoadHit(p) \/ LoadMiss(p) \/ LockKey(p)
                     \/ ClientHit(p) \/ ClientMiss(p) \/ LockPrint(p) \/ MakeClient(p)
                     \/ Create(p) \/ Fail(p) \/ Store(p)
            PROVE  FALSE
        BY <3>3, <4>4 DEF Call, LoadHit, LoadMiss, LockKey, ClientHit, ClientMiss, LockPrint,
           MakeClient, Create, Fail, Store
      <4>5. ASSUME UNCHANGED callVars PROVE pc'[p] = pc[p] /\ cli'[p] = cli[p]
        BY <4>5 DEF callVars
      <4> QED
        BY <4>1, <4>2, <4>3, <4>4, <4>5, NextSplit DEF Proceed
    <3> QED
      BY <1>5, <2>3, <3>1, <3>2, <3>3
  <2> QED
    BY <2>2, <2>3
<1>7. AtCreate' /\ AtStore'
  <2>1. ASSUME UNCHANGED callVars PROVE AtCreate' /\ AtStore'
    <3>1. ASSUME NEW p \in Procs, pc[p] \in {"create", "store"}, Untouched(PrintFor(p))'
          PROVE  /\ PrintFor(p)' = PrintFor(p) /\ PrintFor(p) \in Prints
                 /\ pc[p] = "create" => clientCache'[PrintFor(p)] = cli[p]
                 /\ pc[p] = "store" => clientCache'[PrintFor(p)] = parent'[val[p]]
      <4>1. PrintFor(p)' = PrintFor(p) /\ PrintFor(p) \in Prints
        BY <1>0, <1>4, <2>1, <3>1 DEF PrintFor, callVars, LocalsInv
      <4>2. Untouched(PrintFor(p)) /\ (clientCache[PrintFor(p)] # NoClient =>
              clientCache'[PrintFor(p)] = clientCache[PrintFor(p)])
        BY <1>1, <1>2, <3>1, <4>1
      <4>3. pc[p] = "create" => clientCache[PrintFor(p)] = cli[p] /\ cli[p] \in Clients
        BY <1>0, <1>5, <4>2 DEF LocalsInv
      <4>4. pc[p] = "store" =>
              /\ clientCache[PrintFor(p)] = parent[val[p]]
              /\ parent[val[p]] # NoClient /\ parent'[val[p]] = parent[val[p]]
        BY <1>0, <1>3, <1>5, <4>2 DEF LocalsInv
      <4> QED
        BY <4>1, <4>2, <4>3, <4>4, PulsarAssumption
    <3> QED
      BY <2>1, <3>1 DEF callVars, PrintFor
  <2>2. ASSUME NEW q \in Procs,
               (\E k \in Keys : Call(q, k)) \/ Proceed(q) \/ LockKey(q) \/ LockPrint(q)
        PROVE  AtCreate' /\ AtStore'
    <3> SUFFICES ASSUME NEW p \in Procs, pc'[p] \in {"create", "store"}, Untouched(PrintFor(p))'
                 PROVE  /\ pc'[p] = "create" => clientCache'[PrintFor(p)'] = cli'[p]
                        /\ pc'[p] = "store" => clientCache'[PrintFor(p)'] = parent'[val'[p]]
      BY DEF PrintFor
    <3>1. PrintFor(p)' \in Prints /\ Untouched(PrintFor(p)')
      BY <1>0, <1>1, <1>4 DEF PrintFor, LocalsInv
    <3>2. ASSUME pc'[p] = pc[p], req'[p] = req[p], cli'[p] = cli[p], val'[p] = val[p]
          PROVE  /\ pc'[p] = "create" => clientCache'[PrintFor(p)'] = cli'[p]
                 /\ pc'[p] = "store" => clientCache'[PrintFor(p)'] = parent'[val'[p]]
      <4>1. PrintFor(p)' = PrintFor(p)
        BY <3>2 DEF PrintFor
      <4>2. pc[p] = "create" => clientCache[PrintFor(p)] = cli[p] /\ cli[p] \in Clients
        BY <1>0, <1>5, <3>1, <4>1 DEF LocalsInv
      <4>3. pc[p] = "store" =>
              /\ clientCache[PrintFor(p)] = parent[val[p]]
              /\ parent[val[p]] # NoClient /\ parent'[val[p]] = parent[val[p]]
        BY <1>0, <1>3, <1>5, <3>1, <4>1 DEF LocalsInv
      <4> QED
        BY <1>2, <3>1, <3>2, <4>1, <4>2, <4>3, PulsarAssumption
    <3>3. CASE p # q
      <4>1. pc'[p] = pc[p] /\ req'[p] = req[p] /\ cli'[p] = cli[p] /\ val'[p] = val[p]
        BY <1>0, <2>2, <3>3 DEF TypeOK, Goto, Call, Proceed, LoadHit, LoadMiss, LockKey,
           ClientHit, ClientMiss, LockPrint, MakeClient, StoreClient, Create, Fail, Store
      <4> QED
        BY <3>2, <4>1
    <3>4. CASE p = q
      <4>1. ClientHit(p) \/ LockPrint(p) \/ StoreClient(p) \/ Create(p)
        BY <1>0, <2>2, <3>4 DEF TypeOK, Goto, Call, Proceed, LoadHit, LoadMiss, LockKey,
           ClientMiss, MakeClient, Fail, Store
      <4>2. CASE ClientHit(p) \/ LockPrint(p)
        BY <1>0, <4>2 DEF TypeOK, ClientHit, LockPrint, Goto, cacheVars, PrintFor
      <4>3. CASE StoreClient(p)
        BY <1>0, <1>4, <4>3 DEF TypeOK, LocalsInv, StoreClient, Goto, PrintFor
      <4>4. CASE Create(p)
        <5>1. PICK h \in Handles : parent' = [parent EXCEPT ![h] = cli[p]] /\ val' = [val EXCEPT ![p] = h]
          BY <4>4 DEF Create
        <5>2. pc'[p] = "store" /\ parent'[val'[p]] = cli[p]
          BY <1>0, <4>4, <5>1 DEF TypeOK, Create, Goto
        <5>3. clientCache' = clientCache /\ PrintFor(p)' = PrintFor(p) /\ pc[p] = "create"
          BY <4>4 DEF Create, cacheVars, PrintFor
        <5> QED
          BY <1>5, <3>1, <5>2, <5>3
      <4> QED
        BY <4>1, <4>2, <4>3, <4>4
    <3> QED
      BY <3>3, <3>4
  <2> QED
    BY <2>1, <2>2, NextSplit
<1> QED
  BY <1>6, <1>7 DEF BelongInv

\* Store puts a handle into the cache whose client is the cached one.
LEMMA HandlesStep == PulsarInv /\ [Next]_vars => HandlesOnCachedClient'
<1> SUFFICES ASSUME PulsarInv, [Next]_vars PROVE HandlesOnCachedClient'
  OBVIOUS
<1> SUFFICES ASSUME NEW k \in Keys, cache'[k] # NoHandle, Untouched(PrintOf[k])'
             PROVE  clientCache'[PrintOf[k]] = parent'[cache'[k]]
  BY CachedStep DEF HandlesOnCachedClient, CachedInv
<1>0. TypeOK /\ LocalsInv /\ CachedInv /\ BelongInv /\ HandlesOnCachedClient
  BY DEF PulsarInv
<1>1. PrintOf[k] \in Prints /\ Untouched(PrintOf[k])
  BY KeyPrints, KeptBack
<1>2. CASE cache'[k] = cache[k]
  <2>1. clientCache[PrintOf[k]] = parent[cache[k]] /\ parent[cache[k]] # NoClient
    BY <1>0, <1>1, <1>2 DEF HandlesOnCachedClient, CachedInv
  <2>2. clientCache'[PrintOf[k]] = clientCache[PrintOf[k]]
    BY <1>1, <2>1, ClientCacheKept
  <2>3. parent'[cache[k]] = parent[cache[k]]
    BY <1>0, <1>2, <2>1, MadeKept DEF TypeOK
  <2> QED
    BY <1>2, <2>1, <2>2, <2>3
<1>3. ASSUME NEW p \in Procs, Store(p) PROVE clientCache'[PrintOf[k]] = parent'[cache'[k]]
  <2>1. CASE req[p] = k
    <3>1. cache'[k] = val[p]
      BY <1>0, <1>3, <2>1 DEF Store, TypeOK
    <3>2. clientCache[PrintOf[k]] = parent[val[p]]
      BY <1>0, <1>1, <1>3, <2>1 DEF Store, BelongInv, PrintFor
    <3> QED
      BY <1>3, <3>1, <3>2 DEF Store, handleVars
  <2>2. CASE req[p] # k
    BY <1>0, <1>2, <1>3, <2>2 DEF Store, TypeOK
  <2> QED
    BY <2>1, <2>2
<1>4. ASSUME NEW e \in Visited, Uncache(e) PROVE cache'[k] = cache[k]
  BY <1>0, <1>4 DEF Uncache, TypeOK
<1>5. ASSUME NEW p \in Procs, (\E j \in Keys : Call(p, j)) \/ LoadHit(p) \/ LoadMiss(p)
               \/ LockKey(p) \/ ClientHit(p) \/ ClientMiss(p) \/ LockPrint(p)
               \/ MakeClient(p) \/ StoreClient(p) \/ Create(p) \/ Fail(p)
      PROVE  cache'[k] = cache[k]
  BY <1>5 DEF Call, LoadHit, LoadMiss, LockKey, ClientHit, ClientMiss, LockPrint, MakeClient,
     StoreClient, Create, Fail, cacheVars
<1>6. ASSUME NEW e \in Visited, Visit(e) \/ CloseProducer(e) \/ CloseClient(e) \/ DropLock(e)
      PROVE  cache'[k] = cache[k]
  BY <1>6 DEF Visit, CloseProducer, CloseClient, DropLock, cacheVars
<1>7. ASSUME StartShutdown \/ RangeEnd \/ Wake \/ Return \/ UNCHANGED vars
      PROVE  cache'[k] = cache[k]
  BY <1>7 DEF StartShutdown, RangeEnd, Wake, Return, vars, cacheVars
<1> QED
  BY <1>2, <1>3, <1>4, <1>5, <1>6, <1>7, NextSplit DEF Proceed

\* The duty of Shutdown goes from the loop to a goroutine, and ends with Close.
LEMMA OwedStep == PulsarInv /\ [Next]_vars => OwedInv'
<1> SUFFICES ASSUME PulsarInv, [Next]_vars PROVE OwedInv'
  OBVIOUS
<1>0. TypeOK /\ LocalsInv /\ CloserInv /\ KeyInv /\ OwedInv
  BY DEF PulsarInv
<1> USE <1>0, KeyPrints, PulsarAssumption DEF TypeOK, CloserInv, OwedInv
<1>1. CASE UNCHANGED <<handle, cache, sdVars>>
  BY <1>1 DEF sdVars
<1>2. ASSUME NEW p \in Procs, Create(p) PROVE OwedInv'
  <2>1. \A h \in Handles : handle[h] = "closed" => handle'[h] = "closed"
    BY <1>2 DEF Create
  <2> QED
    BY <1>2, <2>1 DEF Create, cacheVars, sdVars
<1>3. ASSUME NEW p \in Procs, Store(p) PROVE OwedInv'
  <2>1. ASSUME NEW k \in ProducerKeys, k \notin seen, cache[k] # NoHandle PROVE cache'[k] = cache[k]
    <3>1. KeyKept(k)
      BY <2>1 DEF KeyKept, Untouched
    <3>2. req[p] # k
      BY <1>3, <2>1, <3>1 DEF Store, KeyInv, InKey
    <3> QED
      BY <1>3, <3>2 DEF Store
  <2> QED
    BY <1>3, <2>1 DEF Store, handleVars, sdVars
<1>4. CASE StartShutdown
  BY <1>4 DEF StartShutdown, Open, cacheVars
<1>5. ASSUME NEW e \in Visited, Visit(e) PROVE OwedInv'
  <2>1. ASSUME NEW h \in owed, NEW k \in ProducerKeys, k \notin seen, cache[k] = h, sd = "producers"
        PROVE  (sd' = "producers" /\ k \notin seen' /\ cache'[k] = h)
                 \/ (closer'[k] = "close" /\ target'[k] = h)
    BY <1>5, <2>1 DEF Visit, Cached, cacheVars
  <2>2. ASSUME NEW h \in owed, NEW k \in ProducerKeys, closer[k] = "close", target[k] = h
        PROVE  closer'[k] = "close" /\ target'[k] = h
    BY <1>5, <2>2 DEF Visit
  <2> QED
    BY <1>5, <2>1, <2>2 DEF Visit, handleVars
<1>6. CASE RangeEnd
  <2>1. sd = "producers" => ProducerKeys \subseteq seen
    BY <1>6 DEF RangeEnd, Ranged
  <2> QED
    BY <1>6, <2>1 DEF RangeEnd, handleVars
<1>7. CASE Wake \/ Return
  BY <1>7 DEF Wake, Return, cacheVars, handleVars
<1>8. ASSUME NEW e \in Visited, CloseProducer(e) PROVE OwedInv'
  BY <1>8 DEF CloseProducer, cacheVars
<1>9. ASSUME NEW e \in Visited, CloseClient(e) PROVE OwedInv'
  BY <1>9 DEF CloseClient, cacheVars
<1>10. ASSUME NEW e \in Visited, Uncache(e) \/ DropLock(e) PROVE OwedInv'
  BY <1>10 DEF Uncache, DropLock, handleVars
<1>11. ASSUME NEW p \in Procs, (\E j \in Keys : Call(p, j)) \/ LoadHit(p) \/ LoadMiss(p)
               \/ LockKey(p) \/ ClientHit(p) \/ ClientMiss(p) \/ LockPrint(p)
               \/ MakeClient(p) \/ StoreClient(p) \/ Fail(p)
       PROVE  UNCHANGED <<handle, cache, sdVars>>
  BY <1>11 DEF Call, LoadHit, LoadMiss, LockKey, ClientHit, ClientMiss, LockPrint, MakeClient,
     StoreClient, Fail, cacheVars, handleVars
<1>12. UNCHANGED vars => UNCHANGED <<handle, cache, sdVars>>
  BY DEF vars, cacheVars, handleVars
<1> QED
  BY <1>1, <1>2, <1>3, <1>4, <1>5, <1>6, <1>7, <1>8, <1>9, <1>10, <1>11, <1>12, NextSplit
     DEF Proceed

-----------------------------------------------------------------------------
\* The invariant holds in every state.
THEOREM PulsarInvariance == Spec => []PulsarInv
<1>1. PulsarInv /\ [Next]_vars => PulsarInv'
  BY PulsarTypeStep, LocalsStep, CachedStep, CloserStep, KeyStep, PrintStep, BelongStep,
     HandlesStep, OwedStep DEF PulsarInv
<1> QED
  BY <1>1, PulsarInit, PTL DEF Spec

\* All variables keep their types, and a handle that was made has a client.
THEOREM PulsarTypes == Spec => []TypeOK
<1>1. PulsarInv => TypeOK
  BY DEF PulsarInv
<1> QED
  BY <1>1, PulsarInvariance, PTL

\* Callers of any number of keys that share a fingerprint get one client, until
\* Shutdown deletes it (pulsarx/client.go, getOrCreateClient).
THEOREM OneClient == Spec => []OneClientPerPrint
<1>1. PulsarInv => OneClientPerPrint
  <2> SUFFICES ASSUME PulsarInv, NEW c \in Clients, NEW d \in Clients,
                      client[c] = "open", client[d] = "open",
                      printOf[c] = printOf[d], Untouched(printOf[c])
               PROVE  c = d
    BY DEF OneClientPerPrint
  <2>0. LocalsInv /\ PrintInv /\ BelongInv
    BY DEF PulsarInv
  <2>1. ASSUME NEW b \in Clients, printOf[b] = printOf[c], client[b] = "open",
               NEW p \in Procs, pc[p] = "storeClient", cli[p] = b
        PROVE  InPrint(p) /\ PrintFor(p) = printOf[c] /\ clientCache[printOf[c]] = NoClient
    BY <2>0, <2>1 DEF LocalsInv, PrintInv, InPrint
  <2>2. ASSUME NEW p \in Procs, NEW q \in Procs, InPrint(p), InPrint(q),
               PrintFor(p) = printOf[c], PrintFor(q) = printOf[c]
        PROVE  p = q
    BY <2>0, <2>2 DEF PrintInv
  <2>3. \A b \in {c, d} : \/ clientCache[printOf[c]] = b
                          \/ \E p \in Procs : pc[p] = "storeClient" /\ cli[p] = b
    BY <2>0 DEF BelongInv
  <2> QED
    BY <2>1, <2>2, <2>3, PulsarAssumption
<1> QED
  BY <1>1, PulsarInvariance, PTL

\* Closing the cached clients reaches every cached producer and consumer.
THEOREM HandlesReached == Spec => []HandlesOnCachedClient
<1>1. PulsarInv => HandlesOnCachedClient
  BY DEF PulsarInv
<1> QED
  BY <1>1, PulsarInvariance, PTL

\* Behind a Shutdown that ends gracefully no producer is open that was cached
\* when it began, whichever goroutine came first (pulsarx/pulsarx.go:24).
THEOREM GracefulProducers == Spec => []GracefulClosesProducers
<1> DEFINE Ended == sd = "graceful" => \A k \in ProducerKeys : closer[k] # "close"
<1>1. Init => Ended
  BY DEF Init
<1>2. PulsarInv /\ Ended /\ [Next]_vars => Ended'
  <2> SUFFICES ASSUME PulsarInv, Ended, [Next]_vars, sd' = "graceful", NEW k \in ProducerKeys
               PROVE  closer'[k] # "close"
    OBVIOUS
  <2>0. TypeOK /\ k \in Visited
    BY KeyPrints DEF PulsarInv
  <2>1. CASE UNCHANGED sdVars
    BY <2>1 DEF sdVars
  <2>2. CASE Return
    BY <2>0, <2>2 DEF Return
  <2>3. CASE StartShutdown \/ RangeEnd \/ Wake
    BY <2>3 DEF StartShutdown, RangeEnd, Wake
  <2>4. ASSUME NEW e \in Visited, Visit(e) PROVE closer'[k] # "close"
    BY <2>4 DEF Visit, Ranged
  <2>5. ASSUME NEW e \in Visited, CloseProducer(e) \/ CloseClient(e) \/ Uncache(e) \/ DropLock(e)
        PROVE  closer'[k] # "close"
    BY <2>0, <2>5 DEF TypeOK, CloseProducer, CloseClient, Uncache, DropLock
  <2>6. ASSUME NEW p \in Procs, (\E j \in Keys : Call(p, j)) \/ Proceed(p) \/ LockKey(p) \/ LockPrint(p)
        PROVE  UNCHANGED sdVars
    BY <2>6 DEF Call, Proceed, LoadHit, LoadMiss, LockKey, ClientHit, ClientMiss, LockPrint,
       MakeClient, StoreClient, Create, Fail, Store
  <2>7. UNCHANGED vars => UNCHANGED sdVars
    BY DEF vars
  <2> QED
    BY <2>1, <2>2, <2>3, <2>4, <2>5, <2>6, <2>7, NextSplit
<1>3. PulsarInv /\ Ended => GracefulClosesProducers
  BY DEF PulsarInv, OwedInv, GracefulClosesProducers
<1> QED
  BY <1>1, <1>2, <1>3, PulsarInvariance, PTL DEF Spec
=============================================================================
