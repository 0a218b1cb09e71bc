------------------------------- MODULE Registry -------------------------------
(***************************************************************************)
(* The connection registry every driver package of mqx is built on, as the *)
(* Kafka driver has it: a cache of clients and a table of per-key mutexes   *)
(* (two sync.Maps), filled by getOrCreate with double-checked locking and   *)
(* emptied by Shutdown with one closing goroutine per cached client.        *)
(*                                                                         *)
(* A producer pool counts as one client here; Pool looks inside it.        *)
(* kafkax keeps a cache and a lock table for producers and another pair    *)
(* for consumers; their keys are disjoint ("producer:...", "consumer:..."),*)
(* so one function over all keys holds both pairs.                         *)
(***************************************************************************)
CONSTANTS Procs,          \* goroutines that ask for a client
          Shutdowns,      \* goroutines that call Shutdown, once each
          ProducerKeys,   \* cache keys of producer pools
          ConsumerKeys,   \* cache keys of consumers
          SubscribeKeys,  \* keys of consumers that subscribe to topics at once
          ForeignKeys,    \* keys of configs whose Driver names another driver
          ScansConsumers, \* does Shutdown close consumers too?
          Clients, Mutexes,
          NoKey, NoClient, NoMutex, NoProc

Keys == ProducerKeys \cup ConsumerKeys

\* Producer and consumer keys never collide, and nil is no key, client,
\* mutex or goroutine.
ASSUME RegistryAssumption ==
  /\ ProducerKeys \cap ConsumerKeys = {}
  /\ SubscribeKeys \subseteq ConsumerKeys
  /\ ForeignKeys \subseteq Keys
  /\ ScansConsumers \in BOOLEAN
  /\ NoKey \notin Keys
  /\ NoClient \notin Clients
  /\ NoMutex \notin Mutexes
  /\ NoProc \notin Procs

VARIABLES
  cache,         \* producerCache and consumerCache
  lockOf,        \* producerLocks and consumerLocks
  holder,        \* who holds each mutex
  status, keyOf, \* every client's life, and the key it was created for
  pc, req,       \* where a caller is in getOrCreate, and the key it asks for
  mu,            \* the caller's local variable mu
  val,           \* the client the caller builds, found, or was last given
  sdPc, seen,    \* where a Shutdown call is, and the keys its Range has passed
  closer, target,        \* the closing goroutines and the clients they close
  openAtCall, cachedAtCall  \* history: clients when Shutdown was called

lockVars   == <<lockOf, holder>>
clientVars == <<status, keyOf>>
procVars   == <<pc, req, mu, val>>
sdVars     == <<sdPc, seen, closer, target, openAtCall, cachedAtCall>>
vars       == <<cache, lockVars, clientVars, procVars, sdVars>>

-----------------------------------------------------------------------------
Status   == {"unborn", "open", "closed"}
PCs      == {"idle", "load", "locks", "lock", "recheck", "create",
             "subscribe", "store", "unlock"}
SdPCs    == {"ready", "producers", "consumers", "wait", "graceful", "timedOut"}
CloserPCs == {"none", "close", "uncache", "dropLock", "done"}

\* The program counters between mu.Lock and the deferred mu.Unlock.
Critical == {"recheck", "create", "subscribe", "store", "unlock"}

\* The one type invariant: every variable of the registry has its type.
TypeOK ==
  /\ cache \in [Keys -> Clients \cup {NoClient}]
  /\ lockOf \in [Keys -> Mutexes \cup {NoMutex}]
  /\ holder \in [Mutexes -> Procs \cup {NoProc}]
  /\ status \in [Clients -> Status]
  /\ keyOf \in [Clients -> Keys \cup {NoKey}]
  /\ pc \in [Procs -> PCs]
  /\ req \in [Procs -> Keys \cup {NoKey}]
  /\ mu \in [Procs -> Mutexes \cup {NoMutex}]
  /\ val \in [Procs -> Clients \cup {NoClient}]
  /\ sdPc \in [Shutdowns -> SdPCs]
  /\ seen \in [Shutdowns -> SUBSET Keys]
  /\ closer \in [Shutdowns -> [Keys -> CloserPCs]]
  /\ target \in [Shutdowns -> [Keys -> Clients \cup {NoClient}]]
  /\ openAtCall \in [Shutdowns -> SUBSET Clients]
  /\ cachedAtCall \in [Shutdowns -> SUBSET Clients]

Init ==
  /\ cache = [k \in Keys |-> NoClient]
  /\ lockOf = [k \in Keys |-> NoMutex]
  /\ holder = [m \in Mutexes |-> NoProc]
  /\ status = [c \in Clients |-> "unborn"]
  /\ keyOf = [c \in Clients |-> NoKey]
  /\ pc = [p \in Procs |-> "idle"]
  /\ req = [p \in Procs |-> NoKey]
  /\ mu = [p \in Procs |-> NoMutex]
  /\ val = [p \in Procs |-> NoClient]
  /\ sdPc = [s \in Shutdowns |-> "ready"]
  /\ seen = [s \in Shutdowns |-> {}]
  /\ closer = [s \in Shutdowns |-> [k \in Keys |-> "none"]]
  /\ target = [s \in Shutdowns |-> [k \in Keys |-> NoClient]]
  /\ openAtCall = [s \in Shutdowns |-> {}]
  /\ cachedAtCall = [s \in Shutdowns |-> {}]

-----------------------------------------------------------------------------
(***************************************************************************)
(* getOrCreateProducerPool and getOrCreateConsumer.                        *)
(***************************************************************************)
Goto(p, label) == pc' = [pc EXCEPT ![p] = label]

\* A caller asks for the client of key k.
Call(p, k) ==
  /\ pc[p] = "idle"
  /\ Goto(p, "load")
  /\ req' = [req EXCEPT ![p] = k]
  /\ val' = [val EXCEPT ![p] = NoClient]
  /\ UNCHANGED <<cache, lockVars, clientVars, mu, sdVars>>

\* The fast path: a cached client is returned without the mutex.
LoadHit(p) ==
  /\ pc[p] = "load"
  /\ cache[req[p]] # NoClient
  /\ val' = [val EXCEPT ![p] = cache[req[p]]]
  /\ Goto(p, "idle")
  /\ UNCHANGED <<cache, lockVars, clientVars, req, mu, sdVars>>

LoadMiss(p) ==
  /\ pc[p] = "load"
  /\ cache[req[p]] = NoClient
  /\ req[p] \notin ForeignKeys
  /\ Goto(p, "locks")
  /\ UNCHANGED <<cache, lockVars, clientVars, req, mu, val, sdVars>>

\* A config of another driver is refused before the lock table is touched.
DriverMismatch(p) ==
  /\ pc[p] = "load"
  /\ cache[req[p]] = NoClient
  /\ req[p] \in ForeignKeys
  /\ Goto(p, "idle")
  /\ UNCHANGED <<cache, lockVars, clientVars, req, mu, val, sdVars>>

\* A mutex nobody can reach: what &sync.Mutex{} allocates.
Fresh(m) == /\ \A k \in Keys : lockOf[k] # m
            /\ \A p \in Procs : mu[p] # m

\* Mutant of LoadOrStoreLock: Store instead of LoadOrStore.
StoreNewLock(p) ==
  /\ pc[p] = "locks"
  /\ \E m \in {n \in Mutexes : Fresh(n)} :
       /\ lockOf' = [lockOf EXCEPT ![req[p]] = m]
       /\ mu' = [mu EXCEPT ![p] = m]
  /\ Goto(p, "lock")
  /\ UNCHANGED <<cache, holder, clientVars, req, val, sdVars>>

\* locks.LoadOrStore(cacheKey, &sync.Mutex{})
LoadOrStoreLock(p) ==
  /\ pc[p] = "locks"
  /\ \E m \in Mutexes :
       /\ IF lockOf[req[p]] # NoMutex THEN m = lockOf[req[p]] ELSE Fresh(m)
       /\ lockOf' = [lockOf EXCEPT ![req[p]] = m]
       /\ mu' = [mu EXCEPT ![p] = m]
  /\ Goto(p, "lock")
  /\ UNCHANGED <<cache, holder, clientVars, req, val, sdVars>>

Lock(p) ==
  /\ pc[p] = "lock"
  /\ holder[mu[p]] = NoProc
  /\ holder' = [holder EXCEPT ![mu[p]] = p]
  /\ Goto(p, "recheck")
  /\ UNCHANGED <<cache, lockOf, clientVars, req, mu, val, sdVars>>

\* Mutant of Recheck: single-checked locking.
NoRecheck(p) ==
  /\ pc[p] = "recheck"
  /\ Goto(p, "create")
  /\ UNCHANGED <<cache, lockVars, clientVars, req, mu, val, sdVars>>

\* Mutant of Recheck: the look-up goes to the lock table, a sync.Map too.
RecheckLocks(p) ==
  /\ pc[p] = "recheck"
  /\ val' = [val EXCEPT ![p] = lockOf[req[p]]]
  /\ Goto(p, "unlock")
  /\ UNCHANGED <<cache, lockVars, clientVars, req, mu, sdVars>>

\* The second look into the cache, under the mutex.
Recheck(p) ==
  /\ pc[p] = "recheck"
  /\ val' = [val EXCEPT ![p] = cache[req[p]]]
  /\ Goto(p, IF cache[req[p]] # NoClient THEN "unlock" ELSE "create")
  /\ UNCHANGED <<cache, lockVars, clientVars, req, mu, sdVars>>

\* newProducerPool or kafka.NewConsumer succeeds. A consumer
\* that has topics then subscribes.
Create(p) ==
  /\ pc[p] = "create"
  /\ \E c \in Clients :
       /\ status[c] = "unborn"
       /\ status' = [status EXCEPT ![c] = "open"]
       /\ keyOf' = [keyOf EXCEPT ![c] = req[p]]
       /\ val' = [val EXCEPT ![p] = c]
  /\ Goto(p, IF req[p] \in SubscribeKeys THEN "subscribe" ELSE "store")
  /\ UNCHANGED <<cache, lockVars, req, mu, sdVars>>

\* Mutant of CreateFail: an early return that forgets the mutex.
CreateFailLocked(p) ==
  /\ pc[p] = "create"
  /\ Goto(p, "idle")
  /\ UNCHANGED <<cache, lockVars, clientVars, req, mu, val, sdVars>>

\* The config map is refused or the client cannot be made: nothing is left.
CreateFail(p) ==
  /\ pc[p] = "create"
  /\ Goto(p, "unlock")
  /\ UNCHANGED <<cache, lockVars, clientVars, req, mu, val, sdVars>>

Subscribe(p) ==
  /\ pc[p] = "subscribe"
  /\ Goto(p, "store")
  /\ UNCHANGED <<cache, lockVars, clientVars, req, mu, val, sdVars>>

\* Mutants of SubscribeFail: the consumer is not closed; the closed consumer
\* is returned.
SubscribeFailOpen(p) ==
  /\ pc[p] = "subscribe"
  /\ val' = [val EXCEPT ![p] = NoClient]
  /\ Goto(p, "unlock")
  /\ UNCHANGED <<cache, lockVars, clientVars, req, mu, sdVars>>

SubscribeFailReturned(p) ==
  /\ pc[p] = "subscribe"
  /\ status' = [status EXCEPT ![val[p]] = "closed"]
  /\ Goto(p, "unlock")
  /\ UNCHANGED <<cache, lockVars, keyOf, req, mu, val, sdVars>>

\* SubscribeTopics fails: the consumer is closed and the error returned.
SubscribeFail(p) ==
  /\ pc[p] = "subscribe"
  /\ status' = [status EXCEPT ![val[p]] = "closed"]
  /\ val' = [val EXCEPT ![p] = NoClient]
  /\ Goto(p, "unlock")
  /\ UNCHANGED <<cache, lockVars, keyOf, req, mu, sdVars>>

Store(p) ==
  /\ pc[p] = "store"
  /\ cache' = [cache EXCEPT ![req[p]] = val[p]]
  /\ Goto(p, "unlock")
  /\ UNCHANGED <<lockVars, clientVars, req, mu, val, sdVars>>

\* The deferred mu.Unlock and the return.
Unlock(p) ==
  /\ pc[p] = "unlock"
  /\ holder' = [holder EXCEPT ![mu[p]] = NoProc]
  /\ mu' = [mu EXCEPT ![p] = NoMutex]
  /\ Goto(p, "idle")
  /\ UNCHANGED <<cache, lockOf, clientVars, req, val, sdVars>>

\* Everything a caller does by itself once it has called.
Proceed(p) ==
  \/ LoadHit(p) \/ LoadMiss(p) \/ DriverMismatch(p)
  \/ LoadOrStoreLock(p) \/ Recheck(p)
  \/ Create(p) \/ CreateFail(p) \/ Subscribe(p) \/ SubscribeFail(p)
  \/ Store(p) \/ Unlock(p)

-----------------------------------------------------------------------------
(***************************************************************************)
(* Shutdown(ctx).                                                          *)
(***************************************************************************)
Open == {c \in Clients : status[c] = "open"}

StartShutdown(s) ==
  /\ sdPc[s] = "ready"
  /\ sdPc' = [sdPc EXCEPT ![s] = "producers"]
  /\ openAtCall' = [openAtCall EXCEPT ![s] = Open]
  /\ cachedAtCall' = [cachedAtCall EXCEPT ![s] =
                        {c \in Open : \E k \in Keys : cache[k] = c}]
  /\ UNCHANGED <<cache, lockVars, clientVars, procVars, seen, closer, target>>

\* The cache a Range loop goes through.
Ranged(s) == CASE sdPc[s] = "producers" -> ProducerKeys
               [] sdPc[s] = "consumers" -> ConsumerKeys
               [] OTHER -> {}

\* sync.Map.Range is no snapshot: it meets each key once, at a moment of its
\* own, and calls back for the value the key has then. The callback starts a
\* goroutine that will close that value.
Visit(s, k) ==
  /\ k \in Ranged(s) \ seen[s]
  /\ seen' = [seen EXCEPT ![s] = @ \cup {k}]
  /\ IF cache[k] # NoClient
       THEN /\ closer' = [closer EXCEPT ![s][k] = "close"]
            /\ target' = [target EXCEPT ![s][k] = cache[k]]
       ELSE UNCHANGED <<closer, target>>
  /\ UNCHANGED <<cache, lockVars, clientVars, procVars, sdPc,
                 openAtCall, cachedAtCall>>

RangeEnd(s) ==
  /\ sdPc[s] \in {"producers", "consumers"}
  /\ Ranged(s) \subseteq seen[s]
  /\ sdPc' = [sdPc EXCEPT ![s] =
                IF @ = "producers" /\ ScansConsumers THEN "consumers"
                                                     ELSE "wait"]
  /\ UNCHANGED <<cache, lockVars, clientVars, procVars, seen, closer, target,
                 openAtCall, cachedAtCall>>

\* Mutant of CloseTarget: the closing goroutine watches ctx too.
CloseTargetInTime(s, k) ==
  /\ closer[s][k] = "close"
  /\ sdPc[s] # "timedOut"
  /\ status' = [status EXCEPT ![target[s][k]] = "closed"]
  /\ closer' = [closer EXCEPT ![s][k] = "uncache"]
  /\ UNCHANGED <<cache, lockVars, keyOf, procVars, sdPc, seen, target,
                 openAtCall, cachedAtCall>>

\* The closing goroutine of one cached client: close, then the two deletes.
CloseTarget(s, k) ==
  /\ closer[s][k] = "close"
  /\ status' = [status EXCEPT ![target[s][k]] = "closed"]
  /\ closer' = [closer EXCEPT ![s][k] = "uncache"]
  /\ UNCHANGED <<cache, lockVars, keyOf, procVars, sdPc, seen, target,
                 openAtCall, cachedAtCall>>

\* Mutant of DropLock: the delete waits for the key's mutex to be free.
DropFreeLock(s, k) ==
  /\ closer[s][k] = "dropLock"
  /\ lockOf[k] # NoMutex /\ holder[lockOf[k]] = NoProc
  /\ lockOf' = [lockOf EXCEPT ![k] = NoMutex]
  /\ closer' = [closer EXCEPT ![s][k] = "done"]
  /\ UNCHANGED <<cache, holder, clientVars, procVars, sdPc, seen, target,
                 openAtCall, cachedAtCall>>

Uncache(s, k) ==
  /\ closer[s][k] = "uncache"
  /\ cache' = [cache EXCEPT ![k] = NoClient]
  /\ closer' = [closer EXCEPT ![s][k] = "dropLock"]
  /\ UNCHANGED <<lockVars, clientVars, procVars, sdPc, seen, target,
                 openAtCall, cachedAtCall>>

DropLock(s, k) ==
  /\ closer[s][k] = "dropLock"
  /\ lockOf' = [lockOf EXCEPT ![k] = NoMutex]
  /\ closer' = [closer EXCEPT ![s][k] = "done"]
  /\ UNCHANGED <<cache, holder, clientVars, procVars, sdPc, seen, target,
                 openAtCall, cachedAtCall>>

Closing(s, k) == CloseTarget(s, k) \/ Uncache(s, k) \/ DropLock(s, k)

\* Mutant of Graceful: wg.Add inside the goroutine, so Wait may not wait.
GracefulEarly(s) ==
  /\ sdPc[s] = "wait"
  /\ sdPc' = [sdPc EXCEPT ![s] = "graceful"]
  /\ UNCHANGED <<cache, lockVars, clientVars, procVars, seen, closer, target,
                 openAtCall, cachedAtCall>>

\* wg.Wait returned and select took <-done: "closed gracefully".
Graceful(s) ==
  /\ sdPc[s] = "wait"
  /\ \A k \in Keys : closer[s][k] \in {"none", "done"}
  /\ sdPc' = [sdPc EXCEPT ![s] = "graceful"]
  /\ UNCHANGED <<cache, lockVars, clientVars, procVars, seen, closer, target,
                 openAtCall, cachedAtCall>>

\* ctx was cancelled or ran out while Shutdown waited.
TimeOut(s) ==
  /\ sdPc[s] = "wait"
  /\ sdPc' = [sdPc EXCEPT ![s] = "timedOut"]
  /\ UNCHANGED <<cache, lockVars, clientVars, procVars, seen, closer, target,
                 openAtCall, cachedAtCall>>

ShutdownStep(s) == (\E k \in Keys : Visit(s, k)) \/ RangeEnd(s) \/ Graceful(s)

-----------------------------------------------------------------------------
Next ==
  \/ \E p \in Procs : (\E k \in Keys : Call(p, k)) \/ Proceed(p) \/ Lock(p)
  \/ \E s \in Shutdowns : StartShutdown(s) \/ ShutdownStep(s) \/ TimeOut(s)
  \/ \E s \in Shutdowns, k \in Keys : Closing(s, k)

Spec == Init /\ [][Next]_vars

\* Goroutines run; a mutex in starvation mode goes to its waiters in turn;
\* a client's creation and Close end (both have timeouts). Nobody has to call.
Fairness ==
  /\ \A p \in Procs : WF_vars(Proceed(p)) /\ SF_vars(Lock(p))
  /\ \A s \in Shutdowns : WF_vars(ShutdownStep(s))
  /\ \A s \in Shutdowns, k \in Keys : WF_vars(Closing(s, k))

FairSpec == Spec /\ Fairness
-----------------------------------------------------------------------------
(***************************************************************************)
(* What the registry promises.                                             *)
(***************************************************************************)

\* No Shutdown has deleted key k's cache entry yet.
Untouched(k) ==
  \A s \in Shutdowns : closer[s][k] \in {"none", "close", "uncache"}

\* p has a client of its own that it has not stored yet.
Building(p) == pc[p] \in {"subscribe", "store"}

\* However many goroutines ask at once, until Shutdown deletes the key's entry
\* at most one client of a key is open (the double-checked locking of
\* getOrCreate).
OneOpenClientPerKey ==
  \A c, d \in Open :
    keyOf[c] = keyOf[d] /\ Untouched(keyOf[c]) => c = d

\* Until then no open client is lost: it is in the cache, where Shutdown finds
\* it, or still with the goroutine that creates it. Every error path of
\* getOrCreate closes what it made.
NoOrphans ==
  \A c \in Open : Untouched(keyOf[c]) =>
    \/ cache[keyOf[c]] = c
    \/ \E p \in Procs : Building(p) /\ val[p] = c

\* A client handed to a caller was made for the key the caller asked for, and
\* until Shutdown deletes the entry it is the client in the cache: all callers
\* of a key share one client and none holds one that Shutdown will miss.
HandedOutIsCached ==
  \A p \in Procs : pc[p] = "idle" /\ val[p] # NoClient =>
    /\ keyOf[val[p]] = req[p]
    /\ Untouched(req[p]) => cache[req[p]] = val[p]

\* The closing goroutine deletes its key without looking at the value. With
\* one Shutdown it still deletes the client it closed and no newer one.
DeletesWhatItClosed ==
  \A s \in Shutdowns, k \in Keys :
    closer[s][k] = "uncache" => cache[k] = target[s][k]

\* When Shutdown ends gracefully, every client that was in the cache when it
\* was called is closed: Range misses none, and none is still being closed.
GracefulClosesCached ==
  \A s \in Shutdowns :
    sdPc[s] = "graceful" => cachedAtCall[s] \cap Open = {}

\* "All connections closed gracefully": every client that was open when
\* Shutdown was called is closed, those being created included.
GracefulClosesAll ==
  \A s \in Shutdowns :
    sdPc[s] = "graceful" => openAtCall[s] \cap Open = {}

\* "Connection avalanche prevention": never do two goroutines create a client
\* for one key at the same time.
AvalanchePrevented ==
  \A p, q \in Procs :
    /\ pc[p] \in {"create", "subscribe", "store"}
    /\ pc[q] \in {"create", "subscribe", "store"}
    /\ req[p] = req[q]
    => p = q

\* A call of getOrCreate returns, whatever the other goroutines and Shutdown do
\* to its mutex meanwhile.
CallReturns == \A p \in Procs : pc[p] = "load" ~> pc[p] = "idle"

\* Shutdown returns, also under a ctx that never ends.
ShutdownReturns ==
  \A s \in Shutdowns :
    sdPc[s] = "producers" ~> sdPc[s] \in {"graceful", "timedOut"}

\* Every client in the cache when Shutdown was called gets closed in the end,
\* even when Shutdown itself gave up waiting.
CachedGetClosed ==
  \A s \in Shutdowns, c \in Clients :
    c \in cachedAtCall[s] ~> status[c] = "closed"
-----------------------------------------------------------------------------
(***************************************************************************)
(* The inductive invariant behind those properties.                        *)
(***************************************************************************)

\* The local variables of a caller agree with its program counter.
LocalsInv ==
  \A p \in Procs :
    /\ pc[p] # "idle" \/ val[p] # NoClient => req[p] \in Keys
    /\ IF pc[p] = "lock" \/ pc[p] \in Critical
         THEN mu[p] \in Mutexes ELSE mu[p] = NoMutex
    /\ pc[p] \in {"load", "locks", "create"} => val[p] = NoClient
    /\ Building(p) => val[p] \in Clients

\* Until Shutdown deletes a key's entry, all callers of the key that have a
\* mutex have the one in the lock table; in the critical section they hold it.
LockInv ==
  \A p \in Procs :
    /\ (pc[p] = "lock" \/ pc[p] \in Critical) /\ Untouched(req[p])
         => mu[p] = lockOf[req[p]]
    /\ pc[p] \in Critical => holder[mu[p]] = p

\* Whoever creates a client does so because the cache has none.
MissInv ==
  \A p \in Procs :
    pc[p] = "create" \/ Building(p) =>
      (Untouched(req[p]) => cache[req[p]] = NoClient)

\* Every client a variable holds was created for the key it stands for.
KeyInv ==
  /\ \A p \in Procs : val[p] # NoClient =>
       keyOf[val[p]] = req[p] /\ status[val[p]] # "unborn"
  /\ \A k \in Keys : cache[k] # NoClient =>
       keyOf[cache[k]] = k /\ status[cache[k]] # "unborn"
  /\ \A c \in Open : keyOf[c] \in Keys

\* Every closing goroutine was started by a visit that found a client.
VisitedInv ==
  \A s \in Shutdowns, k \in Keys :
    closer[s][k] # "none" =>
      /\ k \in seen[s]
      /\ target[s][k] \in Clients /\ status[target[s][k]] # "unborn"

\* Until Shutdown deletes the key's entry the cache still holds that client.
CloserInv ==
  /\ VisitedInv
  /\ \A s \in Shutdowns, k \in Keys :
       closer[s][k] # "none" /\ Untouched(k) => cache[k] = target[s][k]

\* What a caller is about to return, or was last given, is in the cache.
ReturnInv ==
  \A p \in Procs :
    pc[p] \in {"idle", "unlock"} /\ val[p] # NoClient =>
      (Untouched(req[p]) => cache[req[p]] = val[p])

\* The conjunction that every step preserves; OneOpenClientPerKey and
\* HandedOutIsCached follow from it.
RegistryInv ==
  TypeOK /\ LocalsInv /\ LockInv /\ MissInv /\ KeyInv /\ CloserInv
    /\ ReturnInv /\ NoOrphans

\* How far each Shutdown's two Range loops and closing goroutines have got.
SeenInv ==
  \A s \in Shutdowns :
    /\ sdPc[s] = "ready" => seen[s] = {} /\ cachedAtCall[s] = {}
    /\ sdPc[s] \notin {"ready", "producers"} => ProducerKeys \subseteq seen[s]
    /\ sdPc[s] \in {"wait", "graceful", "timedOut"} /\ ScansConsumers
         => ConsumerKeys \subseteq seen[s]
    /\ sdPc[s] = "graceful" => \A k \in Keys : closer[s][k] \in {"none", "done"}

\* A client that was cached when Shutdown was called and is not closed yet is
\* still cached, and is still to be visited or has a goroutine to close it.
OwedInv ==
  \A s \in Shutdowns : \A c \in cachedAtCall[s] :
    /\ status[c] # "unborn"
    /\ status[c] = "open" =>
         /\ cache[keyOf[c]] = c
         /\ closer[s][keyOf[c]] = IF keyOf[c] \in seen[s] THEN "close" ELSE "none"

\* Shutdown is called by one goroutine, once: what main does on its way out.
OneShutdown == \A s, t \in Shutdowns : s = t

\* What one call of Shutdown adds to RegistryInv; GracefulClosesCached follows.
ShutdownInv == SeenInv /\ OwedInv
=============================================================================
