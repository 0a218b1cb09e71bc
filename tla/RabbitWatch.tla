------------------------------ MODULE RabbitWatch ------------------------------
(***************************************************************************)
(* rabbitx: the registry with a goroutine beside every connection pool and *)
(* consumer connection that evicts it from the cache when the broker or    *)
(* the network ends the connection.                                        *)
(*                                                                         *)
(* A client of Registry is here a producer pool, seen through its          *)
(* connection 0, the only one that is watched, or a consumer's connection. *)
(* The goroutine is started after the connection is made and before it is  *)
(* stored, so it races with the Store as well as with Shutdown.            *)
(***************************************************************************)
EXTENDS Registry

\* Between the connection and Store getOrCreate declares the topology, whose
\* errors are logged: no step of rabbitx is like the kafkax consumer's Subscribe.
ASSUME RabbitAssumption == SubscribeKeys = {}

VARIABLES
  link,     \* "up" until the connection is lost; means nothing before it is made
  watcher,  \* each connection's watching goroutine
  lostEarly \* history: lost before it was both watched and cached

watchVars == <<link, watcher, lostEarly>>
rabbitVars == <<vars, watchVars>>

WatcherPCs == {"none", "starting", "listening", "fired", "evict", "gone"}

\* Types; and every connection that was made has a key and has had its watcher
\* started.
WatchTypeOK ==
  /\ TypeOK
  /\ link \in [Clients -> {"up", "lost"}]
  /\ watcher \in [Clients -> WatcherPCs]
  /\ lostEarly \subseteq Clients
  /\ \A c \in Clients : /\ watcher[c] = "none" <=> status[c] = "unborn"
                        /\ status[c] # "unborn" => keyOf[c] \in Keys

RabbitInit ==
  /\ Init
  /\ link = [c \in Clients |-> "up"]
  /\ watcher = [c \in Clients |-> "none"]
  /\ lostEarly = {}

-----------------------------------------------------------------------------
\* amqp091: Close by this side closes the NotifyClose channels with no error
\* in them, so a watcher that listens gets nil and ends.
AfterStep(c) ==
  IF status[c] = "unborn" /\ status'[c] = "open" THEN "starting"
  ELSE IF status'[c] = "closed" /\ link[c] = "up" /\ watcher[c] = "listening"
  THEN "gone"
  ELSE watcher[c]

\* Any step of getOrCreate and Shutdown. A connection is made and its
\* watching goroutine started.
RegistryStep ==
  /\ Next
  /\ watcher' = [c \in Clients |-> AfterStep(c)]
  /\ UNCHANGED <<link, lostEarly>>

\* The broker or the network ends the connection; NotifyClose channels get
\* the error.
Lose(c) ==
  /\ status[c] = "open" /\ link[c] = "up"
  /\ link' = [link EXCEPT ![c] = "lost"]
  /\ watcher' = [watcher EXCEPT ![c] = IF @ = "listening" THEN "fired" ELSE @]
  /\ lostEarly' = IF watcher[c] = "listening" /\ cache[keyOf[c]] = c
                    THEN lostEarly ELSE lostEarly \cup {c}
  /\ UNCHANGED vars

\* The goroutine registers. On a connection that has already ended NotifyClose
\* closes the channel at once, and nil is not an error.
NotifyClose(c) ==
  /\ watcher[c] = "starting"
  /\ watcher' = [watcher EXCEPT ![c] =
                   IF status[c] = "open" /\ link[c] = "up"
                     THEN "listening" ELSE "gone"]
  /\ UNCHANGED <<vars, link, lostEarly>>

\* Mutant of CheckCached: the comparison is inverted.
CheckCachedNot(c) ==
  /\ watcher[c] = "fired"
  /\ keyOf[c] \in ProducerKeys
  /\ watcher' = [watcher EXCEPT ![c] =
                   IF cache[keyOf[c]] = c THEN "gone" ELSE "evict"]
  /\ UNCHANGED <<vars, link, lostEarly>>

\* A producer's watcher looks whether the pool is still the cached one.
CheckCached(c) ==
  /\ watcher[c] = "fired"
  /\ keyOf[c] \in ProducerKeys
  /\ watcher' = [watcher EXCEPT ![c] =
                   IF cache[keyOf[c]] = c THEN "evict" ELSE "gone"]
  /\ UNCHANGED <<vars, link, lostEarly>>

\* Mutant of Forget: the watcher loops instead of ending.
ForgetAgain(c) ==
  /\ cache' = [cache EXCEPT ![keyOf[c]] = NoClient]
  /\ UNCHANGED <<lockVars, clientVars, procVars, sdVars, watchVars>>

\* Delete the key, whatever it has; the watcher ends.
Forget(c) ==
  /\ cache' = [cache EXCEPT ![keyOf[c]] = NoClient]
  /\ watcher' = [watcher EXCEPT ![c] = "gone"]
  /\ UNCHANGED <<lockVars, clientVars, procVars, sdVars, link, lostEarly>>

EvictProducer(c) == watcher[c] = "evict" /\ Forget(c)

\* A consumer's watcher deletes without looking.
EvictConsumer(c) ==
  /\ watcher[c] = "fired"
  /\ keyOf[c] \in ConsumerKeys
  /\ Forget(c)

Watch(c) ==
  NotifyClose(c) \/ CheckCached(c) \/ EvictProducer(c) \/ EvictConsumer(c)

RabbitNext == RegistryStep \/ \E c \in Clients : Lose(c) \/ Watch(c)

RabbitSpec == RabbitInit /\ [][RabbitNext]_rabbitVars

\* The goroutines of the registry and the watchers run; connections need not
\* be lost.
RabbitFairness ==
  /\ \A p \in Procs :
       /\ WF_rabbitVars(RegistryStep /\ Proceed(p))
       /\ SF_rabbitVars(RegistryStep /\ Lock(p))
  /\ \A c \in Clients : WF_rabbitVars(Watch(c))

RabbitFairSpec == RabbitSpec /\ RabbitFairness

-----------------------------------------------------------------------------
Cached(c) == \E k \in Keys : cache[k] = c

\* A connection lost while it was watched and cached does not stay cached
\* unnoticed: as long as it is in the cache its watcher is on the way to evict
\* it, so the next getOrCreate can build a new one.
LostIsBeingEvicted ==
  \A c \in Clients \ lostEarly :
    link[c] = "lost" /\ Cached(c) => watcher[c] \in {"fired", "evict"}

\* Eviction is by key. Before Shutdown deletes the key's entry, what a watcher
\* is about to delete is its own connection or nothing, never a healthy
\* successor, although the consumer's watcher does not compare.
EvictsOwn ==
  \A c \in Clients :
    watcher[c] \in {"fired", "evict"} /\ Untouched(keyOf[c]) =>
      cache[keyOf[c]] \in {c, NoClient}

\* "Delete it from the cache so that the next get can rebuild it": the cache
\* gets rid of every lost connection.
LossIsEvicted ==
  \A c \in Clients :
    link[c] = "lost" /\ Cached(c) ~> ~ Cached(c)
-----------------------------------------------------------------------------
(***************************************************************************)
(* The inductive invariant behind the first two. What Registry knows of    *)
(* mutexes and of the empty entry behind a second look survives evictions, *)
(* which only empty entries; ReturnInv, NoOrphans and the second half of   *)
(* CloserInv do not.                                                       *)
(***************************************************************************)
\* Until Shutdown deletes the key's entry, a watcher that has not ended belongs
\* to the key's cached client, or to the one that is about to be stored.
WatchedInv ==
  \A c \in Clients :
    watcher[c] \notin {"none", "gone"} /\ Untouched(keyOf[c]) =>
      cache[keyOf[c]] = c \/ \E p \in Procs : Building(p) /\ val[p] = c

\* A client that is about to be stored is nowhere else yet.
StoredOnce ==
  \A p \in Procs : Building(p) =>
    /\ \A k \in Keys : cache[k] # val[p]
    /\ \A q \in Procs : q # p => val[q] # val[p]

\* Only a connection that was made is lost; one that was lost while it was
\* cached will not be stored again.
LostInv ==
  \A c \in Clients : link[c] = "lost" =>
    /\ status[c] # "unborn"
    /\ c \in lostEarly \/ ~ \E p \in Procs : Building(p) /\ val[p] = c

\* The registry's part, and the whole.
CoreInv == TypeOK /\ LocalsInv /\ LockInv /\ MissInv /\ KeyInv /\ VisitedInv

RabbitInv ==
  /\ CoreInv /\ (\A p \in Procs : pc[p] # "subscribe")
  /\ WatchTypeOK /\ WatchedInv /\ StoredOnce /\ LostInv /\ LostIsBeingEvicted
=============================================================================
