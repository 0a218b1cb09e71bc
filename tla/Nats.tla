-------------------------------- MODULE Nats --------------------------------
(***************************************************************************)
(* The NATS registry. Below the caches of producer pools and of consumers   *)
(* lies a cache of connections by fingerprint, connCache, whose entries no  *)
(* function deletes: all instances of a pool, and all pools and consumers   *)
(* of one fingerprint, are on one connection.                               *)
(*                                                                         *)
(* A mutex is taken in one step and Shutdown's Range is one step, as in    *)
(* Drivers. Whether a key's pool holds connections or JetStream contexts    *)
(* over them makes no difference here.                                      *)
(***************************************************************************)
EXTENDS Naturals, FiniteSets

CONSTANTS Procs,      \* goroutines that call P, C, Reload and their kin
          Keys,       \* cache keys of producers and of consumers
          ProducerKeys,
          Prints,     \* fingerprints
          PrintOf,    \* the fingerprint in each key
          Conns,      \* connections; bound: as many Connect calls succeed
          PoolSize,   \* InstancePoolSize of the producers
          NoConn

ASSUME NatsAssumption ==
  /\ ProducerKeys \subseteq Keys /\ Keys # {}
  /\ PrintOf \in [Keys -> Prints]
  /\ PoolSize \in Nat \ {0}
  /\ NoConn \notin Conns

VARIABLES
  pc, key,           \* where each caller is, and the key it wants
  nc, at, made,      \* its connection, how many instances it has, on which
  stale,             \* its mutex is no longer in the lock table
  cached,            \* producerCache and consumerCache: the pool's connections
  connOf,            \* connCache
  status,            \* of each connection
  sd,                \* Shutdown
  closing, pool,     \* its closing goroutine for each key, with its pool
  printsAtCall       \* fingerprints of the pools that Shutdown met

callVars == <<pc, key, nc, at, made>>
sdVars   == <<sd, closing, pool, printsAtCall>>
vars     == <<callVars, stale, cached, connOf, status, sdVars>>

Labels   == {"idle", "load", "enter", "conn", "connEnter", "connect",
             "instance", "store"}
Statuses == {"none", "open", "draining", "closed", "gone"}

\* The one type invariant.
TypeOK ==
  /\ pc \in [Procs -> Labels] /\ key \in [Procs -> Keys]
  /\ nc \in [Procs -> Conns \cup {NoConn}]
  /\ at \in [Procs -> 0..PoolSize] /\ made \in [Procs -> SUBSET Conns]
  /\ stale \in [Procs -> BOOLEAN]
  /\ cached \in [Keys -> SUBSET Conns]
  /\ connOf \in [Prints -> Conns \cup {NoConn}]
  /\ status \in [Conns -> Statuses]
  /\ sd \in {"ready", "running", "graceful", "timedOut"}
  /\ closing \in [ProducerKeys -> {"none", "drain", "evict", "done"}]
  /\ pool \in [ProducerKeys -> SUBSET Conns]
  /\ printsAtCall \subseteq Prints

\* The key of a caller that has none.
AnyKey == CHOOSE k \in Keys : TRUE

Init ==
  /\ pc = [p \in Procs |-> "idle"] /\ key = [p \in Procs |-> AnyKey]
  /\ nc = [p \in Procs |-> NoConn]
  /\ at = [p \in Procs |-> 0] /\ made = [p \in Procs |-> {}]
  /\ stale = [p \in Procs |-> FALSE]
  /\ cached = [k \in Keys |-> {}]
  /\ connOf = [f \in Prints |-> NoConn]
  /\ status = [c \in Conns |-> "none"]
  /\ sd = "ready" /\ closing = [k \in ProducerKeys |-> "none"]
  /\ pool = [k \in ProducerKeys |-> {}]
  /\ printsAtCall = {}

-----------------------------------------------------------------------------
(***************************************************************************)
(* getOrCreateProducerPool and getOrCreateConsumer.                        *)
(***************************************************************************)
At(p, label) == pc[p] = label
Goto(p, label) == pc' = [pc EXCEPT ![p] = label]

PrintFor(p) == PrintOf[key[p]]
Size(k)  == IF k \in ProducerKeys THEN PoolSize ELSE 1

\* Back to the application; what it is given is in a cache, or an error.
Return(p) ==
  /\ Goto(p, "idle") /\ key' = [key EXCEPT ![p] = AnyKey]
  /\ nc' = [nc EXCEPT ![p] = NoConn]
  /\ at' = [at EXCEPT ![p] = 0] /\ made' = [made EXCEPT ![p] = {}]
  /\ stale' = [stale EXCEPT ![p] = FALSE]

\* A wrapper or Reload has parsed its config and made its key.
Call(p, k) ==
  /\ At(p, "idle")
  /\ key' = [key EXCEPT ![p] = k] /\ Goto(p, "load")
  /\ UNCHANGED <<nc, at, made, stale, cached, connOf, status, sdVars>>

\* A hit is returned at once; a config of another driver is refused.
Load(p) ==
  /\ At(p, "load")
  /\ \/ Return(p)
     \/ /\ cached[key[p]] = {}
        /\ Goto(p, "enter") /\ UNCHANGED <<key, nc, at, made, stale>>
  /\ UNCHANGED <<cached, connOf, status, sdVars>>

\* Between mu.Lock of the key and the deferred mu.Unlock.
InKey(p) == pc[p] \in {"conn", "connEnter", "connect", "instance", "store"}

\* Nobody else who is inside has the mutex that is in the lock table now.
Enter(p) ==
  /\ At(p, "enter")
  /\ \A q \in Procs : InKey(q) /\ key[q] = key[p] => stale[q]
  /\ IF cached[key[p]] = {}
       THEN Goto(p, "conn") /\ UNCHANGED <<key, nc, at, made, stale>>
       ELSE Return(p)
  /\ UNCHANGED <<cached, connOf, status, sdVars>>

-----------------------------------------------------------------------------
(***************************************************************************)
(* getOrCreateConn, once for each instance of a pool.                      *)
(***************************************************************************)
\* The connection in connCache becomes nc.
TakeConn(p) == Goto(p, "instance") /\ nc' = [nc EXCEPT ![p] = connOf[PrintFor(p)]]

ConnLoad(p) ==
  /\ At(p, "conn")
  /\ IF connOf[PrintFor(p)] # NoConn THEN TakeConn(p)
                                  ELSE Goto(p, "connEnter") /\ UNCHANGED nc
  /\ UNCHANGED <<key, at, made, stale, cached, connOf, status, sdVars>>

InConn(p) == pc[p] = "connect"

\* The fingerprint's mutex stays in connLocks for good.
ConnFree(p) == \A q \in Procs : InConn(q) => PrintFor(q) # PrintFor(p)

\* Mutant of ConnEnter: no second look into connCache.
ConnEnterBlind(p) ==
  /\ At(p, "connEnter")
  /\ ConnFree(p)
  /\ Goto(p, "connect")
  /\ UNCHANGED <<nc, key, at, made, stale, cached, connOf, status, sdVars>>

ConnEnter(p) ==
  /\ At(p, "connEnter")
  /\ ConnFree(p)
  /\ IF connOf[PrintFor(p)] # NoConn THEN TakeConn(p)
                                  ELSE Goto(p, "connect") /\ UNCHANGED nc
  /\ UNCHANGED <<key, at, made, stale, cached, connOf, status, sdVars>>

\* nats.Connect and connCache.Store; until the Store the connection is known
\* to nobody else, so that they are one step.
Connect(p) ==
  /\ At(p, "connect")
  /\ \E c \in Conns :
       /\ status[c] = "none"
       /\ status' = [status EXCEPT ![c] = "open"]
       /\ connOf' = [connOf EXCEPT ![PrintFor(p)] = c]
       /\ nc' = [nc EXCEPT ![p] = c]
  /\ Goto(p, "instance")
  /\ UNCHANGED <<key, at, made, stale, cached, sdVars>>

\* Close of each connection of a set.
Closed(cs) == [c \in Conns |-> IF c \in cs THEN "closed" ELSE status[c]]

\* A key file cannot be read, or the servers refuse: newNatsPool closes the
\* connections of the instances it has.
ConnectFails(p) ==
  /\ At(p, "connect")
  /\ status' = Closed(made[p])
  /\ Return(p)
  /\ UNCHANGED <<cached, connOf, sdVars>>

-----------------------------------------------------------------------------
\* The instance is the connection, or nc.JetStream().
Instance(p) ==
  /\ At(p, "instance")
  /\ at' = [at EXCEPT ![p] = @ + 1]
  /\ made' = [made EXCEPT ![p] = @ \cup {nc[p]}]
  /\ Goto(p, IF at[p] + 1 = Size(key[p]) THEN "store" ELSE "conn")
  /\ UNCHANGED <<key, nc, stale, cached, connOf, status, sdVars>>

\* Mutant of JetStreamFails: what was opened is closed, as in other pools.
JetStreamFailsClosing(p) ==
  /\ At(p, "instance")
  /\ status' = Closed(made[p] \cup {nc[p]})
  /\ Return(p)
  /\ UNCHANGED <<cached, connOf, sdVars>>

\* No context: an error, and nothing is closed.
JetStreamFails(p) ==
  /\ At(p, "instance")
  /\ Return(p)
  /\ UNCHANGED <<cached, connOf, status, sdVars>>

\* A failed AddStream before it is only logged.
Store(p) ==
  /\ At(p, "store")
  /\ cached' = [cached EXCEPT ![key[p]] = made[p]]
  /\ Return(p)
  /\ UNCHANGED <<connOf, status, sdVars>>

-----------------------------------------------------------------------------
(***************************************************************************)
(* Shutdown(ctx), which ranges over the producers only.                    *)
(***************************************************************************)
StartShutdown ==
  /\ sd = "ready" /\ sd' = "running"
  /\ pool' = [k \in ProducerKeys |-> cached[k]]
  /\ closing' = [k \in ProducerKeys |-> IF cached[k] = {} THEN "none" ELSE "drain"]
  /\ printsAtCall' = {PrintOf[k] : k \in {j \in ProducerKeys : cached[j] # {}}}
  /\ UNCHANGED <<callVars, stale, cached, connOf, status>>

ClosingStep(k, label) == closing' = [closing EXCEPT ![k] = label]

\* Mutant of DrainAndClose: the test of IsClosed is turned around.
DrainClosed(k) ==
  /\ closing[k] = "drain"
  /\ ClosingStep(k, "evict")
  /\ UNCHANGED <<callVars, stale, cached, connOf, status, sd, pool, printsAtCall>>

\* Drain of an open connection begins its end; one that is reconnecting is
\* closed at once, and one that drains already is left to it.
DrainAndClose(k) ==
  /\ closing[k] = "drain"
  /\ \E s \in {"draining", "closed"} :
       status' = [c \in Conns |->
         IF c \in pool[k] /\ status[c] = "open" THEN s ELSE status[c]]
  /\ ClosingStep(k, "evict")
  /\ UNCHANGED <<callVars, stale, cached, connOf, sd, pool, printsAtCall>>

\* Delete from producerCache and producerLocks, by key: a caller inside keeps
\* a mutex that nobody else will get.
Evict(k) ==
  /\ closing[k] = "evict"
  /\ cached' = [cached EXCEPT ![k] = {}]
  /\ stale' = [p \in Procs |-> stale[p] \/ (InKey(p) /\ key[p] = k)]
  /\ ClosingStep(k, "done")
  /\ UNCHANGED <<callVars, connOf, status, sd, pool, printsAtCall>>

Graceful ==
  /\ sd = "running"
  /\ \A k \in ProducerKeys : closing[k] \in {"none", "done"}
  /\ sd' = "graceful"
  /\ UNCHANGED <<callVars, stale, cached, connOf, status, closing, pool, printsAtCall>>

TimeOut ==
  /\ sd = "running" /\ sd' = "timedOut"
  /\ UNCHANGED <<callVars, stale, cached, connOf, status, closing, pool, printsAtCall>>

\* nats.go: the drain is over, or took too long.
Drained(c) ==
  /\ status[c] = "draining" /\ status' = [status EXCEPT ![c] = "closed"]
  /\ UNCHANGED <<callVars, stale, cached, connOf, sdVars>>

\* nats.go: MaxReconnects attempts were in vain.
GiveUp(c) ==
  /\ status[c] \in {"open", "draining"} /\ status' = [status EXCEPT ![c] = "gone"]
  /\ UNCHANGED <<callVars, stale, cached, connOf, sdVars>>

-----------------------------------------------------------------------------
Proceed(p) ==
  \/ Load(p) \/ Enter(p) \/ ConnLoad(p) \/ ConnEnter(p) \/ Connect(p)
  \/ ConnectFails(p) \/ Instance(p) \/ JetStreamFails(p) \/ Store(p)

Closing(k) == DrainAndClose(k) \/ Evict(k)

Next ==
  \/ \E p \in Procs : Proceed(p) \/ \E k \in Keys : Call(p, k)
  \/ \E k \in ProducerKeys : Closing(k)
  \/ StartShutdown \/ Graceful \/ TimeOut
  \/ \E c \in Conns : Drained(c) \/ GiveUp(c)

Spec == Init /\ [][Next]_vars

-----------------------------------------------------------------------------
(***************************************************************************)
(* Properties.                                                             *)
(***************************************************************************)
\* A fingerprint never gets a second connection, not even when Shutdown has
\* taken the mutex of a key away from its holder; and all instances of all
\* cached pools and consumers of a fingerprint are on the one in connCache.
\* HealthCheck, which looks at instance 0 of a pool, so speaks for all.
SharesOneConn ==
  /\ \A c \in Conns : status[c] # "none" => \E f \in Prints : connOf[f] = c
  /\ \A k \in Keys : cached[k] \subseteq {connOf[PrintOf[k]]}

\* Before Shutdown no failure in this package closes a connection that other
\* pools or consumers may be on: the loop in newNatsPool finds nothing to close.
ClosedOnlyByShutdown ==
  sd = "ready" => \A c \in Conns : status[c] \notin {"draining", "closed"}

\* When Shutdown reports a graceful end, no fingerprint it met has an open
\* connection, whatever pools and consumers came meanwhile; connCache keeps
\* the closed one, so that later callers get it too.
GracefulDrains ==
  sd = "graceful" =>
    \A f \in printsAtCall :
      connOf[f] # NoConn /\ status[connOf[f]] \in {"draining", "closed", "gone"}

-----------------------------------------------------------------------------
(***************************************************************************)
(* Why they hold: the inductive invariant of the proofs.                   *)
(***************************************************************************)
\* A connection that was made is in connCache, and what is there was made.
ConnInv ==
  /\ \A c \in Conns : status[c] # "none" => \E f \in Prints : connOf[f] = c
  /\ \A f \in Prints : connOf[f] # NoConn => status[connOf[f]] # "none"

\* What a caller has: instances on the connection of its fingerprint, none as
\* long as that is being made, and nothing outside getOrCreate.
OneCaller(p) ==
  /\ made[p] \subseteq {connOf[PrintFor(p)]}
  /\ ~InKey(p) => made[p] = {} /\ at[p] = 0
  /\ pc[p] \in {"conn", "connEnter", "connect", "instance"} => at[p] < Size(key[p])
  /\ pc[p] = "connect" => connOf[PrintFor(p)] = NoConn
  /\ pc[p] = "instance" => nc[p] # NoConn /\ nc[p] = connOf[PrintFor(p)]

\* One caller at a time makes the connection of a fingerprint.
Apart(p, q) == InConn(p) /\ InConn(q) /\ PrintFor(p) = PrintFor(q) => p = q

CallerInv == (\A p \in Procs : OneCaller(p)) /\ (\A p, q \in Procs : Apart(p, q))

\* All pools are on the connection of their fingerprint.
PoolInv ==
  /\ \A k \in Keys : cached[k] \subseteq {connOf[PrintOf[k]]}
  /\ \A k \in ProducerKeys : pool[k] \subseteq {connOf[PrintOf[k]]}

\* The connection of a fingerprint that Shutdown met is no longer open, or
\* there is a closing goroutine that has not drained it yet.
DrainInv ==
  /\ sd = "ready" => \A k \in ProducerKeys : closing[k] = "none"
  /\ sd = "graceful" => \A k \in ProducerKeys : closing[k] \in {"none", "done"}
  /\ \A f \in printsAtCall :
       /\ connOf[f] # NoConn
       /\ \/ status[connOf[f]] \in {"draining", "closed", "gone"}
          \/ \E k \in ProducerKeys :
               closing[k] = "drain" /\ PrintOf[k] = f /\ pool[k] = {connOf[f]}

NatsInv ==
  TypeOK /\ ConnInv /\ CallerInv /\ PoolInv /\ DrainInv /\ ClosedOnlyByShutdown
=============================================================================
