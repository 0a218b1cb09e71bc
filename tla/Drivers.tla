------------------------------- MODULE Drivers -------------------------------
(***************************************************************************)
(* The registries of Redis, NSQ, RocketMQ, MQTT and RabbitMQ. All follow   *)
(* the scheme of Registry; here is what differs: which wrapper makes which *)
(* key, what each getOrCreate function does between its second look into    *)
(* the cache and Store, what Reload builds, and what Shutdown closes.      *)
(*                                                                         *)
(* Registry keeps the lock table and its mutexes apart and has Shutdown's  *)
(* Range visit key by key. Here a mutex is taken in one step and Range is  *)
(* one step. A behaviour is that of one driver, the variable driver.       *)
(***************************************************************************)
EXTENDS Topology, FiniteSets

CONSTANTS Procs,       \* goroutines that call P, C, Reload and their kin
          Wrappers,    \* the wrappers they call, see Wrapper
          DriverNames, \* the drivers
          FileModes,   \* Mode in the file, one for each content it takes
          MaxCalls,    \* bound: calls of wrappers and Reload in a behaviour
          MaxClients   \* bound: clients made in a behaviour

Contents == 1..Len(FileModes)
NoClient == 0

\* PPS, POS, PPC, POC and the same of consumers: a path or a Config.
Wrapper == [role : {"producer", "consumer"}, via : {"path", "config"},
            mode : {"single", "cluster"}]

ASSUME DriversAssumption ==
  /\ Wrappers \subseteq Wrapper
  /\ DriverNames \subseteq {"redis", "nsq", "rocketmq", "mqtt", "rabbitmq"}
  /\ FileModes \in Seq({"", "single", "cluster"}) /\ FileModes # <<>>
  /\ Contents \subseteq DOMAIN Sections
  /\ MaxCalls \in Nat /\ MaxClients \in Nat

VARIABLES
  driver,             \* whose registry this is
  snapshot, modeOf,   \* activeConfigCache, and Mode in each parsed Config
  mixed,              \* history: Configs that were given both modes
  calls,              \* how many calls there were
  local,              \* the local variables of each caller, see Idle
  clients, cached,    \* all clients made, and those in the caches
  handled,            \* NSQ consumers the application gave a handler
  sd, closing, cachedAtCall  \* Shutdown, and its closing goroutines

cfgVars == <<driver, snapshot, modeOf, mixed>>
sdVars  == <<sd, closing, cachedAtCall>>
vars    == <<cfgVars, calls, local, clients, cached, handled, broker, sdVars>>

-----------------------------------------------------------------------------
(***************************************************************************)
(* The eleven getOrCreate functions, each as its steps after the second    *)
(* look into the cache:                                                    *)
(*   make     a client, unless the config is refused or it cannot be made  *)
(*   new      a client, never refused                                       *)
(*   verify   Ping, or the other instances of a pool; closes on failure    *)
(*   start    Start or Connect; on failure the client is just dropped      *)
(*   declare  SetupTopology on a channel of its own, errors are logged     *)
(*   store    the cache                                                    *)
(* A consumer's XGROUP CREATE is logged at most and changes nothing here.  *)
(***************************************************************************)
redisSingleProducer  == <<"make", "verify", "store">>
redisClusterProducer == <<"new", "verify", "store">>
redisSingleConsumer  == <<"make", "verify", "store">>
redisClusterConsumer == <<"make", "verify", "store">>
nsqConsumer          == <<"make", "store">>
rocketProducer       == <<"make", "start", "store">>
rocketConsumer       == <<"make", "store">>
mqttClient           == <<"make", "start", "store">>
rabbitProducer       == <<"make", "declare", "verify", "store">>
rabbitConsumer       == <<"make", "declare", "store">>

\* Mutant of nsqProducer: the producer is stored before its Ping.
nsqStoreThenPing == <<"make", "store", "verify">>
nsqProducer      == <<"make", "verify", "store">>

StepsOf(d, w) ==
  CASE d = "redis" /\ w.role = "producer" ->
         IF w.mode = "cluster" THEN redisClusterProducer ELSE redisSingleProducer
    [] d = "redis" /\ w.role = "consumer" ->
         IF w.mode = "cluster" THEN redisClusterConsumer ELSE redisSingleConsumer
    [] d = "nsq" ->
         IF w.role = "producer" THEN nsqProducer ELSE nsqConsumer
    [] d = "rocketmq" ->
         IF w.role = "producer" THEN rocketProducer ELSE rocketConsumer
    [] d = "mqtt" -> mqttClient
    [] d = "rabbitmq" ->
         IF w.role = "producer" THEN rabbitProducer ELSE rabbitConsumer

Steps(w) == StepsOf(driver, w)

\* The caches each Shutdown ranges over: the consumers of Redis and RocketMQ
\* are skipped.
redisScans  == {"producer"}
nsqScans    == {"producer", "consumer"}
rocketScans == {"producer"}
mqttScans   == {"client"}
rabbitScans == {"producer", "consumer"}

Scanned == CASE driver = "redis" -> redisScans
             [] driver = "nsq" -> nsqScans
             [] driver = "rocketmq" -> rocketScans
             [] driver = "mqtt" -> mqttScans
             [] driver = "rabbitmq" -> rabbitScans

\* The producer each Reload builds, given Mode in the new file. Only Redis
\* heeds it, and leaves "cluster" alone; the others write their mode into it.
redisReload(m) == IF m = "cluster" THEN "cluster" ELSE "single"
nsqReload      == "single"
rocketReload   == "cluster"
mqttReload     == "single"
rabbitReload   == "single"

Reloaded(m) == CASE driver = "redis" -> redisReload(m)
                 [] driver = "nsq" -> nsqReload
                 [] driver = "rocketmq" -> rocketReload
                 [] driver = "mqtt" -> mqttReload
                 [] driver = "rabbitmq" -> rabbitReload

\* ConfigFingerprint reads the Mode field. MQTT's key is nothing but the
\* fingerprint; the others' keys have the role, the wrapper's own mode, and
\* for a path the name of its section.
KeyFor(w, o, m) ==
  IF driver = "mqtt"
    THEN [role |-> "client", via |-> "any", mode |-> "any",
          content |-> o, print |-> m]
    ELSE [role |-> w.role, via |-> w.via, mode |-> w.mode,
          content |-> o, print |-> m]

NoCall == [role |-> "none", via |-> "none", mode |-> "none"]

\* A caller between calls: where it is, the wrapper it called, its Config, its
\* cache key, the client it has, how far it is in Steps and in Declarations,
\* and whether the mutex it holds is no longer in the lock table.
Idle == [pc |-> "idle", call |-> NoCall, obj |-> 1, key |-> NoCall,
         val |-> NoClient, at |-> 0, decl |-> 0, stale |-> FALSE]

Ids == 1..Len(clients)

\* The one type invariant.
TypeOK ==
  /\ driver \in DriverNames
  /\ snapshot \in Contents /\ mixed \subseteq Contents
  /\ modeOf \in [Contents -> {"", "single", "cluster"}]
  /\ \A p \in Procs :
       /\ local[p].pc \in {"idle", "reload", "mode", "key", "load", "enter", "steps"}
       /\ local[p].val \in Ids \cup {NoClient}
       /\ local[p].pc = "steps" => local[p].at \in DOMAIN Steps(local[p].call)
  /\ \A c \in Ids : clients[c].status \in {"unstarted", "open", "stopping", "closed"}
  /\ cached \subseteq Ids /\ handled \subseteq Ids /\ cachedAtCall \subseteq Ids
  /\ sd \in {"ready", "running", "graceful", "timedOut"}
  /\ closing \in [1..MaxClients -> {"none", "close", "await", "evict", "done"}]

\* ParseFile has filled the snapshot of the one path before.
Init ==
  /\ driver \in DriverNames
  /\ snapshot = 1 /\ modeOf = FileModes /\ mixed = {}
  /\ calls = 0 /\ local = [p \in Procs |-> Idle]
  /\ clients = <<>> /\ cached = {} /\ handled = {} /\ broker = {}
  /\ sd = "ready" /\ closing = [c \in 1..MaxClients |-> "none"]
  /\ cachedAtCall = {}

-----------------------------------------------------------------------------
(***************************************************************************)
(* The wrappers, and Reload up to its getOrCreate.                         *)
(***************************************************************************)
At(p, label) == local[p].pc = label
Goto(p, label) == local' = [local EXCEPT ![p].pc = label]

Begin(p, label, w, o) ==
  /\ At(p, "idle")
  /\ calls < MaxCalls /\ calls' = calls + 1
  /\ local' = [local EXCEPT ![p] =
                 [Idle EXCEPT !.pc = label, !.call = w, !.obj = o]]

\* A wrapper is called: with a path, whose snapshot ParseFile hands to every
\* caller, or with a Config, which Go copies.
Call(p, w) ==
  /\ IF w.via = "path" THEN Begin(p, "mode", w, snapshot)
                       ELSE Begin(p, "key", w, 1)
  /\ UNCHANGED <<cfgVars, clients, cached, handled, broker, sdVars>>

\* Reload reads the changed file and replaces the snapshot.
Reload(p) ==
  /\ snapshot + 1 \in Contents
  /\ snapshot' = snapshot + 1
  /\ Begin(p, "reload", NoCall, snapshot + 1)
  /\ UNCHANGED <<driver, modeOf, mixed, clients, cached, handled, broker, sdVars>>

ReloadTarget(p) ==
  /\ At(p, "reload")
  /\ LET m == modeOf[local[p].obj]
         kept == driver = "redis" /\ m = "cluster"
     IN  local' = [local EXCEPT ![p].pc = IF kept THEN "key" ELSE "mode",
           ![p].call = [role |-> "producer", via |-> "path", mode |-> Reloaded(m)]]
  /\ UNCHANGED <<cfgVars, calls, clients, cached, handled, broker, sdVars>>

\* cfg.Mode = "single" or "cluster", in the Config all callers of the path have.
SetMode(p) ==
  /\ At(p, "mode")
  /\ LET o == local[p].obj
         m == local[p].call.mode
     IN  /\ modeOf' = [modeOf EXCEPT ![o] = m]
         /\ mixed' = IF modeOf[o] \in {"", m} THEN mixed ELSE mixed \cup {o}
  /\ Goto(p, "key")
  /\ UNCHANGED <<driver, snapshot, calls, clients, cached, handled, broker, sdVars>>

\* Mutant of PrintedMode: POS and POC take a *Config.
PrintedModeShared(p) == modeOf[local[p].obj]

\* The mode ConfigFingerprint reads.
PrintedMode(p) == IF local[p].call.via = "path" THEN modeOf[local[p].obj]
                                                ELSE local[p].call.mode

MakeKey(p) ==
  /\ At(p, "key")
  /\ local' = [local EXCEPT ![p].pc = "load",
                 ![p].key = KeyFor(local[p].call, local[p].obj, PrintedMode(p))]
  /\ UNCHANGED <<cfgVars, calls, clients, cached, handled, broker, sdVars>>

-----------------------------------------------------------------------------
(***************************************************************************)
(* getOrCreate.                                                            *)
(***************************************************************************)
CachedFor(k) == {c \in cached : clients[c].key = k}

\* The call is over and its local variables with it; what it gives stays.
Return(p, c) == local' = [local EXCEPT ![p] = [Idle EXCEPT !.val = c]]

ReturnCached(p) == \E c \in CachedFor(local[p].key) : Return(p, c)

\* Between mu.Lock and the deferred mu.Unlock, which comes with the return.
Inside(p) == At(p, "steps")

\* A cached client is returned at once; a config of another driver is refused.
Load(p) ==
  /\ At(p, "load")
  /\ \/ ReturnCached(p)
     \/ CachedFor(local[p].key) = {} /\ (Goto(p, "enter") \/ Return(p, NoClient))
  /\ UNCHANGED <<cfgVars, calls, clients, cached, handled, broker, sdVars>>

\* The key's mutex and the second look. Nobody else who is inside has the
\* mutex that is in the lock table now.
Enter(p) ==
  /\ At(p, "enter")
  /\ \A q \in Procs : Inside(q) /\ ~local[q].stale => local[q].key # local[p].key
  /\ \/ ReturnCached(p)
     \/ /\ CachedFor(local[p].key) = {}
        /\ local' = [local EXCEPT ![p].pc = "steps", ![p].at = 1]
  /\ UNCHANGED <<cfgVars, calls, clients, cached, handled, broker, sdVars>>

\* p is about to take a step of the given kind.
Doing(p, kind) == Inside(p) /\ Steps(local[p].call)[local[p].at] = kind

\* After the last step the client is returned.
Advance(p, c) ==
  IF local[p].at = Len(Steps(local[p].call))
    THEN Return(p, c)
    ELSE local' = [local EXCEPT ![p].at = @ + 1, ![p].val = c, ![p].decl = 0]

\* The function returns its error.
Fail(p) == Return(p, NoClient)

SetStatus(c, s) == clients' = [clients EXCEPT ![c].status = s]

Make(p) ==
  /\ Doing(p, "make") \/ Doing(p, "new")
  /\ Len(clients) < MaxClients
  /\ clients' = Append(clients,
       [key |-> local[p].key, declared |-> FALSE,
        status |-> IF Steps(local[p].call)[local[p].at + 1] = "start"
                     THEN "unstarted" ELSE "open"])
  /\ Advance(p, Len(clients) + 1)
  /\ UNCHANGED <<cfgVars, calls, cached, handled, broker, sdVars>>

MakeFails(p) ==
  /\ Doing(p, "make")
  /\ Fail(p)
  /\ UNCHANGED <<cfgVars, calls, clients, cached, handled, broker, sdVars>>

Verify(p) ==
  /\ Doing(p, "verify")
  /\ Advance(p, local[p].val)
  /\ UNCHANGED <<cfgVars, calls, clients, cached, handled, broker, sdVars>>

\* Mutant of VerifyFails: the client is not closed.
VerifyFailsOpen(p) ==
  /\ Doing(p, "verify")
  /\ Fail(p)
  /\ UNCHANGED <<cfgVars, calls, clients, cached, handled, broker, sdVars>>

VerifyFails(p) ==
  /\ Doing(p, "verify")
  /\ SetStatus(local[p].val, "closed")
  /\ Fail(p)
  /\ UNCHANGED <<cfgVars, calls, cached, handled, broker, sdVars>>

Start(p) ==
  /\ Doing(p, "start")
  /\ SetStatus(local[p].val, "open")
  /\ Advance(p, local[p].val)
  /\ UNCHANGED <<cfgVars, calls, cached, handled, broker, sdVars>>

\* Neither Shutdown nor Disconnect: the client is left as it is.
StartFails(p) ==
  /\ Doing(p, "start")
  /\ Fail(p)
  /\ UNCHANGED <<cfgVars, calls, clients, cached, handled, broker, sdVars>>

\* Store replaces whatever the key had.
Store(p) ==
  /\ Doing(p, "store")
  /\ cached' = (cached \ CachedFor(local[p].key)) \cup {local[p].val}
  /\ Advance(p, local[p].val)
  /\ UNCHANGED <<cfgVars, calls, clients, handled, broker, sdVars>>

-----------------------------------------------------------------------------
(***************************************************************************)
(* The topology of a RabbitMQ connection, on a channel that is opened for  *)
(* it and closed after it.                                                 *)
(***************************************************************************)
Wanted(p) == Declarations(Sections[local[p].obj])

DeclareNext(p) ==
  /\ Doing(p, "declare")
  /\ local[p].decl < Len(Wanted(p))
  /\ Declare(Wanted(p)[local[p].decl + 1])
  /\ local' = [local EXCEPT ![p].decl = @ + 1]
  /\ UNCHANGED <<cfgVars, calls, clients, cached, handled, sdVars>>

\* SetupTopology returned nil.
DeclaredAll(p) ==
  /\ Doing(p, "declare")
  /\ local[p].decl = Len(Wanted(p))
  /\ clients' = [clients EXCEPT ![local[p].val].declared = TRUE]
  /\ Advance(p, local[p].val)
  /\ UNCHANGED <<cfgVars, calls, cached, handled, broker, sdVars>>

\* Mutant of DeclareFails: SetupTopology logs the error itself and goes on.
DeclareSkips(p) ==
  /\ Doing(p, "declare")
  /\ local[p].decl < Len(Wanted(p))
  /\ local' = [local EXCEPT ![p].decl = @ + 1]
  /\ UNCHANGED <<cfgVars, calls, clients, cached, handled, broker, sdVars>>

\* The channel cannot be opened, the broker refuses a declaration, or the
\* connection fails meanwhile: logged, and the client is used as it is.
DeclareFails(p) ==
  /\ Doing(p, "declare")
  /\ local[p].decl < Len(Wanted(p))
  /\ Advance(p, local[p].val)
  /\ UNCHANGED <<cfgVars, calls, clients, cached, handled, broker, sdVars>>

-----------------------------------------------------------------------------
(***************************************************************************)
(* Shutdown(ctx) and what goes on around it.                               *)
(***************************************************************************)
\* One closing goroutine for each client in the caches it ranges over.
StartShutdown ==
  /\ sd = "ready"
  /\ sd' = "running"
  /\ closing' = [c \in DOMAIN closing |->
       IF c \in cached /\ clients[c].key.role \in Scanned THEN "close" ELSE "none"]
  /\ cachedAtCall' = cached
  /\ UNCHANGED <<cfgVars, calls, local, clients, cached, handled, broker>>

\* Stop of an NSQ consumer only begins to stop it; all else is closed at once.
Lingers(c) == driver = "nsq" /\ clients[c].key.role = "consumer"

\* Mutant of CloseClient: <-c.StopChan comes before c.Stop.
WaitThenStop(c) ==
  /\ closing[c] = "close"
  /\ IF Lingers(c) THEN clients' = clients ELSE SetStatus(c, "closed")
  /\ closing' = [closing EXCEPT ![c] = IF Lingers(c) THEN "await" ELSE "evict"]
  /\ UNCHANGED <<cfgVars, calls, local, cached, handled, broker, sd, cachedAtCall>>

CloseClient(c) ==
  /\ closing[c] = "close"
  /\ SetStatus(c, IF Lingers(c) THEN "stopping" ELSE "closed")
  /\ closing' = [closing EXCEPT ![c] = IF Lingers(c) THEN "await" ELSE "evict"]
  /\ UNCHANGED <<cfgVars, calls, local, cached, handled, broker, sd, cachedAtCall>>

\* Mutant of AwaitStop: Stop is enough.
AwaitNothing(c) ==
  /\ closing[c] = "await"
  /\ closing' = [closing EXCEPT ![c] = "evict"]
  /\ UNCHANGED <<cfgVars, calls, local, clients, cached, handled, broker,
                 sd, cachedAtCall>>

\* <-c.StopChan
AwaitStop(c) ==
  /\ closing[c] = "await"
  /\ clients[c].status = "closed"
  /\ closing' = [closing EXCEPT ![c] = "evict"]
  /\ UNCHANGED <<cfgVars, calls, local, clients, cached, handled, broker,
                 sd, cachedAtCall>>

\* The two deletes, by key: who is inside keeps a mutex nobody else will get.
Evict(c) ==
  /\ closing[c] = "evict"
  /\ cached' = cached \ CachedFor(clients[c].key)
  /\ local' = [p \in Procs |->
                 [local[p] EXCEPT !.stale =
                    @ \/ (Inside(p) /\ local[p].key = clients[c].key)]]
  /\ closing' = [closing EXCEPT ![c] = "done"]
  /\ UNCHANGED <<cfgVars, calls, clients, handled, broker, sd, cachedAtCall>>

Graceful ==
  /\ sd = "running"
  /\ \A c \in Ids : closing[c] \in {"none", "done"}
  /\ sd' = "graceful"
  /\ UNCHANGED <<cfgVars, calls, local, clients, cached, handled, broker, closing,
                 cachedAtCall>>

TimeOut ==
  /\ sd = "running"
  /\ sd' = "timedOut"
  /\ UNCHANGED <<cfgVars, calls, local, clients, cached, handled, broker, closing,
                 cachedAtCall>>

\* The application adds a handler to the NSQ consumer it was given.
AddHandler(c) ==
  /\ c \in Ids /\ Lingers(c) /\ clients[c].status = "open"
  /\ \E p \in Procs : At(p, "idle") /\ local[p].val = c
  /\ handled' = handled \cup {c}
  /\ UNCHANGED <<cfgVars, calls, local, clients, cached, broker, sdVars>>

\* go-nsq closes StopChan when the last handler loop has ended; a consumer that
\* never had one never gets there.
StopChanCloses(c) ==
  /\ c \in Ids \cap handled
  /\ clients[c].status = "stopping"
  /\ SetStatus(c, "closed")
  /\ UNCHANGED <<cfgVars, calls, local, cached, handled, broker, sdVars>>

-----------------------------------------------------------------------------
Proceed(p) ==
  \/ ReloadTarget(p) \/ SetMode(p) \/ MakeKey(p) \/ Load(p) \/ Enter(p)
  \/ Make(p) \/ MakeFails(p) \/ Verify(p) \/ VerifyFails(p)
  \/ Start(p) \/ StartFails(p) \/ Store(p)
  \/ DeclareNext(p) \/ DeclaredAll(p) \/ DeclareFails(p)

Closing(c) == CloseClient(c) \/ AwaitStop(c) \/ Evict(c)

Next ==
  \/ \E p \in Procs : (\E w \in Wrappers : Call(p, w)) \/ Reload(p) \/ Proceed(p)
  \/ \E c \in 1..MaxClients : Closing(c) \/ AddHandler(c) \/ StopChanCloses(c)
  \/ StartShutdown \/ Graceful \/ TimeOut

Spec == Init /\ [][Next]_vars

\* The goroutines of Shutdown run, and handler loops end once told to. Nobody
\* has to call, to add a handler or to cancel the context of Shutdown.
Fairness ==
  /\ \A c \in 1..MaxClients : WF_vars(Closing(c)) /\ WF_vars(StopChanCloses(c))
  /\ WF_vars(Graceful)

FairSpec == Spec /\ Fairness
-----------------------------------------------------------------------------
(***************************************************************************)
(* What these registries promise.                                          *)
(***************************************************************************)
\* No Shutdown has deleted the key of client c.
Kept(c) == \A d \in Ids : clients[d].key = clients[c].key => closing[d] # "done"

\* Whatever fails on the way, through all eleven functions: a client that runs
\* is in its cache, where Shutdown can find it, or still with its creator. What
\* is left behind after a failed Start or Connect never ran.
NothingIsLost ==
  \A c \in Ids : clients[c].status = "open" /\ Kept(c) =>
    c \in cached \/ \E p \in Procs : Inside(p) /\ local[p].val = c

\* After a graceful Shutdown the clients that were cached when it was called
\* are closed, except those of the caches it skips, which still run.
ShutdownClosesScanned ==
  sd = "graceful" => \A c \in cachedAtCall :
    clients[c].status = IF clients[c].key.role \in Scanned THEN "closed" ELSE "open"

\* A client in an application's hands stops only because a Shutdown stops it:
\* never through a Reload, nor through another caller's failing Ping or Start.
StaysOpen ==
  [][\A c \in Ids : \A p \in Procs :
       /\ At(p, "idle") /\ local[p].val = c /\ clients[c].status = "open"
       /\ clients'[c].status # "open"
       => closing[c] = "close"]_vars

\* The fingerprint in a key was taken of the mode the wrapper stands for, or
\* else some caller of the same path wants the other mode and has overwritten
\* the shared Config: POS and POC are never hit, nor programs that use one mode.
OwnMode ==
  \A p \in Procs : At(p, "load") =>
    \/ local[p].key.print = local[p].call.mode
    \/ local[p].call.via = "path" /\ local[p].obj \in mixed

\* A connection whose SetupTopology reported no error finds on the broker all
\* that its config asks for, whatever others declare or fail to declare there.
DeclaredIsInPlace ==
  \A c \in Ids : clients[c].declared => InPlace(Sections[clients[c].key.content])

\* A Shutdown waits for ever, its context never ending, only for an NSQ
\* consumer that never got a handler.
Stuck == \E c \in Ids \ handled : closing[c] = "await"

ShutdownReturns == sd = "running" ~> sd \in {"graceful", "timedOut"} \/ Stuck
=============================================================================
