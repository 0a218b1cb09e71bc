# mqx in TLA+

mqx is a Go library that gives one API to eight messaging systems. A program asks a
driver package for a native client (`kafkax.P("kafka.yaml#orders")`), and the package
parses a config, finds or makes a pool of connections for it, and hands one out. The
packages `kafkax`, `rabbitx`, `pulsarx`, `natsx`, `redisx`, `nsqx`, `mqttx` and `rocketx`
are variations of one scheme: caches of connections, tables of per-key mutexes,
double-checked creation, a `Shutdown` that closes everything, a `Reload` that replaces a
pool while it is in use. Goroutines, mutexes, sleeps and connections that end by themselves
meet in that scheme; these modules are about it.

Paths below are relative to `src/`.

## Inventory

| Component | State | Operations | Interacts with | What is hard | What makes it correct |
|---|---|---|---|---|---|
| Kafka registry (`kafkax/producer.go`, `consumer.go`, `kafkax.go`) | `producerCache`, `consumerCache`, `producerLocks`, `consumerLocks` (four `sync.Map`s) | `getOrCreateProducerPool`, `getOrCreateConsumer`, `Shutdown`, `HealthCheck` (reads) | pool, hot reload (its goroutine deletes from the cache) | callers against each other and against Shutdown, which deletes mutexes that are held; Range is no snapshot; timeouts | one client per key, none lost, callers share it, Shutdown closes what it found |
| Kafka snapshot and hot reload (`kafkax/config.go`, `kafkax.go`) | `activeConfigCache`, the file | `ParseFile`, `parseFileFromDisk`, `P`/`PPS`, `Reload`, its goroutine | registry | a close that runs five seconds after its decision; reads of the file that overlap | the snapshot is the latest config, its pool is open, replaced pools get closed |
| Pools (`*/pool.go`) | `instances`, `counter` | constructor, `Get`, `Close` | every registry | failure at instance i; counter that wraps; several closers | all or nothing, fair shares, Close leaves nothing open |
| RabbitMQ watchers (`rabbitx/producer.go`, `consumer.go`) | a goroutine per connection | `NotifyClose`, compare, delete | registry, broker | it starts before the Store, registers late, deletes by key | a lost connection leaves the cache, a healthy one does not |
| RabbitMQ topology (`rabbitx/topology.go`) | the broker's exchanges, queues and bindings | `SetupTopology` | pool constructor, consumer creation, other declarers | stops halfway, error only logged | what was reported as declared is there; dead letters have a queue |
| Pulsar registry (`pulsarx/`) | `clientCache` below `producerCache` and `consumerCache`, a lock table for each | `getOrCreateClient`, `getOrCreateProducer`, `getOrCreateConsumer`, `Shutdown` | itself, in two layers | nested mutexes; clients shared between keys; two waves of closing | one client per fingerprint, handles on the cached client, producers closed before clients |
| NATS registry (`natsx/`) | `connCache` below the pools | as above, `DrainAndClose` | pool of N entries over one connection | `connCache` outlives Shutdown; Drain is asynchronous | one connection per fingerprint, closed by nobody but Shutdown |
| Redis, NSQ, MQTT, RocketMQ registries | caches, lock tables, `activeConfigCache` | eleven getOrCreate functions, wrappers that write `Mode`, `Reload`, `Shutdown` | pools, snapshot | the failure of each step after a client exists; a Config shared by all callers of a path; a wait for a consumer to stop | a running client is cached or with its creator; Shutdown closes what it scans |
| Message tracing (`*/tracing.go`, `redisx/stream.go`, `observability/tracing*.go`) | none; the messages on the way | `PublishTrace`, `ConsumeTrace`, `AddHandlerTrace`... | provider, propagator | processes with and without tracing; messages passed on with their headers | the consumer gets the published body; its span hangs on the sender's |
| Configuration, TLS, errors (`config.go`, `errors.go`) | none | load | all | | |
| Tracing configuration (`config/tracing.go`) | the struct it fills | `Validate`, `GetSampler` | observability | applied twice | nothing is left to fill; a second pass changes nothing |
| Observability (`observability/`) | global provider, global server | `InitTracing` and its cleanup, `Shutdown`, metrics server | exporters | globals overwritten by a second call | each cleanup stops what its Init started |
| Exporters (`observability/exporter/*`) | none of their own | `ExportSpans`, `Shutdown` | Kafka, Redis | failure in the middle of a batch | a success means all written |
| Fingerprint, logger (`utils/`) | none | `ConfigFingerprint` | all registries | fields left out; read beside a writer of Mode | equal exactly for configs that may share a pool |

Every hazard of this list, with its line and the properties aimed at it, is in
`PROJECT.json` under `hazards`; those that no property covers yet say so.

## Modules

| Module | Models | Extends or uses |
|---|---|---|
| `Registry` | getOrCreate and Shutdown of `kafkax`, statement by statement | |
| `ClientStore` | what a registry promises: one client per key, published once, given to all | |
| `RegistryStore` | the mapping under which `Registry` implements `ClientStore` | `Registry`, `ClientStore` |
| `RabbitWatch` | the same registry in `rabbitx` with watchers and lost connections | `Registry` |
| `RegistryProofs` | proofs about the three | `RegistryStore`, `RabbitWatch` |
| `HotReload`, `HotReloadProofs` | snapshot, `P`, `Reload` and the delayed close of `kafkax`, and proofs | getOrCreate as one step |
| `Pool`, `PoolProofs` | a pool from constructor to Close, all drivers, and proofs about it | |
| `Pulsar`, `PulsarProofs` | the two registries of `pulsarx` and their Shutdown, and proofs | |
| `Topology` | the declarations of `SetupTopology` and the broker that takes them | |
| `Drivers`, `DriversProofs` | the registries of `redisx`, `nsqx`, `rocketx`, `mqttx` and `rabbitx`, and proofs | `Topology` |
| `Nats`, `NatsProofs` | pools and consumers of `natsx` over shared connections, and proofs | |
| `Tracing`, `TracingProofs` | messages that carry a trace, all drivers, and proofs | |
| `Observability` | tracer providers, their cleanups, spans and exporters | |
| `TracingConfig` | `Validate` and `GetSampler` | |
| `ObservabilityProofs` | proofs about both | `Observability`, `TracingConfig` |
| `*MC` | symmetry, functions and sample values for TLC | their module |

The layers fit together as follows. `Registry` counts a pool as one client that is made at
once or not at all; `Pool` shows that a constructor is all or nothing, and `PoolProofs`
proves it for every size. `HotReload` takes getOrCreate as one step that
finds the cached pool or makes one, which `Registry` justifies for callers before Shutdown
(`OneOpenClientPerKey`, `HandedOutIsCached`). `RabbitWatch` composes `Registry`'s `Next`
with the watchers: each of its steps is a step of the registry that also starts or ends
watchers, or a step of the broker or of a watcher that may only delete a cache entry. `Drivers` and
`Nats` use what `Registry` shows of the lock table: a mutex is taken in one step, and a
caller whose mutex Shutdown has deleted goes on with a `stale` one that excludes nobody.
`Drivers` composes the registries with the broker of `Topology`. `Tracing` knows the
provider only as off, on or shut down; `Observability` is about how it gets there.

### Registry

`cache` and `lockOf` are the sync.Maps (producer and consumer keys are disjoint, so one
function holds both), `holder` the mutexes, `status` and `keyOf` the clients, `pc`, `req`,
`mu`, `val` the locals of a caller. Every access to a sync.Map or mutex in
`getOrCreateProducerPool` and `getOrCreateConsumer` is an action: `LoadHit`/`LoadMiss`,
`DriverMismatch`, `LoadOrStoreLock`, `Lock`, `Recheck`, `Create`/`CreateFail`,
`Subscribe`/`SubscribeFail`, `Store`, `Unlock`. A caller keeps its `mu` even when Shutdown
deletes the table's entry, as the Go variable does. `Visit` is one call of Range's callback:
it meets each key at a moment of its own, since `sync.Map.Range` is no snapshot, and
starts a closing goroutine (`CloseTarget`, `Uncache`, `DropLock`). `Graceful` and `TimeOut`
are the arms of the select. `openAtCall` and `cachedAtCall` are history.
`ScansConsumers` is FALSE for the drivers whose Shutdown leaves consumers out.

### RabbitWatch

A client is a pool seen through its connection 0, the one that is watched, or a consumer's
connection. `watcher` goes from `starting` (goroutine started, before the Store) over
`NotifyClose` to `listening`; `Lose` makes it `fired`; `CheckCached` and `EvictProducer` are
the producer's comparison and its separate delete, `EvictConsumer` the consumer's delete
without a comparison. From the amqp library two facts are used: NotifyClose on a
connection that has ended closes the channel at once, and a Close by this side closes it
with no error in it.

### HotReload

`disk` is the file, `snap` is `activeConfigCache`, `cache` maps (section, fingerprint) to
pools. A caller of `P` takes the snapshot (`ParseSnapshot`) or reads the file and stores it
in a later step (`ParseDisk`, `StoreSnapshot`), then gets its pool. A `Reload` notes the old
key (`StartReload`), reads the file, stores the snapshot, gets the new pool, and starts its
goroutine if the key changed (`Schedule`); the sleep is the freedom of `DelayedClose` to
come at any later time, the delete is a step after the close. `Edit` is the operator's hand.

### Pool

One loop variable for the constructor, one for the recycling loop; the table
`ThroughFailed` says which drivers' loops run through the failed instance. `Add` and `Index`
are the two halves of Get: the counter is shared, `idx` is not. `CloseNext` is one round of
Close, of any number of goroutines. `Wrap` stands for 2^64.

### Pulsar

A mutex is the generation of its entry in the lock table: deleting the entry lets the next
caller store a new mutex, which is all that matters about a mutex here. `LockKey` and
`LockPrint` take a mutex and look again into the cache; a caller holds the key's mutex while it waits for the
fingerprint's. Shutdown's `Wake` ends the 100 ms sleep at any time after the first Range.

### ClientStore and RegistryStore

`ClientStore` has four actions and no cache, lock or creation: `Ask`, `Publish`, `Give`,
`Retire`. Under the mapping of `RegistryStore` a cached client is the published one until a
Shutdown has deleted the key's entry, a caller's `val` is what it was given once
getOrCreate has returned, and a key whose entry was deleted is retired. `Store` maps to `Publish`,
`LoadHit` and `Unlock` to `Give`, `DropLock` to `Retire`, all else to a stutter.

### Drivers and Topology

Each of the eleven getOrCreate functions is a sequence of steps after its second look into the
cache (`redisSingleProducer == <<"make", "verify", "store">>` and so on); for each kind
of step there is an action for its success and one for its failure, with what the code
closes or leaves then. `driver` is chosen once. `snapshot` is the version of the file that `activeConfigCache` has,
`modeOf` the field `Mode` of each parsed `*Config`: `SetMode` writes into the one that all
callers of a path share, `MakeKey` reads it for the fingerprint. `Scanned` is the list of
caches each Shutdown ranges over. An NSQ consumer lingers after `Stop` until its StopChan
closes. `DeclareNext` is one declaration of `SetupTopology` on the broker, which other
callers declare on meanwhile; `DeclareFails` leaves off and goes on to the next step, as
the callers that log the error do.

### Nats

`connOf` is `connCache`, `cached` the connections of each cached pool or consumer; an
instance is a connection or a JetStream context over it. `made` is what `newNatsPool` has so
far, which `ConnectFails` closes. `DrainAndClose` starts a drain of the connections of its
pool that are open, or closes one that is reconnecting; `Drained` and `GiveUp` are nats.go's own
steps.

### Tracing

A traceparent is the number of the span it names, and `roots` gives the trace. `sender` is one of
nine sending functions, chosen once; each table entry (`Envelopes`, `Injects`,
`KeepsHeaders`, `SetHeader`, `HandlerContext`) is a difference between the drivers' files.
Messages stay on the `wire`, so they are delivered any number of times and in any order;
`Relay` sends on the last one received, with its headers or without.

### Observability and TracingConfig

Every `InitTracing` is a process of its own: `buildSpanExporter`, the resource, the
assignment to the package variable and `SetTracerProvider` are steps, and so are those of the cleanup it
returns, each of which reads the variable again. The SDK's batch processor is a queue and a worker;
`ExportSpans` of the two exporters goes span by span. `disturbed` and `overlapped` are
history: they note when another call has interfered. `TracingConfig` is no state machine: it
defines `Validate` as the composition of its five passages over a section, evaluated by
TLC in the assumptions of `ObservabilityMC`.

## Runs

| Run | Question | Answer |
|---|---|---|
| `registry_safety` | Two callers, a pool, a consumer that subscribes, a config of another driver, one Shutdown | Types and five safety properties hold, and the registry implements `ClientStore` |
| `registry_live` | The same with fairness, a subscribing consumer | Calls and Shutdown return; every client that was cached gets closed, also after a timeout |
| `registry_avalanche` | Do two goroutines ever create a client for one key at once? | They do once Shutdown has deleted the mutex that one of them holds (`kafkax/kafkax.go:33`) |
| `rabbit_watch` | Caller, Shutdown, losses, watchers | A loss of a watched and cached connection is never forgotten; watchers hit no successor before Shutdown's delete |
| `hot_reload` | Two Reloads in turn, a caller, three versions | Snapshot is right, its pool is open, replaced pools get closed |
| `hot_reload_revert` | The same when the second Reload restores the first config | The delayed close hits the pool in use |
| `pool` | All drivers, any instance fails, two callers of Get, two closers, wrap | A failed constructor leaves nothing open, shares are even, Close is complete |
| `pulsar` | A producer and a consumer over one client, Shutdown | One client per fingerprint, handles on it, and no deadlock: TLC's deadlock check would find callers that wait for each other |
| `drivers` | Five drivers, any step fails, Reload, Shutdown, a shared broker | No running client is lost; Shutdown closes what it scans and nothing else stops a client in use; keys have their mode but for the shared Config; declarations that succeeded are there; Shutdown waits for ever only for an NSQ consumer without handlers |
| `nats` | Pools and consumers over shared connections, drains, losses | One connection per fingerprint; only Shutdown closes; nothing open behind a graceful end |
| `tracing` | Nine ways to send, tracing on and off on both sides, messages passed on | When the body arrives, whom the span hangs on, that a handler stays in its trace |
| `observability` | Two InitTracing with cleanups, Shutdown, spans, failing exporters | A cleanup flushes and stops its own provider unless disturbed; the globals agree; a successful batch is written |

The violated properties state what a comment or the documentation says of the code; each
is a finding in `PROJECT.json` with its quotation.

### Bounds

* Two callers are enough for every race of getOrCreate: the properties relate two callers
  or one caller and Shutdown, and the theorems cover any number. Two keys of a kind add
  nothing to one, as no action reads two keys. Consumers that do and do not subscribe and a
  foreign key give every branch.
* Clients are used up: with two, a client can be made, closed and made again, so a
  successor exists. When none is left `CreateFail` is still enabled, so nobody is stuck.
* Mutexes can be unreachable and are then used again: four suffice for two callers.
* One Shutdown: the process ends after it. The invariants of callers hold for any number of
  Shutdowns (theorems below); those that speak of one Shutdown's duty (`OwedInv`,
  `DeletesWhatItClosed`) need it to be the only one.
* `rabbit_watch` has one caller, two connections and a Shutdown: a predecessor
  that was lost, its successor, and a delete by key.
* `hot_reload` has three versions of the config and two Reloads: two generations of doomed pools, and a caller that
  may hold any of them. `MayRevert` and `Overlap` name what is left out of the
  passing run; the divergences they allow are listed below.
* `pool`: sizes 0 (one instance) and 3; a counter that wraps at 8, which 3 does not divide,
  and ten Gets, so the wrap is passed.
* `pulsar`: one producer key, one consumer key, one fingerprint, two clients and handles.
  Handles and clients are used up, as in Registry.

* `drivers`: two calls, two clients, and a file that changes once, from no mode to "cluster" and from a
  dead-letter queue to none, so that a Reload declares a queue with other arguments. Two
  calls are the two roles of every race: whoever makes a client, and whoever asks, reloads or declares beside it.
* `nats`: two producer keys and a consumer key over one fingerprint and a producer key over another,
  pools of two, and a connection more than there are fingerprints, for the one that must not be made.
* `tracing`: two processes, four spans and three messages: sent, passed on, and
  received by a process that was switched off between. See `Tracing.cfg`.
* `observability`: two calls, a Kafka and a Redis backend, three spans: a batch of two
  with a failure at the second, and a span that comes late.

Deadlock is checked in all runs but `pool`, `drivers` and `observability`, which come to their end when
the bounds on calls, clients or spans are used up.

### Fairness

A goroutine that can go on does so (weak fairness of a caller's own steps, of Range, of
closing goroutines and watchers): the Go scheduler is preemptive, and the calls that block,
creating and closing a client, have timeouts or fail. A mutex is taken with strong
fairness: Go's mutexes go into starvation mode, where the waiters get it in turn. Nothing
forces anyone to call, to Shutdown, to edit a file or to lose a connection; `TimeOut` is not fair, so
Shutdown returns also under a context without a deadline. In `HotReload` fairness of a
Reload's goroutine says the sleep ends. In `RabbitWatch` the goroutines are fair in `RabbitFairSpec`,
under which a watcher still misses what it misses (`LossIsEvicted`, below); its run and its
theorems are of safety and need `RabbitSpec` only. In `Drivers` the closing
goroutines and the end of an NSQ handler loop that was told to stop are fair, which is all
`ShutdownReturns` needs. `Nats`, `Tracing` and `Observability` state safety only.

## Proofs

All theorems are of safety, for every value of the constants that the named assumptions
allow; the MC modules' constants satisfy them, and TLC evaluates them there.

`RegistryProofs`, for any number of goroutines, keys, clients, mutexes and Shutdown calls,
from `RegistryAssumption` (producer and consumer keys differ, nil is none of the values):

* `Invariance`: `RegistryInv` holds always. It is inductive and it is what the properties
  lack: `LockInv` (until Shutdown deletes a key's entry all callers have the mutex of the
  table, and whoever is in the critical section holds it) gives exclusion, exclusion gives `MissInv`
  (the creator's cache entry stays empty), that gives `ReturnInv` (what is returned is
  cached) and `NoOrphans`. `KeyInv` ties clients to keys, `CloserInv` says why a deletion
  needs a visit, `LocalsInv` keeps locals in line with the program counter.
  There is a lemma for each conjunct; a step that deletes a key's entry leaves nothing to prove for that key.
* `TypeCorrect`, `OrphanFreedom`, `UniqueClient`, `SharedClient` follow from it.
* `OwedClosed`, `GracefulShutdown`, `DeletesOwnEntry`: with one Shutdown call,
  `ShutdownInv` (each client cached at the call is closed, or still cached and ahead of the
  Range loop or in the hands of a goroutine) is inductive relative to `RegistryInv`; a graceful end has
  closed them all (if both caches are scanned), and the delete by key hits the client that
  was closed.

* `ImplementsStore`, Spec => Shared!Spec. Every step of the registry is a step of the abstract
  store or a stutter under the mapping of `RegistryStore`. `Store` is a `Publish` because `MissInv`
  says that the creator's key is still empty and `KeyInv` that the client is no other key's;
  `LoadHit` and `Unlock` are a `Give` because of `ReturnInv`; a step that deletes a key's entry
  is a `Retire`, about which nothing is promised.
* `WatcherInvariance`, `LostEvicted`, `EvictionHitsOwn`, about `RabbitSpec`, from `RabbitAssumption` too (no
  consumer of `rabbitx` has a step after its connection that can refuse it, as `Subscribe` does).
  An eviction breaks part of `RegistryInv`: what a caller is given may be out of the cache
  already. `RabbitInv` therefore takes only what survives when entries become empty (`CoreInv`), and
  the steps of the registry are shown to preserve that much from that much. To it come `WatchedInv` (until Shutdown
  deletes the entry, a live watcher belongs to the cached client or to the one about to be
  stored), `StoredOnce` (that one is nowhere else yet) and `LostInv` (a connection that was lost
  while it was cached is not stored again). `EvictsOwn` follows from `WatchedInv` and
  `MissInv`: beside a client that is about to be stored the entry is empty.

`PoolProofs`, for any size, counter width, number of callers and closers, from
`PoolAssumption`: `PoolInvariance`, `AllOrNothing` (no instance is left open by a
constructor that fails or panics), `StrictRecycling`, `CloseIsComplete`; and `BalanceInvariance`
and `EvenlyShared` for the shares of Get. `Balanced` speaks of a moment at which no Get is under way; `BalanceInv` says of
every moment how many rounds each slot was taken in, the Gets between counter and index
included (`Taken`), and that only a wrap of the counter, which cuts a round short, lets two slots drift apart.

`NatsProofs`, for any number of callers, keys, fingerprints, connections and instances, from
`NatsAssumption`: `NatsInvariance`, `OneConnection`, `OnlyShutdownCloses`,
`GracefulMeansDrained`. The invariant `NatsInv` adds to the properties what carries them:
`OneCaller` (all instances a caller has are on its fingerprint's connection, and it has none
while that is being made: so there is nothing for newNatsPool to close), `Apart` (one caller
at a time makes a fingerprint's connection), `PoolInv`, and `DrainInv` (each fingerprint
that Shutdown met has a connection that ended or a goroutine that will drain it).

`PulsarProofs`, for any number of callers, keys, fingerprints, clients and handles, from
`PulsarAssumption`: `PulsarTypes`, `OneClient`, `HandlesReached`, `GracefulProducers`. `PulsarInv` has the argument of the
registry twice, once for a key and once for a fingerprint: until Shutdown touches an entry
there is one mutex for it (`KeyInv`, `PrintInv`), so one caller at a time is behind the
second look, and what it saw missing is still missing. `BelongInv` joins the two layers: a client is cached or in the hands
of the one caller that makes it, and handles are on that client. `OwedInv` carries the
duty of Shutdown's first wave: a producer that was cached when it began is closed, still
ahead of the loop, or in the hands of a goroutine.

`HotReloadProofs`, for any number of callers, Reloads, versions and pools, from the assumptions of
`HotReload`: `HotReloadTypes` and `HotReloadTypeCorrect` need nothing more. `LatestSnapshot` holds under `Calm` (reads of the
file do not overlap, and no version comes back: `~Overlap` and `~MayRevert`), and `CurrentPoolStaysOpen` under `Calm` and
`Distinct` (no anonymous path; sections and versions have keys of their own). These are the conditions of the run
`hot_reload`, and the divergences below show what happens without each. The heart of the second
is `RetiredInv`: a key whose pool a Reload is to close is never again the key of the file, of the
snapshot or of a config on its way there.

`ObservabilityProofs`, for any number of calls, providers, spans and batches, from
`ObservabilityAssumption`: `OwnProviderStops`, `OneGlobalProvider`, `NothingExportedIsLost`. `OwnInv` says
that a call that nobody disturbed has the package variable for itself from its assignment to
its cleanup's last read; `SpanInv` that what the exporter took from a batch is written, was refused,
or is with Kafka's producer; `GlobalsAgree` is inductive with the types.

The same module, for any texts and defaults, from `TextAssumption`: `ValidatedIsUsable`,
`ValidateSettles` (each passage of Validate leaves a settled section alone and
unsettles nothing that an earlier one settled), `OldCredentialsStay`.

`DriversProofs`, for any number of callers, wrappers, clients and config contents and all five
drivers, from `DriversAssumption` and `SectionsAssumption` (each content of the file has a Mode and a RabbitMQ
section, present or not): `DriversInvariance`, `DriversTypeCorrect`, `RunningIsFound`, `GracefulCloses`,
`PrintsOwnMode`, `TopologyInPlace`, `DeadLettersHeld` and the action property `OnlyShutdownStops`. A client
passes through three hands: its creator's, the cache's, a closing goroutine's. `DriversInv`
says that no two of them have it at once and which status it has with each:

* `CallersInv`: a caller inside getOrCreate owns the client it made (`Owns`: nobody else has it,
  it is not cached, and it is open unless `Start` is still to come), and shares its key with
  nobody inside and with no cache entry, unless a Shutdown deleted the key (`Excludes`). So
  when a step fails, the client that is closed or dropped is the caller's alone.
* `ShutdownInv`: a closing goroutine exists only for what was cached at the call, and the
  status of that client follows from how far its goroutine is.
* `NothingIsLost` is inductive with these two. `StaysOpen` is their consequence for a step: a caller's own failing
  step hits a client that no other caller has, and Shutdown's goroutines are at "close" when they hit.
* `ModeInv`: a caller between its wrapper's assignment to `Mode` and the fingerprint finds its own mode there,
  or the config is among the mixed ones.
* `BrokerInv`: the broker keeps what it has, so what a caller declared stays there (`Declared`, part of `CallersInv`);
  a main queue with a dead-letter exchange is only declared behind the binding of that exchange's queue.
  That last fact comes from `DeclarationsForm`, which enumerates the declarations of every kind of section.

`TracingProofs`, for any number of processes, spans and messages and all nine sending functions:
`TracingInvariance`, `TracingTypeCorrect`, `TraceIsKept`, `BodyIsDelivered`, `LinkIsRight`. `TracingInv` says what a message on the wire
is made of (`MessageOK`), that a process that received one has read its parent and body from a message on the wire
(`ReceivedOK`), and that a NATS or RocketMQ handler's context is in its parent's trace, which makes
`StaysInTrace` inductive. `Unwrapped` is the lemma about the envelope: opened, it gives back
body and traceparent, and it is never equal to the body.

Model-checked only: liveness (`CallReturns`, `ShutdownReturns`, `CachedGetClosed`,
`ReplacedPoolCloses`, `Drivers`' `ShutdownReturns`), which the prover does not reach. Every invariant and every
action property that a passing run checks is proved.

## Divergences seen beside the runs

TLC or the reading of the code shows these too; they have no run of their own. For those with
a property, the property stands in the module, and TLC finds the counterexample when it is
put into the configuration of the module's run.

* `GracefulClosesAll` (`Registry`): a client that is being created while Range passes its key
  survives a Shutdown that logs "all connections closed gracefully" (`kafkax/kafkax.go:60`).
* `LossIsEvicted` (`RabbitWatch`, under `RabbitFairSpec`): a connection lost before its watcher registers, or before it is
  stored, stays in the cache (`rabbitx/producer.go:98`, against the comment at line 102).
* `RecyclesCreated` (`Pool`): the loops `for j := 0; j <= i; j++` call a method of the nil
  instance that has just failed (`redisx/pool.go:67` and `:111`, `nsqx/pool.go:82`,
  `mqttx/pool.go:100`, `rocketx/pool.go:78` and `:88`), against "recycle the instances that
  were created" (`redisx/pool.go:66`).
* `ClientsLast` (`Pulsar`): a client is closed under a producer whose Close takes longer
  than the 100 ms (`pulsarx/pulsarx.go:47`), against "the clients last" (line 49).

* `Overlap = TRUE` in `HotReload`: a first `P` that read the old file stores its snapshot
  after a Reload stored the new one (`kafkax/config.go:63`); `SnapshotIsLatest` fails.
* Two files with a section of the same name and fingerprint share a pool; the Reload of one
  closes it under the other.
* A change of password, TLS or pool size keeps the fingerprint (`utils/fingerprint.go:29`):
  Reload reports success and the old pool stays.
* For a path without `#key` Reload builds the old key with "default"
  (`kafkax/kafkax.go:102`), so the old pool of an anonymous path whose section has another
  name is never closed (constant `Anonymous`).
* Shutdown of Redis, NATS and RocketMQ leaves consumers open (`redisx/redisx.go:67`,
  `natsx/natsx.go:44`, `rocketx/rocketx.go:47`); `ShutdownClosesScanned` says so.
* PPS and PPC of one path write `Mode` into one `*Config`: a caller can get a pool whose
  key has the other mode's fingerprint (`mixed` in `Drivers`).
* Reload of Redis, NSQ, RocketMQ, MQTT, RabbitMQ, NATS and Pulsar never closes the pool it
  replaces, although comments promise it (`rabbitx/rabbitx.go:13`).
* A failed `Start` or `Connect` leaves its client as it is (`rocketx/producer.go:168`,
  `mqttx/client.go:90`).
* After NATS Shutdown `getOrCreateConn` gives later callers the closed connection
  (`natsx/client.go:25`).
* `XAddTrace` starts a span and injects nothing (`redisx/stream.go:42`), unlike `XAddTraceWithMaxLen`.
* Set of the Kafka carrier appends (`observability/tracing.go:31`): a message passed on with
  its headers stays linked to its first sender.
* NSQ and MQTT messages sent with no span to inject are handed to the handler as the JSON
  envelope (`nsqx/tracing.go:30`, `mqttx/tracing.go:51`).
* A cleanup of InitTracing reads the package variable when it runs (`observability/server.go:183`): after a
  second InitTracing it stops the second provider.
* A negative sampler ratio becomes 0 at the first Validate and 0.1 at the second
  (`config/tracing.go:112`).
* Validate keeps an Authorization header that it made itself, after the credentials have changed
  (`config/tracing.go:137`; theorem `OldCredentialsStay`).

## Not modelled, and why

* Configuration types, TLS loading, errors and the logger change no shared state, nor do the
  wrappers that panic on an error. HealthCheck reads.
* `pulsarx/pool.go` is not used by its package.
* The metrics server and the metric registrations: nothing depends on them.
* Instances 1.. of a RabbitMQ pool have no watcher; `RabbitWatch` has instance 0 only, so that a
  loss of the others does not show there.
* What the fingerprint covers besides `Mode`: `PrintOf` takes it as given.
* The client libraries are outside: they appear as success, failure, loss of a connection,
  a drain that ends, a message delivered again. Marshalling, log texts and span attributes are left out.
* Crash recovery does not arise, for nothing is stored.
* The type invariants of `RabbitWatch`, `Pool`, `Drivers`, `Nats`, `Tracing` and `Observability`
  hold in their runs' instances but are not among the runs' properties; they are proved,
  alone or as part of the modules' inductive invariants.

## Plan

Done: all modules of the table above, and proofs of every safety property that the passing
runs check. Left:

1. Proofs: that the registry of `RabbitWatch`, with its evictions, and the two layers of
   `Pulsar` implement an abstract store as well.
2. `RabbitWatch` with a pool's instances, and a watcher for the first only.
3. `HotReload` over `Registry` itself, in place of a getOrCreate of one step.
