------------------------------ MODULE HotReload ------------------------------
(***************************************************************************)
(* kafkax hot reload: the snapshot of every parsed config file, Reload,    *)
(* and the goroutine that closes the replaced pool five seconds later,     *)
(* beside callers of P.                                                    *)
(*                                                                         *)
(* Parsing and storing the snapshot are two steps, getOrCreate is one: the *)
(* module Registry is about its inside. Everything here asks for single    *)
(* mode. A config is its content; what the cache key says of it is its     *)
(* fingerprint.                                                            *)
(***************************************************************************)
CONSTANTS Paths,      \* arguments of P and Reload: "file" or "file#key"
          Anonymous,  \* the paths without "#key"
          Names,      \* keys of sections, and "default"
          NameOf,     \* the section each path's file really has
          DefaultName,
          Contents,   \* versions of a config
          Prints, PrintOf,  \* ConfigFingerprint
          MayRevert,  \* may an edit bring an earlier version back?
          Overlap,    \* may Reload overlap another, or the path's first P?
          Callers, Reloads, Pools,
          NoContent, NoPool, NoPath

ASSUME HotReloadAssumption ==
  /\ Anonymous \subseteq Paths
  /\ NameOf \in [Paths -> Names]
  /\ DefaultName \in Names
  /\ PrintOf \in [Contents -> Prints]
  /\ MayRevert \in BOOLEAN /\ Overlap \in BOOLEAN
  /\ NoContent \notin Contents
  /\ NoPool \notin Pools
  /\ NoPath \notin Paths

\* "producer:single:" + key + ":" + fingerprint
CacheKeys == Names \X Prints

VARIABLES
  disk, used,    \* each path's config in the file now, and those it had (history)
  snap,          \* activeConfigCache
  cache,         \* producerCache
  pool,          \* each pool's life
  made,          \* the config each pool was made with
  pc, arg, cfg, name, \* the callers: place, path, parsed config, parsed key
  rpc, rpath, rcfg, rname, oldKey,  \* the Reload calls
  doomed,        \* the pool each Reload's closing goroutine will close
  had            \* history: pools that served the path when Reload began

callerVars == <<pc, arg, cfg, name>>
reloadVars == <<rpc, rpath, rcfg, rname, oldKey, doomed, had>>
poolVars   == <<cache, pool, made>>
vars       == <<disk, used, snap, poolVars, callerVars, reloadVars>>

NoCacheKey == <<>>

\* Types; and a closing goroutine has a pool to close.
TypeOK ==
  /\ disk \in [Paths -> Contents]
  /\ used \in [Paths -> SUBSET Contents]
  /\ snap \in [Paths -> Contents \cup {NoContent}]
  /\ cache \in [CacheKeys -> Pools \cup {NoPool}]
  /\ pool \in [Pools -> {"unborn", "open", "closed"}]
  /\ made \in [Pools -> Contents \cup {NoContent}]
  /\ pc \in [Callers -> {"idle", "parse", "read", "get"}]
  /\ arg \in [Callers -> Paths \cup {NoPath}]
  /\ cfg \in [Callers -> Contents \cup {NoContent}]
  /\ name \in [Callers -> Names]
  /\ rpc \in [Reloads -> {"ready", "disk", "snap", "get", "schedule",
                          "failed", "done", "close", "delete", "closed"}]
  /\ rpath \in [Reloads -> Paths \cup {NoPath}]
  /\ rcfg \in [Reloads -> Contents \cup {NoContent}]
  /\ rname \in [Reloads -> Names]
  /\ oldKey \in [Reloads -> CacheKeys \cup {NoCacheKey}]
  /\ doomed \in [Reloads -> Pools \cup {NoPool}]
  /\ had \in [Reloads -> SUBSET Pools]
  /\ \A r \in Reloads : doomed[r] # NoPool <=> rpc[r] \in {"close", "delete", "closed"}

Init ==
  /\ disk \in [Paths -> Contents]
  /\ used = [a \in Paths |-> {disk[a]}]
  /\ snap = [a \in Paths |-> NoContent]
  /\ cache = [k \in CacheKeys |-> NoPool]
  /\ pool = [q \in Pools |-> "unborn"]
  /\ made = [q \in Pools |-> NoContent]
  /\ pc = [p \in Callers |-> "idle"]
  /\ arg = [p \in Callers |-> NoPath]
  /\ cfg = [p \in Callers |-> NoContent]
  /\ name = [p \in Callers |-> DefaultName]
  /\ rpc = [r \in Reloads |-> "ready"]
  /\ rpath = [r \in Reloads |-> NoPath]
  /\ rcfg = [r \in Reloads |-> NoContent]
  /\ rname = [r \in Reloads |-> DefaultName]
  /\ oldKey = [r \in Reloads |-> NoCacheKey]
  /\ doomed = [r \in Reloads |-> NoPool]
  /\ had = [r \in Reloads |-> {}]

-----------------------------------------------------------------------------
\* The key ParseFile returns with a snapshot. With a file it returns the key of
\* the section, NameOf; without "#key" the two differ.
SnapName(a) == IF a \in Anonymous THEN DefaultName ELSE NameOf[a]

\* Somebody edits the config file.
Edit(a, c) ==
  /\ c # disk[a]
  /\ MayRevert \/ c \notin used[a]
  /\ disk' = [disk EXCEPT ![a] = c]
  /\ used' = [used EXCEPT ![a] = @ \cup {c}]
  /\ UNCHANGED <<snap, poolVars, callerVars, reloadVars>>

Unborn == {q \in Pools : pool[q] = "unborn"}

\* getOrCreateProducerPool: the pool under a key, or a new one; which of the
\* unborn does not matter.
GetOrCreate(k, c) ==
  IF cache[k] # NoPool THEN UNCHANGED poolVars
  ELSE LET q == CHOOSE r \in Unborn : TRUE
       IN /\ Unborn # {}
          /\ pool' = [pool EXCEPT ![q] = "open"]
          /\ made' = [made EXCEPT ![q] = c]
          /\ cache' = [cache EXCEPT ![k] = q]

-----------------------------------------------------------------------------
\* P(path), that is PPS.
Call(p, a) ==
  /\ pc[p] = "idle"
  /\ pc' = [pc EXCEPT ![p] = "parse"]
  /\ arg' = [arg EXCEPT ![p] = a]
  /\ UNCHANGED <<disk, used, snap, poolVars, cfg, name, reloadVars>>

\* ParseFile finds a snapshot.
ParseSnapshot(p) ==
  /\ pc[p] = "parse"
  /\ snap[arg[p]] # NoContent
  /\ cfg' = [cfg EXCEPT ![p] = snap[arg[p]]]
  /\ name' = [name EXCEPT ![p] = SnapName(arg[p])]
  /\ pc' = [pc EXCEPT ![p] = "get"]
  /\ UNCHANGED <<disk, used, snap, poolVars, arg, reloadVars>>

\* ParseFile finds none: parseFileFromDisk reads the file.
ParseDisk(p) ==
  /\ pc[p] = "parse"
  /\ snap[arg[p]] = NoContent
  /\ cfg' = [cfg EXCEPT ![p] = disk[arg[p]]]
  /\ name' = [name EXCEPT ![p] = NameOf[arg[p]]]
  /\ pc' = [pc EXCEPT ![p] = "read"]
  /\ UNCHANGED <<disk, used, snap, poolVars, arg, reloadVars>>

\* parseFileFromDisk stores what it read.
StoreSnapshot(p) ==
  /\ pc[p] = "read"
  /\ snap' = [snap EXCEPT ![arg[p]] = cfg[p]]
  /\ pc' = [pc EXCEPT ![p] = "get"]
  /\ UNCHANGED <<disk, used, poolVars, arg, cfg, name, reloadVars>>

Get(p) ==
  /\ pc[p] = "get"
  /\ GetOrCreate(<<name[p], PrintOf[cfg[p]]>>, cfg[p])
  /\ pc' = [pc EXCEPT ![p] = "idle"]
  /\ UNCHANGED <<disk, used, snap, arg, cfg, name, reloadVars>>

\* The file cannot be read or parsed, or the pool cannot be made.
CallFail(p) ==
  /\ \/ pc[p] = "parse" /\ snap[arg[p]] = NoContent
     \/ pc[p] = "get" /\ cache[<<name[p], PrintOf[cfg[p]]>>] = NoPool
  /\ pc' = [pc EXCEPT ![p] = "idle"]
  /\ UNCHANGED <<disk, used, snap, poolVars, arg, cfg, name, reloadVars>>

-----------------------------------------------------------------------------
\* The key Reload takes for the old one: from the snapshot, with the name that
\* ParseFile would return.
OldKey(a) == IF snap[a] = NoContent THEN NoCacheKey
             ELSE <<SnapName(a), PrintOf[snap[a]]>>

\* The pools that P(a) has been returning: cached for the snapshot's config
\* under either name.
Serving(a) ==
  IF snap[a] = NoContent THEN {}
  ELSE {cache[<<n, PrintOf[snap[a]]>>] : n \in {NameOf[a], SnapName(a)}}
         \ {NoPool}

\* Reload has not returned yet.
Running(r) == rpc[r] \in {"disk", "snap", "get", "schedule"}

\* Somebody is between reading path a's file and storing the snapshot.
Parsing(a) == \/ \E p \in Callers : pc[p] = "read" /\ arg[p] = a
              \/ \E r \in Reloads : rpc[r] = "snap" /\ rpath[r] = a

\* The program has been using the path, and no Reload runs.
Quiet(a) == /\ snap[a] # NoContent /\ ~ Parsing(a)
            /\ \A r \in Reloads : ~ Running(r)

StartReload(r, a) ==
  /\ rpc[r] = "ready"
  /\ Overlap \/ Quiet(a)
  /\ rpc' = [rpc EXCEPT ![r] = "disk"]
  /\ rpath' = [rpath EXCEPT ![r] = a]
  /\ oldKey' = [oldKey EXCEPT ![r] = OldKey(a)]
  /\ had' = [had EXCEPT ![r] = Serving(a)]
  /\ UNCHANGED <<disk, used, snap, poolVars, callerVars, rcfg, rname, doomed>>

\* parseFileFromDisk: the read, then the snapshot.
ReloadDisk(r) ==
  /\ rpc[r] = "disk"
  /\ rcfg' = [rcfg EXCEPT ![r] = disk[rpath[r]]]
  /\ rname' = [rname EXCEPT ![r] = NameOf[rpath[r]]]
  /\ rpc' = [rpc EXCEPT ![r] = "snap"]
  /\ UNCHANGED <<disk, used, snap, poolVars, callerVars, rpath, oldKey, doomed,
                 had>>

\* Mutant of ReloadSnapshot: the snapshot is not refreshed.
ReloadNoSnapshot(r) ==
  /\ rpc[r] = "snap"
  /\ rpc' = [rpc EXCEPT ![r] = "get"]
  /\ UNCHANGED <<disk, used, snap, poolVars, callerVars, rpath, rcfg, rname,
                 oldKey, doomed, had>>

ReloadSnapshot(r) ==
  /\ rpc[r] = "snap"
  /\ snap' = [snap EXCEPT ![rpath[r]] = rcfg[r]]
  /\ rpc' = [rpc EXCEPT ![r] = "get"]
  /\ UNCHANGED <<disk, used, poolVars, callerVars, rpath, rcfg, rname, oldKey,
                 doomed, had>>

NewKey(r) == <<rname[r], PrintOf[rcfg[r]]>>

ReloadGet(r) ==
  /\ rpc[r] = "get"
  /\ GetOrCreate(NewKey(r), rcfg[r])
  /\ rpc' = [rpc EXCEPT ![r] = "schedule"]
  /\ UNCHANGED <<disk, used, snap, callerVars, rpath, rcfg, rname, oldKey,
                 doomed, had>>

\* A parse error, or no new pool: the old pool stays, and the error is returned.
ReloadFail(r) ==
  /\ \/ rpc[r] = "disk"
     \/ rpc[r] = "get" /\ cache[NewKey(r)] = NoPool
  /\ rpc' = [rpc EXCEPT ![r] = "failed"]
  /\ UNCHANGED <<disk, used, snap, poolVars, callerVars, rpath, rcfg, rname,
                 oldKey, doomed, had>>

\* The closing goroutine for pool old is started, if there is one.
CloseLater(r, old) ==
  /\ doomed' = [doomed EXCEPT ![r] = old]
  /\ rpc' = [rpc EXCEPT ![r] = IF old = NoPool THEN "done" ELSE "close"]
  /\ UNCHANGED <<disk, used, snap, poolVars, callerVars, rpath, rcfg, rname,
                 oldKey, had>>

\* Mutants of Schedule: the old key is not compared with the new one; the
\* result of Load is not tested; the pool under the new key is taken.
ScheduleAlways(r) ==
  /\ rpc[r] = "schedule"
  /\ CloseLater(r, IF oldKey[r] = NoCacheKey THEN NoPool ELSE cache[oldKey[r]])

ScheduleUntested(r) ==
  /\ rpc[r] = "schedule"
  /\ IF oldKey[r] \in {NoCacheKey, NewKey(r)} THEN CloseLater(r, NoPool)
     ELSE /\ doomed' = [doomed EXCEPT ![r] = cache[oldKey[r]]]
          /\ rpc' = [rpc EXCEPT ![r] = "close"]
          /\ UNCHANGED <<disk, used, snap, poolVars, callerVars, rpath, rcfg,
                         rname, oldKey, had>>

ScheduleNew(r) ==
  /\ rpc[r] = "schedule"
  /\ CloseLater(r, IF oldKey[r] \in {NoCacheKey, NewKey(r)} THEN NoPool
                   ELSE cache[NewKey(r)])

\* If the key changed and the old one is still cached, the goroutine that will
\* close its pool starts; Reload returns.
Schedule(r) ==
  /\ rpc[r] = "schedule"
  /\ CloseLater(r, IF oldKey[r] \in {NoCacheKey, NewKey(r)} THEN NoPool
                   ELSE cache[oldKey[r]])

\* After time.Sleep: the pool is closed, then whatever its key has is deleted.
DelayedClose(r) ==
  /\ rpc[r] = "close"
  /\ pool' = [pool EXCEPT ![doomed[r]] = "closed"]
  /\ rpc' = [rpc EXCEPT ![r] = "delete"]
  /\ UNCHANGED <<disk, used, snap, cache, made, callerVars, rpath, rcfg, rname,
                 oldKey, doomed, had>>

DelayedDelete(r) ==
  /\ rpc[r] = "delete"
  /\ cache' = [cache EXCEPT ![oldKey[r]] = NoPool]
  /\ rpc' = [rpc EXCEPT ![r] = "closed"]
  /\ UNCHANGED <<disk, used, snap, pool, made, callerVars, rpath, rcfg, rname,
                 oldKey, doomed, had>>

-----------------------------------------------------------------------------
CallerStep(p) ==
  ParseSnapshot(p) \/ ParseDisk(p) \/ StoreSnapshot(p) \/ Get(p) \/ CallFail(p)

ReloadStep(r) ==
  \/ ReloadDisk(r) \/ ReloadSnapshot(r) \/ ReloadGet(r) \/ ReloadFail(r)
  \/ Schedule(r) \/ DelayedClose(r) \/ DelayedDelete(r)

Next ==
  \/ \E a \in Paths, c \in Contents : Edit(a, c)
  \/ \E p \in Callers : (\E a \in Paths : Call(p, a)) \/ CallerStep(p)
  \/ \E r \in Reloads : (\E a \in Paths : StartReload(r, a)) \/ ReloadStep(r)

Spec == Init /\ [][Next]_vars

\* Goroutines run, the sleep ends and Close, which flushes with a timeout, does.
FairSpec == Spec /\ (\A p \in Callers : WF_vars(CallerStep(p)))
                 /\ (\A r \in Reloads : WF_vars(ReloadStep(r)))

-----------------------------------------------------------------------------
\* With Reloads one after the other and unless an earlier version comes back,
\* the pool that P(a) finds under the snapshot's key is open: the delayed close
\* of some Reload never hits it.
CurrentPoolOpen ==
  \A a \in Paths :
    snap[a] # NoContent =>
      LET q == cache[<<SnapName(a), PrintOf[snap[a]]>>]
      IN q # NoPool => pool[q] = "open"

\* "The latest parsed snapshot": once a Reload has succeeded and nobody has
\* edited the file since it read it, the snapshot is the file's config.
SnapshotIsLatest ==
  \A r \in Reloads :
    /\ rpc[r] \in {"schedule", "done", "close", "delete", "closed"}
    /\ rcfg[r] = disk[rpath[r]]
    /\ ~ Parsing(rpath[r])
    => snap[rpath[r]] = disk[rpath[r]]

\* "To prevent ... leaks": every pool that served the path when Reload began is
\* closed in the end, if Reload succeeds and the pool has been replaced.
ReplacedPoolCloses ==
  \A r \in Reloads, q \in Pools :
    (rpc[r] = "schedule" /\ q \in had[r] /\ made[q] # rcfg[r])
      ~> pool[q] = "closed"
=============================================================================
