--------------------------- MODULE HotReloadProofs ---------------------------
(***************************************************************************)
(* Proofs about HotReload, for any number of paths, sections, versions,    *)
(* callers, Reloads and pools.                                             *)
(***************************************************************************)
EXTENDS HotReload, TLAPS

\* No Reload overlaps another or the path's first P, and no edit brings an
\* earlier version back.
Calm == ~Overlap /\ ~MayRevert

\* Files, versions and cache keys tell each other apart.
Distinct ==
  /\ Anonymous = {}
  /\ \A a, b \in Paths : NameOf[a] = NameOf[b] => a = b
  /\ \A c, d \in Contents : PrintOf[c] = PrintOf[d] => c = d

\* A Reload has read the file; has stored the snapshot, without an error since.
Parsed == {"snap", "get", "schedule", "done", "close", "delete", "closed"}
Loaded == Parsed \ {"snap"}

KeyFor(a, c) == <<NameOf[a], PrintOf[c]>>

\* Configs come from the path's file.
LocalsInv ==
  /\ \A a \in Paths : disk[a] \in used[a] /\ snap[a] \in used[a] \cup {NoContent}
  /\ \A p \in Callers :
       /\ pc[p] # "idle" => arg[p] \in Paths
       /\ pc[p] \in {"read", "get"} => cfg[p] \in Contents
       /\ pc[p] = "read" => cfg[p] \in used[arg[p]]
  /\ \A r \in Reloads :
       /\ rpc[r] # "ready" => rpath[r] \in Paths
       /\ rpc[r] \in Parsed => rcfg[r] \in used[rpath[r]] /\ rname[r] = NameOf[rpath[r]]

\* A pool has one key, and a doomed one no key but the old one, which has been
\* replaced; only a doomed pool is closed.
PoolInv ==
  /\ \A k \in CacheKeys : cache[k] # NoPool =>
       /\ pool[cache[k]] # "unborn"
       /\ \A l \in CacheKeys : cache[l] = cache[k] => l = k
  /\ \A r \in Reloads : doomed[r] # NoPool =>
       /\ pool[doomed[r]] # "unborn" /\ oldKey[r] # NewKey(r)
       /\ \A k \in CacheKeys : cache[k] = doomed[r] => k = oldKey[r]
  /\ \A q \in Pools : pool[q] = "closed" =>
       \E r \in Reloads : doomed[r] = q

\* The snapshot that Reload starts with stays, but for the Reload itself.
CalmInv ==
  \A r \in Reloads :
    /\ rpc[r] # "ready" =>
         /\ snap[rpath[r]] # NoContent
         /\ \A p \in Callers : ~ (pc[p] = "read" /\ arg[p] = rpath[r])
    /\ Running(r) => \A t \in Reloads : Running(t) => t = r

\* While the file is as the Reload read it, later Reloads read the same.
LatestInv ==
  \A r \in Reloads :
    rpc[r] \in Loaded /\ rcfg[r] = disk[rpath[r]] =>
      /\ snap[rpath[r]] = disk[rpath[r]]
      /\ \A t \in Reloads : rpc[t] = "snap" /\ rpath[t] = rpath[r] =>
           rcfg[t] = disk[rpath[r]]

\* A key that was replaced is the key of no config that is still to come.
RetiredInv ==
  \A r \in Reloads :
    LET a == rpath[r] IN
    /\ rpc[r] # "ready" => \E c \in used[a] : oldKey[r] = KeyFor(a, c)
    /\ rpc[r] \in Parsed /\ oldKey[r] # NewKey(r) =>
         /\ oldKey[r] # KeyFor(a, disk[a])
         /\ rpc[r] \in Loaded =>
              /\ oldKey[r] # KeyFor(a, snap[a])
              /\ \A t \in Reloads : rpc[t] = "snap" /\ rpath[t] = a =>
                   oldKey[r] # KeyFor(a, rcfg[t])

\* What holds whatever overlaps.
BaseInv == TypeOK /\ LocalsInv /\ PoolInv

-----------------------------------------------------------------------------
\* Sections have names, versions have fingerprints.
LEMMA NamesAndPrints ==
  /\ \A a \in Paths : NameOf[a] \in Names /\ SnapName(a) \in Names
  /\ \A c \in Contents : PrintOf[c] \in Prints
BY HotReloadAssumption DEF SnapName

\* Nothing was parsed or made yet.
LEMMA BaseInit == Init => BaseInv
<1> SUFFICES ASSUME Init PROVE BaseInv
  OBVIOUS
<1>1. TypeOK
  BY HotReloadAssumption DEF Init, TypeOK, CacheKeys
<1>2. LocalsInv /\ PoolInv
  BY HotReloadAssumption DEF Init, LocalsInv, PoolInv, Parsed
<1> QED
  BY <1>1, <1>2 DEF BaseInv

\* getOrCreate keeps the pools' types, and gives the key a pool that no other
\* key and no Reload has.
LEMMA GetTypes ==
  ASSUME BaseInv, NEW k \in CacheKeys, NEW c \in Contents, GetOrCreate(k, c)
  PROVE  /\ cache' \in [CacheKeys -> Pools \cup {NoPool}]
         /\ pool' \in [Pools -> {"unborn", "open", "closed"}]
         /\ made' \in [Pools -> Contents \cup {NoContent}]
         /\ \A q \in Pools : pool[q] # "unborn" => pool'[q] = pool[q]
         /\ \A q \in Pools : pool'[q] = "closed" => pool[q] = "closed"
         /\ \A l \in CacheKeys : cache'[l] # NoPool =>
              /\ pool'[cache'[l]] # "unborn"
              /\ cache'[l] = cache[l] \/ (l = k /\ pool[cache'[l]] = "unborn")
<1>0. TypeOK /\ PoolInv
  BY DEF BaseInv
<1>1. CASE UNCHANGED poolVars
  BY <1>0, <1>1 DEF TypeOK, PoolInv, poolVars
<1>2. CASE ~ UNCHANGED poolVars
  <2> DEFINE q == CHOOSE r \in Unborn : TRUE
  <2>1. /\ Unborn # {} /\ pool' = [pool EXCEPT ![q] = "open"]
        /\ made' = [made EXCEPT ![q] = c] /\ cache' = [cache EXCEPT ![k] = q]
    BY <1>2 DEF GetOrCreate
  <2>2. q \in Pools /\ pool[q] = "unborn"
    BY <2>1 DEF Unborn
  <2> HIDE DEF q
  <2> QED
    BY <1>0, <2>1, <2>2 DEF TypeOK, PoolInv
<1> QED
  BY <1>1, <1>2

\* Every action keeps the types.
LEMMA HotReloadTypeStep == BaseInv /\ [Next]_vars => TypeOK'
<1> SUFFICES ASSUME BaseInv, [Next]_vars PROVE TypeOK'
  OBVIOUS
<1>0. TypeOK /\ LocalsInv
  BY DEF BaseInv
<1> USE <1>0, HotReloadAssumption, NamesAndPrints DEF TypeOK
<1>1. ASSUME NEW a \in Paths, NEW c \in Contents, Edit(a, c) PROVE TypeOK'
  BY <1>1 DEF Edit, poolVars, callerVars, reloadVars
<1>2. ASSUME NEW p \in Callers, NEW a \in Paths, Call(p, a) PROVE TypeOK'
  BY <1>2 DEF Call, poolVars, reloadVars
<1>3. ASSUME NEW p \in Callers, ParseSnapshot(p) \/ ParseDisk(p) \/ StoreSnapshot(p) \/ CallFail(p)
      PROVE  TypeOK'
  <2>1. arg[p] \in Paths /\ (pc[p] \in {"read", "get"} => cfg[p] \in Contents)
    BY <1>3 DEF LocalsInv, ParseSnapshot, ParseDisk, StoreSnapshot, CallFail
  <2>2. CASE ParseSnapshot(p)
    BY <2>1, <2>2 DEF ParseSnapshot, poolVars, reloadVars
  <2>3. CASE ParseDisk(p)
    BY <2>1, <2>3 DEF ParseDisk, poolVars, reloadVars
  <2>4. CASE StoreSnapshot(p)
    BY <2>1, <2>4 DEF StoreSnapshot, poolVars, reloadVars
  <2>5. CASE CallFail(p)
    BY <2>1, <2>5 DEF CallFail, poolVars, reloadVars
  <2> QED
    BY <1>3, <2>2, <2>3, <2>4, <2>5
<1>4. ASSUME NEW p \in Callers, Get(p) PROVE TypeOK'
  <2>1. cfg[p] \in Contents /\ <<name[p], PrintOf[cfg[p]]>> \in CacheKeys
    BY <1>4 DEF LocalsInv, Get, CacheKeys
  <2>2. /\ cache' \in [CacheKeys -> Pools \cup {NoPool}]
        /\ pool' \in [Pools -> {"unborn", "open", "closed"}]
        /\ made' \in [Pools -> Contents \cup {NoContent}]
    BY <1>4, <2>1, GetTypes DEF Get
  <2> QED
    BY <1>4, <2>2 DEF Get, reloadVars
<1>5. ASSUME NEW r \in Reloads, NEW a \in Paths, StartReload(r, a) PROVE TypeOK'
  <2>1. OldKey(a) \in CacheKeys \cup {NoCacheKey}
    BY DEF OldKey, CacheKeys
  <2>2. Serving(a) \in SUBSET Pools
    BY DEF Serving, CacheKeys
  <2> QED
    BY <1>5, <2>1, <2>2 DEF StartReload, poolVars, callerVars
<1>6. ASSUME NEW r \in Reloads, ReloadDisk(r) \/ ReloadSnapshot(r) \/ ReloadFail(r) PROVE TypeOK'
  <2>1. rpath[r] \in Paths /\ (rpc[r] = "snap" => rcfg[r] \in Contents)
    BY <1>6 DEF LocalsInv, Parsed, ReloadDisk, ReloadSnapshot, ReloadFail
  <2>2. CASE ReloadDisk(r)
    BY <2>1, <2>2 DEF ReloadDisk, poolVars, callerVars
  <2>3. CASE ReloadSnapshot(r)
    BY <2>1, <2>3 DEF ReloadSnapshot, poolVars, callerVars
  <2>4. CASE ReloadFail(r)
    BY <2>1, <2>4 DEF ReloadFail, poolVars, callerVars
  <2> QED
    BY <1>6, <2>2, <2>3, <2>4
<1>7. ASSUME NEW r \in Reloads, ReloadGet(r) PROVE TypeOK'
  <2>1. rcfg[r] \in Contents /\ NewKey(r) \in CacheKeys
    BY <1>7 DEF LocalsInv, Parsed, ReloadGet, NewKey, CacheKeys
  <2>2. /\ cache' \in [CacheKeys -> Pools \cup {NoPool}]
        /\ pool' \in [Pools -> {"unborn", "open", "closed"}]
        /\ made' \in [Pools -> Contents \cup {NoContent}]
    BY <1>7, <2>1, GetTypes DEF ReloadGet
  <2> QED
    BY <1>7, <2>2 DEF ReloadGet, callerVars
<1>8. ASSUME NEW r \in Reloads, Schedule(r) PROVE TypeOK'
  <2>1. PICK q \in Pools \cup {NoPool} : CloseLater(r, q)
    BY <1>8 DEF Schedule
  <2>2. doomed' \in [Reloads -> Pools \cup {NoPool}]
    BY <2>1 DEF CloseLater
  <2>3. \A t \in Reloads : doomed'[t] # NoPool <=> rpc'[t] \in {"close", "delete", "closed"}
    BY <2>1 DEF CloseLater
  <2>4. rpc' \in [Reloads -> {"ready", "disk", "snap", "get", "schedule",
                               "failed", "done", "close", "delete", "closed"}]
    BY <2>1 DEF CloseLater
  <2>5. UNCHANGED <<disk, used, snap, poolVars, callerVars, rpath, rcfg, rname, oldKey, had>>
    BY <2>1 DEF CloseLater
  <2> QED
    BY <2>2, <2>3, <2>4, <2>5 DEF poolVars, callerVars
<1>9. ASSUME NEW r \in Reloads, DelayedClose(r) \/ DelayedDelete(r) PROVE TypeOK'
  <2>1. CASE DelayedClose(r)
    BY <2>1 DEF DelayedClose, callerVars
  <2>2. CASE DelayedDelete(r)
    BY <2>2 DEF DelayedDelete, callerVars
  <2> QED
    BY <1>9, <2>1, <2>2
<1>10. CASE UNCHANGED vars
  BY <1>10 DEF vars, poolVars, callerVars, reloadVars
<1> HIDE DEF TypeOK
<1> QED
  BY <1>1, <1>2, <1>3, <1>4, <1>5, <1>6, <1>7, <1>8, <1>9, <1>10
     DEF Next, CallerStep, ReloadStep

\* Who uses a config has it from the file that has or had it.
LEMMA HotReloadLocalsStep == BaseInv /\ [Next]_vars => LocalsInv'
<1> SUFFICES ASSUME BaseInv, [Next]_vars PROVE LocalsInv'
  OBVIOUS
<1>0. TypeOK /\ LocalsInv
  BY DEF BaseInv
<1> USE <1>0, HotReloadAssumption DEF TypeOK, LocalsInv, Parsed
<1>1. ASSUME NEW a \in Paths, NEW c \in Contents, Edit(a, c) PROVE LocalsInv'
  BY <1>1 DEF Edit, callerVars, reloadVars
<1>2. ASSUME NEW p \in Callers, NEW a \in Paths, Call(p, a) PROVE LocalsInv'
  BY <1>2 DEF Call, reloadVars
<1>3. ASSUME NEW p \in Callers, ParseSnapshot(p) PROVE LocalsInv'
  BY <1>3 DEF ParseSnapshot, reloadVars
<1>4. ASSUME NEW p \in Callers, ParseDisk(p) \/ StoreSnapshot(p) PROVE LocalsInv'
  BY <1>4 DEF ParseDisk, StoreSnapshot, reloadVars
<1>5. ASSUME NEW p \in Callers, Get(p) \/ CallFail(p) PROVE LocalsInv'
  BY <1>5 DEF Get, CallFail, reloadVars
<1>6. ASSUME NEW r \in Reloads, NEW a \in Paths, StartReload(r, a) PROVE LocalsInv'
  BY <1>6 DEF StartReload, callerVars
<1>7. ASSUME NEW r \in Reloads, ReloadDisk(r) PROVE LocalsInv'
  BY <1>7 DEF ReloadDisk, callerVars
<1>8. ASSUME NEW r \in Reloads, ReloadSnapshot(r) PROVE LocalsInv'
  BY <1>8 DEF ReloadSnapshot, callerVars
<1>9. ASSUME NEW r \in Reloads, ReloadGet(r) \/ ReloadFail(r) PROVE LocalsInv'
  BY <1>9 DEF ReloadGet, ReloadFail, callerVars
<1>10. ASSUME NEW r \in Reloads, Schedule(r) PROVE LocalsInv'
  <2>1. PICK q \in Pools \cup {NoPool} : CloseLater(r, q)
    BY <1>10 DEF Schedule
  <2> QED
    BY <1>10, <2>1 DEF Schedule, CloseLater, callerVars
<1>11. ASSUME NEW r \in Reloads, DelayedClose(r) \/ DelayedDelete(r) PROVE LocalsInv'
  BY <1>11 DEF DelayedClose, DelayedDelete, callerVars
<1>12. CASE UNCHANGED vars
  BY <1>12 DEF vars, callerVars, reloadVars
<1> QED
  BY <1>1, <1>2, <1>3, <1>4, <1>5, <1>6, <1>7, <1>8, <1>9, <1>10, <1>11, <1>12
     DEF Next, CallerStep, ReloadStep

\* Pools are made for one key; Reload dooms one under a key it has replaced.
LEMMA HotReloadPoolStep == BaseInv /\ [Next]_vars => PoolInv'
<1> SUFFICES ASSUME BaseInv, [Next]_vars PROVE PoolInv'
  OBVIOUS
<1>0. TypeOK /\ LocalsInv /\ PoolInv
  BY DEF BaseInv
<1> USE <1>0, HotReloadAssumption, NamesAndPrints DEF TypeOK
<1>1. ASSUME UNCHANGED <<poolVars, doomed, oldKey>>,
             \A r \in Reloads : rpc[r] \in {"close", "delete", "closed"} => NewKey(r)' = NewKey(r)
      PROVE  PoolInv'
  BY <1>1 DEF PoolInv, poolVars
<1>2. ASSUME NEW k \in CacheKeys, NEW c \in Contents, GetOrCreate(k, c),
             UNCHANGED <<rname, rcfg, doomed, oldKey>>
      PROVE  PoolInv'
  <2>1. /\ \A q \in Pools : pool[q] # "unborn" => pool'[q] = pool[q]
        /\ \A q \in Pools : pool'[q] = "closed" => pool[q] = "closed"
        /\ \A l \in CacheKeys : cache'[l] # NoPool =>
             /\ cache'[l] \in Pools /\ pool'[cache'[l]] # "unborn"
             /\ cache'[l] = cache[l] \/ (l = k /\ pool[cache'[l]] = "unborn")
    BY <1>2, GetTypes
  <2> QED
    BY <1>2, <2>1 DEF PoolInv, NewKey
<1>3. ASSUME NEW p \in Callers, Get(p) PROVE PoolInv'
  <2>1. cfg[p] \in Contents /\ <<name[p], PrintOf[cfg[p]]>> \in CacheKeys
    BY <1>3 DEF LocalsInv, Get, CacheKeys
  <2> QED
    BY <1>2, <1>3, <2>1 DEF Get, reloadVars
<1>4. ASSUME NEW r \in Reloads, ReloadGet(r) PROVE PoolInv'
  <2>1. rcfg[r] \in Contents /\ NewKey(r) \in CacheKeys
    BY <1>4 DEF LocalsInv, Parsed, ReloadGet, NewKey, CacheKeys
  <2> QED
    BY <1>2, <1>4, <2>1 DEF ReloadGet
<1>5. ASSUME NEW r \in Reloads, Schedule(r) PROVE PoolInv'
  <2>1. CASE doomed' = [doomed EXCEPT ![r] = NoPool]
    BY <1>5, <2>1 DEF Schedule, CloseLater, PoolInv, NewKey, poolVars
  <2>2. CASE doomed' # [doomed EXCEPT ![r] = NoPool]
    <3>1. /\ oldKey[r] \in CacheKeys /\ oldKey[r] # NewKey(r)
          /\ doomed' = [doomed EXCEPT ![r] = cache[oldKey[r]]]
          /\ cache[oldKey[r]] # NoPool
      BY <1>5, <2>2 DEF Schedule, CloseLater
    <3>2. UNCHANGED <<poolVars, oldKey, rname, rcfg>>
      BY <1>5 DEF Schedule, CloseLater
    <3> QED
      BY <3>1, <3>2, <1>5 DEF PoolInv, NewKey, poolVars, Schedule
  <2> QED
    BY <2>1, <2>2
<1>6. ASSUME NEW r \in Reloads, DelayedClose(r) PROVE PoolInv'
  <2>1. doomed[r] \in Pools
    BY <1>6 DEF DelayedClose
  <2>2. \A q \in Pools : pool[q] # "unborn" => pool'[q] # "unborn"
    BY <1>6 DEF DelayedClose
  <2>3. \A q \in Pools : pool'[q] = "closed" => pool[q] = "closed" \/ q = doomed[r]
    BY <1>6 DEF DelayedClose
  <2> QED
    BY <1>6, <2>1, <2>2, <2>3 DEF DelayedClose, PoolInv, NewKey
<1>7. ASSUME NEW r \in Reloads, DelayedDelete(r) PROVE PoolInv'
  <2>1. \A k \in CacheKeys : cache'[k] # NoPool => cache'[k] = cache[k]
    BY <1>7 DEF DelayedDelete
  <2> QED
    BY <1>7, <2>1 DEF DelayedDelete, PoolInv, NewKey
<1>8. ASSUME NEW r \in Reloads, NEW a \in Paths, StartReload(r, a) PROVE PoolInv'
  BY <1>8 DEF StartReload, PoolInv, NewKey, poolVars
<1>9. ASSUME NEW r \in Reloads, ReloadDisk(r) PROVE PoolInv'
  BY <1>9 DEF ReloadDisk, PoolInv, NewKey, poolVars
<1>10. ASSUME NEW r \in Reloads, ReloadSnapshot(r) \/ ReloadFail(r) PROVE PoolInv'
  BY <1>1, <1>10 DEF ReloadSnapshot, ReloadFail, NewKey
<1>11. ASSUME NEW p \in Callers, (\E a \in Paths : Call(p, a)) \/ ParseSnapshot(p)
                \/ ParseDisk(p) \/ StoreSnapshot(p) \/ CallFail(p)
       PROVE  PoolInv'
  BY <1>1, <1>11 DEF Call, ParseSnapshot, ParseDisk, StoreSnapshot, CallFail, NewKey, reloadVars
<1>12. ASSUME NEW a \in Paths, NEW c \in Contents, Edit(a, c) PROVE PoolInv'
  BY <1>1, <1>12 DEF Edit, NewKey, reloadVars
<1>13. CASE UNCHANGED vars
  BY <1>1, <1>13 DEF vars, NewKey, reloadVars
<1> QED
  BY <1>3, <1>4, <1>5, <1>6, <1>7, <1>8, <1>9, <1>10, <1>11, <1>12, <1>13
     DEF Next, CallerStep, ReloadStep

\* What needs no hypothesis on Reloads and edits.
THEOREM HotReloadTypes == Spec => []BaseInv
<1>1. BaseInv /\ [Next]_vars => BaseInv'
  BY HotReloadTypeStep, HotReloadLocalsStep, HotReloadPoolStep DEF BaseInv
<1> QED
  BY <1>1, BaseInit, PTL DEF Spec

\* Every variable keeps its type, whatever Reloads overlap.
THEOREM HotReloadTypeCorrect == Spec => []TypeOK
<1>1. BaseInv => TypeOK
  BY DEF BaseInv
<1> QED
  BY <1>1, HotReloadTypes, PTL

-----------------------------------------------------------------------------
\* A Reload begins when no caller is reading the path's file, and then callers
\* find the snapshot.
LEMMA CalmStep ==
  ASSUME Calm
  PROVE  BaseInv /\ CalmInv /\ [Next]_vars => CalmInv'
<1> SUFFICES ASSUME BaseInv, CalmInv, [Next]_vars PROVE CalmInv'
  OBVIOUS
<1>0. TypeOK /\ LocalsInv
  BY DEF BaseInv
<1> USE <1>0, HotReloadAssumption DEF TypeOK, LocalsInv, Parsed, CalmInv, Running
<1>1. ASSUME NEW a \in Paths, NEW c \in Contents, Edit(a, c) PROVE CalmInv'
  BY <1>1 DEF Edit, callerVars, reloadVars
<1>2. ASSUME NEW p \in Callers, (\E a \in Paths : Call(p, a)) \/ ParseSnapshot(p)
               \/ Get(p) \/ CallFail(p)
      PROVE  CalmInv'
  BY <1>2 DEF Call, ParseSnapshot, Get, CallFail, reloadVars
<1>3. ASSUME NEW p \in Callers, ParseDisk(p) PROVE CalmInv'
  BY <1>3 DEF ParseDisk, reloadVars
<1>4. ASSUME NEW p \in Callers, StoreSnapshot(p) PROVE CalmInv'
  BY <1>4 DEF StoreSnapshot, reloadVars
<1>5. ASSUME NEW r \in Reloads, NEW a \in Paths, StartReload(r, a) PROVE CalmInv'
  <2>1. Quiet(a)
    BY <1>5, Calm DEF StartReload, Calm
  <2> QED
    BY <1>5, <2>1 DEF StartReload, Quiet, Parsing, callerVars
<1>6. ASSUME NEW r \in Reloads, ReloadDisk(r) \/ ReloadGet(r) \/ ReloadFail(r) PROVE CalmInv'
  BY <1>6 DEF ReloadDisk, ReloadGet, ReloadFail, callerVars
<1>7. ASSUME NEW r \in Reloads, ReloadSnapshot(r) PROVE CalmInv'
  <2>1. \A a \in Paths : snap[a] # NoContent => snap'[a] # NoContent
    BY <1>7 DEF ReloadSnapshot
  <2> QED
    BY <1>7, <2>1 DEF ReloadSnapshot, callerVars
<1>8. ASSUME NEW r \in Reloads, Schedule(r) PROVE CalmInv'
  <2>1. PICK q \in Pools \cup {NoPool} : CloseLater(r, q)
    BY <1>8 DEF Schedule
  <2> QED
    BY <1>8, <2>1 DEF Schedule, CloseLater, callerVars
<1>9. ASSUME NEW r \in Reloads, DelayedClose(r) \/ DelayedDelete(r) PROVE CalmInv'
  BY <1>9 DEF DelayedClose, DelayedDelete, callerVars
<1>10. CASE UNCHANGED vars
  BY <1>10 DEF vars, callerVars, reloadVars
<1> QED
  BY <1>1, <1>2, <1>3, <1>4, <1>5, <1>6, <1>7, <1>8, <1>9, <1>10
     DEF Next, CallerStep, ReloadStep

\* What a Reload has read, stays; and the snapshots change at a Reload's hand,
\* or before the path's first Reload.
LEMMA SnapFrame ==
  ASSUME Calm, BaseInv, CalmInv, [Next]_vars, NEW r \in Reloads, rpc'[r] \in Loaded
  PROVE  /\ rpath'[r] = rpath[r] /\ rcfg'[r] = rcfg[r] /\ rname'[r] = rname[r]
         /\ oldKey'[r] = oldKey[r] /\ rpath[r] \in Paths
         /\ rpc[r] \in Loaded \/ ReloadSnapshot(r)
         /\ snap'[rpath[r]] = snap[rpath[r]]
              \/ \E t \in Reloads : ReloadSnapshot(t) /\ rpath[t] = rpath[r]
<1>0. TypeOK /\ LocalsInv
  BY DEF BaseInv
<1> USE <1>0 DEF TypeOK, LocalsInv, Parsed, Loaded, CalmInv
<1>1. ASSUME NEW a \in Paths, NEW c \in Contents, Edit(a, c) PROVE UNCHANGED <<snap, reloadVars>>
  BY <1>1 DEF Edit
<1>2. ASSUME NEW p \in Callers, (\E a \in Paths : Call(p, a)) \/ ParseSnapshot(p)
               \/ ParseDisk(p) \/ Get(p) \/ CallFail(p)
      PROVE  UNCHANGED <<snap, reloadVars>>
  BY <1>2 DEF Call, ParseSnapshot, ParseDisk, Get, CallFail
<1>3. ASSUME NEW p \in Callers, StoreSnapshot(p)
      PROVE  UNCHANGED reloadVars /\ snap'[rpath[r]] = snap[rpath[r]]
  <2>1. arg[p] # rpath[r]
    BY <1>3 DEF StoreSnapshot, reloadVars
  <2> QED
    BY <1>3, <2>1 DEF StoreSnapshot, reloadVars
<1>4. CASE UNCHANGED <<rpc, rpath, rcfg, rname, oldKey>> /\ snap'[rpath[r]] = snap[rpath[r]]
  BY <1>4
<1>5. ASSUME NEW t \in Reloads, NEW a \in Paths, StartReload(t, a)
      PROVE  r # t /\ UNCHANGED <<snap, rcfg, rname>>
               /\ rpc'[r] = rpc[r] /\ rpath'[r] = rpath[r] /\ oldKey'[r] = oldKey[r]
  BY <1>5 DEF StartReload
<1>6. ASSUME NEW t \in Reloads, ReloadDisk(t)
      PROVE  r # t /\ UNCHANGED <<snap, rpath, oldKey>>
               /\ rpc'[r] = rpc[r] /\ rcfg'[r] = rcfg[r] /\ rname'[r] = rname[r]
  BY <1>6 DEF ReloadDisk
<1>7. ASSUME NEW t \in Reloads, ReloadSnapshot(t)
      PROVE  /\ UNCHANGED <<rpath, rcfg, rname, oldKey>> /\ (r # t => rpc'[r] = rpc[r])
             /\ rpath[t] # rpath[r] => snap'[rpath[r]] = snap[rpath[r]]
             /\ rpath[r] \in Paths
  BY <1>7 DEF ReloadSnapshot
<1>8. ASSUME NEW t \in Reloads, ReloadGet(t) \/ ReloadFail(t) \/ DelayedClose(t) \/ DelayedDelete(t)
      PROVE  UNCHANGED <<snap, rpath, rcfg, rname, oldKey>> /\ rpc[r] \in Loaded
  BY <1>8 DEF ReloadGet, ReloadFail, DelayedClose, DelayedDelete
<1>9. ASSUME NEW t \in Reloads, Schedule(t)
      PROVE  UNCHANGED <<snap, rpath, rcfg, rname, oldKey>> /\ rpc[r] \in Loaded
  BY <1>9 DEF Schedule, CloseLater
<1>10. ASSUME UNCHANGED vars PROVE UNCHANGED <<snap, reloadVars>>
  BY <1>10 DEF vars
<1>11. ASSUME rpc[r] \in Loaded PROVE rpath[r] \in Paths
  BY <1>11
<1>12. CASE UNCHANGED <<snap, reloadVars>>
  BY <1>12, <1>11, <1>4 DEF reloadVars
<1>13. ASSUME NEW p \in Callers, StoreSnapshot(p)
       PROVE  rpc[r] \in Loaded /\ UNCHANGED <<rpc, rpath, rcfg, rname, oldKey>>
  BY <1>13, <1>3 DEF reloadVars
<1> QED
  BY <1>1, <1>2, <1>3, <1>4, <1>5, <1>6, <1>7, <1>8, <1>9, <1>10, <1>11, <1>12, <1>13
     DEF Next, CallerStep, ReloadStep

\* A version that an edit took from the file is not there again.
LEMMA DiskFrame ==
  ASSUME Calm, BaseInv, [Next]_vars, NEW a \in Paths, NEW c \in used[a], c = disk'[a]
  PROVE  c = disk[a] /\ c \in used'[a]
<1>0. TypeOK
  BY DEF BaseInv
<1>1. CASE UNCHANGED <<disk, used>>
  BY <1>1
<1>2. ASSUME NEW b \in Paths, NEW d \in Contents, Edit(b, d) PROVE c = disk[a] /\ c \in used'[a]
  BY <1>0, <1>2, Calm DEF Edit, Calm, TypeOK
<1>3. ASSUME NEW p \in Callers, (\E b \in Paths : Call(p, b)) \/ CallerStep(p)
      PROVE  UNCHANGED <<disk, used>>
  BY <1>3 DEF Call, CallerStep, ParseSnapshot, ParseDisk, StoreSnapshot, Get, CallFail
<1>4. ASSUME NEW r \in Reloads, (\E b \in Paths : StartReload(r, b)) \/ ReloadStep(r)
      PROVE  UNCHANGED <<disk, used>>
  BY <1>4 DEF StartReload, ReloadStep, ReloadDisk, ReloadSnapshot, ReloadGet, ReloadFail,
     Schedule, CloseLater, DelayedClose, DelayedDelete
<1>5. ASSUME UNCHANGED vars PROVE UNCHANGED <<disk, used>>
  BY <1>5 DEF vars
<1> QED
  BY <1>1, <1>2, <1>3, <1>4, <1>5 DEF Next

\* A Reload that is about to store its config got there by ReloadDisk.
LEMMA AtSnap ==
  ASSUME BaseInv, CalmInv, [Next]_vars, NEW t \in Reloads, rpc'[t] = "snap"
  PROVE  /\ rpath'[t] = rpath[t] /\ rpath[t] \in Paths /\ oldKey'[t] = oldKey[t]
         /\ \/ rpc[t] = "snap" /\ rcfg'[t] = rcfg[t] /\ rname'[t] = rname[t]
            \/ /\ rpc[t] = "disk" /\ rcfg'[t] = disk[rpath[t]] /\ disk' = disk
               /\ rname'[t] = NameOf[rpath[t]]
<1>0. TypeOK /\ LocalsInv
  BY DEF BaseInv
<1> USE <1>0 DEF TypeOK, LocalsInv
<1>1. ASSUME UNCHANGED reloadVars
      PROVE  rpc[t] = "snap" /\ UNCHANGED <<rpath, oldKey, rcfg, rname>> /\ rpath[t] \in Paths
  BY <1>1 DEF reloadVars
<1>2. ASSUME NEW p \in Callers, (\E a \in Paths : Call(p, a)) \/ CallerStep(p)
      PROVE  UNCHANGED reloadVars
  BY <1>2 DEF Call, CallerStep, ParseSnapshot, ParseDisk, StoreSnapshot, Get, CallFail
<1>3. ASSUME NEW a \in Paths, NEW c \in Contents, Edit(a, c) PROVE UNCHANGED reloadVars
  BY <1>3 DEF Edit
<1>4. ASSUME NEW r \in Reloads, NEW a \in Paths, StartReload(r, a)
      PROVE  /\ rpc[t] = "snap" /\ rpath'[t] = rpath[t] /\ oldKey'[t] = oldKey[t]
             /\ UNCHANGED <<rcfg, rname>> /\ rpath[t] \in Paths
  BY <1>4 DEF StartReload
<1>5. ASSUME NEW r \in Reloads, ReloadDisk(r), r # t
      PROVE  /\ rpc[t] = "snap" /\ UNCHANGED <<rpath, oldKey>> /\ rpath[t] \in Paths
             /\ rcfg'[t] = rcfg[t] /\ rname'[t] = rname[t]
  BY <1>5 DEF ReloadDisk
<1>6. ASSUME ReloadDisk(t)
      PROVE  /\ rpc[t] = "disk" /\ UNCHANGED <<disk, rpath, oldKey>> /\ rpath[t] \in Paths
             /\ rcfg'[t] = disk[rpath[t]] /\ rname'[t] = NameOf[rpath[t]]
  BY <1>6 DEF ReloadDisk
<1>7. ASSUME NEW r \in Reloads, ReloadSnapshot(r) \/ ReloadGet(r) \/ ReloadFail(r)
               \/ DelayedClose(r) \/ DelayedDelete(r)
      PROVE  /\ rpc[t] = "snap" /\ UNCHANGED <<rpath, oldKey, rcfg, rname>>
             /\ rpath[t] \in Paths
  BY <1>7 DEF ReloadSnapshot, ReloadGet, ReloadFail, DelayedClose, DelayedDelete
<1>8. ASSUME NEW r \in Reloads, Schedule(r)
      PROVE  /\ rpc[t] = "snap" /\ UNCHANGED <<rpath, oldKey, rcfg, rname>>
             /\ rpath[t] \in Paths
  BY <1>8 DEF Schedule, CloseLater
<1>9. ASSUME UNCHANGED vars PROVE UNCHANGED reloadVars
  BY <1>9 DEF vars
<1> QED
  BY <1>1, <1>2, <1>3, <1>4, <1>5, <1>6, <1>7, <1>8, <1>9 DEF Next, ReloadStep

\* Only one Reload at a time writes, and a later one reads a later file.
LEMMA LatestStep ==
  ASSUME Calm
  PROVE  BaseInv /\ CalmInv /\ LatestInv /\ [Next]_vars => LatestInv'
<1> SUFFICES ASSUME BaseInv, CalmInv, LatestInv, [Next]_vars,
                    NEW r \in Reloads, rpc'[r] \in Loaded, rcfg'[r] = disk'[rpath'[r]]
             PROVE  /\ snap'[rpath'[r]] = disk'[rpath'[r]]
                    /\ \A t \in Reloads : rpc'[t] = "snap" /\ rpath'[t] = rpath'[r] =>
                         rcfg'[t] = disk'[rpath'[r]]
  BY DEF LatestInv
<1> DEFINE a == rpath[r]
<1>0. TypeOK /\ LocalsInv /\ LatestInv
  BY DEF BaseInv
<1>1. /\ rpath'[r] = a /\ rcfg'[r] = rcfg[r] /\ a \in Paths
      /\ rpc[r] \in Loaded \/ ReloadSnapshot(r)
      /\ snap'[a] = snap[a] \/ \E t \in Reloads : ReloadSnapshot(t) /\ rpath[t] = a
  BY SnapFrame
<1>2. rpc[r] \in Parsed
  BY <1>1 DEF Loaded, Parsed, ReloadSnapshot
<1>3. rcfg[r] = disk[a] /\ disk'[a] = disk[a]
  <2>1. rcfg[r] \in used[a]
    BY <1>0, <1>2 DEF LocalsInv
  <2> QED
    BY <1>1, <2>1, DiskFrame
<1>4. CASE ReloadSnapshot(r)
  <2>1. snap'[a] = rcfg[r]
    BY <1>0, <1>1, <1>4 DEF ReloadSnapshot, TypeOK
  <2>2. ASSUME NEW t \in Reloads, rpc'[t] = "snap" PROVE FALSE
    <3>1. t # r
      BY <1>0, <1>4, <2>2 DEF ReloadSnapshot, TypeOK
    <3>2. rpc[t] = "snap" /\ rpc[r] = "snap"
      BY <1>0, <1>4, <2>2, <3>1 DEF ReloadSnapshot, TypeOK
    <3> QED
      BY <3>1, <3>2 DEF CalmInv, Running
  <2> QED
    BY <1>1, <1>3, <2>1, <2>2
<1>5. CASE rpc[r] \in Loaded
  <2>1. /\ snap[a] = disk[a]
        /\ \A t \in Reloads : rpc[t] = "snap" /\ rpath[t] = a => rcfg[t] = disk[a]
    BY <1>0, <1>3, <1>5 DEF LatestInv
  <2>2. snap'[a] = disk[a]
    <3>1. ASSUME NEW t \in Reloads, ReloadSnapshot(t), rpath[t] = a PROVE snap'[a] = disk[a]
      BY <1>0, <1>1, <2>1, <3>1 DEF ReloadSnapshot, TypeOK
    <3> QED
      BY <1>1, <2>1, <3>1
  <2>3. ASSUME NEW t \in Reloads, rpc'[t] = "snap", rpath'[t] = a PROVE rcfg'[t] = disk[a]
    BY <2>1, <2>3, AtSnap
  <2> QED
    BY <1>1, <1>3, <2>2, <2>3
<1> QED
  BY <1>1, <1>4, <1>5

\* A Reload that has begun keeps its path and its old key, which is that of a
\* config the file has had.
LEMMA OldKeyStep ==
  ASSUME Calm, Distinct, BaseInv, RetiredInv, [Next]_vars, NEW r \in Reloads, rpc'[r] # "ready"
  PROVE  \E c \in used'[rpath'[r]] : oldKey'[r] = KeyFor(rpath'[r], c)
<1>0. TypeOK /\ LocalsInv
  BY DEF BaseInv
<1>1. CASE rpc[r] # "ready" /\ rpath'[r] = rpath[r] /\ oldKey'[r] = oldKey[r]
  <2>1. PICK c \in used[rpath[r]] : oldKey[r] = KeyFor(rpath[r], c)
    BY <1>1 DEF RetiredInv
  <2>2. used[rpath[r]] \subseteq used'[rpath[r]]
    <3>1. rpath[r] \in Paths
      BY <1>0, <1>1 DEF LocalsInv
    <3>2. ASSUME NEW a \in Paths, NEW d \in Contents, Edit(a, d)
          PROVE  used[rpath[r]] \subseteq used'[rpath[r]]
      BY <1>0, <3>1, <3>2 DEF Edit, TypeOK
    <3>3. ASSUME NEW p \in Callers, (\E a \in Paths : Call(p, a)) \/ CallerStep(p)
          PROVE  UNCHANGED used
      BY <3>3 DEF Call, CallerStep, ParseSnapshot, ParseDisk, StoreSnapshot, Get, CallFail
    <3>4. ASSUME NEW t \in Reloads, (\E a \in Paths : StartReload(t, a)) \/ ReloadStep(t)
          PROVE  UNCHANGED used
      BY <3>4 DEF StartReload, ReloadStep, ReloadDisk, ReloadSnapshot, ReloadGet, ReloadFail,
         Schedule, CloseLater, DelayedClose, DelayedDelete
    <3>5. UNCHANGED vars => UNCHANGED used
      BY DEF vars
    <3> QED
      BY <3>2, <3>3, <3>4, <3>5 DEF Next
  <2> QED
    BY <1>1, <2>1, <2>2 DEF KeyFor
<1>2. ASSUME NEW a \in Paths, StartReload(r, a)
      PROVE  \E c \in used'[rpath'[r]] : oldKey'[r] = KeyFor(rpath'[r], c)
  <2>1. snap[a] \in used[a] /\ snap[a] # NoContent
    BY <1>0, <1>2, Calm DEF StartReload, Calm, Quiet, LocalsInv
  <2>2. OldKey(a) = KeyFor(a, snap[a])
    BY <2>1, Distinct DEF OldKey, SnapName, Distinct, KeyFor
  <2>3. rpath'[r] = a /\ oldKey'[r] = OldKey(a) /\ used' = used
    BY <1>0, <1>2 DEF StartReload, TypeOK
  <2> QED
    BY <2>1, <2>2, <2>3
<1>3. ASSUME NEW t \in Reloads, NEW a \in Paths, StartReload(t, a), t # r
      PROVE  rpc[r] # "ready" /\ rpath'[r] = rpath[r] /\ oldKey'[r] = oldKey[r]
  BY <1>0, <1>3 DEF StartReload, TypeOK
<1>4. ASSUME NEW t \in Reloads, ReloadDisk(t) \/ ReloadSnapshot(t) \/ ReloadGet(t)
               \/ ReloadFail(t) \/ DelayedClose(t) \/ DelayedDelete(t)
      PROVE  rpc[r] # "ready" /\ rpath'[r] = rpath[r] /\ oldKey'[r] = oldKey[r]
  BY <1>0, <1>4 DEF TypeOK, ReloadDisk, ReloadSnapshot, ReloadGet, ReloadFail, DelayedClose,
     DelayedDelete
<1>5. ASSUME NEW t \in Reloads, Schedule(t)
      PROVE  rpc[r] # "ready" /\ rpath'[r] = rpath[r] /\ oldKey'[r] = oldKey[r]
  BY <1>0, <1>5 DEF TypeOK, Schedule, CloseLater
<1>6. ASSUME \/ \E p \in Callers : (\E a \in Paths : Call(p, a)) \/ CallerStep(p)
             \/ \E a \in Paths, c \in Contents : Edit(a, c)
             \/ UNCHANGED vars
      PROVE  UNCHANGED reloadVars
  BY <1>6 DEF Call, CallerStep, ParseSnapshot, ParseDisk, StoreSnapshot, Get, CallFail, Edit, vars
<1>7. UNCHANGED reloadVars =>
        rpc[r] # "ready" /\ rpath'[r] = rpath[r] /\ oldKey'[r] = oldKey[r]
  BY DEF reloadVars
<1> QED
  BY <1>1, <1>2, <1>3, <1>4, <1>5, <1>6, <1>7 DEF Next, ReloadStep

\* A key that the file has left is not the file's key again.
LEMMA NotAgain ==
  ASSUME Calm, Distinct, BaseInv, RetiredInv, [Next]_vars,
         NEW r \in Reloads, rpc[r] # "ready",
         oldKey[r] # KeyFor(rpath[r], disk[rpath[r]])
  PROVE  oldKey[r] # KeyFor(rpath[r], disk'[rpath[r]])
<1> DEFINE a == rpath[r]
<1>0. TypeOK /\ LocalsInv /\ a \in Paths
  BY DEF BaseInv, LocalsInv
<1>1. PICK c \in used[a] : oldKey[r] = KeyFor(a, c)
  BY DEF RetiredInv
<1>2. c \in Contents /\ disk'[a] \in Contents
  BY <1>0, <1>1, HotReloadTypeStep DEF TypeOK
<1>3. ASSUME oldKey[r] = KeyFor(a, disk'[a]) PROVE FALSE
  <2>1. c = disk'[a]
    BY <1>1, <1>2, <1>3, Distinct DEF KeyFor, Distinct
  <2>2. c = disk[a]
    BY <1>0, <1>1, <2>1, DiskFrame
  <2> QED
    BY <1>1, <2>2
<1> QED
  BY <1>3

\* The old key of a Reload that got a new one is never a path's key again.
LEMMA RetiredStep ==
  ASSUME Calm, Distinct
  PROVE  BaseInv /\ CalmInv /\ RetiredInv /\ [Next]_vars => RetiredInv'
<1> SUFFICES ASSUME BaseInv, CalmInv, RetiredInv, [Next]_vars,
                    NEW r \in Reloads, rpc'[r] \in Parsed, oldKey'[r] # NewKey(r)'
             PROVE  /\ oldKey'[r] # KeyFor(rpath'[r], disk'[rpath'[r]])
                    /\ rpc'[r] \in Loaded =>
                         /\ oldKey'[r] # KeyFor(rpath'[r], snap'[rpath'[r]])
                         /\ \A t \in Reloads : rpc'[t] = "snap" /\ rpath'[t] = rpath'[r] =>
                              oldKey'[r] # KeyFor(rpath'[r], rcfg'[t])
  BY OldKeyStep DEF RetiredInv, KeyFor
<1> DEFINE a == rpath[r]
<1>0. TypeOK /\ LocalsInv
  BY DEF BaseInv
<1>1. CASE rpc'[r] = "snap"
  <2>1. rpath'[r] = a /\ oldKey'[r] = oldKey[r] /\ a \in Paths
    BY <1>1, AtSnap
  <2>2. CASE rpc[r] = "snap" /\ rcfg'[r] = rcfg[r] /\ rname'[r] = rname[r]
    <3>1. oldKey[r] # KeyFor(a, disk[a])
      BY <2>1, <2>2 DEF RetiredInv, Parsed, NewKey
    <3> QED
      BY <1>1, <2>1, <2>2, <3>1, NotAgain DEF Loaded
  <2>3. CASE rcfg'[r] = disk[a] /\ disk' = disk /\ rname'[r] = NameOf[a]
    BY <1>1, <2>1, <2>3 DEF NewKey, KeyFor, Loaded
  <2> QED
    BY <1>1, <2>2, <2>3, AtSnap
<1>2. CASE rpc'[r] \in Loaded
  <2>1. /\ rpath'[r] = a /\ rcfg'[r] = rcfg[r] /\ rname'[r] = rname[r]
        /\ oldKey'[r] = oldKey[r] /\ a \in Paths
        /\ rpc[r] \in Loaded \/ ReloadSnapshot(r)
        /\ snap'[a] = snap[a] \/ \E t \in Reloads : ReloadSnapshot(t) /\ rpath[t] = a
    BY <1>2, SnapFrame
  <2>2. rpc[r] \in Parsed /\ oldKey[r] # NewKey(r)
    BY <2>1 DEF Loaded, Parsed, ReloadSnapshot, NewKey
  <2>3. oldKey[r] # KeyFor(a, disk[a])
    BY <2>2 DEF RetiredInv
  <2>4. oldKey[r] # KeyFor(a, disk'[a])
    BY <2>2, <2>3, NotAgain DEF Parsed
  <2>5. CASE ReloadSnapshot(r)
    <3>1. snap'[a] = rcfg[r] /\ rname[r] = NameOf[a]
      BY <1>0, <2>1, <2>2, <2>5 DEF ReloadSnapshot, TypeOK, LocalsInv
    <3>2. oldKey[r] # KeyFor(a, snap'[a])
      BY <2>2, <3>1 DEF NewKey, KeyFor
    <3>3. ASSUME NEW t \in Reloads, rpc'[t] = "snap" PROVE FALSE
      <4>1. t # r
        BY <1>0, <2>5, <3>3 DEF ReloadSnapshot, TypeOK
      <4>2. rpc[t] = "snap" /\ rpc[r] = "snap"
        BY <1>0, <2>5, <3>3, <4>1 DEF ReloadSnapshot, TypeOK
      <4> QED
        BY <4>1, <4>2 DEF CalmInv, Running
    <3> QED
      BY <2>1, <2>4, <3>2, <3>3
  <2>6. CASE rpc[r] \in Loaded
    <3>1. /\ oldKey[r] # KeyFor(a, snap[a])
          /\ \A t \in Reloads : rpc[t] = "snap" /\ rpath[t] = a => oldKey[r] # KeyFor(a, rcfg[t])
      BY <2>2, <2>6 DEF RetiredInv
    <3>2. oldKey[r] # KeyFor(a, snap'[a])
      <4>1. ASSUME NEW t \in Reloads, ReloadSnapshot(t), rpath[t] = a
            PROVE  oldKey[r] # KeyFor(a, snap'[a])
        BY <1>0, <2>1, <3>1, <4>1 DEF ReloadSnapshot, TypeOK
      <4> QED
        BY <2>1, <3>1, <4>1
    <3>3. ASSUME NEW t \in Reloads, rpc'[t] = "snap", rpath'[t] = a
          PROVE  oldKey[r] # KeyFor(a, rcfg'[t])
      BY <2>3, <3>1, <3>3, AtSnap
    <3> QED
      BY <2>1, <2>4, <3>2, <3>3
  <2> QED
    BY <2>1, <2>5, <2>6
<1> QED
  BY <1>1, <1>2 DEF Loaded

\* The snapshot's pool is not doomed, and only doomed pools are closed.
LEMMA PoolsOfSnapshots ==
  ASSUME Distinct
  PROVE  BaseInv /\ RetiredInv => CurrentPoolOpen
<1> SUFFICES ASSUME BaseInv, RetiredInv, NEW a \in Paths, snap[a] # NoContent,
                    cache[KeyFor(a, snap[a])] # NoPool,
                    pool[cache[KeyFor(a, snap[a])]] # "open"
             PROVE  FALSE
  BY Distinct DEF CurrentPoolOpen, SnapName, Distinct, KeyFor
<1> DEFINE k == KeyFor(a, snap[a])
<1>0. TypeOK /\ LocalsInv /\ PoolInv
  BY DEF BaseInv
<1>1. k \in CacheKeys
  BY <1>0, NamesAndPrints DEF TypeOK, CacheKeys, KeyFor
<1>2. cache[k] \in Pools /\ pool[cache[k]] = "closed"
  BY <1>0, <1>1 DEF TypeOK, PoolInv
<1>3. PICK r \in Reloads : doomed[r] = cache[k]
  BY <1>0, <1>2 DEF PoolInv
<1>4. oldKey[r] = k /\ oldKey[r] # NewKey(r)
  BY <1>0, <1>1, <1>3 DEF PoolInv
<1>5. rpc[r] \in {"close", "delete", "closed"} /\ rpath[r] \in Paths
  BY <1>0, <1>3 DEF TypeOK, LocalsInv
<1>6. PICK c \in used[rpath[r]] : oldKey[r] = KeyFor(rpath[r], c)
  BY <1>5 DEF RetiredInv
<1>7. rpath[r] = a
  BY <1>4, <1>5, <1>6, Distinct DEF KeyFor, Distinct
<1> QED
  BY <1>4, <1>5, <1>7 DEF RetiredInv, Parsed, Loaded

-----------------------------------------------------------------------------
\* Once a Reload has succeeded and the file is as the Reload read it, the
\* snapshot is the file's config (kafkax/config.go:63), if Reloads come one
\* after the other and no edit brings an earlier version back.
THEOREM LatestSnapshot ==
  ASSUME Calm
  PROVE  Spec => []SnapshotIsLatest
<1>1. Init => CalmInv /\ LatestInv
  BY DEF Init, CalmInv, LatestInv, Loaded, Parsed, Running
<1>2. BaseInv /\ CalmInv /\ LatestInv /\ [Next]_vars => CalmInv' /\ LatestInv'
  BY CalmStep, LatestStep
<1>3. LatestInv => SnapshotIsLatest
  BY DEF LatestInv, SnapshotIsLatest, Loaded, Parsed
<1> QED
  BY <1>1, <1>2, <1>3, HotReloadTypes, PTL DEF Spec

\* Under the same conditions, and if files, versions and keys tell each other
\* apart, no delayed close hits the pool that P returns (kafkax/kafkax.go:116).
THEOREM CurrentPoolStaysOpen ==
  ASSUME Calm, Distinct
  PROVE  Spec => []CurrentPoolOpen
<1>1. Init => CalmInv /\ RetiredInv
  BY DEF Init, CalmInv, RetiredInv, Loaded, Parsed, Running
<1>2. BaseInv /\ CalmInv /\ RetiredInv /\ [Next]_vars => CalmInv' /\ RetiredInv'
  BY CalmStep, RetiredStep
<1>3. BaseInv /\ RetiredInv => CurrentPoolOpen
  BY PoolsOfSnapshots
<1> QED
  BY <1>1, <1>2, <1>3, HotReloadTypes, PTL DEF Spec
=============================================================================
