---------------------------- MODULE RegistryProofs ----------------------------
(***************************************************************************)
(* Registry, RabbitWatch and RegistryStore, for every number of goroutines,*)
(* keys, clients, mutexes and Shutdown calls.                               *)
(*                                                                         *)
(* RegistryInv is inductive. The first lemmas say what a step does to the  *)
(* types and to Untouched; then there is one lemma per conjunct, with the  *)
(* actions that can disturb it proved apart and the quiet ones together.   *)
(* RabbitInv keeps the conjuncts that survive evictions and adds its own.  *)
(* Last, RegistryInv tells each step of Registry which step of the         *)
(* abstract store it is, if any.                                           *)
(***************************************************************************)
EXTENDS RegistryStore, RabbitWatch, TLAPS

USE RegistryAssumption DEF Keys

-----------------------------------------------------------------------------
\* Types and local variables are kept by every step.
LEMMA TypeStep == TypeOK /\ LocalsInv /\ [Next]_vars => TypeOK'
<1> SUFFICES ASSUME TypeOK, LocalsInv, [Next]_vars PROVE TypeOK'
  OBVIOUS
<1> USE DEF TypeOK, Status, PCs, SdPCs, CloserPCs, Goto, Open,
            vars, lockVars, clientVars, procVars, sdVars
<1>1. ASSUME NEW p \in Procs, NEW k \in Keys, Call(p, k) PROVE TypeOK'
  BY <1>1 DEF Call
<1>2. ASSUME NEW p \in Procs, LoadHit(p) \/ LoadMiss(p) \/ DriverMismatch(p)
      PROVE TypeOK'
  <2>1. CASE LoadHit(p)
    BY <2>1 DEF LoadHit, LocalsInv
  <2>2. CASE LoadMiss(p) \/ DriverMismatch(p)
    BY <2>2 DEF LoadMiss, DriverMismatch
  <2> QED BY <1>2, <2>1, <2>2
<1>3. ASSUME NEW p \in Procs, LoadOrStoreLock(p) PROVE TypeOK'
  <2>1. PICK m \in Mutexes : /\ lockOf' = [lockOf EXCEPT ![req[p]] = m]
                             /\ mu' = [mu EXCEPT ![p] = m]
    BY <1>3 DEF LoadOrStoreLock
  <2> QED BY <1>3, <2>1 DEF LoadOrStoreLock
<1>4. ASSUME NEW p \in Procs, Lock(p) \/ Recheck(p) \/ Unlock(p) PROVE TypeOK'
  <2>1. CASE Lock(p)
    BY <2>1 DEF Lock
  <2>2. CASE Unlock(p)
    BY <2>2 DEF Unlock
  <2>3. CASE Recheck(p)
    BY <2>3 DEF Recheck, LocalsInv
  <2> QED BY <1>4, <2>1, <2>2, <2>3
<1>5. ASSUME NEW p \in Procs, Create(p) PROVE TypeOK'
  <2>1. PICK c \in Clients : /\ status' = [status EXCEPT ![c] = "open"]
                             /\ keyOf' = [keyOf EXCEPT ![c] = req[p]]
                             /\ val' = [val EXCEPT ![p] = c]
    BY <1>5 DEF Create
  <2> QED BY <1>5, <2>1 DEF Create
<1>6. ASSUME NEW p \in Procs, CreateFail(p) \/ Subscribe(p) \/ SubscribeFail(p)
      PROVE TypeOK'
  BY <1>6 DEF CreateFail, Subscribe, SubscribeFail
<1>7. ASSUME NEW p \in Procs, Store(p) PROVE TypeOK'
  BY <1>7 DEF Store, LocalsInv
<1>8. ASSUME NEW s \in Shutdowns, StartShutdown(s) PROVE TypeOK'
  BY <1>8 DEF StartShutdown
<1>9. ASSUME NEW s \in Shutdowns, RangeEnd(s) \/ Graceful(s) \/ TimeOut(s)
      PROVE TypeOK'
  BY <1>9 DEF RangeEnd, Graceful, TimeOut
<1>10. ASSUME NEW s \in Shutdowns, NEW k \in Keys, Visit(s, k) PROVE TypeOK'
  <2>1. CASE cache[k] = NoClient
    BY <1>10, <2>1 DEF Visit
  <2>2. CASE cache[k] # NoClient
    <3>1. /\ closer' = [closer EXCEPT ![s][k] = "close"]
          /\ target' = [target EXCEPT ![s][k] = cache[k]]
      BY <1>10, <2>2 DEF Visit
    <3>2. closer' \in [Shutdowns -> [Keys -> CloserPCs]]
      BY <3>1
    <3>3. target' \in [Shutdowns -> [Keys -> Clients \cup {NoClient}]]
      BY <3>1
    <3> QED BY <1>10, <3>2, <3>3 DEF Visit
  <2> QED BY <2>1, <2>2
<1>11. ASSUME NEW s \in Shutdowns, NEW k \in Keys, Closing(s, k) PROVE TypeOK'
  <2>1. CASE CloseTarget(s, k)
    BY <2>1 DEF CloseTarget
  <2>2. CASE Uncache(s, k)
    BY <2>2 DEF Uncache
  <2>3. CASE DropLock(s, k)
    BY <2>3 DEF DropLock
  <2> QED BY <1>11, <2>1, <2>2, <2>3 DEF Closing
<1>12. CASE UNCHANGED vars
  BY <1>12
<1> QED
  BY <1>1, <1>2, <1>3, <1>4, <1>5, <1>6, <1>7, <1>8, <1>9, <1>10, <1>11, <1>12
     DEF Next, Proceed, ShutdownStep

\* Every step keeps a caller's local variables in line with its program counter.
LEMMA LocalsStep == TypeOK /\ LocalsInv /\ [Next]_vars => LocalsInv'
<1> SUFFICES ASSUME TypeOK, LocalsInv, [Next]_vars PROVE LocalsInv'
  OBVIOUS
<1> USE DEF TypeOK, LocalsInv, Building, Critical, Goto, procVars
<1>1. ASSUME NEW p \in Procs, NEW k \in Keys, Call(p, k) PROVE LocalsInv'
  BY <1>1 DEF Call
<1>2. ASSUME NEW p \in Procs, LoadHit(p) \/ LoadMiss(p) \/ DriverMismatch(p)
      PROVE LocalsInv'
  BY <1>2 DEF LoadHit, LoadMiss, DriverMismatch
<1>3. ASSUME NEW p \in Procs, LoadOrStoreLock(p) PROVE LocalsInv'
  BY <1>3 DEF LoadOrStoreLock
<1>4. ASSUME NEW p \in Procs, Lock(p) \/ Recheck(p) \/ Unlock(p)
      PROVE LocalsInv'
  BY <1>4 DEF Lock, Recheck, Unlock
<1>5. ASSUME NEW p \in Procs, Create(p) \/ CreateFail(p) PROVE LocalsInv'
  BY <1>5 DEF Create, CreateFail
<1>6. ASSUME NEW p \in Procs, Subscribe(p) \/ SubscribeFail(p) \/ Store(p)
      PROVE LocalsInv'
  BY <1>6 DEF Subscribe, SubscribeFail, Store
<1>7. CASE UNCHANGED procVars
  BY <1>7
<1> QED
  BY <1>1, <1>2, <1>3, <1>4, <1>5, <1>6, <1>7
     DEF Next, Proceed, ShutdownStep, Closing, StartShutdown, Visit, RangeEnd,
         Graceful, TimeOut, CloseTarget, Uncache, DropLock, vars

-----------------------------------------------------------------------------
\* Once Shutdown has deleted a key's entry the key stays touched.
LEMMA UntouchedStep ==
  ASSUME TypeOK, VisitedInv, [Next]_vars, NEW l \in Keys, Untouched(l)'
  PROVE  Untouched(l)
<1> SUFFICES ASSUME NEW t \in Shutdowns
             PROVE  closer[t][l] \in {"none", "close", "uncache"}
  BY DEF Untouched
<1> closer'[t][l] \in {"none", "close", "uncache"}
  BY DEF Untouched
<1> USE DEF TypeOK
<1>1. ASSUME NEW s \in Shutdowns, NEW k \in Keys, Visit(s, k)
      PROVE  closer[t][l] \in {"none", "close", "uncache"}
  <2>1. CASE s = t /\ k = l
    BY <1>1, <2>1 DEF Visit, VisitedInv
  <2>2. CASE s # t \/ k # l
    BY <1>1, <2>2 DEF Visit
  <2> QED BY <2>1, <2>2
<1>2. ASSUME NEW s \in Shutdowns, NEW k \in Keys, Closing(s, k)
      PROVE  closer[t][l] \in {"none", "close", "uncache"}
  <2>1. \E pc2 \in {"uncache", "dropLock", "done"} :
          closer[s][k] = (IF pc2 = "uncache" THEN "close" ELSE
                          IF pc2 = "dropLock" THEN "uncache" ELSE "dropLock")
          /\ closer' = [closer EXCEPT ![s][k] = pc2]
    BY <1>2 DEF Closing, CloseTarget, Uncache, DropLock
  <2>2. CASE s = t /\ k = l
    BY <2>1, <2>2
  <2>3. CASE s # t \/ k # l
    BY <2>1, <2>3
  <2> QED BY <2>2, <2>3
<1>3. CASE UNCHANGED closer
  BY <1>3
<1> QED
  BY <1>1, <1>2, <1>3
     DEF Next, Proceed, ShutdownStep, Call, LoadHit, LoadMiss, DriverMismatch,
         LoadOrStoreLock, Lock, Recheck, Create, CreateFail, Subscribe,
         SubscribeFail, Store, Unlock, StartShutdown, RangeEnd, Graceful,
         TimeOut, vars, sdVars

\* The two deletes touch their key.
LEMMA DeleteTouches ==
  ASSUME TypeOK, NEW s \in Shutdowns, NEW k \in Keys,
         Uncache(s, k) \/ DropLock(s, k)
  PROVE  ~ Untouched(k)'
<1>1. closer'[s][k] \in {"dropLock", "done"}
  BY DEF TypeOK, Uncache, DropLock
<1> QED
  BY <1>1 DEF Untouched

-----------------------------------------------------------------------------
(***************************************************************************)
(* The conjuncts. A step that deletes key l's entry leaves nothing to      *)
(* prove about l; any other keeps what the conjunct says of l.             *)
(***************************************************************************)
\* Every step keeps callers of an untouched key on the mutex of the lock table,
\* and keeps who is in the critical section the holder of its mutex.
LEMMA LockStep ==
  TypeOK /\ LocalsInv /\ VisitedInv /\ LockInv /\ [Next]_vars => LockInv'
<1> SUFFICES ASSUME TypeOK, LocalsInv, VisitedInv, LockInv, [Next]_vars,
                    NEW q \in Procs, pc'[q] = "lock" \/ pc'[q] \in Critical,
                    NEW l \in Keys, req'[q] = l
             PROVE  /\ Untouched(l)' => mu'[q] = lockOf'[l]
                    /\ pc'[q] \in Critical => holder'[mu'[q]] = q
  <2> SUFFICES ASSUME TypeOK, LocalsInv, VisitedInv, LockInv, [Next]_vars,
                      NEW q \in Procs, pc'[q] = "lock" \/ pc'[q] \in Critical
               PROVE  /\ Untouched(req[q])' => mu'[q] = lockOf'[req'[q]]
                      /\ pc'[q] \in Critical => holder'[mu'[q]] = q
    BY DEF LockInv, Critical
  <2>1. PICK l \in Keys : l = req'[q]
    BY LocalsStep DEF LocalsInv, Critical
  <2> QED BY <2>1 DEF Untouched
<1>u. Untouched(l)' => Untouched(l)
  BY UntouchedStep
<1> DEFINE Goal == /\ Untouched(l)' => mu'[q] = lockOf'[l]
                   /\ pc'[q] \in Critical => holder'[mu'[q]] = q
<1> USE DEF TypeOK, LocalsInv, LockInv, Critical, Goto, lockVars, procVars
<1>1. ASSUME NEW p \in Procs, LoadOrStoreLock(p) PROVE Goal
  <2>1. CASE p = q
    BY <1>1, <2>1 DEF LoadOrStoreLock
  <2>2. CASE p # q
    BY <1>1, <1>u, <2>2 DEF LoadOrStoreLock
  <2> QED BY <2>1, <2>2
<1>2. ASSUME NEW p \in Procs, Lock(p) PROVE Goal
  BY <1>2, <1>u DEF Lock
<1>3. ASSUME NEW p \in Procs, Unlock(p) PROVE Goal
  BY <1>3, <1>u DEF Unlock
<1>4. ASSUME NEW p \in Procs,
             \/ \E k \in Keys : Call(p, k)
             \/ LoadHit(p) \/ LoadMiss(p) \/ DriverMismatch(p)
      PROVE Goal
  BY <1>4, <1>u DEF Call, LoadHit, LoadMiss, DriverMismatch
<1>5. ASSUME NEW p \in Procs,
             \/ Recheck(p) \/ Create(p) \/ CreateFail(p) \/ Subscribe(p)
             \/ SubscribeFail(p) \/ Store(p)
      PROVE Goal
  BY <1>5, <1>u
     DEF Recheck, Create, CreateFail, Subscribe, SubscribeFail, Store
<1>6. ASSUME NEW s \in Shutdowns, NEW k \in Keys, DropLock(s, k) PROVE Goal
  BY <1>6, <1>u, DeleteTouches DEF DropLock
<1>7. CASE UNCHANGED <<lockVars, procVars>>
  BY <1>7, <1>u
<1> QED
  BY <1>1, <1>2, <1>3, <1>4, <1>5, <1>6, <1>7
     DEF Next, Proceed, ShutdownStep, Closing, StartShutdown, Visit, RangeEnd,
         Graceful, TimeOut, CloseTarget, Uncache, vars

\* Only one goroutine at a time is in the critical section of an untouched key.
LEMMA Exclusion ==
  ASSUME TypeOK, LockInv, NEW p \in Procs, NEW q \in Procs,
         pc[p] \in Critical, pc[q] \in Critical,
         req[p] = req[q], Untouched(req[p])
  PROVE  p = q
BY DEF LockInv

\* Every step keeps the cache empty under whoever is creating a client for an
\* untouched key.
LEMMA MissStep ==
  TypeOK /\ LocalsInv /\ VisitedInv /\ LockInv /\ MissInv /\ [Next]_vars
    => MissInv'
<1> SUFFICES ASSUME TypeOK, LocalsInv, VisitedInv, LockInv, MissInv, [Next]_vars,
                    NEW q \in Procs,
                    pc'[q] \in {"create", "subscribe", "store"},
                    NEW l \in Keys, req'[q] = l, Untouched(l)'
             PROVE  cache'[l] = NoClient
  <2> SUFFICES ASSUME TypeOK, LocalsInv, VisitedInv, LockInv, MissInv,
                      [Next]_vars, NEW q \in Procs,
                      pc'[q] \in {"create", "subscribe", "store"},
                      Untouched(req[q])'
               PROVE  cache'[req'[q]] = NoClient
    BY DEF MissInv, Building
  <2>1. PICK l \in Keys : l = req'[q]
    BY LocalsStep DEF LocalsInv
  <2> QED BY <2>1 DEF Untouched
<1>u. Untouched(l)
  BY UntouchedStep
<1> USE DEF TypeOK, LocalsInv, MissInv, Building, Goto, procVars
<1>1. ASSUME NEW p \in Procs, Recheck(p) PROVE cache'[l] = NoClient
  BY <1>1, <1>u DEF Recheck
<1>2. ASSUME NEW p \in Procs, Store(p) PROVE cache'[l] = NoClient
  <2>1. p # q
    BY <1>2 DEF Store
  <2>2. pc[q] \in {"create", "subscribe", "store"} /\ req[q] = l
    BY <1>2, <2>1 DEF Store
  <2>3. req[p] # l
    <3>1. pc[p] \in Critical /\ pc[q] \in Critical
      BY <1>2, <2>2 DEF Store, Critical
    <3>2. req[p] = l => Untouched(req[p]) /\ req[p] = req[q]
      BY <1>u, <2>2
    <3> QED BY ONLY TypeOK, LockInv, p \in Procs, q \in Procs,
                    <3>1, <3>2, <2>1, Exclusion
  <2> QED BY <1>2, <1>u, <2>2, <2>3 DEF Store
<1>3. ASSUME NEW p \in Procs,
             \/ \E k \in Keys : Call(p, k)
             \/ LoadHit(p) \/ LoadMiss(p) \/ DriverMismatch(p)
             \/ LoadOrStoreLock(p) \/ Lock(p) \/ Create(p) \/ CreateFail(p)
             \/ Subscribe(p) \/ SubscribeFail(p) \/ Unlock(p)
      PROVE cache'[l] = NoClient
  BY <1>3, <1>u
     DEF Call, LoadHit, LoadMiss, DriverMismatch, LoadOrStoreLock, Lock,
         Create, CreateFail, Subscribe, SubscribeFail, Unlock
<1>4. ASSUME NEW s \in Shutdowns, NEW k \in Keys, Uncache(s, k)
      PROVE cache'[l] = NoClient
  BY <1>4, <1>u DEF Uncache
<1>5. CASE UNCHANGED <<cache, procVars>>
  BY <1>5, <1>u
<1> QED
  BY <1>1, <1>2, <1>3, <1>4, <1>5
     DEF Next, Proceed, ShutdownStep, Closing, StartShutdown, Visit, RangeEnd,
         Graceful, TimeOut, CloseTarget, DropLock, vars

\* Every step keeps clients with the keys they were created for.
LEMMA KeyStep ==
  TypeOK /\ LocalsInv /\ KeyInv /\ VisitedInv /\ [Next]_vars => KeyInv'
<1> SUFFICES ASSUME TypeOK, LocalsInv, KeyInv, VisitedInv, [Next]_vars
             PROVE  KeyInv'
  OBVIOUS
<1> USE DEF TypeOK, LocalsInv, KeyInv, Open, Building, Goto,
            clientVars, procVars
<1>1. ASSUME NEW p \in Procs, NEW k \in Keys, Call(p, k) PROVE KeyInv'
  BY <1>1 DEF Call
<1>2. ASSUME NEW p \in Procs, LoadHit(p) \/ Recheck(p) PROVE KeyInv'
  BY <1>2 DEF LoadHit, Recheck
<1>3. ASSUME NEW p \in Procs, Create(p) PROVE KeyInv'
  BY <1>3 DEF Create
<1>4. ASSUME NEW p \in Procs, SubscribeFail(p) PROVE KeyInv'
  BY <1>4 DEF SubscribeFail
<1>5. ASSUME NEW p \in Procs, Store(p) PROVE KeyInv'
  BY <1>5 DEF Store
<1>6. ASSUME NEW s \in Shutdowns, NEW k \in Keys, CloseTarget(s, k)
      PROVE KeyInv'
  BY <1>6 DEF CloseTarget, VisitedInv
<1>7. ASSUME NEW s \in Shutdowns, NEW k \in Keys, Uncache(s, k) PROVE KeyInv'
  BY <1>7 DEF Uncache
<1>8. CASE UNCHANGED <<cache, clientVars, req, val>>
  BY <1>8
<1> QED
  BY <1>1, <1>2, <1>3, <1>4, <1>5, <1>6, <1>7, <1>8
     DEF Next, Proceed, LoadMiss, DriverMismatch, LoadOrStoreLock, Lock,
         CreateFail, Subscribe, Unlock, ShutdownStep, Closing, StartShutdown,
         Visit, RangeEnd, Graceful, TimeOut, DropLock, vars

\* What a step of the registry does to the clients that were made: they
\* keep their keys, none becomes unborn again, and one that is made is its
\* creator's alone.
LEMMA ClientsStep ==
  ASSUME TypeOK, LocalsInv, KeyInv, VisitedInv, [Next]_vars
  PROVE  \A c \in Clients :
           /\ status[c] # "unborn" => status'[c] # "unborn" /\ keyOf'[c] = keyOf[c]
           /\ status[c] = "unborn" /\ status'[c] # "unborn" =>
                /\ status'[c] = "open" /\ keyOf'[c] \in Keys
                /\ \E p \in Procs : pc[p] = "create" /\ val'[p] = c /\ Create(p)
<1> TAKE c \in Clients
<1> DEFINE Goal == /\ status[c] # "unborn" => status'[c] # "unborn" /\ keyOf'[c] = keyOf[c]
                   /\ status[c] = "unborn" /\ status'[c] # "unborn" =>
                        /\ status'[c] = "open" /\ keyOf'[c] \in Keys
                        /\ \E p \in Procs : pc[p] = "create" /\ val'[p] = c /\ Create(p)
<1> USE DEF TypeOK, Status, clientVars
<1>1. ASSUME NEW p \in Procs, Create(p) PROVE Goal
  <2>1. PICK d \in Clients : /\ status[d] = "unborn"
                             /\ status' = [status EXCEPT ![d] = "open"]
                             /\ keyOf' = [keyOf EXCEPT ![d] = req[p]]
                             /\ val' = [val EXCEPT ![p] = d]
    BY <1>1 DEF Create
  <2>2. pc[p] = "create" /\ req[p] \in Keys
    BY <1>1 DEF Create, LocalsInv
  <2> QED BY <1>1, <2>1, <2>2
<1>2. ASSUME NEW p \in Procs, SubscribeFail(p) PROVE Goal
  <2>1. status[val[p]] # "unborn" /\ val[p] \in Clients
    BY <1>2, RegistryAssumption DEF SubscribeFail, LocalsInv, KeyInv, Building
  <2> QED BY <1>2, <2>1 DEF SubscribeFail
<1>3. ASSUME NEW s \in Shutdowns, NEW k \in Keys, CloseTarget(s, k) PROVE Goal
  BY <1>3 DEF CloseTarget, VisitedInv
<1>4. CASE UNCHANGED clientVars
  BY <1>4
<1> QED
  BY <1>1, <1>2, <1>3, <1>4
     DEF Next, Proceed, Call, LoadHit, LoadMiss, DriverMismatch,
         LoadOrStoreLock, Lock, Recheck, CreateFail, Subscribe,
         Store, Unlock, ShutdownStep, Closing, StartShutdown, Visit, RangeEnd,
         Graceful, TimeOut, Uncache, DropLock, vars

\* Every step keeps each closing goroutine with a key that was visited, for a
\* client that was made.
LEMMA VisitedStep ==
  TypeOK /\ LocalsInv /\ KeyInv /\ VisitedInv /\ [Next]_vars => VisitedInv'
<1> SUFFICES ASSUME TypeOK, LocalsInv, KeyInv, VisitedInv, [Next]_vars PROVE VisitedInv'
  OBVIOUS
<1>m. \A c \in Clients : status[c] # "unborn" => status'[c] # "unborn"
  BY ClientsStep
<1> USE <1>m DEF TypeOK, VisitedInv
<1>1. ASSUME NEW s \in Shutdowns, NEW k \in Keys, Visit(s, k)
      PROVE  VisitedInv'
  <2>1. CASE cache[k] = NoClient
    BY <1>1, <2>1 DEF Visit
  <2>2. CASE cache[k] # NoClient
    <3>1. cache[k] \in Clients /\ status[cache[k]] # "unborn"
      BY <2>2 DEF KeyInv
    <3> QED BY <1>1, <2>2, <3>1 DEF Visit
  <2> QED BY <2>1, <2>2
<1>2. ASSUME NEW s \in Shutdowns, NEW k \in Keys, Closing(s, k)
      PROVE  VisitedInv'
  <2>1. CASE CloseTarget(s, k)
    BY <2>1 DEF CloseTarget
  <2>2. CASE Uncache(s, k)
    BY <2>2 DEF Uncache
  <2>3. CASE DropLock(s, k)
    BY <2>3 DEF DropLock
  <2> QED BY <1>2, <2>1, <2>2, <2>3 DEF Closing
<1>3. CASE UNCHANGED <<seen, closer, target>>
  BY <1>3
<1> QED
  BY <1>1, <1>2, <1>3
     DEF Next, Proceed, Call, LoadHit, LoadMiss, DriverMismatch,
         LoadOrStoreLock, Lock, Recheck, Create, CreateFail, Subscribe,
         SubscribeFail, Store, Unlock, ShutdownStep, StartShutdown, RangeEnd,
         Graceful, TimeOut, sdVars, vars

\* Every step keeps each closing goroutine with a visited key, and with the
\* client that is cached until the key's entry is deleted.
LEMMA CloserStep ==
  TypeOK /\ LocalsInv /\ MissInv /\ KeyInv /\ CloserInv /\ [Next]_vars
    => CloserInv'
<1> SUFFICES ASSUME TypeOK, LocalsInv, MissInv, KeyInv, CloserInv, [Next]_vars,
                    NEW t \in Shutdowns, NEW l \in Keys, closer'[t][l] # "none",
                    Untouched(l)'
             PROVE  cache'[l] = target'[t][l]
  BY VisitedStep DEF CloserInv
<1> DEFINE Goal == cache'[l] = target'[t][l]
<1>u. Untouched(l)
  BY UntouchedStep DEF CloserInv
<1> USE DEF TypeOK, CloserInv, VisitedInv
<1>1. ASSUME NEW p \in Procs, Store(p) PROVE Goal
  <2>1. closer[t][l] # "none" /\ seen' = seen /\ target' = target
    BY <1>1 DEF Store, sdVars
  <2>2. Untouched(l) => req[p] # l
    <3>1. SUFFICES ASSUME Untouched(l), req[p] = l PROVE FALSE
      OBVIOUS
    <3>2. cache[l] = NoClient
      BY <1>1, <3>1 DEF Store, MissInv, Building
    <3>3. cache[l] \in Clients
      BY <2>1, <3>1
    <3> QED BY <3>2, <3>3, RegistryAssumption
  <2> QED BY <1>1, <1>u, <2>1, <2>2 DEF Store
<1>2. ASSUME NEW s \in Shutdowns, NEW k \in Keys, Visit(s, k) PROVE Goal
  <2>1. cache' = cache /\ seen[t] \subseteq seen'[t]
    BY <1>2 DEF Visit
  <2>2. CASE s = t /\ k = l
    <3>1. k \in seen'[t]
      BY <1>2, <2>2 DEF Visit
    <3>2. CASE cache[k] = NoClient
      BY <1>2, <1>u, <2>1, <2>2, <3>2 DEF Visit
    <3>3. CASE cache[k] # NoClient
      <4>1. target'[t][l] = cache[l]
        BY <1>2, <2>2, <3>3 DEF Visit
      <4> QED BY <2>1, <2>2, <3>1, <3>3, <4>1
    <3> QED BY <3>2, <3>3
  <2>3. CASE s # t \/ k # l
    <3>1. closer'[t][l] = closer[t][l] /\ target'[t][l] = target[t][l]
      BY <1>2, <2>3 DEF Visit
    <3> QED BY <1>u, <2>1, <3>1
  <2> QED BY <2>2, <2>3
<1>3. ASSUME NEW s \in Shutdowns, NEW k \in Keys,
             CloseTarget(s, k) \/ DropLock(s, k)
      PROVE  Goal
  <2>1. closer[t][l] # "none"
    <3>1. closer[s][k] # "none"
      BY <1>3 DEF CloseTarget, DropLock
    <3>2. (s = t /\ k = l) \/ closer'[t][l] = closer[t][l]
      BY <1>3 DEF CloseTarget, DropLock
    <3> QED BY <3>1, <3>2
  <2> QED BY <1>3, <1>u, <2>1 DEF CloseTarget, DropLock
<1>4. ASSUME NEW s \in Shutdowns, NEW k \in Keys, Uncache(s, k) PROVE Goal
  <2>1. closer[t][l] # "none"
    <3>1. closer[s][k] # "none"
      BY <1>4 DEF Uncache
    <3>2. (s = t /\ k = l) \/ closer'[t][l] = closer[t][l]
      BY <1>4 DEF Uncache
    <3> QED BY <3>1, <3>2
  <2>2. CASE k = l
    <3>1. ~ Untouched(l)'
      BY <1>4, <2>2, DeleteTouches
    <3> QED BY <1>4, <2>1, <3>1 DEF Uncache
  <2>3. CASE k # l
    BY <1>4, <1>u, <2>1, <2>3 DEF Uncache
  <2> QED BY <2>2, <2>3
<1>5. ASSUME UNCHANGED <<cache, seen, closer, target>> PROVE Goal
  BY <1>5, <1>u
<1> QED
  BY <1>1, <1>2, <1>3, <1>4, <1>5
     DEF Next, Proceed, Call, LoadHit, LoadMiss, DriverMismatch,
         LoadOrStoreLock, Lock, Recheck, Create, CreateFail, Subscribe,
         SubscribeFail, Unlock, ShutdownStep, Closing, StartShutdown, RangeEnd,
         Graceful, TimeOut, sdVars, vars

\* Every step keeps what callers return, or were given, in the cache.
LEMMA ReturnStep ==
  TypeOK /\ LocalsInv /\ CloserInv /\ LockInv /\ MissInv /\ ReturnInv
    /\ [Next]_vars => ReturnInv'
<1> SUFFICES ASSUME TypeOK, LocalsInv, CloserInv, LockInv, MissInv, ReturnInv,
                    [Next]_vars, NEW q \in Procs,
                    pc'[q] \in {"idle", "unlock"}, val'[q] # NoClient,
                    NEW l \in Keys, req'[q] = l, Untouched(l)'
             PROVE  cache'[l] = val'[q]
  <2> SUFFICES ASSUME TypeOK, LocalsInv, CloserInv, LockInv, MissInv, ReturnInv,
                      [Next]_vars, NEW q \in Procs,
                      pc'[q] \in {"idle", "unlock"}, val'[q] # NoClient,
                      Untouched(req[q])'
               PROVE  cache'[req'[q]] = val'[q]
    BY DEF ReturnInv
  <2>1. PICK l \in Keys : l = req'[q]
    BY LocalsStep DEF LocalsInv
  <2> QED BY <2>1 DEF Untouched
<1>u. Untouched(l)
  BY UntouchedStep DEF CloserInv
<1> USE DEF TypeOK, LocalsInv, ReturnInv, Goto, procVars
<1>1. ASSUME NEW p \in Procs, LoadHit(p) \/ Recheck(p)
      PROVE cache'[l] = val'[q]
  BY <1>1, <1>u DEF LoadHit, Recheck
<1>2. ASSUME NEW p \in Procs, Store(p) PROVE cache'[l] = val'[q]
  <2>1. CASE p = q
    BY <1>2, <2>1 DEF Store
  <2>2. CASE p # q
    <3>1. cache[l] = val[q] /\ val'[q] = val[q]
      BY <1>2, <1>u, <2>2 DEF Store
    <3>2. req[p] # l
      BY <1>2, <1>u, <3>1 DEF Store, MissInv, Building
    <3> QED BY <1>2, <3>1, <3>2 DEF Store
  <2> QED BY <2>1, <2>2
<1>3. ASSUME NEW p \in Procs,
             \/ \E k \in Keys : Call(p, k)
             \/ LoadMiss(p) \/ DriverMismatch(p) \/ LoadOrStoreLock(p)
             \/ Lock(p) \/ Create(p) \/ CreateFail(p) \/ Subscribe(p)
             \/ SubscribeFail(p) \/ Unlock(p)
      PROVE cache'[l] = val'[q]
  BY <1>3, <1>u
     DEF Call, LoadMiss, DriverMismatch, LoadOrStoreLock, Lock, Create,
         CreateFail, Subscribe, SubscribeFail, Unlock
<1>4. ASSUME NEW s \in Shutdowns, NEW k \in Keys, Uncache(s, k)
      PROVE cache'[l] = val'[q]
  <2>1. k # l
    BY <1>4, DeleteTouches
  <2> QED BY <1>4, <1>u, <2>1 DEF Uncache
<1>5. CASE UNCHANGED <<cache, procVars>>
  BY <1>5, <1>u
<1> QED
  BY <1>1, <1>2, <1>3, <1>4, <1>5
     DEF Next, Proceed, ShutdownStep, Closing, StartShutdown, Visit, RangeEnd,
         Graceful, TimeOut, CloseTarget, DropLock, vars

\* Every step keeps open clients cached or in the hands of their creator.
LEMMA OrphanStep ==
  TypeOK /\ LocalsInv /\ CloserInv /\ KeyInv /\ MissInv /\ NoOrphans
    /\ [Next]_vars => NoOrphans'
<1> SUFFICES ASSUME TypeOK, LocalsInv, CloserInv, KeyInv, MissInv, NoOrphans,
                    [Next]_vars, NEW c \in Clients, status'[c] = "open",
                    NEW l \in Keys, keyOf'[c] = l, Untouched(l)'
             PROVE  \/ cache'[l] = c
                    \/ \E q \in Procs : Building(q)' /\ val'[q] = c
  <2> SUFFICES ASSUME TypeOK, LocalsInv, CloserInv, KeyInv, MissInv, NoOrphans,
                      [Next]_vars, NEW c \in Clients, status'[c] = "open",
                      Untouched(keyOf[c])'
               PROVE  \/ cache'[keyOf'[c]] = c
                      \/ \E q \in Procs : Building(q)' /\ val'[q] = c
    BY DEF NoOrphans, Open
  <2>1. PICK l \in Keys : l = keyOf'[c]
    BY KeyStep DEF CloserInv, KeyInv, Open
  <2> QED BY <2>1 DEF Untouched
<1>u. Untouched(l)
  BY UntouchedStep DEF CloserInv
<1> DEFINE Stored == cache[l] = c
           Built  == \E q \in Procs : Building(q) /\ val[q] = c
<1>o. status[c] = "open" /\ keyOf[c] = l => Stored \/ Built
  BY <1>u DEF NoOrphans, Open
<1> USE DEF TypeOK, LocalsInv, Building, Goto, clientVars, procVars
<1>1. ASSUME NEW p \in Procs, Create(p) PROVE Stored' \/ Built'
  <2>1. CASE status[c] = "unborn"
    BY <1>1, <2>1 DEF Create
  <2>2. CASE status[c] # "unborn"
    <3>1. status[c] = "open" /\ keyOf[c] = l
      BY <1>1, <2>2 DEF Create
    <3> QED BY <1>1, <1>o, <3>1 DEF Create
  <2> QED BY <2>1, <2>2
<1>2. ASSUME NEW p \in Procs, SubscribeFail(p) PROVE Stored' \/ Built'
  <2>1. status[c] = "open" /\ keyOf[c] = l /\ c # val[p]
    BY <1>2 DEF SubscribeFail
  <2> QED BY <1>2, <1>o, <2>1 DEF SubscribeFail
<1>3. ASSUME NEW p \in Procs, Store(p) PROVE Stored' \/ Built'
  <2>1. status[c] = "open" /\ keyOf[c] = l
    BY <1>3 DEF Store
  <2>2. CASE c = val[p]
    <3>1. req[p] = l
      BY <2>1, <2>2, RegistryAssumption DEF KeyInv
    <3> QED BY <1>3, <2>2, <3>1 DEF Store
  <2>3. CASE c # val[p] /\ Stored
    <3>1. req[p] # l
      BY <1>3, <1>u, <2>3, RegistryAssumption DEF Store, MissInv
    <3> QED BY <1>3, <2>3, <3>1 DEF Store
  <2>4. CASE c # val[p] /\ Built
    BY <1>3, <2>4 DEF Store
  <2> QED BY <1>o, <2>1, <2>2, <2>3, <2>4
<1>4. ASSUME NEW p \in Procs,
             \/ \E k \in Keys : Call(p, k)
             \/ LoadHit(p) \/ LoadMiss(p) \/ DriverMismatch(p)
             \/ LoadOrStoreLock(p) \/ Lock(p)
      PROVE Stored' \/ Built'
  BY <1>4, <1>o DEF Call, LoadHit, LoadMiss, DriverMismatch, LoadOrStoreLock,
                    Lock
<1>5. ASSUME NEW p \in Procs,
             Recheck(p) \/ CreateFail(p) \/ Subscribe(p) \/ Unlock(p)
      PROVE Stored' \/ Built'
  BY <1>5, <1>o DEF Recheck, CreateFail, Subscribe, Unlock
<1>6. ASSUME NEW s \in Shutdowns, NEW k \in Keys, CloseTarget(s, k)
      PROVE Stored' \/ Built'
  <2>1. status[c] = "open" /\ keyOf[c] = l
    BY <1>6 DEF CloseTarget
  <2> QED BY <1>6, <1>o, <2>1 DEF CloseTarget
<1>7. ASSUME NEW s \in Shutdowns, NEW k \in Keys, Uncache(s, k)
      PROVE Stored' \/ Built'
  <2>1. k # l
    BY <1>7, DeleteTouches
  <2> QED BY <1>7, <1>o, <2>1 DEF Uncache
<1>8. CASE UNCHANGED <<cache, clientVars, procVars>>
  BY <1>8, <1>o
<1> QED
  BY <1>1, <1>2, <1>3, <1>4, <1>5, <1>6, <1>7, <1>8
     DEF Next, Proceed, ShutdownStep, Closing, StartShutdown, Visit, RangeEnd,
         Graceful, TimeOut, DropLock, vars

-----------------------------------------------------------------------------
(***************************************************************************)
(* The theorems.                                                           *)
(***************************************************************************)
\* The initial state, with empty caches, satisfies the invariant.
LEMMA InvInit == Init => RegistryInv
BY DEF Init, RegistryInv, TypeOK, Status, PCs, SdPCs, CloserPCs, LocalsInv,
       LockInv, MissInv, KeyInv, CloserInv, VisitedInv, ReturnInv, NoOrphans,
       Open,
       Building, Critical

\* Every step of getOrCreate and Shutdown preserves the invariant.
LEMMA InvStep == RegistryInv /\ [Next]_vars => RegistryInv'
BY TypeStep, LocalsStep, LockStep, MissStep, KeyStep, VisitedStep, CloserStep,
   ReturnStep, OrphanStep DEF RegistryInv, CloserInv

\* The invariant, and with it the types and NoOrphans, hold in every state of
\* getOrCreate and Shutdown running together.
THEOREM Invariance == Spec => []RegistryInv
<1>1. Init => RegistryInv
  BY InvInit
<1>2. RegistryInv /\ [Next]_vars => RegistryInv'
  BY InvStep
<1> QED BY <1>1, <1>2, PTL DEF Spec

\* Every variable keeps its type.
THEOREM TypeCorrect == Spec => []TypeOK
<1>1. RegistryInv => TypeOK
  BY DEF RegistryInv
<1> QED BY <1>1, Invariance, PTL

\* Until Shutdown deletes its entry, an open client is never lost.
THEOREM OrphanFreedom == Spec => []NoOrphans
<1>1. RegistryInv => NoOrphans
  BY DEF RegistryInv
<1> QED BY <1>1, Invariance, PTL

\* Double-checked locking never makes two clients of a key, for any number of
\* goroutines and any Shutdown that has not yet deleted the key's entry.
THEOREM UniqueClient == Spec => []OneOpenClientPerKey
<1>1. RegistryInv => OneOpenClientPerKey
  <2> SUFFICES ASSUME RegistryInv, NEW c \in Open, NEW d \in Open,
                      keyOf[c] = keyOf[d], Untouched(keyOf[c])
               PROVE  c = d
    BY DEF OneOpenClientPerKey
  <2> USE DEF RegistryInv
  <2> DEFINE BuiltBy(e, p) == Building(p) /\ val[p] = e
  <2>1. /\ cache[keyOf[c]] = c \/ \E p \in Procs : BuiltBy(c, p)
        /\ cache[keyOf[c]] = d \/ \E p \in Procs : BuiltBy(d, p)
    BY DEF NoOrphans
  <2>2. ASSUME NEW e \in {c, d}, NEW p \in Procs, BuiltBy(e, p)
        PROVE  req[p] = keyOf[c] /\ cache[keyOf[c]] = NoClient
    BY <2>2 DEF KeyInv, MissInv, Open
  <2>3. ASSUME NEW p \in Procs, NEW q \in Procs, BuiltBy(c, p), BuiltBy(d, q)
        PROVE  c = d
    <3>1. p = q
      BY <2>2, <2>3, Exclusion DEF Building, Critical
    <3> QED BY <2>3, <3>1
  <2> QED BY <2>1, <2>2, <2>3 DEF Open
<1> QED BY <1>1, Invariance, PTL

\* Whatever client a caller was handed is its key's, and the one in the cache
\* until Shutdown deletes the entry.
THEOREM SharedClient == Spec => []HandedOutIsCached
<1>1. RegistryInv => HandedOutIsCached
  BY DEF RegistryInv, HandedOutIsCached, KeyInv, ReturnInv
<1> QED BY <1>1, Invariance, PTL

-----------------------------------------------------------------------------
(***************************************************************************)
(* One Shutdown that scans both caches.                                    *)
(***************************************************************************)
\* Every step keeps the record of how far Shutdown's Range loops have got.
LEMMA SeenStep == TypeOK /\ VisitedInv /\ SeenInv /\ [Next]_vars => SeenInv'
<1> SUFFICES ASSUME TypeOK, VisitedInv, SeenInv, [Next]_vars PROVE SeenInv'
  OBVIOUS
<1> USE DEF TypeOK, SeenInv, SdPCs
<1>1. ASSUME NEW s \in Shutdowns, StartShutdown(s) PROVE SeenInv'
  BY <1>1 DEF StartShutdown
<1>2. ASSUME NEW s \in Shutdowns, NEW k \in Keys, Visit(s, k) PROVE SeenInv'
  <2>1. /\ sdPc[s] \in {"producers", "consumers"} /\ sdPc' = sdPc
        /\ seen' = [seen EXCEPT ![s] = @ \cup {k}]
        /\ cachedAtCall' = cachedAtCall
        /\ \A t \in Shutdowns : t # s => closer'[t] = closer[t]
    BY <1>2 DEF Visit, Ranged
  <2> QED BY <2>1
<1>3. ASSUME NEW s \in Shutdowns, RangeEnd(s) PROVE SeenInv'
  BY <1>3 DEF RangeEnd, Ranged
<1>4. ASSUME NEW s \in Shutdowns, Graceful(s) \/ TimeOut(s) PROVE SeenInv'
  <2>1. CASE Graceful(s)
    BY <2>1 DEF Graceful
  <2>2. CASE TimeOut(s)
    BY <2>2 DEF TimeOut
  <2> QED BY <1>4, <2>1, <2>2
<1>5. ASSUME NEW s \in Shutdowns, NEW k \in Keys, Closing(s, k) PROVE SeenInv'
  <2>1. /\ UNCHANGED <<sdPc, seen, cachedAtCall>>
        /\ closer[s][k] \in {"close", "uncache", "dropLock"}
        /\ \A t \in Shutdowns : t # s => closer'[t] = closer[t]
    BY <1>5 DEF Closing, CloseTarget, Uncache, DropLock
  <2>2. sdPc[s] # "graceful"
    BY <2>1
  <2> QED BY <2>1, <2>2
<1>6. CASE UNCHANGED <<sdPc, seen, closer, cachedAtCall>>
  BY <1>6
<1> QED
  BY <1>1, <1>2, <1>3, <1>4, <1>5, <1>6
     DEF Next, Proceed, Call, LoadHit, LoadMiss, DriverMismatch,
         LoadOrStoreLock, Lock, Recheck, Create, CreateFail, Subscribe,
         SubscribeFail, Store, Unlock, ShutdownStep, sdVars, vars

\* With one Shutdown, every step keeps the clients it owes a close cached and
\* either ahead of its Range loop or with a goroutine.
LEMMA OwedStep ==
  ASSUME OneShutdown, RegistryInv, SeenInv, OwedInv, [Next]_vars
  PROVE  OwedInv'
<1> SUFFICES ASSUME NEW s \in Shutdowns, NEW c \in cachedAtCall'[s]
             PROVE  /\ status'[c] # "unborn"
                    /\ status'[c] = "open" =>
                         /\ cache'[keyOf'[c]] = c
                         /\ closer'[s][keyOf'[c]] =
                              IF keyOf'[c] \in seen'[s] THEN "close" ELSE "none"
  BY DEF OwedInv
<1> DEFINE Goal == /\ status'[c] # "unborn"
                   /\ status'[c] = "open" =>
                        /\ cache'[keyOf'[c]] = c
                        /\ closer'[s][keyOf'[c]] =
                             IF keyOf'[c] \in seen'[s] THEN "close" ELSE "none"
<1>t. TypeOK /\ LocalsInv /\ MissInv /\ KeyInv /\ CloserInv
  BY DEF RegistryInv
<1>c. c \in Clients
  BY <1>t, TypeStep DEF TypeOK
<1>o. c \in cachedAtCall[s] => /\ status[c] # "unborn"
                               /\ status[c] = "open" =>
                                    /\ keyOf[c] \in Keys
                                    /\ cache[keyOf[c]] = c
                                    /\ Untouched(keyOf[c])
  BY <1>t, <1>c DEF OwedInv, KeyInv, Open, OneShutdown, Untouched
<1> USE <1>t, <1>c DEF TypeOK, OwedInv
<1>1. ASSUME NEW t \in Shutdowns, StartShutdown(t) PROVE Goal
  <2>1. t = s
    BY DEF OneShutdown
  <2>2. /\ status[c] = "open" /\ cache[keyOf[c]] = c /\ keyOf[c] \in Keys
        /\ closer[s][keyOf[c]] = "none" /\ keyOf[c] \notin seen[s]
    <3>1. seen[s] = {} /\ c \in Open /\ \E k \in Keys : cache[k] = c
      BY <1>1, <2>1 DEF StartShutdown, SeenInv
    <3>2. \A k \in Keys : closer[s][k] = "none"
      BY <3>1, <1>t DEF CloserInv, VisitedInv
    <3> QED BY <3>1, <3>2, RegistryAssumption DEF Open, KeyInv
  <2> QED BY <1>1, <2>2 DEF StartShutdown, clientVars
<1>2. ASSUME NEW t \in Shutdowns, NEW k \in Keys, Visit(t, k) PROVE Goal
  <2>1. t = s
    BY DEF OneShutdown
  <2>2. /\ UNCHANGED <<cache, status, keyOf, cachedAtCall>>
        /\ seen'[s] = seen[s] \cup {k}
    BY <1>2, <2>1 DEF Visit, clientVars
  <2>3. status[c] # "unborn"
    BY <2>2
  <2>4. CASE status[c] = "open" /\ keyOf[c] = k
    <3>1. closer'[s][k] = "close"
      BY <1>2, <1>o, <2>1, <2>2, <2>4, RegistryAssumption DEF Visit
    <3> QED BY <1>o, <2>2, <2>4, <3>1
  <2>5. CASE status[c] = "open" /\ keyOf[c] # k
    <3>1. closer'[s][keyOf[c]] = closer[s][keyOf[c]]
      BY <1>2, <1>o, <2>1, <2>2, <2>5 DEF Visit
    <3> QED BY <1>o, <2>2, <2>5, <3>1
  <2> QED BY <2>2, <2>3, <2>4, <2>5
<1>3. ASSUME NEW t \in Shutdowns, RangeEnd(t) \/ Graceful(t) \/ TimeOut(t)
      PROVE Goal
  BY <1>3 DEF RangeEnd, Graceful, TimeOut, clientVars
<1>4. ASSUME NEW t \in Shutdowns, NEW k \in Keys, Closing(t, k) PROVE Goal
  <2>1. t = s
    BY DEF OneShutdown
  <2>2. UNCHANGED <<keyOf, seen, cachedAtCall>>
    BY <1>4 DEF Closing, CloseTarget, Uncache, DropLock, clientVars
  <2>3. status'[c] # "unborn" /\ (status'[c] = "open" => status[c] = "open")
    BY <1>4, <1>o, <2>2
       DEF Closing, CloseTarget, Uncache, DropLock, clientVars
  <2>4. status'[c] = "open" => keyOf[c] # k
    <3>1. CASE CloseTarget(t, k)
      <4>1. closer[s][k] = "close" /\ status'[target[s][k]] # "open"
        BY <2>1, <3>1, <1>t DEF CloseTarget, CloserInv, VisitedInv
      <4>2. Untouched(k) => cache[k] = target[s][k]
        BY <4>1, <1>t DEF CloserInv
      <4> QED BY <1>o, <2>2, <2>3, <4>1, <4>2
    <3>2. CASE Uncache(t, k) \/ DropLock(t, k)
      <4>1. closer[s][k] \in {"uncache", "dropLock"}
        BY <2>1, <3>2 DEF Uncache, DropLock
      <4> QED BY <2>2, <2>3, <4>1
    <3> QED BY <1>4, <3>1, <3>2 DEF Closing
  <2>5. \A l \in Keys : l # k => /\ cache'[l] = cache[l]
                                /\ closer'[s][l] = closer[s][l]
    BY <1>4, <2>1 DEF Closing, CloseTarget, Uncache, DropLock
  <2> QED BY <1>o, <2>2, <2>3, <2>4, <2>5
<1>5. ASSUME NEW p \in Procs, Create(p) PROVE Goal
  <2>1. /\ cachedAtCall' = cachedAtCall
        /\ UNCHANGED <<cache, seen, closer>>
        /\ status'[c] = status[c] /\ keyOf'[c] = keyOf[c]
    BY <1>5, <1>o DEF Create, sdVars
  <2> QED BY <2>1
<1>6. ASSUME NEW p \in Procs, SubscribeFail(p) PROVE Goal
  BY <1>6 DEF SubscribeFail, sdVars
<1>7. ASSUME NEW p \in Procs, Store(p) PROVE Goal
  <2>1. UNCHANGED <<clientVars, sdVars>>
    BY <1>7 DEF Store
  <2>2. status[c] = "open" => keyOf[c] # req[p]
    BY <1>7, <1>o, <2>1, RegistryAssumption DEF Store, MissInv, Building, sdVars
  <2>3. status[c] = "open" => cache'[keyOf[c]] = cache[keyOf[c]]
    BY <1>7, <2>2 DEF Store
  <2> QED BY <2>1, <2>3 DEF clientVars, sdVars
<1>8. CASE UNCHANGED <<cache, clientVars, sdVars>>
  BY <1>8 DEF clientVars, sdVars
<1> QED
  BY <1>1, <1>2, <1>3, <1>4, <1>5, <1>6, <1>7, <1>8
     DEF Next, Proceed, Call, LoadHit, LoadMiss, DriverMismatch,
         LoadOrStoreLock, Lock, Recheck, CreateFail, Subscribe, Unlock,
         ShutdownStep, vars

\* With one Shutdown, no client that was cached when it was called is forgotten
\* before it is closed.
THEOREM OwedClosed ==
  ASSUME OneShutdown
  PROVE  Spec => [](RegistryInv /\ ShutdownInv)
<1>1. Init => RegistryInv /\ ShutdownInv
  BY InvInit DEF Init, ShutdownInv, SeenInv, OwedInv
<1>2. RegistryInv /\ ShutdownInv /\ [Next]_vars => (RegistryInv /\ ShutdownInv)'
  BY InvStep, SeenStep, OwedStep DEF ShutdownInv, RegistryInv, CloserInv
<1> QED BY <1>1, <1>2, PTL DEF Spec

\* One Shutdown that scans both caches has closed every client that was cached
\* when it was called once it reports a graceful end.
THEOREM GracefulShutdown ==
  ASSUME OneShutdown, ScansConsumers
  PROVE  Spec => []GracefulClosesCached
<1>1. RegistryInv /\ ShutdownInv => GracefulClosesCached
  <2> SUFFICES ASSUME RegistryInv, ShutdownInv, NEW s \in Shutdowns,
                      sdPc[s] = "graceful",
                      NEW c \in cachedAtCall[s], c \in Open
               PROVE  FALSE
    BY DEF GracefulClosesCached
  <2>1. keyOf[c] \in seen[s]
    BY DEF RegistryInv, KeyInv, ShutdownInv, SeenInv
  <2>2. closer[s][keyOf[c]] = "close" /\ keyOf[c] \in Keys
    BY <2>1 DEF RegistryInv, KeyInv, ShutdownInv, OwedInv, Open
  <2> QED BY <2>2 DEF ShutdownInv, SeenInv
<1> QED BY <1>1, OwedClosed, PTL

\* Its closing goroutines delete the entries of the clients they closed, though
\* Shutdown compares no values.
THEOREM DeletesOwnEntry ==
  ASSUME OneShutdown
  PROVE  Spec => []DeletesWhatItClosed
<1>1. RegistryInv => DeletesWhatItClosed
  BY DEF RegistryInv, CloserInv, Untouched, OneShutdown, DeletesWhatItClosed
<1> QED BY <1>1, Invariance, PTL

-----------------------------------------------------------------------------
(***************************************************************************)
(* The watchers of rabbitx.                                                *)
(***************************************************************************)
\* A step of a watcher or of the broker is an eviction, or leaves the registry
\* alone.
LEMMA RabbitSteps ==
  ASSUME [RabbitNext]_rabbitVars
  PROVE  \/ RegistryStep
         \/ UNCHANGED vars
         \/ \E c \in Clients : Forget(c) /\ (EvictProducer(c) \/ EvictConsumer(c))
BY DEF RabbitNext, Watch, Lose, NotifyClose, CheckCached, EvictProducer,
       EvictConsumer, rabbitVars

\* A cached client that was made is cached for its own key.
LEMMA CachedForItsKey ==
  ASSUME KeyInv, NEW c \in Clients, Cached(c)
  PROVE  keyOf[c] \in Keys /\ cache[keyOf[c]] = c
BY RegistryAssumption DEF KeyInv, Cached

\* An eviction empties an entry, and every other variable of the registry stays.
LEMMA ForgetFrame ==
  ASSUME NEW c \in Clients, Forget(c)
  PROVE  /\ UNCHANGED <<lockVars, clientVars, procVars, sdVars>>
         /\ cache' = [cache EXCEPT ![keyOf[c]] = NoClient]
         /\ \A k \in Keys : Untouched(k)' = Untouched(k)
BY DEF Forget, lockVars, clientVars, procVars, sdVars, Untouched


\* The registry's part of the invariant outlives evictions.
LEMMA CoreStep == RabbitInv /\ [RabbitNext]_rabbitVars => CoreInv'
<1> SUFFICES ASSUME RabbitInv, [RabbitNext]_rabbitVars PROVE CoreInv'
  OBVIOUS
<1> USE DEF CoreInv
<1>0. CoreInv
  BY DEF RabbitInv
<1>1. ASSUME [Next]_vars PROVE CoreInv'
  BY <1>0, <1>1, TypeStep, LocalsStep, LockStep, MissStep, KeyStep, VisitedStep
<1>2. ASSUME NEW c \in Clients, Forget(c) PROVE CoreInv'
  <2>1. /\ UNCHANGED <<lockVars, clientVars, procVars, sdVars>>
        /\ cache' = [cache EXCEPT ![keyOf[c]] = NoClient]
    BY <1>2, ForgetFrame
  <2>2. TypeOK'
    BY <2>1, <1>0 DEF TypeOK, lockVars, clientVars, procVars, sdVars
  <2>3. LocalsInv' /\ LockInv' /\ VisitedInv'
    BY <2>1, <1>0 DEF LocalsInv, LockInv, VisitedInv, Building, Critical, Untouched,
                      lockVars, clientVars, procVars, sdVars
  <2>4. MissInv'
    BY <2>1, <1>0 DEF MissInv, Building, Untouched, TypeOK, LocalsInv,
                      procVars, sdVars
  <2>5. KeyInv'
    BY <2>1, <1>0 DEF KeyInv, Open, TypeOK, clientVars, procVars
  <2> QED BY <2>2, <2>3, <2>4, <2>5
<1> QED BY <1>1, <1>2, RabbitSteps DEF RegistryStep

\* No step of rabbitx subscribes.
LEMMA NoSubscribeStep ==
  ASSUME RabbitInv, [RabbitNext]_rabbitVars, NEW q \in Procs
  PROVE  pc'[q] # "subscribe"
<1> USE DEF RabbitInv, CoreInv, TypeOK, Goto
<1>1. ASSUME NEW p \in Procs, Create(p) PROVE pc'[q] # "subscribe"
  <2>1. pc' = [pc EXCEPT ![p] = "store"]
    BY <1>1, RabbitAssumption DEF Create
  <2> QED BY <2>1
<1>2. ASSUME NEW p \in Procs,
             \/ \E k \in Keys : Call(p, k)
             \/ LoadHit(p) \/ LoadMiss(p) \/ DriverMismatch(p)
             \/ LoadOrStoreLock(p) \/ Lock(p) \/ Recheck(p) \/ CreateFail(p)
             \/ Subscribe(p) \/ SubscribeFail(p) \/ Store(p) \/ Unlock(p)
      PROVE  pc'[q] # "subscribe"
  BY <1>2 DEF Call, LoadHit, LoadMiss, DriverMismatch, LoadOrStoreLock, Lock,
              Recheck, CreateFail, Subscribe, SubscribeFail, Store, Unlock
<1>3. CASE UNCHANGED pc
  BY <1>3
<1> QED
  BY <1>1, <1>2, <1>3, RabbitSteps, ForgetFrame
     DEF RegistryStep, Next, Proceed, ShutdownStep, Closing, StartShutdown, Visit,
         RangeEnd, Graceful, TimeOut, CloseTarget, Uncache, DropLock, procVars, vars

\* Every step keeps the watchers' types, and a watcher beside every connection
\* that was made.
LEMMA WatchTypeStep == RabbitInv /\ [RabbitNext]_rabbitVars => WatchTypeOK'
<1> SUFFICES ASSUME RabbitInv, [RabbitNext]_rabbitVars PROVE WatchTypeOK'
  OBVIOUS
<1>t. TypeOK' /\ CoreInv
  BY CoreStep DEF CoreInv, RabbitInv
<1> USE DEF WatchTypeOK, WatcherPCs
<1>1. ASSUME RegistryStep PROVE WatchTypeOK'
  <2>1. \A c \in Clients : AfterStep(c) \in WatcherPCs
    BY DEF AfterStep, RabbitInv
  <2>2. watcher' \in [Clients -> WatcherPCs]
    BY <1>1, <2>1 DEF RegistryStep
  <2>3. ASSUME NEW c \in Clients
        PROVE  /\ watcher'[c] = "none" <=> status'[c] = "unborn"
               /\ status'[c] # "unborn" => keyOf'[c] \in Keys
    <3>1. /\ status[c] # "unborn" => status'[c] # "unborn" /\ keyOf'[c] = keyOf[c]
          /\ status[c] = "unborn" /\ status'[c] # "unborn" =>
               status'[c] = "open" /\ keyOf'[c] \in Keys
      BY <1>1, <1>t, ClientsStep DEF RegistryStep, CoreInv
    <3>2. watcher'[c] = AfterStep(c)
      BY <1>1 DEF RegistryStep
    <3> QED BY <3>1, <3>2 DEF AfterStep, RabbitInv
  <2> QED BY <1>1, <1>t, <2>2, <2>3 DEF RegistryStep, RabbitInv
<1>2. ASSUME NEW d \in Clients,
             Lose(d) \/ NotifyClose(d) \/ CheckCached(d)
      PROVE  WatchTypeOK'
  <2>1. UNCHANGED <<status, keyOf>>
    BY <1>2 DEF Lose, NotifyClose, CheckCached, vars, clientVars
  <2>2. CASE Lose(d)
    BY <1>t, <2>1, <2>2 DEF Lose, RabbitInv
  <2>3. CASE NotifyClose(d)
    BY <1>t, <2>1, <2>3 DEF NotifyClose, RabbitInv
  <2>4. CASE CheckCached(d)
    BY <1>t, <2>1, <2>4 DEF CheckCached, RabbitInv
  <2> QED BY <1>2, <2>2, <2>3, <2>4
<1>3. ASSUME NEW d \in Clients, Forget(d), watcher[d] # "none" PROVE WatchTypeOK'
  BY <1>3, <1>t DEF Forget, clientVars, RabbitInv
<1>4. CASE UNCHANGED rabbitVars
  BY <1>4, <1>t DEF rabbitVars, vars, clientVars, watchVars, RabbitInv
<1> QED
  BY <1>1, <1>2, <1>3, <1>4
     DEF RabbitNext, Watch, EvictProducer, EvictConsumer

\* Every step keeps a client that is about to be stored out of every entry and
\* out of everyone else's hands.
LEMMA StoredOnceStep == RabbitInv /\ [RabbitNext]_rabbitVars => StoredOnce'
<1> SUFFICES ASSUME RabbitInv, [RabbitNext]_rabbitVars,
                    NEW q \in Procs, Building(q)'
             PROVE  /\ \A k \in Keys : cache'[k] # val'[q]
                    /\ \A p \in Procs : p # q => val'[p] # val'[q]
  BY DEF StoredOnce
<1> DEFINE Goal == /\ \A k \in Keys : cache'[k] # val'[q]
                   /\ \A p \in Procs : p # q => val'[p] # val'[q]
<1>0. TypeOK /\ LocalsInv /\ KeyInv /\ StoredOnce
  BY DEF RabbitInv, CoreInv
<1>o. Building(q) => /\ val[q] \in Clients
                     /\ \A k \in Keys : cache[k] # val[q]
                     /\ \A p \in Procs : p # q => val[p] # val[q]
  BY <1>0 DEF StoredOnce, LocalsInv
<1> USE <1>0, RegistryAssumption DEF TypeOK, Building, Goto, procVars
<1>1. ASSUME NEW p \in Procs, Create(p) PROVE Goal
  <2>1. PICK c \in Clients : status[c] = "unborn" /\ val' = [val EXCEPT ![p] = c]
    BY <1>1 DEF Create
  <2>2. /\ \A k \in Keys : cache[k] # c
        /\ \A r \in Procs : val[r] # c
    BY <2>1 DEF KeyInv
  <2>3. CASE p = q
    BY <1>1, <2>1, <2>2, <2>3 DEF Create
  <2>4. CASE p # q
    BY <1>1, <1>o, <2>1, <2>2, <2>4 DEF Create
  <2> QED BY <2>3, <2>4
<1>2. ASSUME NEW p \in Procs, Store(p) PROVE Goal
  <2>1. Building(q) /\ p # q
    BY <1>2 DEF Store
  <2>2. val' = val /\ \A k \in Keys : cache'[k] = cache[k] \/ cache'[k] = val[p]
    BY <1>2 DEF Store
  <2> QED BY <1>o, <2>1, <2>2
<1>3. ASSUME NEW p \in Procs, LoadHit(p) \/ Recheck(p) PROVE Goal
  <2>1. Building(q) /\ p # q /\ req[p] \in Keys
    BY <1>3 DEF LoadHit, Recheck, LocalsInv
  <2>2. cache' = cache /\ val' = [val EXCEPT ![p] = cache[req[p]]]
    BY <1>3 DEF LoadHit, Recheck
  <2> QED BY <1>o, <2>1, <2>2
<1>4. ASSUME NEW p \in Procs, (\E k \in Keys : Call(p, k)) \/ SubscribeFail(p)
      PROVE  Goal
  <2>1. Building(q) /\ p # q
    BY <1>4 DEF Call, SubscribeFail
  <2>2. cache' = cache /\ val' = [val EXCEPT ![p] = NoClient]
    BY <1>4 DEF Call, SubscribeFail
  <2> QED BY <1>o, <2>1, <2>2
<1>5. ASSUME NEW p \in Procs,
             \/ LoadMiss(p) \/ DriverMismatch(p) \/ LoadOrStoreLock(p) \/ Lock(p)
             \/ CreateFail(p) \/ Subscribe(p) \/ Unlock(p)
      PROVE  Goal
  <2>1. Building(q) /\ UNCHANGED <<cache, val>>
    BY <1>5 DEF LoadMiss, DriverMismatch, LoadOrStoreLock, Lock, CreateFail,
                Subscribe, Unlock
  <2> QED BY <1>o, <2>1
<1>6. ASSUME NEW s \in Shutdowns, NEW k \in Keys, Uncache(s, k) PROVE Goal
  <2>1. Building(q) /\ val' = val /\ cache' = [cache EXCEPT ![k] = NoClient]
    BY <1>6 DEF Uncache
  <2> QED BY <1>o, <2>1
<1>7. ASSUME NEW c \in Clients, Forget(c) PROVE Goal
  <2>1. Building(q) /\ val' = val /\ cache' = [cache EXCEPT ![keyOf[c]] = NoClient]
    BY <1>7, ForgetFrame
  <2> QED BY <1>o, <2>1
<1>8. CASE UNCHANGED <<cache, procVars>>
  BY <1>8, <1>o
<1> QED
  BY <1>1, <1>2, <1>3, <1>4, <1>5, <1>6, <1>7, <1>8, RabbitSteps
     DEF RegistryStep, Next, Proceed, ShutdownStep, Closing, StartShutdown, Visit,
         RangeEnd, Graceful, TimeOut, CloseTarget, DropLock, vars

\* A step of the registry starts a watcher with a new client, and revives none.
LEMMA AfterRegistryStep ==
  ASSUME RabbitInv, RegistryStep, NEW c \in Clients
  PROVE  /\ status[c] # "unborn" => status'[c] # "unborn" /\ keyOf'[c] = keyOf[c]
         /\ watcher'[c] \notin {"none", "gone"} /\ status[c] # "unborn"
              => watcher[c] \notin {"none", "gone"}
         /\ watcher'[c] \notin {"none", "gone"} /\ status[c] = "unborn"
              => \E p \in Procs : Building(p)' /\ val'[p] = c
<1>1. /\ status[c] # "unborn" => status'[c] # "unborn" /\ keyOf'[c] = keyOf[c]
      /\ status[c] = "unborn" /\ status'[c] # "unborn" =>
           \E p \in Procs : pc[p] = "create" /\ val'[p] = c /\ Create(p)
  BY ClientsStep DEF RabbitInv, CoreInv, RegistryStep
<1>2. watcher'[c] = AfterStep(c) /\ (watcher[c] = "none" <=> status[c] = "unborn")
  BY DEF RegistryStep, RabbitInv, WatchTypeOK
<1>3. ASSUME NEW p \in Procs, Create(p) PROVE Building(p)'
  BY <1>3 DEF Create, Goto, Building, RabbitInv, CoreInv, TypeOK
<1> QED BY <1>1, <1>2, <1>3 DEF AfterStep

\* Every step keeps a watcher that has not ended with the key's cached client,
\* or with the one that is about to be stored.
LEMMA WatchedStep == RabbitInv /\ [RabbitNext]_rabbitVars => WatchedInv'
<1> SUFFICES ASSUME RabbitInv, [RabbitNext]_rabbitVars, NEW c \in Clients,
                    watcher'[c] \notin {"none", "gone"},
                    NEW l \in Keys, keyOf'[c] = l, Untouched(l)'
             PROVE  \/ cache'[l] = c
                    \/ \E p \in Procs : Building(p)' /\ val'[p] = c
  <2> SUFFICES ASSUME RabbitInv, [RabbitNext]_rabbitVars, NEW c \in Clients,
                      watcher'[c] \notin {"none", "gone"}, Untouched(keyOf[c])'
               PROVE  \/ cache'[keyOf'[c]] = c
                      \/ \E p \in Procs : Building(p)' /\ val'[p] = c
    BY DEF WatchedInv
  <2>1. PICK l \in Keys : l = keyOf'[c]
    BY WatchTypeStep DEF WatchTypeOK
  <2> QED BY <2>1 DEF Untouched
<1> DEFINE Stored == cache[l] = c
           Built  == \E p \in Procs : Building(p) /\ val[p] = c
<1>0. TypeOK /\ LocalsInv /\ KeyInv /\ MissInv /\ VisitedInv
  BY DEF RabbitInv, CoreInv
<1>s. \A p \in Procs : pc[p] # "subscribe"
  BY DEF RabbitInv
<1>m. ASSUME NEW p \in Procs, Building(p), Untouched(req[p])
      PROVE  cache[req[p]] = NoClient
  BY <1>0, <1>m DEF MissInv
<1>1. ASSUME RegistryStep PROVE Stored' \/ Built'
  <2>u. Untouched(l)
    BY <1>0, <1>1, UntouchedStep DEF RegistryStep
  <2>1. CASE status[c] = "unborn"
    BY <1>1, <2>1, AfterRegistryStep
  <2>2. CASE status[c] # "unborn"
    <3>1. keyOf[c] = l /\ (Stored \/ Built)
      BY <1>1, <2>u, <2>2, AfterRegistryStep DEF WatchedInv, RabbitInv
    <3> USE <1>0, RegistryAssumption DEF TypeOK, LocalsInv, Building, Goto, procVars
    <3>2. ASSUME NEW p \in Procs, Create(p) PROVE Stored' \/ Built'
      BY <3>1, <3>2 DEF Create
    <3>3. ASSUME NEW p \in Procs, Store(p) PROVE Stored' \/ Built'
      <4>1. CASE val[p] = c
        <5>1. req[p] = l
          BY <3>1, <3>3, <4>1 DEF KeyInv
        <5> QED BY <3>3, <4>1, <5>1 DEF Store
      <4>2. CASE val[p] # c /\ Stored
        <5>1. req[p] # l
          BY <1>m, <2>u, <3>3, <4>2 DEF Store
        <5> QED BY <3>3, <4>2, <5>1 DEF Store
      <4>3. CASE val[p] # c /\ Built
        BY <3>3, <4>3 DEF Store
      <4> QED BY <3>1, <4>1, <4>2, <4>3
    <3>4. ASSUME NEW p \in Procs,
                 \/ \E k \in Keys : Call(p, k)
                 \/ LoadHit(p) \/ LoadMiss(p) \/ DriverMismatch(p)
                 \/ LoadOrStoreLock(p) \/ Lock(p)
          PROVE  Stored' \/ Built'
      BY <3>1, <3>4 DEF Call, LoadHit, LoadMiss, DriverMismatch, LoadOrStoreLock,
                        Lock
    <3>5. ASSUME NEW p \in Procs, Recheck(p) \/ CreateFail(p) \/ Unlock(p)
          PROVE  Stored' \/ Built'
      BY <3>1, <3>5 DEF Recheck, CreateFail, Unlock
    <3>6. ASSUME NEW s \in Shutdowns, NEW k \in Keys, Uncache(s, k)
          PROVE  Stored' \/ Built'
      <4>1. k # l
        BY <3>6, DeleteTouches
      <4> QED BY <3>1, <3>6, <4>1 DEF Uncache
    <3>7. CASE UNCHANGED <<cache, procVars>>
      BY <3>1, <3>7
    <3> QED
      BY <1>1, <1>s, <3>2, <3>3, <3>4, <3>5, <3>6, <3>7
         DEF RegistryStep, Next, Proceed, Subscribe, SubscribeFail, ShutdownStep,
             Closing, StartShutdown, Visit, RangeEnd, Graceful, TimeOut,
             CloseTarget, DropLock, vars
  <2> QED BY <2>1, <2>2
<1>2. ASSUME UNCHANGED vars, watcher[c] \notin {"none", "gone"}
      PROVE  Stored' \/ Built'
  <2>1. Untouched(l) /\ keyOf[c] = l
    BY <1>2 DEF Untouched, vars, sdVars, clientVars
  <2>2. Stored \/ Built
    BY <1>2, <2>1 DEF WatchedInv, RabbitInv
  <2> QED BY <1>2, <2>2 DEF Building, vars, procVars
<1>3. ASSUME NEW d \in Clients, Forget(d), watcher[d] \notin {"none", "gone"}
      PROVE  Stored' \/ Built'
  <2>f. /\ UNCHANGED <<keyOf, pc, val>>
        /\ cache' = [cache EXCEPT ![keyOf[d]] = NoClient]
        /\ Untouched(l) /\ keyOf[c] = l
    BY <1>3, ForgetFrame DEF clientVars, procVars
  <2>1. c # d /\ watcher[c] \notin {"none", "gone"}
    BY <1>3 DEF Forget, RabbitInv, WatchTypeOK
  <2>2. Stored \/ Built
    BY <2>1, <2>f DEF WatchedInv, RabbitInv
  <2>3. Stored => keyOf[d] # l
    <3> SUFFICES ASSUME Stored, keyOf[d] = l PROVE FALSE
      OBVIOUS
    <3>1. PICK p \in Procs : Building(p) /\ val[p] = d
      BY <1>3, <2>1, <2>f DEF WatchedInv, RabbitInv
    <3>2. req[p] = l
      BY <1>0, <3>1, RegistryAssumption DEF KeyInv
    <3> QED BY <1>m, <2>f, <3>1, <3>2, RegistryAssumption
  <2> QED BY <1>0, <2>2, <2>3, <2>f DEF Building, TypeOK
<1>4. ASSUME NEW d \in Clients, Lose(d) \/ NotifyClose(d) \/ CheckCached(d)
      PROVE  UNCHANGED vars /\ watcher[c] \notin {"none", "gone"}
  <2>1. watcher[c] = watcher'[c] \/ (c = d /\ watcher[d] \notin {"none", "gone"})
    BY <1>4 DEF Lose, NotifyClose, CheckCached, RabbitInv, WatchTypeOK
  <2> QED BY <1>4, <2>1 DEF Lose, NotifyClose, CheckCached
<1>5. CASE UNCHANGED rabbitVars
  BY <1>2, <1>5 DEF rabbitVars, watchVars
<1> QED
  BY <1>1, <1>2, <1>3, <1>4, <1>5
     DEF RabbitNext, Watch, EvictProducer, EvictConsumer

\* Who is about to store a client after a step was about to before it, unless
\* the step made the client.
LEMMA BuildingStep ==
  ASSUME RabbitInv, [RabbitNext]_rabbitVars, NEW c \in Clients,
         status[c] # "unborn", NEW q \in Procs, Building(q)', val'[q] = c
  PROVE  Building(q) /\ val[q] = c
<1> USE DEF Building, Goto, procVars
<1>0. TypeOK /\ LocalsInv
  BY DEF RabbitInv, CoreInv
<1>1. ASSUME NEW p \in Procs, Create(p) PROVE Building(q) /\ val[q] = c
  BY <1>0, <1>1 DEF Create, TypeOK
<1>2. ASSUME NEW p \in Procs,
             \/ \E k \in Keys : Call(p, k)
             \/ LoadHit(p) \/ LoadMiss(p) \/ DriverMismatch(p)
             \/ LoadOrStoreLock(p) \/ Lock(p) \/ Recheck(p)
      PROVE  Building(q) /\ val[q] = c
  BY <1>0, <1>2 DEF Call, LoadHit, LoadMiss, DriverMismatch, LoadOrStoreLock,
                    Lock, Recheck, TypeOK
<1>3. ASSUME NEW p \in Procs,
             CreateFail(p) \/ Subscribe(p) \/ SubscribeFail(p) \/ Store(p) \/ Unlock(p)
      PROVE  Building(q) /\ val[q] = c
  BY <1>0, <1>3 DEF CreateFail, Subscribe, SubscribeFail, Store, Unlock, TypeOK
<1>4. CASE UNCHANGED procVars
  BY <1>4
<1> QED
  BY <1>1, <1>2, <1>3, <1>4, RabbitSteps, ForgetFrame
     DEF RegistryStep, Next, Proceed, ShutdownStep, Closing, StartShutdown, Visit,
         RangeEnd, Graceful, TimeOut, CloseTarget, Uncache, DropLock, vars

\* Every step keeps a connection that was lost while cached out of the hands of
\* those who store.
LEMMA LostStep == RabbitInv /\ [RabbitNext]_rabbitVars => LostInv'
<1> SUFFICES ASSUME RabbitInv, [RabbitNext]_rabbitVars,
                    NEW c \in Clients, link'[c] = "lost"
             PROVE  /\ status'[c] # "unborn"
                    /\ c \in lostEarly' \/ ~ \E p \in Procs : Building(p)' /\ val'[p] = c
  BY DEF LostInv
<1>1. CASE link[c] = "lost"
  <2>1. /\ status[c] # "unborn"
        /\ c \in lostEarly \/ ~ \E p \in Procs : Building(p) /\ val[p] = c
    BY <1>1 DEF LostInv, RabbitInv
  <2>2. status'[c] # "unborn"
    BY <2>1, WatchTypeStep, AfterRegistryStep, RabbitSteps, ForgetFrame
       DEF vars, clientVars
  <2>3. c \in lostEarly => c \in lostEarly'
    BY DEF RabbitNext, RegistryStep, Lose, Watch, NotifyClose, CheckCached,
           EvictProducer, EvictConsumer, Forget, rabbitVars, watchVars
  <2> QED BY <2>1, <2>2, <2>3, BuildingStep
<1>2. CASE link[c] # "lost"
  <2>1. Lose(c)
    BY <1>2 DEF RabbitNext, RegistryStep, Lose, Watch, NotifyClose, CheckCached,
                EvictProducer, EvictConsumer, Forget, rabbitVars, watchVars,
                RabbitInv, WatchTypeOK
  <2>2. UNCHANGED vars /\ status[c] = "open"
    BY <2>1 DEF Lose
  <2>3. c \in lostEarly' \/ cache[keyOf[c]] = c
    BY <2>1 DEF Lose
  <2>4. cache[keyOf[c]] = c => ~ \E p \in Procs : Building(p) /\ val[p] = c
    <3>1. keyOf[c] \in Keys
      BY <2>2 DEF RabbitInv, WatchTypeOK
    <3> QED BY <3>1 DEF StoredOnce, RabbitInv
  <2> QED BY <2>2, <2>3, <2>4 DEF Building, vars, clientVars, procVars
<1> QED BY <1>1, <1>2

\* Every step keeps a watcher on its way to each lost connection that is cached.
LEMMA LostEvictedStep ==
  RabbitInv /\ [RabbitNext]_rabbitVars => LostIsBeingEvicted'
<1> SUFFICES ASSUME RabbitInv, [RabbitNext]_rabbitVars,
                    NEW c \in Clients, c \notin lostEarly', link'[c] = "lost",
                    Cached(c)'
             PROVE  watcher'[c] \in {"fired", "evict"}
  BY DEF LostIsBeingEvicted
<1>0. TypeOK /\ LocalsInv /\ KeyInv /\ WatchTypeOK
  BY DEF RabbitInv, CoreInv
<1>p. link[c] = "lost" /\ c \notin lostEarly =>
        /\ status[c] # "unborn"
        /\ ~ \E p \in Procs : Building(p) /\ val[p] = c
        /\ Cached(c) => watcher[c] \in {"fired", "evict"}
  BY DEF LostInv, LostIsBeingEvicted, RabbitInv
<1>1. ASSUME RegistryStep PROVE watcher'[c] \in {"fired", "evict"}
  <2>1. link[c] = "lost" /\ c \notin lostEarly
    BY <1>1 DEF RegistryStep
  <2>2. Cached(c)
    <3>1. PICK k \in Keys : cache'[k] = c
      BY DEF Cached
    <3>2. ASSUME NEW p \in Procs, Store(p) PROVE cache[k] = c
      <4>1. val[p] # c
        BY <1>p, <2>1, <3>2 DEF Store, Building
      <4> QED BY <1>0, <3>1, <3>2, <4>1 DEF Store, TypeOK, LocalsInv
    <3>3. ASSUME NEW s \in Shutdowns, NEW j \in Keys, Uncache(s, j)
          PROVE  cache[k] = c
      BY <1>0, <3>1, <3>3, RegistryAssumption DEF Uncache, TypeOK
    <3>4. cache' = cache => cache[k] = c
      BY <3>1
    <3>5. cache[k] = c
      BY <1>1, <3>2, <3>3, <3>4
         DEF RegistryStep, Next, Proceed, Call, LoadHit, LoadMiss, DriverMismatch,
             LoadOrStoreLock, Lock, Recheck, Create, CreateFail, Subscribe,
             SubscribeFail, Unlock, ShutdownStep, Closing, StartShutdown, Visit,
             RangeEnd, Graceful, TimeOut, CloseTarget, DropLock, vars
    <3> QED BY <3>5 DEF Cached
  <2> QED BY <1>1, <1>p, <2>1, <2>2 DEF RegistryStep, AfterStep
<1>2. ASSUME NEW d \in Clients, Lose(d) PROVE watcher'[c] \in {"fired", "evict"}
  <2>1. Cached(c)
    BY <1>2 DEF Lose, Cached, vars
  <2>2. CASE d = c
    BY <1>0, <1>2, <2>2 DEF Lose, WatchTypeOK
  <2>3. CASE d # c
    BY <1>0, <1>2, <1>p, <2>1, <2>3 DEF Lose, WatchTypeOK
  <2> QED BY <2>2, <2>3
<1>3. ASSUME NEW d \in Clients, NotifyClose(d) \/ CheckCached(d)
      PROVE  watcher'[c] \in {"fired", "evict"}
  <2>1. link[c] = "lost" /\ c \notin lostEarly /\ Cached(c)
    BY <1>3 DEF NotifyClose, CheckCached, Cached, vars
  <2>2. watcher[c] \in {"fired", "evict"} /\ cache[keyOf[c]] = c
    BY <1>0, <1>p, <2>1, CachedForItsKey
  <2> QED BY <1>0, <1>3, <2>2 DEF NotifyClose, CheckCached, WatchTypeOK
<1>4. ASSUME NEW d \in Clients, Forget(d) PROVE watcher'[c] \in {"fired", "evict"}
  <2>1. /\ keyOf' = keyOf /\ link' = link /\ lostEarly' = lostEarly
        /\ cache' = [cache EXCEPT ![keyOf[d]] = NoClient]
    BY <1>4 DEF Forget, clientVars
  <2>2. PICK k \in Keys : cache'[k] = c
    BY DEF Cached
  <2>3. k # keyOf[d] /\ cache[k] = c
    BY <1>0, <2>1, <2>2, RegistryAssumption DEF TypeOK
  <2>4. keyOf[c] = k /\ Cached(c)
    BY <1>0, <2>3, RegistryAssumption DEF KeyInv, Cached
  <2> QED BY <1>0, <1>4, <1>p, <2>1, <2>3, <2>4 DEF Forget, WatchTypeOK
<1>5. CASE UNCHANGED rabbitVars
  BY <1>5, <1>p DEF rabbitVars, watchVars, vars, Cached
<1> QED
  BY <1>1, <1>2, <1>3, <1>4, <1>5
     DEF RabbitNext, Watch, EvictProducer, EvictConsumer

\* Evictions, losses and the registry's own steps all preserve the invariant.
THEOREM WatcherInvariance == RabbitSpec => []RabbitInv
<1>1. RabbitInit => RabbitInv
  <2> SUFFICES ASSUME RabbitInit PROVE RabbitInv
    OBVIOUS
  <2>1. RegistryInv
    BY InvInit DEF RabbitInit
  <2>2. CoreInv
    BY <2>1 DEF CoreInv, RegistryInv, CloserInv
  <2> QED
    BY <2>2 DEF RabbitInit, Init, RabbitInv, CoreInv, WatchTypeOK, WatcherPCs,
                WatchedInv, StoredOnce, LostInv, LostIsBeingEvicted, Building
<1>2. RabbitInv /\ [RabbitNext]_rabbitVars => RabbitInv'
  BY CoreStep, NoSubscribeStep, WatchTypeStep, WatchedStep, StoredOnceStep,
     LostStep, LostEvictedStep DEF RabbitInv
<1> QED BY <1>1, <1>2, PTL DEF RabbitSpec

\* As long as a connection that was lost while watched and cached stays in the
\* cache, its watcher is on the way to evict it, whatever getOrCreate, Shutdown
\* and the other watchers do.
THEOREM LostEvicted == RabbitSpec => []LostIsBeingEvicted
<1>1. RabbitInv => LostIsBeingEvicted
  BY DEF RabbitInv
<1> QED BY <1>1, WatcherInvariance, PTL

\* Eviction by key never deletes another connection than the watcher's own,
\* until Shutdown has deleted the key's entry.
THEOREM EvictionHitsOwn == RabbitSpec => []EvictsOwn
<1>1. RabbitInv => EvictsOwn
  <2> SUFFICES ASSUME RabbitInv, NEW c \in Clients,
                      watcher[c] \in {"fired", "evict"}, Untouched(keyOf[c])
               PROVE  cache[keyOf[c]] \in {c, NoClient}
    BY DEF EvictsOwn
  <2>1. cache[keyOf[c]] = c \/ \E p \in Procs : Building(p) /\ val[p] = c
    BY DEF RabbitInv, WatchedInv
  <2>2. ASSUME NEW p \in Procs, Building(p), val[p] = c
        PROVE  cache[keyOf[c]] = NoClient
    BY <2>2, RegistryAssumption DEF RabbitInv, CoreInv, KeyInv, MissInv
  <2> QED BY <2>1, <2>2
<1> QED BY <1>1, WatcherInvariance, PTL

-----------------------------------------------------------------------------
(***************************************************************************)
(* The abstract store.                                                     *)
(***************************************************************************)
\* The abstract variables.
USE DEF storedClient, givenClient, retiredKeys

\* The registry starts as an empty store.
LEMMA StoreInit == Init => Shared!Init
  BY DEF Init, Shared!Init, Untouched

\* What a step that touches no closing goroutine leaves alone.
LEMMA UntouchedKept == UNCHANGED closer => \A k \in Keys : Untouched(k)' = Untouched(k)
  BY DEF Untouched

\* Every step of the registry is a step of the store or leaves it alone.
LEMMA StoreStep == RegistryInv /\ [Next]_vars => [Shared!Next]_(Shared!storeVars)
<1> SUFFICES ASSUME RegistryInv, [Next]_vars
             PROVE  [Shared!Next]_(Shared!storeVars)
  OBVIOUS
<1> DEFINE Same == UNCHANGED Shared!storeVars
<1>t. TypeOK /\ LocalsInv
  BY DEF RegistryInv
<1>m. storedClient' = storedClient /\ retiredKeys' = retiredKeys
        /\ givenClient' = givenClient /\ req' = req => Same
  BY DEF Shared!storeVars
<1>0. ASSUME UNCHANGED vars PROVE Same
  BY <1>0 DEF vars, lockVars, clientVars, procVars, sdVars, Untouched,
              Shared!storeVars
<1>1. ASSUME NEW p \in Procs, NEW k \in Keys, Call(p, k) PROVE Shared!Ask(p, k)
  BY <1>1, <1>t DEF Call, Goto, sdVars, Untouched, TypeOK, Shared!Ask
<1>2. ASSUME NEW p \in Procs, LoadHit(p) PROVE Shared!Next
  <2>1. cache[req[p]] \in Clients /\ req[p] \in Keys
    BY <1>2, <1>t DEF LoadHit, TypeOK, LocalsInv
  <2>2. Shared!Give(p, cache[req[p]])
    BY <1>2, <2>1, <1>t DEF LoadHit, Goto, sdVars, Untouched, TypeOK, Shared!Give
  <2>3. \E c \in Clients : Shared!Give(p, c)
    BY <2>1, <2>2 DEF Shared!Give
  <2> QED BY <2>3 DEF Shared!Next
<1>3. ASSUME NEW p \in Procs,
             \/ LoadMiss(p) \/ DriverMismatch(p) \/ LoadOrStoreLock(p) \/ Lock(p)
             \/ Recheck(p) \/ Create(p) \/ CreateFail(p)
             \/ Subscribe(p) \/ SubscribeFail(p)
      PROVE Same
  <2>1. UNCHANGED <<cache, closer, req>>
    BY <1>3 DEF LoadMiss, DriverMismatch, LoadOrStoreLock, Lock, Recheck,
                Create, CreateFail, Subscribe, SubscribeFail, sdVars
  <2>2. givenClient' = givenClient
    <3>1. CASE LoadMiss(p) \/ DriverMismatch(p)
      BY <1>t, <3>1 DEF LoadMiss, DriverMismatch, Goto, TypeOK, LocalsInv
    <3>2. CASE LoadOrStoreLock(p) \/ Lock(p) \/ Recheck(p)
      BY <1>t, <3>2 DEF LoadOrStoreLock, Lock, Recheck, Goto, TypeOK
    <3>3. CASE Create(p)
      BY <1>t, <3>3 DEF Create, Goto, TypeOK
    <3>4. CASE CreateFail(p) \/ Subscribe(p) \/ SubscribeFail(p)
      BY <1>t, <3>4 DEF CreateFail, Subscribe, SubscribeFail, Goto, TypeOK
    <3> QED BY <1>3, <3>1, <3>2, <3>3, <3>4
  <2> QED BY <2>1, <2>2, <1>m DEF Untouched
<1>4. ASSUME NEW p \in Procs, Store(p) PROVE Shared!Next \/ Same
  <2>1. /\ req[p] \in Keys /\ val[p] \in Clients /\ keyOf[val[p]] = req[p]
        /\ Untouched(req[p]) => cache[req[p]] = NoClient
    BY <1>4, <1>t DEF RegistryInv, LocalsInv, Building, MissInv, KeyInv, Store, TypeOK
  <2>2. UNCHANGED <<req, retiredKeys, givenClient>>
    BY <1>4, <1>t DEF Store, Goto, sdVars, Untouched, TypeOK
  <2>3. CASE Untouched(req[p])
    <3>1. storedClient' = [storedClient EXCEPT ![req[p]] = val[p]]
      BY <1>4, <1>t, <2>1, <2>3 DEF Store, sdVars, Untouched, TypeOK
    <3>2. \A j \in Keys : storedClient[j] # val[p]
      BY <2>1, <2>3, RegistryAssumption DEF RegistryInv, KeyInv
    <3>3. Shared!Publish(req[p], val[p])
      BY <2>1, <2>2, <2>3, <3>1, <3>2 DEF Shared!Publish
    <3>4. \E c \in Clients : Shared!Publish(req[p], c)
      BY <2>1, <3>3 DEF Shared!Publish
    <3> QED BY <2>1, <3>4 DEF Shared!Next
  <2>4. CASE ~Untouched(req[p])
    <3>1. storedClient' = storedClient
      BY <1>4, <1>t, <2>1, <2>4 DEF Store, sdVars, Untouched, TypeOK
    <3> QED BY <2>2, <3>1, <1>m
  <2> QED BY <2>3, <2>4
<1>5. ASSUME NEW p \in Procs, Unlock(p) PROVE Shared!Next \/ Same
  <2>1. UNCHANGED <<req, storedClient, retiredKeys>>
    BY <1>5 DEF Unlock, Goto, sdVars, Untouched
  <2>2. givenClient' = [givenClient EXCEPT ![p] = val[p]] /\ givenClient[p] = NoClient
    BY <1>5, <1>t DEF Unlock, Goto, TypeOK
  <2>3. CASE val[p] = NoClient
    BY <2>1, <2>2, <2>3, <1>m
  <2>4. CASE val[p] # NoClient
    <3>1. /\ val[p] \in Clients /\ req[p] \in Keys
          /\ Untouched(req[p]) => cache[req[p]] = val[p]
      BY <1>5, <2>4, <1>t DEF Unlock, RegistryInv, LocalsInv, ReturnInv, TypeOK
    <3>2. Shared!Give(p, val[p])
      BY <2>1, <2>2, <3>1 DEF Shared!Give
    <3>3. \E c \in Clients : Shared!Give(p, c)
      BY <3>1, <3>2 DEF Shared!Give
    <3> QED BY <3>3 DEF Shared!Next
  <2> QED BY <2>3, <2>4
<1>6. ASSUME NEW s \in Shutdowns,
             StartShutdown(s) \/ RangeEnd(s) \/ Graceful(s) \/ TimeOut(s)
      PROVE Same
  BY <1>6, <1>m DEF StartShutdown, RangeEnd, Graceful, TimeOut, procVars, Untouched
<1>7. ASSUME NEW s \in Shutdowns, NEW k \in Keys,
             Visit(s, k) \/ CloseTarget(s, k) \/ DropLock(s, k)
      PROVE Same
  <2>1. UNCHANGED <<cache, pc, val, req>>
    BY <1>7 DEF Visit, CloseTarget, DropLock, procVars
  <2>2. \A j \in Keys : Untouched(j)' = Untouched(j)
    <3> TAKE j \in Keys
    <3>1. Untouched(j)' => Untouched(j)
      BY UntouchedStep, <1>t DEF RegistryInv, CloserInv
    <3>2. ASSUME Untouched(j), NEW t \in Shutdowns
          PROVE  closer'[t][j] \in {"none", "close", "uncache"}
      <4>1. closer[t][j] \in {"none", "close", "uncache"}
        BY <3>2 DEF Untouched
      <4>2. CASE Visit(s, k)
        <5>1. CASE cache[k] = NoClient
          BY <4>1, <4>2, <5>1 DEF Visit
        <5>2. CASE cache[k] # NoClient
          <6>1. closer' = [closer EXCEPT ![s][k] = "close"]
            BY <4>2, <5>2 DEF Visit
          <6> QED BY <4>1, <6>1, <1>t DEF TypeOK
        <5> QED BY <5>1, <5>2
      <4>3. CASE CloseTarget(s, k)
        BY <4>1, <4>3, <1>t DEF CloseTarget, TypeOK
      <4>4. CASE DropLock(s, k)
        BY <4>1, <4>4, <1>t DEF DropLock, TypeOK
      <4> QED BY <1>7, <4>2, <4>3, <4>4
    <3> QED BY <3>1, <3>2 DEF Untouched
  <2> QED BY <2>1, <2>2, <1>m
<1>8. ASSUME NEW s \in Shutdowns, NEW k \in Keys, Uncache(s, k)
      PROVE Shared!Retire(k)
  <2>1. /\ UNCHANGED <<pc, val, req>>
        /\ cache' = [cache EXCEPT ![k] = NoClient]
    BY <1>8 DEF Uncache, procVars
  <2>2. \A j \in Keys : Untouched(j)' = (Untouched(j) /\ j # k)
    <3> TAKE j \in Keys
    <3>1. (Untouched(j)' => Untouched(j)) /\ ~Untouched(k)'
      BY UntouchedStep, DeleteTouches, <1>8, <1>t DEF RegistryInv, CloserInv
    <3>2. ASSUME Untouched(j), j # k, NEW t \in Shutdowns
          PROVE  closer'[t][j] = closer[t][j]
      BY <1>8, <3>2, <1>t DEF Uncache, TypeOK
    <3>3. Untouched(j) /\ j # k => Untouched(j)'
      BY <3>2 DEF Untouched
    <3> QED BY <3>1, <3>3 DEF Untouched
  <2>3. storedClient' = [storedClient EXCEPT ![k] = NoClient]
    BY <2>1, <2>2, <1>t DEF TypeOK
  <2>4. retiredKeys' = retiredKeys \cup {k}
    BY <2>2
  <2>5. givenClient' = givenClient
    BY <2>1
  <2> QED BY <2>1, <2>3, <2>4, <2>5 DEF Shared!Retire
<1> QED
  BY <1>0, <1>1, <1>2, <1>3, <1>4, <1>5, <1>6, <1>7, <1>8
     DEF Next, Proceed, ShutdownStep, Closing, Shared!Next

\* Every behaviour of the registry is a behaviour of the abstract store.
THEOREM ImplementsStore == Spec => SharesOneClient
  BY StoreInit, StoreStep, Invariance, PTL DEF Spec, SharesOneClient, Shared!Spec
=============================================================================
