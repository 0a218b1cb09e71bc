----------------------------- MODULE NatsProofs -----------------------------
(***************************************************************************)
(* Proofs about Nats, for any number of callers, keys, fingerprints,       *)
(* connections and instances.                                              *)
(***************************************************************************)
EXTENDS Nats, TLAPS

LEMMA SizeBounds == \A k \in Keys : Size(k) \in Nat /\ 1 <= Size(k) /\ Size(k) <= PoolSize
BY NatsAssumption DEF Size

LEMMA PrintType == TypeOK => \A p \in Procs : key[p] \in Keys /\ PrintFor(p) \in Prints
BY NatsAssumption DEF TypeOK, PrintFor

\* The empty registry satisfies the invariant.
LEMMA NatsInit == Init => NatsInv
<1> SUFFICES ASSUME Init PROVE NatsInv
  OBVIOUS
<1>1. AnyKey \in Keys
  BY NatsAssumption DEF AnyKey
<1>2. TypeOK
  BY <1>1, NatsAssumption DEF Init, TypeOK, Labels, Statuses
<1>3. ConnInv /\ PoolInv /\ DrainInv /\ ClosedOnlyByShutdown
  BY DEF Init, ConnInv, PoolInv, DrainInv, ClosedOnlyByShutdown
<1>4. CallerInv
  BY DEF Init, CallerInv, OneCaller, Apart, InKey, InConn
<1> QED
  BY <1>2, <1>3, <1>4 DEF NatsInv


\* The caller that goes back to the application forgets all it had.
LEMMA ReturnTypes ==
  ASSUME TypeOK, NEW p \in Procs, Return(p)
  PROVE  /\ pc' \in [Procs -> Labels] /\ key' \in [Procs -> Keys]
         /\ nc' \in [Procs -> Conns \cup {NoConn}]
         /\ at' \in [Procs -> 0..PoolSize] /\ made' \in [Procs -> SUBSET Conns]
         /\ stale' \in [Procs -> BOOLEAN]
<1>1. AnyKey \in Keys /\ 0 \in 0..PoolSize
  BY NatsAssumption DEF AnyKey
<1> QED
  BY <1>1 DEF TypeOK, Return, Goto, Labels

\* Every action keeps the types.
LEMMA NatsTypeStep == NatsInv /\ [Next]_vars => TypeOK'
<1> SUFFICES ASSUME NatsInv, [Next]_vars PROVE TypeOK'
  OBVIOUS
<1> USE NatsAssumption DEF NatsInv, TypeOK, Labels, Statuses
<1>1. ASSUME NEW p \in Procs, NEW k \in Keys, Call(p, k) PROVE TypeOK'
  BY <1>1 DEF Call, Goto, sdVars
<1>2. ASSUME NEW p \in Procs, Load(p) PROVE TypeOK'
  <2>1. CASE Return(p)
    BY <1>2, <2>1, ReturnTypes DEF Load, sdVars
  <2>2. CASE Goto(p, "enter") /\ UNCHANGED <<key, nc, at, made, stale>>
    BY <1>2, <2>2 DEF Load, Goto, sdVars
  <2> QED
    BY <1>2, <2>1, <2>2 DEF Load
<1>3. ASSUME NEW p \in Procs, Enter(p) PROVE TypeOK'
  <2>1. CASE Return(p)
    BY <1>3, <2>1, ReturnTypes DEF Enter, sdVars
  <2>2. CASE Goto(p, "conn") /\ UNCHANGED <<key, nc, at, made, stale>>
    BY <1>3, <2>2 DEF Enter, Goto, sdVars
  <2> QED
    BY <1>3, <2>1, <2>2 DEF Enter
<1>4. ASSUME NEW p \in Procs, ConnLoad(p) \/ ConnEnter(p) PROVE TypeOK'
  <2>1. connOf[PrintFor(p)] \in Conns \cup {NoConn}
    BY PrintType
  <2> QED
    BY <1>4, <2>1 DEF ConnLoad, ConnEnter, TakeConn, Goto, sdVars
<1>5. ASSUME NEW p \in Procs, Connect(p) PROVE TypeOK'
  BY <1>5, PrintType DEF Connect, Goto, sdVars
<1>6. ASSUME NEW p \in Procs, ConnectFails(p) PROVE TypeOK'
  BY <1>6, ReturnTypes DEF ConnectFails, Closed, sdVars
<1>7. ASSUME NEW p \in Procs, Instance(p) PROVE TypeOK'
  <2>1. at[p] + 1 \in 0..PoolSize
    BY <1>7, SizeBounds DEF Instance, At, CallerInv, OneCaller
  <2>2. nc[p] \in Conns
    BY <1>7 DEF Instance, At, CallerInv, OneCaller
  <2> QED
    BY <1>7, <2>1, <2>2 DEF Instance, Goto, sdVars
<1>8. ASSUME NEW p \in Procs, JetStreamFails(p) \/ Store(p) PROVE TypeOK'
  <2>1. CASE JetStreamFails(p)
    BY <2>1, ReturnTypes DEF JetStreamFails, sdVars
  <2>2. CASE Store(p)
    <3>1. made[p] \in SUBSET Conns
      OBVIOUS
    <3>2. cached' \in [Keys -> SUBSET Conns]
      BY <2>2, <3>1 DEF Store
    <3> QED
      BY <2>2, <3>2, ReturnTypes DEF Store, sdVars
  <2> QED
    BY <1>8, <2>1, <2>2
<1>9. CASE StartShutdown
  BY <1>9 DEF StartShutdown, callVars
<1>10. ASSUME NEW k \in ProducerKeys, DrainAndClose(k) \/ Evict(k) PROVE TypeOK'
  <2>1. CASE DrainAndClose(k)
    BY <2>1 DEF DrainAndClose, ClosingStep, callVars
  <2>2. CASE Evict(k)
    <3>1. stale' \in [Procs -> BOOLEAN]
      BY <2>2 DEF Evict
    <3>2. cached' \in [Keys -> SUBSET Conns] /\ closing' \in [ProducerKeys -> {"none", "drain", "evict", "done"}]
      BY <2>2 DEF Evict, ClosingStep
    <3> QED
      BY <2>2, <3>1, <3>2 DEF Evict, callVars
  <2> QED
    BY <1>10, <2>1, <2>2
<1>11. CASE Graceful \/ TimeOut
  BY <1>11 DEF Graceful, TimeOut, callVars
<1>12. ASSUME NEW c \in Conns, Drained(c) \/ GiveUp(c) PROVE TypeOK'
  BY <1>12 DEF Drained, GiveUp, callVars, sdVars
<1>13. CASE UNCHANGED vars
  BY <1>13 DEF vars, callVars, sdVars
<1> QED
  BY <1>1, <1>2, <1>3, <1>4, <1>5, <1>6, <1>7, <1>8, <1>9, <1>10, <1>11, <1>12, <1>13
     DEF Next, Proceed, Closing

\* Only Connect puts a connection into connCache, under a fingerprint that has
\* none; a connection that was made remains one that was made.
LEMMA ConnKept ==
  ASSUME NatsInv, [Next]_vars
  PROVE  /\ \A f \in Prints : connOf[f] # NoConn => connOf'[f] = connOf[f]
         /\ \A c \in Conns : status[c] # "none" => status'[c] # "none"
         /\ ConnInv'
<1> USE NatsAssumption DEF NatsInv, TypeOK, ConnInv
<1>1. ASSUME NEW p \in Procs, Connect(p)
      PROVE  /\ \A f \in Prints : connOf[f] # NoConn => connOf'[f] = connOf[f]
             /\ \A c \in Conns : status[c] # "none" => status'[c] # "none"
             /\ ConnInv'
  <2>1. connOf[PrintFor(p)] = NoConn /\ PrintFor(p) \in Prints
    BY <1>1, PrintType DEF Connect, At, CallerInv, OneCaller
  <2>2. PICK c \in Conns : /\ status[c] = "none"
                           /\ status' = [status EXCEPT ![c] = "open"]
                           /\ connOf' = [connOf EXCEPT ![PrintFor(p)] = c]
    BY <1>1 DEF Connect
  <2> QED
    BY <2>1, <2>2
<1>2. ASSUME UNCHANGED connOf, \A c \in Conns : status[c] = "none" <=> status'[c] = "none"
      PROVE  /\ \A f \in Prints : connOf[f] # NoConn => connOf'[f] = connOf[f]
             /\ \A c \in Conns : status[c] # "none" => status'[c] # "none"
             /\ ConnInv'
  BY <1>2
<1>3. ASSUME NEW p \in Procs, ConnectFails(p)
      PROVE  UNCHANGED connOf /\ \A c \in Conns : status[c] = "none" <=> status'[c] = "none"
  \* There is nothing to close.
  <2>1. made[p] = {}
    BY <1>3, PrintType DEF ConnectFails, At, CallerInv, OneCaller
  <2> QED
    BY <1>3, <2>1 DEF ConnectFails, Closed
<1>4. ASSUME NEW k \in ProducerKeys, DrainAndClose(k)
      PROVE  UNCHANGED connOf /\ \A c \in Conns : status[c] = "none" <=> status'[c] = "none"
  BY <1>4 DEF DrainAndClose
<1>5. ASSUME NEW c \in Conns, Drained(c) \/ GiveUp(c)
      PROVE  UNCHANGED connOf /\ \A d \in Conns : status[d] = "none" <=> status'[d] = "none"
  BY <1>5 DEF Drained, GiveUp
<1>6. ASSUME NEW p \in Procs,
             \/ \E k \in Keys : Call(p, k)
             \/ Load(p) \/ Enter(p) \/ ConnLoad(p) \/ ConnEnter(p)
             \/ Instance(p) \/ JetStreamFails(p) \/ Store(p)
      PROVE  UNCHANGED <<connOf, status>>
  BY <1>6 DEF Call, Load, Enter, ConnLoad, ConnEnter, Instance, JetStreamFails, Store
<1>7. ASSUME \/ StartShutdown \/ Graceful \/ TimeOut \/ UNCHANGED vars
             \/ \E k \in ProducerKeys : Evict(k)
      PROVE  UNCHANGED <<connOf, status>>
  BY <1>7 DEF StartShutdown, Graceful, TimeOut, Evict, vars
<1> QED
  BY <1>1, <1>2, <1>3, <1>4, <1>5, <1>6, <1>7 DEF Next, Proceed, Closing

\* A caller that does not move keeps its part while connCache only grows and
\* nobody finishes making its fingerprint's connection.
LEMMA OthersKept ==
  ASSUME TypeOK, NEW q \in Procs, OneCaller(q),
         pc'[q] = pc[q], key'[q] = key[q], nc'[q] = nc[q], at'[q] = at[q],
         made'[q] = made[q],
         connOf[PrintFor(q)] # NoConn => connOf'[PrintFor(q)] = connOf[PrintFor(q)],
         pc[q] = "connect" => connOf'[PrintFor(q)] = connOf[PrintFor(q)]
  PROVE  OneCaller(q)'
<1>1. PrintFor(q)' = PrintFor(q) /\ Size(key[q])' = Size(key[q])
  BY DEF PrintFor, Size
<1>2. made[q] \subseteq Conns
  BY DEF TypeOK
<1> QED
  BY <1>1, <1>2, NatsAssumption DEF OneCaller, InKey

\* A caller that has returned has no part to keep.
LEMMA ReturnedHasNone ==
  ASSUME TypeOK, NEW p \in Procs, Return(p)
  PROVE  OneCaller(p)' /\ ~InConn(p)'
BY DEF TypeOK, Return, Goto, OneCaller, InKey, InConn

\* Of two callers at most one begins to make a connection in a step, and it
\* has found nobody else making that of its fingerprint.
LEMMA ApartKept ==
  ASSUME TypeOK, NEW p \in Procs,
         \A q, r \in Procs : Apart(q, r),
         \A q \in Procs \ {p} : pc'[q] = pc[q] /\ key'[q] = key[q],
         ~InConn(p)'
  PROVE  \A q, r \in Procs : Apart(q, r)'
BY DEF Apart, InConn, PrintFor

\* Every action keeps what is known of the callers.
LEMMA CallerStep == NatsInv /\ [Next]_vars => CallerInv'
<1> SUFFICES ASSUME NatsInv, [Next]_vars PROVE CallerInv'
  OBVIOUS
<1>0. /\ TypeOK /\ TypeOK'
      /\ \A q \in Procs : OneCaller(q)
      /\ \A q, r \in Procs : Apart(q, r)
  BY NatsTypeStep DEF NatsInv, CallerInv
<1>a. \A f \in Prints : connOf[f] # NoConn => connOf'[f] = connOf[f]
  BY ConnKept
<1>b. \A q \in Procs : PrintFor(q) \in Prints
  BY <1>0, PrintType
\* All but the one that takes the step.
<1>c. ASSUME NEW p \in Procs, UNCHANGED connOf, OneCaller(p)', ~InConn(p)',
             \A q \in Procs \ {p} : /\ pc'[q] = pc[q] /\ key'[q] = key[q]
                                    /\ nc'[q] = nc[q] /\ at'[q] = at[q]
                                    /\ made'[q] = made[q]
      PROVE  CallerInv'
  <2>1. \A q \in Procs \ {p} : OneCaller(q)'
    BY <1>0, <1>c, OthersKept
  <2>2. \A q, r \in Procs : Apart(q, r)'
    BY <1>0, <1>c, ApartKept
  <2> QED
    BY <1>c, <2>1, <2>2 DEF CallerInv
<1>d. ASSUME UNCHANGED <<callVars, connOf>> PROVE CallerInv'
  <2>1. \A q \in Procs : OneCaller(q)'
    BY <1>0, <1>d, OthersKept DEF callVars
  <2>2. \A q, r \in Procs : Apart(q, r)'
    BY <1>0, <1>d DEF callVars, Apart, InConn, PrintFor
  <2> QED
    BY <2>1, <2>2 DEF CallerInv
<1>r. ASSUME NEW p \in Procs, Return(p), UNCHANGED connOf PROVE CallerInv'
  <2>1. OneCaller(p)' /\ ~InConn(p)'
    BY <1>0, <1>r, ReturnedHasNone
  <2>2. \A q \in Procs \ {p} : /\ pc'[q] = pc[q] /\ key'[q] = key[q]
                               /\ nc'[q] = nc[q] /\ at'[q] = at[q]
                               /\ made'[q] = made[q]
    BY <1>0, <1>r DEF TypeOK, Return, Goto
  <2> QED
    BY <1>r, <1>c, <2>1, <2>2
<1>1. ASSUME NEW p \in Procs, NEW k \in Keys, Call(p, k) PROVE CallerInv'
  <2>1. OneCaller(p)' /\ ~InConn(p)'
    BY <1>0, <1>1 DEF Call, At, Goto, TypeOK, OneCaller, InKey, InConn
  <2> QED
    BY <1>0, <1>1, <1>c, <2>1 DEF Call, Goto, TypeOK
<1>2. ASSUME NEW p \in Procs, Load(p) PROVE CallerInv'
  <2>1. CASE Return(p)
    BY <1>2, <1>r, <2>1 DEF Load
  <2>2. CASE Goto(p, "enter") /\ UNCHANGED <<key, nc, at, made, stale>>
    <3>1. OneCaller(p)' /\ ~InConn(p)'
      BY <1>0, <1>2, <2>2 DEF Load, At, Goto, TypeOK, OneCaller, InKey, InConn
    <3> QED
      BY <1>0, <1>2, <1>c, <2>2, <3>1 DEF Load, Goto, TypeOK
  <2> QED
    BY <1>2, <2>1, <2>2 DEF Load
<1>3. ASSUME NEW p \in Procs, Enter(p) PROVE CallerInv'
  <2>1. CASE Return(p)
    BY <1>3, <1>r, <2>1 DEF Enter
  <2>2. CASE Goto(p, "conn") /\ UNCHANGED <<key, nc, at, made, stale>>
    <3>1. 1 <= Size(key[p]) /\ Size(key[p]) \in Nat
      BY <1>0, SizeBounds DEF TypeOK
    <3>2. OneCaller(p)' /\ ~InConn(p)'
      BY <1>0, <1>3, <2>2, <3>1
         DEF Enter, At, Goto, TypeOK, OneCaller, InKey, InConn, PrintFor, Size
    <3> QED
      BY <1>0, <1>3, <1>c, <2>2, <3>2 DEF Enter, Goto, TypeOK
  <2> QED
    BY <1>3, <2>1, <2>2 DEF Enter
\* The connection is there already.
<1>t. ASSUME NEW p \in Procs, pc[p] \in {"conn", "connEnter"}, TakeConn(p),
             connOf[PrintFor(p)] # NoConn, UNCHANGED <<key, at, made, connOf>>
      PROVE  CallerInv'
  <2>1. OneCaller(p)' /\ ~InConn(p)'
    BY <1>0, <1>t DEF TakeConn, Goto, TypeOK, OneCaller, InKey, InConn, PrintFor, Size
  <2> QED
    BY <1>0, <1>t, <1>c, <2>1 DEF TakeConn, Goto, TypeOK
<1>4. ASSUME NEW p \in Procs, ConnLoad(p) PROVE CallerInv'
  <2>1. CASE TakeConn(p) /\ connOf[PrintFor(p)] # NoConn
    BY <1>4, <1>t, <2>1 DEF ConnLoad, At
  <2>2. CASE Goto(p, "connEnter") /\ UNCHANGED nc
    <3>1. OneCaller(p)' /\ ~InConn(p)'
      BY <1>0, <1>4, <2>2
         DEF ConnLoad, At, Goto, TypeOK, OneCaller, InKey, InConn, PrintFor, Size
    <3> QED
      BY <1>0, <1>4, <1>c, <2>2, <3>1 DEF ConnLoad, Goto, TypeOK
  <2> QED
    BY <1>4, <2>1, <2>2 DEF ConnLoad
<1>5. ASSUME NEW p \in Procs, ConnEnter(p) PROVE CallerInv'
  <2>1. CASE TakeConn(p) /\ connOf[PrintFor(p)] # NoConn
    BY <1>5, <1>t, <2>1 DEF ConnEnter, At
  <2>2. CASE Goto(p, "connect") /\ UNCHANGED nc /\ connOf[PrintFor(p)] = NoConn
    <3>1. OneCaller(p)'
      BY <1>0, <1>5, <2>2
         DEF ConnEnter, At, Goto, TypeOK, OneCaller, InKey, InConn, PrintFor, Size
    <3>2. \A q \in Procs \ {p} : OneCaller(q)'
      BY <1>0, <1>5, <2>2, OthersKept DEF ConnEnter, Goto, TypeOK
    <3>3. \A q, r \in Procs : Apart(q, r)'
      BY <1>0, <1>5, <2>2 DEF ConnEnter, ConnFree, Goto, TypeOK, Apart, InConn, PrintFor
    <3> QED
      BY <3>1, <3>2, <3>3 DEF CallerInv
  <2> QED
    BY <1>5, <2>1, <2>2 DEF ConnEnter
<1>6. ASSUME NEW p \in Procs, Connect(p) PROVE CallerInv'
  <2>1. PICK c \in Conns : /\ connOf' = [connOf EXCEPT ![PrintFor(p)] = c]
                           /\ nc' = [nc EXCEPT ![p] = c]
    BY <1>6 DEF Connect
  <2>2. c # NoConn /\ connOf'[PrintFor(p)] = c
    BY <1>0, <1>b, <2>1, NatsAssumption DEF TypeOK
  <2>3. OneCaller(p)' /\ ~InConn(p)'
    <3>1. made[p] = {}
      BY <1>0, <1>6, NatsAssumption DEF TypeOK, Connect, At, OneCaller
    <3> QED
      BY <1>0, <1>6, <2>1, <2>2, <3>1
         DEF Connect, At, Goto, TypeOK, OneCaller, InKey, InConn, PrintFor, Size
  <2>4. ASSUME NEW q \in Procs \ {p} PROVE OneCaller(q)'
    <3>1. /\ pc'[q] = pc[q] /\ key'[q] = key[q] /\ nc'[q] = nc[q]
          /\ at'[q] = at[q] /\ made'[q] = made[q]
      BY <1>0, <1>6, <2>1 DEF Connect, Goto, TypeOK
    <3>2. pc[q] = "connect" => connOf'[PrintFor(q)] = connOf[PrintFor(q)]
      BY <1>0, <1>6, <1>b, <2>1 DEF Connect, At, Apart, InConn, TypeOK
    <3> QED
      BY <1>0, <1>a, <1>b, <3>1, <3>2, OthersKept
  <2>5. \A q, r \in Procs : Apart(q, r)'
    BY <1>0, <1>6, <2>3, ApartKept DEF Connect, Goto, TypeOK
  <2> QED
    BY <2>3, <2>4, <2>5 DEF CallerInv
<1>7. ASSUME NEW p \in Procs, ConnectFails(p) \/ JetStreamFails(p) \/ Store(p)
      PROVE  CallerInv'
  BY <1>7, <1>r DEF ConnectFails, JetStreamFails, Store
<1>8. ASSUME NEW p \in Procs, Instance(p) PROVE CallerInv'
  <2>1. Size(key[p]) \in Nat /\ at[p] \in Nat
    BY <1>0, SizeBounds DEF TypeOK
  <2>2. at[p] < Size(key[p]) /\ nc[p] = connOf[PrintFor(p)]
    BY <1>0, <1>8 DEF Instance, At, OneCaller
  <2>3. made'[p] \subseteq {connOf[PrintFor(p)]}
    BY <1>0, <1>8, <2>2 DEF Instance, TypeOK, OneCaller
  <2>4. /\ pc'[p] \in {"store", "conn"} /\ at'[p] = at[p] + 1
        /\ pc'[p] = "conn" => at[p] + 1 < Size(key[p])
    BY <1>0, <1>8, <2>1, <2>2 DEF Instance, Goto, TypeOK
  <2>5. OneCaller(p)' /\ ~InConn(p)'
    BY <1>8, <2>3, <2>4 DEF Instance, OneCaller, InKey, InConn, PrintFor, Size
  <2> QED
    BY <1>0, <1>8, <1>c, <2>5 DEF Instance, Goto, TypeOK
<1>9. ASSUME \/ StartShutdown \/ Graceful \/ TimeOut \/ UNCHANGED vars
             \/ \E k \in ProducerKeys : Closing(k)
             \/ \E c \in Conns : Drained(c) \/ GiveUp(c)
      PROVE  CallerInv'
  BY <1>9, <1>d DEF StartShutdown, Graceful, TimeOut, Closing, DrainAndClose,
                    Evict, Drained, GiveUp, vars
<1> QED
  BY <1>1, <1>2, <1>3, <1>4, <1>5, <1>6, <1>7, <1>8, <1>9 DEF Next, Proceed

\* A set of connections on one connection stays on it: what is in connCache
\* is not replaced.
LEMMA OnOneConnection ==
  ASSUME NatsInv, [Next]_vars, NEW f \in Prints, NEW cs \in SUBSET Conns,
         cs \subseteq {connOf[f]}
  PROVE  cs \subseteq {connOf'[f]}
<1>1. connOf[f] # NoConn => connOf'[f] = connOf[f]
  BY ConnKept
<1> QED
  BY <1>1, NatsAssumption

\* Every action keeps all pools on the connections of their fingerprints: it
\* leaves a pool alone, empties it, or takes what a caller has made.
LEMMA PoolStep == NatsInv /\ [Next]_vars => PoolInv'
<1> SUFFICES ASSUME NatsInv, [Next]_vars PROVE PoolInv'
  OBVIOUS
<1>0. TypeOK /\ PoolInv /\ CallerInv /\ \A k \in Keys : PrintOf[k] \in Prints
  BY NatsAssumption DEF NatsInv
<1>1. \A k \in Keys : cached[k] \subseteq {connOf'[PrintOf[k]]}
  BY <1>0, OnOneConnection DEF PoolInv, TypeOK
<1>2. \A k \in ProducerKeys : pool[k] \subseteq {connOf'[PrintOf[k]]}
  BY <1>0, NatsAssumption, OnOneConnection DEF PoolInv, TypeOK
<1>3. CASE UNCHANGED <<cached, pool>>
  BY <1>1, <1>2, <1>3 DEF PoolInv
<1>4. ASSUME NEW p \in Procs, Store(p) PROVE PoolInv'
  <2>1. key[p] \in Keys /\ made[p] \subseteq {connOf[PrintOf[key[p]]]} /\ made[p] \in SUBSET Conns
    BY <1>0 DEF TypeOK, CallerInv, OneCaller, PrintFor
  <2> QED
    BY <1>0, <1>1, <1>2, <1>4, <2>1 DEF Store, sdVars, PoolInv, TypeOK
<1>5. CASE StartShutdown
  BY <1>0, <1>1, <1>5, NatsAssumption DEF StartShutdown, PoolInv, TypeOK
<1>6. ASSUME NEW k \in ProducerKeys, Evict(k) PROVE PoolInv'
  BY <1>0, <1>1, <1>2, <1>6 DEF Evict, PoolInv, TypeOK
<1>7. ASSUME NEW p \in Procs,
             \/ \E k \in Keys : Call(p, k)
             \/ Load(p) \/ Enter(p) \/ ConnLoad(p) \/ ConnEnter(p) \/ Connect(p)
             \/ ConnectFails(p) \/ Instance(p) \/ JetStreamFails(p)
      PROVE  UNCHANGED <<cached, pool>>
  BY <1>7 DEF Call, Load, Enter, ConnLoad, ConnEnter, Connect, ConnectFails,
              Instance, JetStreamFails, sdVars
<1>8. ASSUME \/ Graceful \/ TimeOut \/ UNCHANGED vars
             \/ \E k \in ProducerKeys : DrainAndClose(k)
             \/ \E c \in Conns : Drained(c) \/ GiveUp(c)
      PROVE  UNCHANGED <<cached, pool>>
  BY <1>8 DEF Graceful, TimeOut, DrainAndClose, Drained, GiveUp, vars, sdVars
<1> QED
  BY <1>3, <1>4, <1>5, <1>6, <1>7, <1>8 DEF Next, Proceed, Closing

\* A caller whose Connect fails has no instance that newNatsPool could close.
LEMMA NothingToClose ==
  ASSUME NatsInv, NEW p \in Procs, ConnectFails(p)
  PROVE  UNCHANGED status
<1>1. made[p] = {}
  BY NatsAssumption DEF NatsInv, TypeOK, CallerInv, OneCaller, ConnectFails, At
<1> QED
  BY <1>1 DEF NatsInv, TypeOK, ConnectFails, Closed

\* What the steps other than Connect, DrainAndClose and nats.go's own do to
\* the connections: nothing.
LEMMA StatusKept ==
  ASSUME NatsInv,
         \/ \E p \in Procs : Proceed(p) /\ ~Connect(p)
         \/ \E p \in Procs, k \in Keys : Call(p, k)
         \/ StartShutdown \/ Graceful \/ TimeOut \/ UNCHANGED vars
         \/ \E k \in ProducerKeys : Evict(k)
  PROVE  UNCHANGED status
BY NothingToClose
   DEF Proceed, Call, Load, Enter, ConnLoad, ConnEnter, Instance, JetStreamFails,
       Store, StartShutdown, Graceful, TimeOut, Evict, vars

\* A connection that is no longer open does not become open again.
LEMMA EndedStaysEnded ==
  ASSUME NatsInv, [Next]_vars, NEW c \in Conns,
         status[c] \in {"draining", "closed", "gone"}
  PROVE  status'[c] \in {"draining", "closed", "gone"}
<1> USE DEF NatsInv, TypeOK
<1>1. ASSUME NEW p \in Procs, Connect(p) PROVE status'[c] = status[c]
  BY <1>1 DEF Connect
<1>2. ASSUME NEW k \in ProducerKeys, DrainAndClose(k) PROVE status'[c] = status[c]
  BY <1>2 DEF DrainAndClose
<1>3. ASSUME NEW d \in Conns, Drained(d) \/ GiveUp(d)
      PROVE  status'[c] \in {"draining", "closed", "gone"}
  BY <1>3 DEF Drained, GiveUp
<1> QED
  BY <1>1, <1>2, <1>3, StatusKept DEF Next, Closing

\* Every action keeps that no connection is closed before Shutdown.
LEMMA ClosedStep == NatsInv /\ [Next]_vars => ClosedOnlyByShutdown'
<1> SUFFICES ASSUME NatsInv, [Next]_vars, sd' = "ready", NEW c \in Conns
             PROVE  status'[c] \notin {"draining", "closed"}
  BY DEF ClosedOnlyByShutdown
<1> USE DEF NatsInv, TypeOK
<1>0. sd = "ready"
  BY DEF Next, Proceed, Closing, Call, Load, Enter, ConnLoad, ConnEnter, Connect,
         ConnectFails, Instance, JetStreamFails, Store, StartShutdown, Graceful,
         TimeOut, DrainAndClose, Evict, Drained, GiveUp, vars, sdVars
<1>1. /\ status[c] \notin {"draining", "closed"}
      /\ \A k \in ProducerKeys : closing[k] = "none"
      /\ \A d \in Conns : status[d] \notin {"draining", "closed"}
  BY <1>0 DEF ClosedOnlyByShutdown, DrainInv
<1>2. ASSUME NEW p \in Procs, Connect(p) PROVE status'[c] \notin {"draining", "closed"}
  BY <1>1, <1>2 DEF Connect
<1>3. ASSUME NEW k \in ProducerKeys, DrainAndClose(k) PROVE FALSE
  BY <1>1, <1>3 DEF DrainAndClose
<1>4. ASSUME NEW d \in Conns, Drained(d) \/ GiveUp(d)
      PROVE  status'[c] \notin {"draining", "closed"}
  BY <1>1, <1>4 DEF Drained, GiveUp
<1> QED
  BY <1>1, <1>2, <1>3, <1>4, StatusKept DEF Next, Closing

\* The connection of a fingerprint that Shutdown met has ended, or a closing
\* goroutine is about to drain it.
Attended(f) ==
  /\ connOf[f] # NoConn
  /\ \/ status[connOf[f]] \in {"draining", "closed", "gone"}
     \/ \E k \in ProducerKeys :
          closing[k] = "drain" /\ PrintOf[k] = f /\ pool[k] = {connOf[f]}

\* As long as no closing goroutine moves, a fingerprint stays attended to.
LEMMA StaysAttended ==
  ASSUME NatsInv, [Next]_vars, NEW f \in Prints, Attended(f),
         UNCHANGED <<closing, pool>>
  PROVE  Attended(f)'
<1>1. connOf'[f] = connOf[f] /\ connOf[f] \in Conns
  BY ConnKept DEF Attended, NatsInv, TypeOK
<1> QED
  BY <1>1, EndedStaysEnded DEF Attended

\* Every action keeps the closing goroutines at what is left to drain.
LEMMA DrainStep == NatsInv /\ [Next]_vars => DrainInv'
<1> SUFFICES ASSUME NatsInv, [Next]_vars PROVE DrainInv'
  OBVIOUS
<1>0. /\ TypeOK /\ PoolInv /\ DrainInv
      /\ \A f \in printsAtCall : f \in Prints /\ Attended(f)
  BY DEF NatsInv, TypeOK, DrainInv, Attended
<1>1. CASE UNCHANGED sdVars
  <2>1. \A f \in printsAtCall : Attended(f)'
    BY <1>0, <1>1, StaysAttended DEF sdVars
  <2> QED
    BY <1>0, <1>1, <2>1 DEF DrainInv, Attended, sdVars
<1>2. CASE StartShutdown
  <2>1. ASSUME NEW k \in ProducerKeys, cached[k] # {}
        PROVE  Attended(PrintOf[k])'
    <3>1. PICK c \in Conns : cached[k] = {c} /\ c = connOf[PrintOf[k]]
      BY <1>0, <2>1, NatsAssumption DEF PoolInv, TypeOK
    <3>2. connOf'[PrintOf[k]] = c /\ c # NoConn
      BY <1>2, <3>1, NatsAssumption DEF StartShutdown
    <3>3. pool'[k] = {c} /\ closing'[k] = "drain"
      BY <1>2, <2>1, <3>1 DEF StartShutdown
    <3> QED
      BY <3>2, <3>3 DEF Attended
  <2>2. \A f \in printsAtCall' : Attended(f)'
    BY <1>2, <2>1 DEF StartShutdown
  <2> QED
    BY <1>2, <2>2 DEF StartShutdown, DrainInv, Attended
<1>3. ASSUME NEW k \in ProducerKeys, DrainAndClose(k) PROVE DrainInv'
  <2>1. ASSUME NEW f \in printsAtCall PROVE Attended(f)'
    <3>1. connOf'[f] = connOf[f] /\ connOf[f] \in Conns
      BY <1>0, <1>3 DEF DrainAndClose, Attended, TypeOK
    <3>2. CASE status[connOf[f]] \in {"draining", "closed", "gone"}
      BY <3>1, <3>2, EndedStaysEnded, NatsAssumption DEF Attended
    <3>3. ASSUME NEW j \in ProducerKeys, j # k, closing[j] = "drain",
                 PrintOf[j] = f, pool[j] = {connOf[f]}
          PROVE  Attended(f)'
      BY <1>0, <1>3, <3>1, <3>3 DEF DrainAndClose, ClosingStep, TypeOK, Attended
    <3>4. CASE pool[k] = {connOf[f]}
      <4>1. status[connOf[f]] # "none"
        BY <1>0, <3>1 DEF NatsInv, ConnInv, Attended
      <4>2. status'[connOf[f]] \in {"draining", "closed", "gone"}
        BY <1>0, <1>3, <3>1, <3>4, <4>1 DEF DrainAndClose, TypeOK, Statuses
      <4> QED
        BY <3>1, <4>2, NatsAssumption DEF Attended
    <3> QED
      BY <1>0, <3>2, <3>3, <3>4 DEF Attended
  <2>2. sd # "ready" /\ sd # "graceful"
    BY <1>0, <1>3 DEF DrainAndClose, DrainInv
  <2> QED
    BY <1>3, <2>1, <2>2 DEF DrainAndClose, DrainInv, Attended
<1>4. ASSUME NEW k \in ProducerKeys, Evict(k) PROVE DrainInv'
  <2>1. \A f \in printsAtCall : Attended(f)'
    <3>1. \A j \in ProducerKeys : closing[j] = "drain" => closing'[j] = "drain"
      BY <1>0, <1>4 DEF Evict, ClosingStep, TypeOK
    <3> QED
      BY <1>0, <1>4, <3>1 DEF Evict, Attended
  <2>2. sd # "ready" /\ sd # "graceful"
    BY <1>0, <1>4 DEF Evict, DrainInv
  <2> QED
    BY <1>4, <2>1, <2>2 DEF Evict, DrainInv, Attended
<1>5. CASE Graceful \/ TimeOut
  <2>1. \A f \in printsAtCall : Attended(f)'
    BY <1>0, <1>5, StaysAttended DEF Graceful, TimeOut
  <2> QED
    BY <1>5, <2>1 DEF Graceful, TimeOut, DrainInv, Attended
<1>6. ASSUME NEW p \in Procs, Proceed(p) \/ \E k \in Keys : Call(p, k)
      PROVE  UNCHANGED sdVars
  BY <1>6 DEF Proceed, Call, Load, Enter, ConnLoad, ConnEnter, Connect,
              ConnectFails, Instance, JetStreamFails, Store
<1>7. ASSUME UNCHANGED vars \/ \E c \in Conns : Drained(c) \/ GiveUp(c)
      PROVE  UNCHANGED sdVars
  BY <1>7 DEF Drained, GiveUp, vars
<1> QED
  BY <1>1, <1>2, <1>3, <1>4, <1>5, <1>6, <1>7 DEF Next, Closing

-----------------------------------------------------------------------------
\* The inductive invariant of the NATS registry holds in every reachable state.
THEOREM NatsInvariance == Spec => []NatsInv
<1>1. NatsInv /\ [Next]_vars => NatsInv'
  BY NatsTypeStep, ConnKept, CallerStep, PoolStep, DrainStep, ClosedStep DEF NatsInv
<1> QED
  BY <1>1, NatsInit, PTL DEF Spec

\* getOrCreateConn makes one connection for each fingerprint in the life of the
\* process, and all cached pools and consumers are on it.
THEOREM OneConnection == Spec => []SharesOneConn
<1>1. NatsInv => SharesOneConn
  BY DEF NatsInv, ConnInv, PoolInv, SharesOneConn
<1> QED
  BY <1>1, NatsInvariance, PTL

\* No failure in newNatsPool closes a connection that is in use elsewhere.
THEOREM OnlyShutdownCloses == Spec => []ClosedOnlyByShutdown
<1>1. NatsInv => ClosedOnlyByShutdown
  BY DEF NatsInv
<1> QED
  BY <1>1, NatsInvariance, PTL

\* After a graceful Shutdown no fingerprint it met has an open connection.
THEOREM GracefulMeansDrained == Spec => []GracefulDrains
<1>1. NatsInv => GracefulDrains
  BY DEF NatsInv, DrainInv, GracefulDrains
<1> QED
  BY <1>1, NatsInvariance, PTL
=============================================================================
