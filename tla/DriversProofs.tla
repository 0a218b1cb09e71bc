----------------------------- MODULE DriversProofs -----------------------------
(***************************************************************************)
(* The five registries of Drivers, for any number of callers, clients and  *)
(* config contents. A client passes through three hands: its creator's,    *)
(* the cache's and a closing goroutine's. DriversInv says that no two have *)
(* it at once, and what its status is with each.                           *)
(***************************************************************************)
EXTENDS Drivers, SequenceTheorems, TLAPS

Modes    == {"single", "cluster"}
ModeFields == Modes \cup {""}
Labels   == {"idle", "reload", "mode", "key", "load", "enter", "steps"}
Statuses == {"unstarted", "open", "stopping", "closed"}

Keys == [role : {"producer", "consumer", "client"}, via : {"path", "config", "any"},
         mode : Modes \cup {"any"}, content : Contents, print : ModeFields]

Clients == [key : Keys, declared : BOOLEAN, status : Statuses]

Locals == [pc : Labels, call : Wrapper \cup {NoCall}, obj : Contents,
           key : Keys \cup {NoCall}, val : Nat, at : Nat, decl : Nat,
           stale : BOOLEAN]

\* What the variables range over.
TypesInv ==
  /\ driver \in DriverNames
  /\ snapshot \in Contents /\ mixed \subseteq Contents
  /\ modeOf \in [Contents -> ModeFields]
  /\ local \in [Procs -> Locals]
  /\ clients \in Seq(Clients) /\ Len(clients) <= MaxClients
  /\ cached \subseteq Ids /\ handled \subseteq Ids /\ cachedAtCall \subseteq Ids
  /\ sd \in {"ready", "running", "graceful", "timedOut"}
  /\ closing \in [1..MaxClients -> {"none", "close", "await", "evict", "done"}]

\* A Shutdown has deleted key k and its mutex.
Deleted(k) == \E d \in Ids : clients[d].key = k /\ closing[d] = "done"

\* The client a caller has made but not stored is its own, and as its next
\* step needs it.
Owns(p) ==
  /\ local[p].val \in Ids
  /\ clients[local[p].val].key = local[p].key
  /\ clients[local[p].val].status =
       IF Steps(local[p].call)[local[p].at] = "start" THEN "unstarted" ELSE "open"
  /\ local[p].val \notin cached \cup cachedAtCall
  /\ \A q \in Procs \ {p} : local[q].val # local[p].val

\* Inside with a key that no Shutdown deleted, a caller is alone with it and
\* the cache has nothing for it.
Excludes(p) ==
  \/ Deleted(local[p].key)
  \/ /\ ~local[p].stale
     /\ CachedFor(local[p].key) = {}
     /\ \A q \in Procs \ {p} : Inside(q) => local[q].key # local[p].key

\* What a caller has declared so far is there.
Declared(p) ==
  /\ local[p].decl \in 0..Len(Wanted(p))
  /\ \A i \in 1..local[p].decl :
       Wanted(p)[i].kind = "channel" \/ Wanted(p)[i] \in broker

\* A caller, wherever it is.
CallerOK(p) ==
  /\ local[p].val \in Ids \cup {NoClient}
  /\ local[p].pc \notin {"idle", "reload"} => local[p].call \in Wrapper
  /\ local[p].pc \in {"load", "enter", "steps"} =>
       local[p].key \in Keys /\ local[p].key.content = local[p].obj
  /\ local[p].pc \notin {"idle", "steps"} => local[p].val = NoClient
  /\ local[p].pc # "steps" => local[p].decl = 0 /\ ~local[p].stale
  /\ Inside(p) =>
       /\ local[p].at \in 1..Len(Steps(local[p].call))
       /\ IF local[p].at = 1 THEN local[p].val = NoClient ELSE Owns(p)
       /\ Excludes(p) /\ Declared(p)

CallersInv == \A p \in Procs : CallerOK(p)

\* A client cached when Shutdown was called, by how far its closing goroutine is.
AtCallOK(c) ==
  /\ (closing[c] = "none") <=> clients[c].key.role \notin Scanned
  /\ closing[c] \in {"none", "close"} => clients[c].status = "open"
  /\ closing[c] = "await" => clients[c].status \in {"stopping", "closed"}
  /\ closing[c] \in {"evict", "done"} => clients[c].status = "closed"

ShutdownInv ==
  /\ sd = "ready" => cachedAtCall = {}
  /\ \A c \in 1..MaxClients : closing[c] # "none" => c \in cachedAtCall
  /\ \A c \in cachedAtCall : AtCallOK(c)
  /\ \A c \in cached \ cachedAtCall : clients[c].status = "open"
  /\ sd = "graceful" => \A c \in cachedAtCall : closing[c] \in {"none", "done"}

\* A shared Config has the mode of who is about to take its fingerprint, unless
\* it was given both.
ModeInv ==
  /\ \A p \in Procs : At(p, "key") /\ local[p].call.via = "path" =>
       modeOf[local[p].obj] = local[p].call.mode \/ local[p].obj \in mixed
  /\ OwnMode

BrokerInv == DeadLettersKept /\ DeclaredIsInPlace

DriversInv == /\ TypesInv /\ CallersInv /\ ShutdownInv
              /\ ModeInv /\ BrokerInv /\ NothingIsLost
-----------------------------------------------------------------------------
\* A client is made first and stored last; only the second step may be Start
\* or Connect.
WellFormed(s) ==
  /\ Len(s) \in Nat /\ Len(s) > 1
  /\ \A i \in 1..Len(s) :
       /\ s[i] \in {"make", "new"} <=> i = 1
       /\ s[i] = "store" <=> i = Len(s)
       /\ s[i] = "start" => i = 2

\* The eleven functions are of this form.
LEMMA StepsForm ==
  ASSUME NEW d \in {"redis", "nsq", "rocketmq", "mqtt", "rabbitmq"}, NEW w \in Wrapper
  PROVE  WellFormed(StepsOf(d, w))
<1>1. WellFormed(<<"make", "store">>)
  BY DEF WellFormed
<1>2. \A a \in {"make", "new"}, b \in {"verify", "start", "declare"} :
        WellFormed(<<a, b, "store">>)
  BY DEF WellFormed
<1>3. WellFormed(<<"make", "declare", "verify", "store">>)
  BY DEF WellFormed
<1>4. w.role \in {"producer", "consumer"} /\ w.mode \in {"single", "cluster"}
  BY DEF Wrapper
<1>5. CASE d = "redis"
  BY <1>2, <1>4, <1>5 DEF StepsOf, redisSingleProducer, redisClusterProducer,
    redisSingleConsumer, redisClusterConsumer
<1>6. CASE d = "nsq"
  BY <1>1, <1>2, <1>4, <1>6 DEF StepsOf, nsqConsumer, nsqProducer
<1>7. CASE d = "rocketmq"
  BY <1>1, <1>2, <1>4, <1>7 DEF StepsOf, rocketProducer, rocketConsumer
<1>8. CASE d = "mqtt"
  BY <1>2, <1>8 DEF StepsOf, mqttClient
<1>9. CASE d = "rabbitmq"
  BY <1>2, <1>3, <1>4, <1>9 DEF StepsOf, rabbitProducer, rabbitConsumer
<1> QED BY <1>5, <1>6, <1>7, <1>8, <1>9

\* A key has the content and the mode it is made of.
LEMMA KeyForm ==
  ASSUME NEW w \in Wrapper, NEW o \in Contents, NEW m \in ModeFields
  PROVE  /\ KeyFor(w, o, m) \in Keys
         /\ KeyFor(w, o, m).content = o /\ KeyFor(w, o, m).print = m
BY DEF KeyFor, Wrapper, Keys, Modes

LEMMA SectionOf ==
  ASSUME NEW o \in Contents
  PROVE  Sections[o] \in SectionType
<1>1. Sections \in Seq(SectionType)
  BY SectionsAssumption DEF SectionsAssumption
<1>2. o \in DOMAIN Sections
  BY DriversAssumption DEF DriversAssumption
<1> QED BY <1>1, <1>2

\* Declarations in which a queue with dead letters comes after the binding of
\* the queue that takes them.
Declaration == [kind : {"exchange", "queue", "binding", "channel"},
                name : {"main", "dlx", "dlq", "qos", "confirm"},
                arg : {"none", "main", "dlx"}]

BoundBefore(D) ==
  /\ D \in Seq(Declaration)
  /\ \A i \in 1..Len(D) : D[i].kind = "queue" /\ D[i].arg # "none" =>
       \E j \in 1..(i - 1) : D[j].kind = "binding" /\ D[j].arg = D[i].arg

LEMMA BoundBeforeAppend ==
  ASSUME NEW D, BoundBefore(D), NEW e \in Declaration, NEW c \in BOOLEAN,
         c /\ e.kind = "queue" /\ e.arg # "none" =>
           \E j \in 1..Len(D) : D[j].kind = "binding" /\ D[j].arg = e.arg
  PROVE  BoundBefore(D \o If(c, <<e>>))
<1>1. CASE ~c
  <2>1. D \o <<>> = D
    BY DEF BoundBefore
  <2> QED BY <1>1, <2>1 DEF If
<1>2. CASE c
  <2> DEFINE E == D \o <<e>>
  <2>1. /\ E \in Seq(Declaration) /\ Len(E) = Len(D) + 1 /\ Len(D) \in Nat
        /\ E[Len(D) + 1] = e /\ \A i \in 1..Len(D) : E[i] = D[i]
    BY DEF BoundBefore
  <2> HIDE DEF E
  <2>2. ASSUME NEW i \in 1..Len(E), E[i].kind = "queue", E[i].arg # "none"
        PROVE  \E j \in 1..(i - 1) : E[j].kind = "binding" /\ E[j].arg = E[i].arg
    <3>1. CASE i = Len(D) + 1
      BY <1>2, <2>1, <2>2, <3>1
    <3>2. CASE i \in 1..Len(D)
      <4>1. PICK j \in 1..(i - 1) : D[j].kind = "binding" /\ D[j].arg = D[i].arg
        BY <2>1, <2>2, <3>2 DEF BoundBefore
      <4>2. j \in 1..Len(D)
        BY <2>1, <3>2
      <4> QED BY <2>1, <3>2, <4>1, <4>2
    <3> QED BY <2>1, <3>1, <3>2
  <2>3. BoundBefore(E)
    BY <2>1, <2>2 DEF BoundBefore
  <2> QED BY <1>2, <2>3 DEF E, If
<1> QED BY <1>1, <1>2

\* The declarations of a section are such.
LEMMA DeclarationsForm ==
  ASSUME NEW s \in SectionType
  PROVE  BoundBefore(Declarations(s))
<1> DEFINE A == If(s.dlq, <<Exchange("dlx"), Queue("dlq", "none"), Binding("dlq", "dlx")>>)
           B == A \o If(s.exchange, <<Exchange("main")>>)
           q == Queue("main", IF s.dlq THEN "dlx" ELSE "none")
           C == B \o If(s.queue, <<q>>)
           D == C \o If(s.queue /\ s.exchange, <<Binding("main", "main")>>)
           E == D \o If(s.prefetch, <<OnChannel("qos")>>)
           F == E \o If(s.confirm, <<OnChannel("confirm")>>)
<1>1. /\ s.present \in BOOLEAN /\ s.dlq \in BOOLEAN /\ s.exchange \in BOOLEAN
      /\ s.queue \in BOOLEAN /\ s.prefetch \in BOOLEAN /\ s.confirm \in BOOLEAN
      /\ (s.queue /\ s.exchange) \in BOOLEAN
  BY DEF SectionType
<1>2. \A e \in {Exchange("main"), Binding("main", "main"), OnChannel("qos"),
                OnChannel("confirm")} : e \in Declaration /\ e.kind # "queue"
  BY DEF Declaration, Exchange, Binding, OnChannel
<1>3. /\ q \in Declaration
      /\ q.kind = "queue" /\ q.arg # "none" => s.dlq /\ q.arg = "dlx"
  BY <1>1 DEF Declaration, Queue
<1>4. /\ A \in Seq(Declaration) /\ Len(A) \in Nat
      /\ \A i \in 1..Len(A) : A[i].kind = "queue" => A[i].arg = "none"
      /\ s.dlq => Len(A) = 3 /\ A[3].kind = "binding" /\ A[3].arg = "dlx"
  <2>1. CASE s.dlq
    <3>1. A = <<Exchange("dlx"), Queue("dlq", "none"), Binding("dlq", "dlx")>>
      BY <2>1 DEF If
    <3>2. \A e \in {Exchange("dlx"), Queue("dlq", "none"), Binding("dlq", "dlx")} :
            e \in Declaration /\ (e.kind = "queue" => e.arg = "none")
      BY DEF Declaration, Exchange, Queue, Binding
    <3>3. /\ Binding("dlq", "dlx").kind = "binding"
          /\ Binding("dlq", "dlx").arg = "dlx"
      BY DEF Binding
    <3> HIDE DEF A
    <3> QED BY <3>1, <3>2, <3>3
  <2>2. CASE ~s.dlq
    BY <2>2 DEF If
  <2> QED BY <1>1, <2>1, <2>2
<1> HIDE DEF A, q
<1>5. BoundBefore(A)
  BY <1>4 DEF BoundBefore
<1>6. BoundBefore(B)
  BY <1>1, <1>2, <1>5, BoundBeforeAppend
<1>7. s.dlq => 3 \in 1..Len(B) /\ B[3].kind = "binding" /\ B[3].arg = "dlx"
  <2>1. CASE s.exchange
    <3>1. B = A \o <<Exchange("main")>>
      BY <2>1 DEF If
    <3> HIDE DEF B
    <3>2. Exchange("main") \in Declaration
      BY <1>2
    <3> QED BY <1>4, <3>1, <3>2
  <2>2. CASE ~s.exchange
    <3>1. B = A
      BY <1>4, <2>2 DEF If
    <3>2. s.dlq => Len(A) = 3 /\ A[3].kind = "binding" /\ A[3].arg = "dlx"
      BY <1>4
    <3>3. s.dlq => 3 \in 1..Len(A)
      <4>1. Len(A) \in Nat
        BY <1>4
      <4> QED BY <3>2, <4>1
    <3> QED BY <3>1, <3>2, <3>3
  <2> HIDE DEF B
  <2> QED BY <2>1, <2>2
<1> HIDE DEF B
<1>8. BoundBefore(C)
  <2>1. s.queue /\ q.kind = "queue" /\ q.arg # "none" =>
          \E j \in 1..Len(B) : B[j].kind = "binding" /\ B[j].arg = q.arg
    BY <1>3, <1>7
  <2> QED BY <1>1, <1>3, <1>6, <2>1, BoundBeforeAppend
<1> HIDE DEF C
<1>9. BoundBefore(D)
  BY <1>1, <1>2, <1>8, BoundBeforeAppend
<1> HIDE DEF D
<1>10. BoundBefore(E)
  BY <1>1, <1>2, <1>9, BoundBeforeAppend
<1> HIDE DEF E
<1>11. BoundBefore(F)
  BY <1>1, <1>2, <1>10, BoundBeforeAppend
<1>12. BoundBefore(<<>>)
  BY DEF BoundBefore
<1>13. Declarations(s) = IF ~s.present THEN <<>> ELSE F
  BY DEF Declarations, A, B, q, C, D, E
<1> QED BY <1>11, <1>12, <1>13
-----------------------------------------------------------------------------
\* The steps of the call p is in.
LEMMA StepsOfCaller ==
  ASSUME TypesInv, NEW p \in Procs, CallerOK(p), local[p].pc \notin {"idle", "reload"}
  PROVE  WellFormed(Steps(local[p].call))
<1>1. driver \in {"redis", "nsq", "rocketmq", "mqtt", "rabbitmq"}
  BY DriversAssumption DEF DriversAssumption, TypesInv
<1> QED BY <1>1, StepsForm DEF CallerOK, Steps

\* Every step of p's that stays in its call leaves it one more step to take.
LEMMA NotLast ==
  ASSUME TypesInv, NEW p \in Procs, CallerOK(p), Inside(p), ~Doing(p, "store")
  PROVE  /\ local[p].at \in 1..(Len(Steps(local[p].call)) - 1)
         /\ \A c : Advance(p, c) =>
              local' = [local EXCEPT ![p].at = @ + 1, ![p].val = c, ![p].decl = 0]
<1>1. /\ Len(Steps(local[p].call)) \in Nat
      /\ local[p].at \in 1..Len(Steps(local[p].call))
      /\ local[p].at # Len(Steps(local[p].call))
  BY StepsOfCaller DEF WellFormed, CallerOK, Doing, Inside, At
<1>2. local[p].at \in 1..(Len(Steps(local[p].call)) - 1)
  BY <1>1
<1> QED BY <1>1, <1>2 DEF Advance

\* Store is the last.
LEMMA LastReturns ==
  ASSUME TypesInv, NEW p \in Procs, CallerOK(p), Doing(p, "store")
  PROVE  /\ local[p].at = Len(Steps(local[p].call)) /\ local[p].at > 1
         /\ \A c : Advance(p, c) => Return(p, c)
BY StepsOfCaller DEF WellFormed, CallerOK, Doing, Inside, At, Advance

\* What has been made, p holds.
LEMMA HasMade ==
  ASSUME TypesInv, NEW p \in Procs, CallerOK(p), Inside(p),
         ~Doing(p, "make") /\ ~Doing(p, "new")
  PROVE  local[p].at > 1 /\ Owns(p) /\ local[p].val \in Ids
BY StepsOfCaller DEF WellFormed, CallerOK, Doing, Inside, At, Owns

LEMMA NothingMade ==
  ASSUME TypesInv, NEW p \in Procs, CallerOK(p), Doing(p, "make") \/ Doing(p, "new")
  PROVE  local[p].at = 1 /\ local[p].val = NoClient
BY StepsOfCaller DEF WellFormed, CallerOK, Doing, Inside, At

-----------------------------------------------------------------------------

LEMMA ContentsStart == 1 \in Contents /\ Contents \subseteq Nat
<1>1. FileModes \in Seq({"", "single", "cluster"}) /\ FileModes # <<>>
  BY DriversAssumption DEF DriversAssumption
<1>2. Len(FileModes) \in Nat /\ Len(FileModes) # 0
  BY <1>1, EmptySeq
<1> QED BY <1>2 DEF Contents

\* What the actions leave in local[p].
LEMMA LocalTypes ==
  ASSUME local \in [Procs -> Locals], NEW p \in Procs
  PROVE  /\ \A l \in Labels, w \in Wrapper \cup {NoCall}, o \in Contents :
              Begin(p, l, w, o) => local' \in [Procs -> Locals]
         /\ \A l \in Labels : Goto(p, l) => local' \in [Procs -> Locals]
         /\ \A c \in Nat : Return(p, c) => local' \in [Procs -> Locals]
         /\ \A c \in Nat : Advance(p, c) => local' \in [Procs -> Locals]
<1>0. 1 \in Contents
  BY ContentsStart
<1>1. Idle \in Locals
  BY <1>0 DEF Idle, Locals, Labels, NoCall, NoClient
<1>2. ASSUME NEW r \in Locals, local' = [local EXCEPT ![p] = r]
      PROVE  local' \in [Procs -> Locals]
  BY <1>2
<1>3. \A l \in Labels, w \in Wrapper \cup {NoCall}, o \in Contents :
        [Idle EXCEPT !.pc = l, !.call = w, !.obj = o] \in Locals
  BY <1>1 DEF Locals
<1>4. \A l \in Labels : [local[p] EXCEPT !.pc = l] \in Locals
  BY DEF Locals
<1>5. \A c \in Nat : [Idle EXCEPT !.val = c] \in Locals
  BY <1>1 DEF Locals
<1>6. \A c \in Nat : [local[p] EXCEPT !.at = @ + 1, !.val = c, !.decl = 0] \in Locals
  <2>1. local[p] \in Locals /\ local[p].at + 1 \in Nat
    BY DEF Locals
  <2>2. \A n \in Nat, c \in Nat :
          [local[p] EXCEPT !.at = n, !.val = c, !.decl = 0] \in Locals
    BY <2>1 DEF Locals
  <2> QED BY <2>1, <2>2
<1>7. \A l \in Labels, w \in Wrapper \cup {NoCall}, o \in Contents :
        Begin(p, l, w, o) => local' \in [Procs -> Locals]
  BY <1>2, <1>3 DEF Begin
<1>8. \A l \in Labels : Goto(p, l) => local' \in [Procs -> Locals]
  BY <1>2, <1>4 DEF Goto
<1>9. \A c \in Nat : Return(p, c) => local' \in [Procs -> Locals]
  BY <1>2, <1>5 DEF Return
<1>10. \A c \in Nat : Advance(p, c) => local' \in [Procs -> Locals]
  BY <1>2, <1>6, <1>9 DEF Advance
<1> QED BY <1>7, <1>8, <1>9, <1>10

LEMMA StatusTypes ==
  ASSUME clients \in Seq(Clients), NEW c \in Ids, NEW s \in Statuses, SetStatus(c, s)
  PROVE  clients' \in Seq(Clients) /\ Len(clients') = Len(clients)
<1>1. c \in 1..Len(clients) /\ clients[c] \in Clients
  BY ElementOfSeq DEF Ids
<1>2. [clients[c] EXCEPT !.status = s] \in Clients
  BY <1>1 DEF Clients
<1> QED BY <1>1, <1>2, ExceptSeq DEF SetStatus

LEMMA TypesStep ==
  ASSUME TypesInv, CallersInv, ShutdownInv, [Next]_vars
  PROVE  TypesInv'
<1>0. /\ MaxClients \in Nat /\ Wrappers \subseteq Wrapper
      /\ Contents \subseteq Nat /\ 1 \in Contents
      /\ Ids \subseteq Nat /\ Ids \subseteq 1..MaxClients /\ Len(clients) \in Nat
  <2>1. MaxClients \in Nat /\ Wrappers \subseteq Wrapper
    BY DriversAssumption DEF DriversAssumption
  <2>2. clients \in Seq(Clients) /\ Len(clients) <= MaxClients
    BY DEF TypesInv
  <2>3. Len(clients) \in Nat
    BY <2>2, LenProperties
  <2> QED BY <2>1, <2>2, <2>3, ContentsStart DEF Ids
<1>a. /\ local \in [Procs -> Locals] /\ clients \in Seq(Clients)
      /\ \A p \in Procs : /\ local[p] \in Locals /\ local[p].val \in Nat
                          /\ local[p].val \in Ids \cup {NoClient}
  BY DEF TypesInv, Locals, CallersInv, CallerOK
<1>1. ASSUME NEW p \in Procs, NEW w \in Wrappers, Call(p, w)
      PROVE  TypesInv'
  <2>1. local' \in [Procs -> Locals]
    BY <1>0, <1>1, <1>a, LocalTypes DEF Call, Labels, TypesInv
  <2> QED BY <1>1, <2>1 DEF Call, TypesInv, cfgVars, sdVars, Ids
<1>2. ASSUME NEW p \in Procs, Reload(p)
      PROVE  TypesInv'
  <2>1. local' \in [Procs -> Locals]
    BY <1>0, <1>2, <1>a, LocalTypes DEF Reload, Labels
  <2> QED BY <1>2, <2>1 DEF Reload, TypesInv, sdVars, Ids
<1>3. ASSUME NEW p \in Procs, ReloadTarget(p)
      PROVE  TypesInv'
  <2>1. Reloaded(modeOf[local[p].obj]) \in Modes
    BY DriversAssumption DEF DriversAssumption, Reloaded, Modes, redisReload,
      nsqReload, rocketReload, mqttReload, rabbitReload, TypesInv
  <2>2. [role |-> "producer", via |-> "path", mode |-> Reloaded(modeOf[local[p].obj])]
          \in Wrapper
    BY <2>1 DEF Wrapper, Modes
  <2>3. \A l \in Labels, w \in Wrapper :
          [local[p] EXCEPT !.pc = l, !.call = w] \in Locals
    BY <1>a DEF Locals
  <2>4. local' \in [Procs -> Locals]
    BY <1>3, <1>a, <2>2, <2>3 DEF ReloadTarget, Labels
  <2> QED BY <1>3, <2>4 DEF ReloadTarget, TypesInv, cfgVars, sdVars, Ids
<1>4. ASSUME NEW p \in Procs, SetMode(p)
      PROVE  TypesInv'
  <2>1. local[p].call.mode \in Modes /\ local[p].obj \in Contents
    BY <1>4, <1>a DEF SetMode, At, CallersInv, CallerOK, Locals, Wrapper, Modes
  <2>2. local' \in [Procs -> Locals]
    BY <1>4, <1>a, LocalTypes DEF SetMode, Labels
  <2>3. modeOf' \in [Contents -> ModeFields] /\ mixed' \subseteq Contents
    BY <1>4, <2>1 DEF SetMode, TypesInv, ModeFields
  <2> QED BY <1>4, <2>2, <2>3 DEF SetMode, TypesInv, sdVars, Ids
<1>5. ASSUME NEW p \in Procs, MakeKey(p)
      PROVE  TypesInv'
  <2>1. /\ local[p].call \in Wrapper /\ local[p].obj \in Contents
        /\ PrintedMode(p) \in ModeFields
    BY <1>5, <1>a DEF MakeKey, At, CallersInv, CallerOK, Locals, PrintedMode, Wrapper,
      Modes, ModeFields, TypesInv
  <2>2. KeyFor(local[p].call, local[p].obj, PrintedMode(p)) \in Keys
    BY <2>1, KeyForm
  <2>3. \A k \in Keys : [local[p] EXCEPT !.pc = "load", !.key = k] \in Locals
    BY <1>a DEF Locals, Labels
  <2>4. local' \in [Procs -> Locals]
    BY <1>5, <1>a, <2>2, <2>3 DEF MakeKey
  <2> QED BY <1>5, <2>4 DEF MakeKey, TypesInv, cfgVars, sdVars, Ids
<1>6. ASSUME NEW p \in Procs, ReturnCached(p)
      PROVE  local' \in [Procs -> Locals]
  BY <1>0, <1>6, <1>a, LocalTypes DEF ReturnCached, CachedFor, TypesInv
<1>7. ASSUME NEW p \in Procs, Fail(p)
      PROVE  local' \in [Procs -> Locals]
  BY <1>7, <1>a, LocalTypes DEF Fail, NoClient
<1>8. ASSUME NEW p \in Procs, Advance(p, local[p].val)
      PROVE  local' \in [Procs -> Locals]
  BY <1>8, <1>a, LocalTypes
<1>9. ASSUME NEW p \in Procs, Load(p)
      PROVE  TypesInv'
  <2>1. local' \in [Procs -> Locals]
    BY <1>6, <1>9, <1>a, LocalTypes DEF Load, Labels, NoClient
  <2> QED BY <1>9, <2>1 DEF Load, TypesInv, cfgVars, sdVars, Ids
<1>10. ASSUME NEW p \in Procs, Enter(p)
       PROVE  TypesInv'
  <2>1. [local[p] EXCEPT !.pc = "steps", !.at = 1] \in Locals
    BY <1>a DEF Locals, Labels
  <2>2. local' \in [Procs -> Locals]
    BY <1>6, <1>10, <1>a, <2>1 DEF Enter
  <2> QED BY <1>10, <2>2 DEF Enter, TypesInv, cfgVars, sdVars, Ids
<1>11. ASSUME NEW p \in Procs, Make(p)
       PROVE  TypesInv'
  <2>1. local' \in [Procs -> Locals]
    BY <1>0, <1>11, <1>a, LocalTypes DEF Make
  <2>2. local[p].key \in Keys
    BY <1>11 DEF Make, Doing, Inside, At, CallersInv, CallerOK
  <2>3. clients' \in Seq(Clients) /\ Len(clients') = Len(clients) + 1
    BY <1>11, <1>a, <2>2 DEF Make, Clients, Statuses
  <2>4. Len(clients') <= MaxClients /\ Ids \subseteq Ids'
    BY <1>0, <1>11, <2>3 DEF Make, Ids
  <2> QED BY <1>11, <2>1, <2>3, <2>4 DEF Make, TypesInv, cfgVars, sdVars
<1>12. ASSUME NEW p \in Procs,
              \/ MakeFails(p) \/ Verify(p) \/ StartFails(p) \/ Store(p) \/ DeclareFails(p)
       PROVE  TypesInv'
  <2>1. local' \in [Procs -> Locals]
    BY <1>7, <1>8, <1>12 DEF MakeFails, Verify, StartFails, Store, DeclareFails
  <2>2. UNCHANGED <<cfgVars, clients, handled, sdVars>>
    BY <1>12 DEF MakeFails, Verify, StartFails, Store, DeclareFails
  <2>3. cached' \subseteq Ids
    <3>1. CASE Store(p)
      <4>1. local[p].val \in Ids
        BY <3>1, LastReturns DEF Store, Doing, CallersInv, CallerOK, Owns, Inside, At
      <4> QED BY <3>1, <4>1 DEF Store, TypesInv
    <3>2. CASE cached' = cached
      BY <3>2 DEF TypesInv
    <3> QED BY <1>12, <3>1, <3>2 DEF MakeFails, Verify, StartFails, DeclareFails
  <2> QED BY <2>1, <2>2, <2>3 DEF TypesInv, cfgVars, sdVars, Ids

<1>13. ASSUME NEW p \in Procs, VerifyFails(p) \/ Start(p)
       PROVE  TypesInv'
  <2>1. local' \in [Procs -> Locals]
    BY <1>7, <1>8, <1>13 DEF VerifyFails, Start
  <2>2. local[p].val \in Ids
    BY <1>13, HasMade DEF VerifyFails, Start, CallersInv, Doing
  <2>3. clients' \in Seq(Clients) /\ Len(clients') = Len(clients)
    BY <1>13, <1>a, <2>2, StatusTypes DEF VerifyFails, Start, Statuses
  <2>4. UNCHANGED <<cfgVars, cached, handled, sdVars>>
    BY <1>13 DEF VerifyFails, Start
  <2> QED BY <2>1, <2>3, <2>4 DEF TypesInv, cfgVars, sdVars, Ids
<1>14. ASSUME NEW p \in Procs, DeclareNext(p)
       PROVE  TypesInv'
  <2>1. local[p].decl + 1 \in Nat
    BY <1>a DEF Locals
  <2>2. \A n \in Nat : [local[p] EXCEPT !.decl = n] \in Locals
    BY <1>a DEF Locals
  <2>3. local' \in [Procs -> Locals]
    BY <1>14, <1>a, <2>1, <2>2 DEF DeclareNext
  <2> QED BY <1>14, <2>3 DEF DeclareNext, TypesInv, cfgVars, sdVars, Ids
<1>15. ASSUME NEW p \in Procs, DeclaredAll(p)
       PROVE  TypesInv'
  <2>1. local' \in [Procs -> Locals]
    BY <1>8, <1>15 DEF DeclaredAll
  <2>2. local[p].val \in 1..Len(clients)
    BY <1>15, HasMade DEF DeclaredAll, CallersInv, Doing, Ids
  <2>3. [clients[local[p].val] EXCEPT !.declared = TRUE] \in Clients
    <3>1. clients[local[p].val] \in Clients
      BY <1>a, <2>2, ElementOfSeq
    <3> QED BY <3>1 DEF Clients
  <2>4. clients' \in Seq(Clients) /\ Len(clients') = Len(clients)
    BY <1>15, <1>a, <2>2, <2>3, ExceptSeq DEF DeclaredAll
  <2> QED BY <1>15, <2>1, <2>4 DEF DeclaredAll, TypesInv, cfgVars, sdVars, Ids
<1>16. ASSUME NEW c \in 1..MaxClients, CloseClient(c)
       PROVE  TypesInv'
  <2>1. c \in Ids
    BY <1>16 DEF CloseClient, ShutdownInv, TypesInv
  <2>2. clients' \in Seq(Clients) /\ Len(clients') = Len(clients)
    BY <1>16, <1>a, <2>1, StatusTypes DEF CloseClient, Statuses
  <2>3. closing' \in [1..MaxClients -> {"none", "close", "await", "evict", "done"}]
    BY <1>16 DEF CloseClient, TypesInv
  <2> QED BY <1>16, <2>2, <2>3 DEF CloseClient, TypesInv, cfgVars, Ids
<1>17. ASSUME NEW c \in 1..MaxClients, AwaitStop(c)
       PROVE  TypesInv'
  BY <1>17 DEF AwaitStop, TypesInv, cfgVars, Ids
<1>18. ASSUME NEW c \in 1..MaxClients, Evict(c)
       PROVE  TypesInv'
  <2>1. \A p \in Procs, b \in BOOLEAN : [local[p] EXCEPT !.stale = b] \in Locals
    BY <1>a DEF Locals
  <2>2. \A p \in Procs : local[p].stale \in BOOLEAN
    BY <1>a DEF Locals
  <2>3. local' \in [Procs -> Locals]
    BY <1>18, <2>1, <2>2 DEF Evict
  <2> QED BY <1>18, <2>3 DEF Evict, TypesInv, cfgVars, Ids
<1>19. ASSUME NEW c \in 1..MaxClients, AddHandler(c) \/ StopChanCloses(c)
       PROVE  TypesInv'
  <2>1. CASE AddHandler(c)
    BY <2>1 DEF AddHandler, TypesInv, cfgVars, sdVars, Ids
  <2>2. CASE StopChanCloses(c)
    <3>1. clients' \in Seq(Clients) /\ Len(clients') = Len(clients)
      BY <1>a, <2>2, StatusTypes DEF StopChanCloses, Statuses
    <3> QED BY <2>2, <3>1 DEF StopChanCloses, TypesInv, cfgVars, sdVars, Ids
  <2> QED BY <1>19, <2>1, <2>2
<1>20. ASSUME StartShutdown \/ Graceful \/ TimeOut
       PROVE  TypesInv'
  BY <1>20 DEF StartShutdown, Graceful, TimeOut, TypesInv, cfgVars, Ids
<1>21. ASSUME UNCHANGED vars
       PROVE  TypesInv'
  BY <1>21 DEF TypesInv, vars, cfgVars, sdVars, Ids
<1> QED
  BY <1>1, <1>2, <1>3, <1>4, <1>5, <1>9, <1>10, <1>11, <1>12, <1>13, <1>14, <1>15,
    <1>16, <1>17, <1>18, <1>19, <1>20, <1>21 DEF Next, Proceed, Closing

-----------------------------------------------------------------------------
\* The steps that leave every client and cache alone.
Quiet ==
  \/ UNCHANGED vars
  \/ \E c \in 1..MaxClients : AddHandler(c)
  \/ \E p \in Procs :
       \/ \E w \in Wrappers : Call(p, w)
       \/ Reload(p) \/ ReloadTarget(p) \/ SetMode(p) \/ MakeKey(p) \/ Load(p) \/ Enter(p)
       \/ MakeFails(p) \/ Verify(p) \/ StartFails(p) \/ DeclareNext(p) \/ DeclareFails(p)

LEMMA QuietFrame ==
  ASSUME Quiet
  PROVE  UNCHANGED <<driver, clients, cached, sdVars>>
BY DEF Quiet, vars, cfgVars, sdVars, AddHandler, Call, Reload, ReloadTarget, SetMode,
  MakeKey, Load, Enter, MakeFails, Verify, StartFails, DeclareNext, DeclareFails

LEMMA IdsBound ==
  ASSUME TypesInv
  PROVE  Ids \subseteq 1..MaxClients /\ Len(clients) \in Nat /\ NoClient \notin Ids
<1>1. /\ clients \in Seq(Clients) /\ Len(clients) <= MaxClients /\ MaxClients \in Nat
  BY DriversAssumption DEF DriversAssumption, TypesInv
<1>2. Len(clients) \in Nat
  BY <1>1, LenProperties
<1>3. NoClient \notin 1..Len(clients)
  BY <1>2 DEF NoClient
<1> QED BY <1>1, <1>2, <1>3 DEF Ids

\* What a step does to the clients there are.
LEMMA SetStatusFrame ==
  ASSUME TypesInv, NEW c \in Ids, NEW s, SetStatus(c, s)
  PROVE  /\ Ids' = Ids
         /\ \A d \in Ids : /\ clients'[d].key = clients[d].key
                           /\ clients'[d].declared = clients[d].declared
                           /\ clients'[d].status = IF d = c THEN s ELSE clients[d].status
<1>1. clients \in Seq(Clients) /\ clients[c] \in Clients /\ c \in 1..Len(clients)
  BY ElementOfSeq DEF TypesInv, Ids
<1>2. clients' = [clients EXCEPT ![c] = [clients[c] EXCEPT !.status = s]]
  BY DEF SetStatus
<1>3. Len(clients') = Len(clients)
  BY <1>1, <1>2
<1>4. /\ [clients[c] EXCEPT !.status = s].key = clients[c].key
      /\ [clients[c] EXCEPT !.status = s].declared = clients[c].declared
      /\ [clients[c] EXCEPT !.status = s].status = s
  BY <1>1 DEF Clients
<1> QED BY <1>1, <1>2, <1>3, <1>4 DEF Ids

LEMMA DeclaredFrame ==
  ASSUME TypesInv, NEW p \in Procs, CallerOK(p), DeclaredAll(p)
  PROVE  /\ Ids' = Ids /\ local[p].val \in Ids
         /\ \A d \in Ids : /\ clients'[d].key = clients[d].key
                           /\ clients'[d].status = clients[d].status
                           /\ d # local[p].val => clients'[d] = clients[d]
<1> DEFINE c == local[p].val
<1>1. c \in Ids
  BY HasMade DEF DeclaredAll, Doing
<1> HIDE DEF c
<1>2. clients \in Seq(Clients) /\ clients[c] \in Clients /\ c \in 1..Len(clients)
  BY <1>1, ElementOfSeq DEF TypesInv, Ids
<1>3. clients' = [clients EXCEPT ![c] = [clients[c] EXCEPT !.declared = TRUE]]
  BY DEF DeclaredAll, c
<1>4. Len(clients') = Len(clients)
  BY <1>2, <1>3
<1>5. /\ [clients[c] EXCEPT !.declared = TRUE].key = clients[c].key
      /\ [clients[c] EXCEPT !.declared = TRUE].status = clients[c].status
  BY <1>2 DEF Clients
<1> QED BY <1>1, <1>2, <1>3, <1>4, <1>5 DEF Ids, c

LEMMA MakeFrame ==
  ASSUME TypesInv, NEW p \in Procs, Make(p)
  PROVE  /\ Len(clients) \in Nat /\ Ids' = Ids \cup {Len(clients) + 1}
         /\ Len(clients) + 1 \notin Ids /\ Len(clients) + 1 <= MaxClients
         /\ \A d \in Ids : clients'[d] = clients[d]
         /\ ~clients'[Len(clients) + 1].declared
         /\ clients'[Len(clients) + 1] =
              [key |-> local[p].key, declared |-> FALSE,
               status |-> IF Steps(local[p].call)[local[p].at + 1] = "start"
                            THEN "unstarted" ELSE "open"]
<1> DEFINE e == [key |-> local[p].key, declared |-> FALSE,
                 status |-> IF Steps(local[p].call)[local[p].at + 1] = "start"
                              THEN "unstarted" ELSE "open"]
<1>1. clients' = Append(clients, e) /\ Len(clients) < MaxClients
  BY DEF Make
<1>2. clients \in Seq(Clients) /\ Len(clients) \in Nat /\ MaxClients \in Nat
  <2>1. clients \in Seq(Clients) /\ MaxClients \in Nat
    BY DriversAssumption DEF DriversAssumption, TypesInv
  <2> QED BY <2>1, LenProperties
<1>e. ~e.declared
  OBVIOUS
<1> HIDE DEF e
<1>3. /\ Len(clients') = Len(clients) + 1 /\ clients'[Len(clients) + 1] = e
      /\ \A d \in 1..Len(clients) : clients'[d] = clients[d]
  BY <1>1, <1>2
<1>4. /\ Ids' = Ids \cup {Len(clients) + 1}
      /\ Len(clients) + 1 \notin Ids /\ Len(clients) + 1 <= MaxClients
  BY <1>1, <1>2, <1>3 DEF Ids
<1> QED BY <1>2, <1>3, <1>4, <1>e DEF Ids, e

\* A caller about to take one of these steps owns an unstored client.
LEMMA OwnedStatus ==
  ASSUME TypesInv, NEW p \in Procs, CallerOK(p), Inside(p),
         ~Doing(p, "make") /\ ~Doing(p, "new")
  PROVE  /\ local[p].val \in Ids /\ local[p].val \notin cached \cup cachedAtCall
         /\ clients[local[p].val].key = local[p].key
         /\ clients[local[p].val].status = IF Doing(p, "start") THEN "unstarted" ELSE "open"
BY HasMade DEF Owns, Doing

LEMMA ShutdownStep ==
  ASSUME TypesInv, CallersInv, ShutdownInv, [Next]_vars, TypesInv'
  PROVE  ShutdownInv'
<1>0. /\ Scanned' = Scanned
      /\ \A p \in Procs : CallerOK(p)
  <2>1. driver' = driver
    BY DEF Next, Proceed, Closing, vars, cfgVars, Call, Reload, ReloadTarget, SetMode,
      MakeKey, Load, Enter, Make, MakeFails, Verify, VerifyFails, Start, StartFails,
      Store, DeclareNext, DeclaredAll, DeclareFails, CloseClient, AwaitStop, Evict,
      AddHandler, StopChanCloses, StartShutdown, Graceful, TimeOut
  <2> QED BY <2>1 DEF Scanned, CallersInv
<1>a. cached \subseteq Ids /\ cachedAtCall \subseteq Ids
  BY DEF TypesInv
<1>b. ASSUME UNCHANGED <<sd, closing, cachedAtCall>>,
             \A d \in cachedAtCall \cup cached : clients'[d].key = clients[d].key
                                              /\ clients'[d].status = clients[d].status,
             \A d \in cached' \ cached : clients'[d].status = "open"
      PROVE  ShutdownInv'
  BY <1>0, <1>b DEF ShutdownInv, AtCallOK
<1>1. CASE Quiet
  BY <1>0, <1>1, QuietFrame DEF ShutdownInv, AtCallOK, sdVars
<1>2. ASSUME NEW p \in Procs, Make(p)
      PROVE  ShutdownInv'
  <2>1. UNCHANGED <<cached, sd, closing, cachedAtCall>>
    BY <1>2 DEF Make, sdVars
  <2> QED BY <1>2, <1>a, <1>b, <2>1, MakeFrame
<1>3. ASSUME NEW p \in Procs, VerifyFails(p) \/ Start(p)
      PROVE  ShutdownInv'
  <2>1. UNCHANGED <<cached, sd, closing, cachedAtCall>>
    BY <1>3 DEF VerifyFails, Start, sdVars
  <2>2. local[p].val \in Ids /\ local[p].val \notin cached \cup cachedAtCall
    BY <1>0, <1>3, HasMade DEF VerifyFails, Start, Doing, Owns
  <2>3. \A d \in Ids : clients'[d].key = clients[d].key /\
          (d # local[p].val => clients'[d].status = clients[d].status)
    BY <1>3, <2>2, SetStatusFrame DEF VerifyFails, Start
  <2> QED BY <1>a, <1>b, <2>1, <2>2, <2>3
<1>4. ASSUME NEW p \in Procs, Store(p)
      PROVE  ShutdownInv'
  <2>1. UNCHANGED <<clients, sd, closing, cachedAtCall>>
    BY <1>4 DEF Store, sdVars
  <2>2. clients[local[p].val].status = "open"
    BY <1>0, <1>4, HasMade DEF Store, Doing, Owns
  <2>3. cached' \subseteq cached \cup {local[p].val}
    BY <1>4 DEF Store
  <2> QED BY <1>b, <2>1, <2>2, <2>3
<1>5. ASSUME NEW p \in Procs, DeclaredAll(p)
      PROVE  ShutdownInv'
  <2>1. UNCHANGED <<cached, sd, closing, cachedAtCall>>
    BY <1>5 DEF DeclaredAll, sdVars
  <2>2. \A d \in Ids : /\ clients'[d].key = clients[d].key
                       /\ clients'[d].status = clients[d].status
    BY <1>0, <1>5, DeclaredFrame
  <2> QED BY <1>a, <1>b, <2>1, <2>2
<1>6. ASSUME NEW c \in 1..MaxClients, CloseClient(c)
      PROVE  ShutdownInv'
  <2>1. UNCHANGED <<cached, sd, cachedAtCall>> /\ closing[c] = "close"
    BY <1>6 DEF CloseClient
  <2>2. c \in cachedAtCall /\ c \in Ids
    BY <1>a, <2>1 DEF ShutdownInv
  <2>3. \A d \in Ids : /\ clients'[d].key = clients[d].key
                       /\ clients'[d].status =
                            IF d = c THEN IF Lingers(c) THEN "stopping" ELSE "closed"
                                     ELSE clients[d].status
    BY <1>6, <2>2, SetStatusFrame DEF CloseClient
  <2>4. /\ closing'[c] = IF Lingers(c) THEN "await" ELSE "evict"
        /\ \A d \in 1..MaxClients : d # c => closing'[d] = closing[d]
    BY <1>6 DEF CloseClient, TypesInv
  <2>5. cachedAtCall \subseteq 1..MaxClients
    BY <1>a, IdsBound
  <2> QED BY <1>0, <1>a, <2>1, <2>2, <2>3, <2>4, <2>5 DEF ShutdownInv, AtCallOK
<1>7. ASSUME NEW c \in 1..MaxClients, AwaitStop(c) \/ Evict(c)
      PROVE  ShutdownInv'
  <2>1. /\ UNCHANGED <<clients, sd, cachedAtCall>> /\ cached' \subseteq cached
        /\ closing[c] \in {"await", "evict"}
        /\ closing[c] = "await" => clients[c].status = "closed"
    BY <1>7 DEF AwaitStop, Evict
  <2>2. c \in cachedAtCall
    BY <2>1 DEF ShutdownInv
  <2>3. /\ closing'[c] \in {"evict", "done"}
        /\ \A d \in 1..MaxClients : d # c => closing'[d] = closing[d]
    BY <1>7 DEF AwaitStop, Evict, TypesInv
  <2>4. cachedAtCall \subseteq 1..MaxClients
    BY <1>a, IdsBound
  <2> QED BY <1>0, <1>a, <2>1, <2>2, <2>3, <2>4 DEF ShutdownInv, AtCallOK
<1>8. ASSUME NEW c \in 1..MaxClients, StopChanCloses(c)
      PROVE  ShutdownInv'
  <2>1. /\ UNCHANGED <<cached, sd, closing, cachedAtCall>> /\ c \in Ids
        /\ clients[c].status = "stopping"
    BY <1>8 DEF StopChanCloses, sdVars
  <2>2. \A d \in Ids : /\ clients'[d].key = clients[d].key
                       /\ clients'[d].status = IF d = c THEN "closed" ELSE clients[d].status
    BY <1>8, <2>1, SetStatusFrame DEF StopChanCloses
  <2>3. \A d \in cachedAtCall : closing[d] \in {"none", "close", "await", "evict", "done"}
    BY <1>a, IdsBound DEF TypesInv
  <2> QED BY <1>0, <1>a, <2>1, <2>2, <2>3 DEF ShutdownInv, AtCallOK
<1>9. CASE StartShutdown
  <2>1. /\ UNCHANGED <<clients, cached>> /\ sd' = "running" /\ cachedAtCall' = cached
        /\ cachedAtCall = {}
    BY <1>9 DEF StartShutdown, ShutdownInv
  <2>2. \A c \in 1..MaxClients : closing'[c] =
          IF c \in cached /\ clients[c].key.role \in Scanned THEN "close" ELSE "none"
    BY <1>9 DEF StartShutdown, TypesInv
  <2>3. cached \subseteq 1..MaxClients
    BY <1>a, IdsBound
  <2> QED BY <1>0, <2>1, <2>2, <2>3 DEF ShutdownInv, AtCallOK
<1>10. CASE Graceful \/ TimeOut
  <2>1. /\ UNCHANGED <<clients, cached, closing, cachedAtCall>> /\ sd = "running"
        /\ sd' \in {"graceful", "timedOut"}
        /\ sd' = "graceful" => \A c \in Ids : closing[c] \in {"none", "done"}
    BY <1>10 DEF Graceful, TimeOut
  <2> QED BY <1>0, <1>a, <2>1 DEF ShutdownInv, AtCallOK
<1> QED BY <1>1, <1>2, <1>3, <1>4, <1>5, <1>6, <1>7, <1>8, <1>9, <1>10
          DEF Next, Proceed, Closing, Quiet

-----------------------------------------------------------------------------
\* Clients keep their keys, and what a Shutdown deleted stays so.
ClientsGrow ==
  /\ Ids \subseteq Ids'
  /\ \A d \in Ids : /\ clients'[d].key = clients[d].key
                    /\ closing[d] = "done" => closing'[d] = "done"

LEMMA DeletedStays ==
  ASSUME ClientsGrow, NEW k, Deleted(k)
  PROVE  Deleted(k)'
BY DEF ClientsGrow, Deleted

\* A caller that is left alone, but for its mutex, stays as it was.
LEMMA CallerFrame ==
  ASSUME TypesInv, NEW r \in Procs, CallerOK(r), driver' = driver,
         local'[r] = [local[r] EXCEPT !.stale = local'[r].stale],
         ~Inside(r) => ~local'[r].stale,
         ClientsGrow, broker \subseteq broker',
         Inside(r) /\ Owns(r) =>
           /\ clients'[local[r].val].status = clients[local[r].val].status
           /\ local[r].val \notin cached' \cup cachedAtCall'
           /\ \A q \in Procs \ {r} : local'[q].val # local[r].val,
         Inside(r) => Excludes(r)'
  PROVE  CallerOK(r)'
<1>1. local[r] \in Locals
  BY DEF TypesInv
<1>2. /\ local'[r].pc = local[r].pc /\ local'[r].call = local[r].call
      /\ local'[r].obj = local[r].obj /\ local'[r].key = local[r].key
      /\ local'[r].val = local[r].val /\ local'[r].at = local[r].at
      /\ local'[r].decl = local[r].decl
  BY <1>1 DEF Locals
<1>3. Steps(local[r].call)' = Steps(local[r].call)
  BY <1>2 DEF Steps
<1>4. Wanted(r)' = Wanted(r)
  BY <1>2 DEF Wanted
<1>5. Inside(r)' = Inside(r)
  BY <1>2 DEF Inside, At
<1>6. ASSUME Inside(r)
      PROVE  Declared(r)'
  BY <1>2, <1>4, <1>6 DEF Declared, CallerOK
<1>7. ASSUME Inside(r), Owns(r)
      PROVE  Owns(r)'
  BY <1>2, <1>3, <1>7 DEF Owns, ClientsGrow
<1>8. Ids \subseteq Ids'
  BY DEF ClientsGrow
<1> QED BY <1>2, <1>3, <1>5, <1>6, <1>7, <1>8 DEF CallerOK, Inside, At

\* What a step of p's does to the others.
ActsAlone(p) ==
  /\ driver' = driver
  /\ local' = [local EXCEPT ![p] = local'[p]]
  /\ \/ local'[p].val = local[p].val
     \/ local'[p].val \notin Ids
     \/ local'[p].val \in cached
  /\ Inside(p)' =>
       /\ local'[p].key = local[p].key
       /\ \/ Inside(p)
          \/ \A q \in Procs : Inside(q) /\ ~local[q].stale => local[q].key # local[p].key
  /\ ClientsGrow /\ UNCHANGED <<closing, cachedAtCall>>
  /\ \A d \in Ids : \/ clients'[d].status = clients[d].status
                    \/ Inside(p) /\ Owns(p) /\ d = local[p].val
  /\ \A d \in cached' : \/ d \in cached
                        \/ Inside(p) /\ Owns(p) /\ d = local[p].val
  /\ broker \subseteq broker'

LEMMA OthersStay ==
  ASSUME TypesInv, CallersInv, NEW p \in Procs, ActsAlone(p), NEW r \in Procs \ {p}
  PROVE  CallerOK(r)'
<1>1. /\ driver' = driver /\ ClientsGrow /\ broker \subseteq broker'
      /\ local'[r] = local[r] /\ local[r] \in Locals /\ CallerOK(r) /\ r \in Procs
      /\ \A q \in Procs \ {p} : local'[q] = local[q]
      /\ cachedAtCall' = cachedAtCall /\ local[p].val # NoClient => local[p].val \in Ids
  BY DEF ActsAlone, CallersInv, CallerOK, TypesInv
<1>2. local'[r] = [local[r] EXCEPT !.stale = local'[r].stale]
  BY <1>1 DEF Locals
<1>3. ASSUME Inside(r), Owns(r)
      PROVE  /\ clients'[local[r].val].status = clients[local[r].val].status
             /\ local[r].val \notin cached' \cup cachedAtCall'
             /\ \A q \in Procs \ {r} : local'[q].val # local[r].val
  BY <1>1, <1>3 DEF ActsAlone, Owns
<1>4. ASSUME Inside(r)
      PROVE  Excludes(r)'
  <2>1. CASE Deleted(local[r].key)
    BY <1>1, <2>1, DeletedStays DEF Excludes
  <2>2. CASE ~Deleted(local[r].key)
    <3>1. /\ ~local[r].stale /\ CachedFor(local[r].key) = {}
          /\ \A q \in Procs \ {r} : Inside(q) => local[q].key # local[r].key
      BY <1>1, <1>4, <2>2 DEF CallerOK, Excludes
    <3>2. \A q \in Procs \ {r} : Inside(q)' => local'[q].key # local[r].key
      BY <1>1, <1>4, <3>1 DEF ActsAlone, Inside, At
    <3>3. CachedFor(local[r].key)' = {}
      <4>1. \A d \in cached : d \in Ids /\ clients[d].key # local[r].key
        BY <3>1 DEF CachedFor, TypesInv
      <4>2. ASSUME Inside(p), Owns(p)
            PROVE  local[p].val \in Ids /\ clients[local[p].val].key # local[r].key
        BY <3>1, <4>2 DEF Owns
      <4>3. \A d \in cached' : d \in Ids /\ clients[d].key # local[r].key
        BY <4>1, <4>2 DEF ActsAlone
      <4>4. \A d \in cached' : clients'[d].key # local'[r].key
        BY <1>1, <4>3 DEF ClientsGrow
      <4> QED BY <4>4 DEF CachedFor
    <3> QED BY <1>1, <3>1, <3>2, <3>3 DEF Excludes
  <2> QED BY <2>1, <2>2
<1>5. ~Inside(r) => ~local'[r].stale
  BY <1>1 DEF CallerOK, Inside, At
<1> QED BY <1>1, <1>2, <1>3, <1>4, <1>5, CallerFrame

-----------------------------------------------------------------------------
\* The caller that acts: a call that is over, and one not yet inside.
LEMMA ReturnedOK ==
  ASSUME TypesInv, NEW p \in Procs, NEW c, Return(p, c), c \in Ids' \cup {NoClient}
  PROVE  CallerOK(p)'
<1>1. local'[p] = [Idle EXCEPT !.val = c]
  BY DEF Return, TypesInv
<1>2. /\ local'[p].pc = "idle" /\ local'[p].val = c /\ local'[p].decl = 0
      /\ local'[p].stale = FALSE
  BY <1>1 DEF Idle
<1> QED BY <1>2 DEF CallerOK, Inside, At

\* No client and no cache changes: a step of p's concerns p alone.
LEMMA NoneChanged ==
  ASSUME TypesInv, NEW p \in Procs, NEW r, local' = [local EXCEPT ![p] = r],
         UNCHANGED <<driver, clients, cached, sdVars>>, broker \subseteq broker',
         r.val = local[p].val \/ r.val \notin Ids \/ r.val \in cached,
         r.pc = "steps" => r.key = local[p].key /\
           (Inside(p) \/ \A q \in Procs :
              Inside(q) /\ ~local[q].stale => local[q].key # local[p].key)
  PROVE  ActsAlone(p)
<1>1. local'[p] = r
  BY DEF TypesInv
<1>2. ClientsGrow
  BY DEF ClientsGrow, sdVars, Ids
<1> QED BY <1>1, <1>2 DEF ActsAlone, sdVars, Inside, At

\* A return that changes no client.
LEMMA ReturnStep ==
  ASSUME TypesInv, NEW p \in Procs, NEW c, Return(p, c),
         c \in cached \/ c = NoClient,
         UNCHANGED <<driver, clients, cached, broker, sdVars>>
  PROVE  ActsAlone(p) /\ CallerOK(p)'
<1> DEFINE r == [Idle EXCEPT !.val = c]
<1>1. local' = [local EXCEPT ![p] = r] /\ r.pc = "idle" /\ r.val = c
  BY DEF Return, Idle
<1> HIDE DEF r
<1>2. NoClient \notin Ids /\ c \in Ids' \cup {NoClient}
  <2>1. Ids' = Ids
    BY DEF Ids
  <2> QED BY <2>1, IdsBound DEF TypesInv
<1>3. ActsAlone(p)
  BY <1>1, <1>2, NoneChanged
<1> QED BY <1>2, <1>3, ReturnedOK

LEMMA OutsideStep ==
  ASSUME TypesInv, CallersInv, NEW p \in Procs,
         \/ \E w \in Wrappers : Call(p, w)
         \/ Reload(p) \/ ReloadTarget(p) \/ SetMode(p) \/ MakeKey(p) \/ Load(p)
  PROVE  ActsAlone(p) /\ CallerOK(p)'
<1>0. /\ CallerOK(p) /\ local[p] \in Locals /\ local \in [Procs -> Locals]
      /\ cached \subseteq Ids /\ NoClient \notin Ids
  BY IdsBound DEF CallersInv, TypesInv
<1>1. ASSUME NEW l \in {"mode", "key", "reload"}, NEW w, NEW o, Begin(p, l, w, o),
             l # "reload" => w \in Wrapper,
             UNCHANGED <<driver, clients, cached, broker, sdVars>>
      PROVE  ActsAlone(p) /\ CallerOK(p)'
  <2> DEFINE r == [Idle EXCEPT !.pc = l, !.call = w, !.obj = o]
  <2>1. local' = [local EXCEPT ![p] = r] /\ local'[p] = r
    BY <1>0, <1>1 DEF Begin
  <2>2. /\ r.pc = l /\ r.call = w /\ r.val = NoClient /\ r.decl = 0 /\ r.stale = FALSE
    BY DEF Idle
  <2> HIDE DEF r
  <2>3. ActsAlone(p)
    BY <1>0, <1>1, <2>1, <2>2, NoneChanged
  <2>4. CallerOK(p)'
    BY <1>1, <2>1, <2>2 DEF CallerOK, Inside, At
  <2> QED BY <2>3, <2>4
<1>2. ASSUME NEW w \in Wrappers, Call(p, w)
      PROVE  ActsAlone(p) /\ CallerOK(p)'
  <2>1. w \in Wrapper
    BY DriversAssumption DEF DriversAssumption
  <2> QED BY <1>1, <1>2, <2>1 DEF Call, cfgVars
<1>3. CASE Reload(p)
  BY <1>1, <1>3 DEF Reload
<1>4. CASE ReloadTarget(p)
  <2>1. Reloaded(modeOf[local[p].obj]) \in Modes
    BY DriversAssumption DEF DriversAssumption, Reloaded, Modes, redisReload,
      nsqReload, rocketReload, mqttReload, rabbitReload, TypesInv
  <2>2. PICK l \in {"key", "mode"}, w \in Wrapper :
          local' = [local EXCEPT ![p] = [local[p] EXCEPT !.pc = l, !.call = w]]
    <3> DEFINE m == modeOf[local[p].obj]
               x == [role |-> "producer", via |-> "path", mode |-> Reloaded(m)]
               y == IF driver = "redis" /\ m = "cluster" THEN "key" ELSE "mode"
    <3>1. x \in Wrapper /\ y \in {"key", "mode"}
      BY <2>1 DEF Wrapper, Modes
    <3>2. local' = [local EXCEPT ![p].pc = y, ![p].call = x]
      BY <1>4 DEF ReloadTarget
    <3> HIDE DEF x, y
    <3>3. local' = [local EXCEPT ![p] = [local[p] EXCEPT !.pc = y, !.call = x]]
      BY <1>0, <3>2
    <3> QED BY <3>1, <3>3
  <2> DEFINE r == [local[p] EXCEPT !.pc = l, !.call = w]
  <2>3. /\ r.pc = l /\ r.call = w /\ r.val = local[p].val /\ r.decl = local[p].decl
        /\ r.stale = local[p].stale /\ local'[p] = r /\ local[p].pc = "reload"
    BY <1>0, <1>4, <2>2 DEF Locals, ReloadTarget, At
  <2> HIDE DEF r
  <2>4. ActsAlone(p)
    BY <1>4, <2>2, <2>3, NoneChanged DEF ReloadTarget, cfgVars, r
  <2>5. CallerOK(p)'
    BY <1>0, <1>4, <2>3 DEF ReloadTarget, CallerOK, Inside, At, Ids
  <2> QED BY <2>4, <2>5
<1>5. CASE SetMode(p)
  <2> DEFINE r == [local[p] EXCEPT !.pc = "key"]
  <2>1. /\ local' = [local EXCEPT ![p] = r] /\ local'[p] = r /\ local[p].pc = "mode"
        /\ r.pc = "key" /\ r.call = local[p].call /\ r.val = local[p].val
        /\ r.decl = local[p].decl /\ r.stale = local[p].stale
    BY <1>0, <1>5 DEF Locals, SetMode, Goto, At
  <2> HIDE DEF r
  <2>2. ActsAlone(p)
    BY <1>5, <2>1, NoneChanged DEF SetMode
  <2>3. CallerOK(p)'
    BY <1>0, <1>5, <2>1 DEF SetMode, CallerOK, Inside, At, Ids
  <2> QED BY <2>2, <2>3
<1>6. CASE MakeKey(p)
  <2>1. /\ local[p].call \in Wrapper /\ local[p].obj \in Contents
        /\ PrintedMode(p) \in ModeFields
    BY <1>0, <1>6 DEF MakeKey, At, CallerOK, Locals, PrintedMode, Wrapper, Modes, ModeFields, TypesInv
  <2>2. PICK k \in Keys : /\ k = KeyFor(local[p].call, local[p].obj, PrintedMode(p))
                          /\ k.content = local[p].obj
    BY <2>1, KeyForm
  <2> DEFINE r == [local[p] EXCEPT !.pc = "load", !.key = k]
  <2>3. /\ local' = [local EXCEPT ![p] = r] /\ local'[p] = r /\ local[p].pc = "key"
        /\ r.pc = "load" /\ r.call = local[p].call /\ r.val = local[p].val /\ r.key = k
        /\ r.decl = local[p].decl /\ r.stale = local[p].stale /\ r.obj = local[p].obj
    BY <1>0, <1>6, <2>2 DEF Locals, MakeKey, At
  <2> HIDE DEF r
  <2>4. ActsAlone(p)
    BY <1>6, <2>3, NoneChanged DEF MakeKey, cfgVars
  <2>5. CallerOK(p)'
    BY <1>0, <1>6, <2>2, <2>3 DEF MakeKey, CallerOK, Inside, At, Ids
  <2> QED BY <2>4, <2>5
<1>7. CASE Load(p)
  <2>1. /\ UNCHANGED <<driver, clients, cached, broker, sdVars>> /\ local[p].pc = "load"
        /\ \/ \E c \in cached \cup {NoClient} : Return(p, c)
           \/ Goto(p, "enter")
    BY <1>7 DEF Load, cfgVars, ReturnCached, CachedFor, At
  <2>2. ASSUME NEW c \in cached \cup {NoClient}, Return(p, c)
        PROVE  ActsAlone(p) /\ CallerOK(p)'
    BY <1>0, <2>1, <2>2, ReturnStep
  <2>3. CASE Goto(p, "enter")
    <3> DEFINE r == [local[p] EXCEPT !.pc = "enter"]
    <3>1. /\ local' = [local EXCEPT ![p] = r] /\ local'[p] = r
          /\ r.pc = "enter" /\ r.call = local[p].call /\ r.val = local[p].val
          /\ r.key = local[p].key /\ r.decl = local[p].decl
          /\ r.stale = local[p].stale /\ r.obj = local[p].obj
      BY <1>0, <2>3 DEF Locals, Goto
    <3> HIDE DEF r
    <3>2. ActsAlone(p)
      BY <2>1, <3>1, NoneChanged
    <3>3. CallerOK(p)'
      BY <1>0, <2>1, <3>1 DEF CallerOK, Inside, At, Ids
    <3> QED BY <3>2, <3>3
  <2> QED BY <2>1, <2>2, <2>3
<1> QED BY <1>2, <1>3, <1>4, <1>5, <1>6, <1>7

\* The second look, and the mutex that lets p in.
LEMMA EnterStep ==
  ASSUME TypesInv, CallersInv, NEW p \in Procs, Enter(p)
  PROVE  ActsAlone(p) /\ CallerOK(p)'
<1>0. /\ CallerOK(p) /\ local[p] \in Locals /\ local \in [Procs -> Locals]
      /\ local[p].pc = "enter"
  BY DEF CallersInv, TypesInv, Enter, At
<1>1. /\ UNCHANGED <<driver, clients, cached, broker, sdVars>>
      /\ \A q \in Procs : Inside(q) /\ ~local[q].stale => local[q].key # local[p].key
      /\ \/ \E c \in cached : Return(p, c)
         \/ /\ CachedFor(local[p].key) = {}
            /\ local' = [local EXCEPT ![p].pc = "steps", ![p].at = 1]
  BY DEF Enter, cfgVars, ReturnCached, CachedFor
<1>2. ASSUME NEW c \in cached, Return(p, c)
      PROVE  ActsAlone(p) /\ CallerOK(p)'
  BY <1>1, <1>2, ReturnStep
<1>3. CASE /\ CachedFor(local[p].key) = {}
           /\ local' = [local EXCEPT ![p].pc = "steps", ![p].at = 1]
  <2> DEFINE r == [local[p] EXCEPT !.pc = "steps", !.at = 1]
  <2>1. /\ local' = [local EXCEPT ![p] = r] /\ local'[p] = r
        /\ r.pc = "steps" /\ r.at = 1 /\ r.call = local[p].call /\ r.val = local[p].val
        /\ r.key = local[p].key /\ r.decl = local[p].decl
        /\ r.stale = local[p].stale /\ r.obj = local[p].obj
    BY <1>0, <1>3 DEF Locals
  <2> HIDE DEF r
  <2>2. ActsAlone(p)
    BY <1>1, <2>1, NoneChanged
  <2>3. Inside(p)'
    BY <2>1 DEF Inside, At
  <2>4. /\ local[p].val = NoClient /\ local[p].decl = 0 /\ ~local[p].stale
        /\ local[p].call \in Wrapper /\ local[p].key \in Keys
        /\ local[p].key.content = local[p].obj /\ local[p].obj \in Contents
    BY <1>0 DEF CallerOK, Locals
  <2>5. 1 \in 1..Len(Steps(local[p].call))'
    <3>1. Steps(local[p].call)' = Steps(local[p].call)
      BY <1>1, <2>1 DEF Steps
    <3>2. WellFormed(Steps(local[p].call))
      BY <1>0, StepsOfCaller
    <3>3. 1 \in 1..Len(Steps(local[p].call))
      BY <3>2 DEF WellFormed
    <3> QED BY <3>1, <3>3
  <2>6. Excludes(p)'
    <3>1. CASE \E q \in Procs \ {p} : Inside(q) /\ local[q].key = local[p].key
      <4>1. PICK q \in Procs \ {p} : Inside(q) /\ local[q].key = local[p].key
        BY <3>1
      <4>2. Deleted(local[p].key)
        BY <1>1, <4>1 DEF CallersInv, CallerOK, Excludes
      <4> QED BY <2>1, <2>2, <4>2, DeletedStays DEF Excludes, ActsAlone
    <3>2. CASE \A q \in Procs \ {p} : Inside(q) => local[q].key # local[p].key
      <4>1. \A q \in Procs \ {p} : Inside(q)' => local'[q].key # local'[p].key
        BY <2>1, <3>2 DEF Inside, At
      <4>2. CachedFor(local[p].key)' = {}
        BY <1>1, <1>3, <2>1 DEF CachedFor
      <4>3. ~local'[p].stale
        BY <2>1, <2>4
      <4> QED BY <4>1, <4>2, <4>3 DEF Excludes
    <3> QED BY <3>1, <3>2
  <2>7. Declared(p)'
    <3>1. Wanted(p)' = Wanted(p) /\ local'[p].decl = 0
      BY <2>1, <2>4 DEF Wanted
    <3>2. Len(Wanted(p)) \in Nat
      BY <2>4, SectionOf, DeclarationsForm, LenProperties DEF Wanted, BoundBefore
    <3> QED BY <3>1, <3>2 DEF Declared
  <2>8. CallerOK(p)'
    BY <2>1, <2>3, <2>4, <2>5, <2>6, <2>7 DEF CallerOK
  <2> QED BY <2>2, <2>8
<1> QED BY <1>1, <1>2, <1>3

\* A call that goes on with client c.
LEMMA AdvancedOK ==
  ASSUME TypesInv, CallersInv, NEW p \in Procs, Inside(p), ~Doing(p, "store"),
         NEW c \in Ids', Advance(p, c), driver' = driver, ClientsGrow, cached' = cached,
         clients'[c].key = local[p].key,
         clients'[c].status = IF Steps(local[p].call)[local[p].at + 1] = "start"
                                THEN "unstarted" ELSE "open",
         c \notin cached \cup cachedAtCall, cachedAtCall' = cachedAtCall,
         \A q \in Procs \ {p} : local[q].val # c
  PROVE  CallerOK(p)'
<1> DEFINE r == [local[p] EXCEPT !.at = @ + 1, !.val = c, !.decl = 0]
<1>0. /\ CallerOK(p) /\ local[p] \in Locals /\ local \in [Procs -> Locals]
      /\ cached \subseteq Ids
  BY DEF CallersInv, TypesInv
<1>1. /\ local' = [local EXCEPT ![p] = r] /\ local'[p] = r /\ local[p].pc = "steps"
      /\ r.pc = "steps" /\ r.at = local[p].at + 1 /\ r.call = local[p].call /\ r.val = c
      /\ r.key = local[p].key /\ r.decl = 0
      /\ r.stale = local[p].stale /\ r.obj = local[p].obj
  <2>1. local' = [local EXCEPT ![p].at = @ + 1, ![p].val = c, ![p].decl = 0]
    BY <1>0, NotLast
  <2>2. local' = [local EXCEPT ![p] = r]
    BY <1>0, <2>1
  <2>3. /\ r.pc = local[p].pc /\ r.at = local[p].at + 1 /\ r.call = local[p].call
        /\ r.val = c /\ r.key = local[p].key /\ r.decl = 0
        /\ r.stale = local[p].stale /\ r.obj = local[p].obj
    BY <1>0 DEF Locals
  <2>4. local[p].pc = "steps"
    BY DEF Inside, At
  <2> HIDE DEF r
  <2> QED BY <1>0, <2>2, <2>3, <2>4
<1> HIDE DEF r
<1>2. Steps(local[p].call)' = Steps(local[p].call)
  BY <1>1 DEF Steps
<1>3. /\ local[p].at + 1 \in 1..Len(Steps(local[p].call)) /\ local[p].at + 1 # 1
  <2>1. WellFormed(Steps(local[p].call)) /\ local[p].at \in 1..(Len(Steps(local[p].call)) - 1)
    BY <1>0, <1>1, NotLast, StepsOfCaller
  <2> QED BY <2>1 DEF WellFormed
<1>4. Owns(p)'
  <2>1. \A q \in Procs \ {p} : local'[q].val # local'[p].val
    BY <1>0, <1>1
  <2> QED BY <1>1, <1>2, <2>1 DEF Owns
<1>5. Excludes(p)'
  <2>1. CASE Deleted(local[p].key)
    BY <1>1, <2>1, DeletedStays DEF Excludes
  <2>2. CASE ~Deleted(local[p].key)
    <3>1. /\ ~local[p].stale /\ CachedFor(local[p].key) = {}
          /\ \A q \in Procs \ {p} : Inside(q) => local[q].key # local[p].key
      BY <1>0, <2>2 DEF CallerOK, Excludes
    <3>2. CachedFor(local[p].key)' = {}
      BY <1>0, <1>1, <3>1 DEF CachedFor, ClientsGrow
    <3>3. \A q \in Procs \ {p} : Inside(q)' => local'[q].key # local'[p].key
      BY <1>0, <1>1, <3>1 DEF Inside, At
    <3> QED BY <1>1, <3>1, <3>2, <3>3 DEF Excludes
  <2> QED BY <2>1, <2>2
<1>6. Declared(p)'
  <2>1. Wanted(p)' = Wanted(p) /\ local'[p].decl = 0
    BY <1>1 DEF Wanted
  <2>2. local[p].obj \in Contents
    BY <1>0 DEF Locals
  <2>3. Len(Wanted(p)) \in Nat
    BY <2>2, SectionOf, DeclarationsForm, LenProperties DEF Wanted, BoundBefore
  <2> QED BY <2>1, <2>3 DEF Declared
<1> QED BY <1>0, <1>1, <1>2, <1>3, <1>4, <1>5, <1>6 DEF CallerOK, Inside, At

LEMMA AdvancedAlone ==
  ASSUME TypesInv, CallersInv, NEW p \in Procs, Inside(p), ~Doing(p, "store"),
         NEW c, Advance(p, c), c = local[p].val \/ c \notin Ids,
         UNCHANGED <<driver, cached, closing, cachedAtCall, broker>>, ClientsGrow,
         \A d \in Ids : \/ clients'[d].status = clients[d].status
                        \/ Owns(p) /\ d = local[p].val
  PROVE  ActsAlone(p)
<1>0. /\ CallerOK(p) /\ local[p] \in Locals /\ local \in [Procs -> Locals]
  BY DEF CallersInv, TypesInv
<1>1. local' = [local EXCEPT ![p].at = @ + 1, ![p].val = c, ![p].decl = 0]
  BY <1>0, NotLast
<1>2. /\ local' = [local EXCEPT ![p] = local'[p]]
      /\ local'[p].val = c /\ local'[p].key = local[p].key
  BY <1>0, <1>1 DEF Locals
<1> QED BY <1>2 DEF ActsAlone

\* The steps of a caller that is inside.
LEMMA InsideStep ==
  ASSUME TypesInv, CallersInv, NEW p \in Procs,
         \/ Make(p) \/ MakeFails(p) \/ Verify(p) \/ VerifyFails(p) \/ Start(p)
         \/ StartFails(p) \/ Store(p) \/ DeclareNext(p) \/ DeclaredAll(p) \/ DeclareFails(p)
  PROVE  ActsAlone(p) /\ CallerOK(p)'
<1>0. /\ CallerOK(p) /\ local[p] \in Locals /\ local \in [Procs -> Locals]
      /\ cached \subseteq Ids /\ cachedAtCall \subseteq Ids /\ NoClient \notin Ids
      /\ \A q \in Procs : local[q].val \in Ids \cup {NoClient}
      /\ local[p].pc = "steps" /\ Inside(p)
  BY IdsBound DEF CallersInv, CallerOK, TypesInv, Make, MakeFails, Verify, VerifyFails,
    Start, StartFails, Store, DeclareNext, DeclaredAll, DeclareFails, Doing, Inside, At
<1>a. WellFormed(Steps(local[p].call))
  BY <1>0, StepsOfCaller
<1>b. \A k, l : Doing(p, k) /\ Doing(p, l) => k = l
  BY DEF Doing
\* The client p holds, unchanged, is as the next step needs it.
<1>c. ASSUME ~Doing(p, "make"), ~Doing(p, "new"), ~Doing(p, "store"),
             Advance(p, local[p].val), UNCHANGED <<driver, cached, sdVars, broker>>,
             Ids' = Ids, \A d \in Ids : clients'[d].key = clients[d].key,
             \A d \in Ids : d # local[p].val => clients'[d].status = clients[d].status,
             clients'[local[p].val].status = "open"
      PROVE  ActsAlone(p) /\ CallerOK(p)'
  <2>1. local[p].val \in Ids /\ Owns(p) /\ local[p].at > 1
    BY <1>0, <1>c, HasMade
  <2>2. ClientsGrow
    BY <1>c DEF ClientsGrow, sdVars
  <2>3. UNCHANGED <<closing, cachedAtCall>>
    BY <1>c DEF sdVars
  <2>4. ActsAlone(p)
    BY <1>0, <1>c, <2>1, <2>2, <2>3, AdvancedAlone
  <2>5. Steps(local[p].call)[local[p].at + 1] # "start"
    <3>1. local[p].at \in 1..(Len(Steps(local[p].call)) - 1)
      BY <1>0, <1>c, NotLast
    <3> QED BY <1>a, <2>1, <3>1 DEF WellFormed
  <2>6. CallerOK(p)'
    <3> DEFINE c == local[p].val
    <3>1. /\ c \in Ids' /\ clients'[c].key = local[p].key /\ c \notin cached \cup cachedAtCall
          /\ \A q \in Procs \ {p} : local[q].val # c
      BY <1>c, <2>1 DEF Owns
    <3>2. clients'[c].status = "open" /\ Advance(p, c)
      BY <1>c
    <3> HIDE DEF c
    <3> QED BY <1>0, <1>c, <2>2, <2>3, <2>5, <3>1, <3>2, AdvancedOK
  <2> QED BY <2>4, <2>6
<1>1. CASE Make(p)
  <2> DEFINE c == Len(clients) + 1
  <2>1. /\ c \notin Ids /\ Ids' = Ids \cup {c} /\ c \in Ids' /\ c # NoClient
        /\ \A d \in Ids : clients'[d] = clients[d]
        /\ clients'[c] = [key |-> local[p].key, declared |-> FALSE,
               status |-> IF Steps(local[p].call)[local[p].at + 1] = "start"
                            THEN "unstarted" ELSE "open"]
    BY <1>1, MakeFrame DEF NoClient
  <2>2. Advance(p, c) /\ UNCHANGED <<driver, cached, closing, cachedAtCall, broker>>
    BY <1>1 DEF Make, cfgVars, sdVars
  <2> HIDE DEF c
  <2>3. ~Doing(p, "store")
    BY <1>1, <1>b DEF Make
  <2>4. ClientsGrow
    BY <2>1, <2>2 DEF ClientsGrow
  <2>5. ActsAlone(p)
    BY <1>0, <2>1, <2>2, <2>3, <2>4, AdvancedAlone
  <2>6. /\ clients'[c].key = local[p].key
        /\ clients'[c].status = IF Steps(local[p].call)[local[p].at + 1] = "start"
                                  THEN "unstarted" ELSE "open"
        /\ c \notin cached \cup cachedAtCall
        /\ \A q \in Procs \ {p} : local[q].val # c
    BY <1>0, <2>1
  <2>7. CallerOK(p)'
    BY <1>0, <2>1, <2>2, <2>3, <2>4, <2>6, AdvancedOK
  <2> QED BY <2>5, <2>7
<1>2. CASE MakeFails(p) \/ StartFails(p)
  BY <1>2, ReturnStep DEF MakeFails, StartFails, Fail, cfgVars
<1>3. CASE Verify(p) \/ DeclareFails(p)
  <2>1. /\ ~Doing(p, "make") /\ ~Doing(p, "new") /\ ~Doing(p, "store") /\ ~Doing(p, "start")
        /\ Advance(p, local[p].val)
        /\ UNCHANGED <<driver, clients, cached, sdVars, broker>>
    BY <1>3, <1>b DEF Verify, DeclareFails, cfgVars
  <2>2. clients[local[p].val].status = "open"
    BY <1>0, <2>1, OwnedStatus
  <2>3. Ids' = Ids
    BY <2>1 DEF Ids
  <2> QED BY <1>c, <2>1, <2>2, <2>3
<1>4. CASE Start(p)
  <2>1. /\ ~Doing(p, "make") /\ ~Doing(p, "new") /\ ~Doing(p, "store")
        /\ SetStatus(local[p].val, "open") /\ Advance(p, local[p].val)
        /\ UNCHANGED <<driver, cached, sdVars, broker>>
    BY <1>4, <1>b DEF Start, cfgVars
  <2>2. local[p].val \in Ids
    BY <1>0, <2>1, HasMade
  <2>3. /\ Ids' = Ids /\ \A d \in Ids : clients'[d].key = clients[d].key
        /\ \A d \in Ids : d # local[p].val => clients'[d].status = clients[d].status
        /\ clients'[local[p].val].status = "open"
    BY <2>1, <2>2, SetStatusFrame
  <2> QED BY <1>c, <2>1, <2>3
<1>5. CASE DeclaredAll(p)
  <2>1. /\ ~Doing(p, "make") /\ ~Doing(p, "new") /\ ~Doing(p, "store") /\ ~Doing(p, "start")
        /\ Advance(p, local[p].val)
        /\ UNCHANGED <<driver, cached, sdVars, broker>>
    BY <1>5, <1>b DEF DeclaredAll, cfgVars
  <2>2. /\ Ids' = Ids /\ \A d \in Ids : clients'[d].key = clients[d].key
        /\ \A d \in Ids : clients'[d].status = clients[d].status
        /\ local[p].val \in Ids
    BY <1>0, <1>5, DeclaredFrame
  <2>3. clients'[local[p].val].status = "open"
    BY <1>0, <2>1, <2>2, OwnedStatus
  <2> QED BY <1>c, <2>1, <2>2, <2>3
<1>6. CASE VerifyFails(p)
  <2>1. /\ ~Doing(p, "make") /\ ~Doing(p, "new")
        /\ SetStatus(local[p].val, "closed") /\ Return(p, NoClient)
        /\ UNCHANGED <<driver, cached, sdVars, broker>>
    BY <1>6, <1>b DEF VerifyFails, Fail, cfgVars
  <2>2. local[p].val \in Ids /\ Owns(p)
    BY <1>0, <2>1, HasMade
  <2>3. /\ Ids' = Ids /\ \A d \in Ids : clients'[d].key = clients[d].key
        /\ \A d \in Ids : d # local[p].val => clients'[d].status = clients[d].status
    BY <2>1, <2>2, SetStatusFrame
  <2>4. ClientsGrow
    BY <2>1, <2>3 DEF ClientsGrow, sdVars
  <2>5. /\ local' = [local EXCEPT ![p] = local'[p]]
        /\ local'[p].val = NoClient /\ local'[p].pc = "idle"
    BY <1>0, <2>1 DEF Return, Idle
  <2>6. ActsAlone(p)
    BY <1>0, <2>1, <2>2, <2>3, <2>4, <2>5 DEF ActsAlone, sdVars, Inside, At
  <2> QED BY <2>1, <2>6, ReturnedOK
<1>7. CASE Store(p)
  <2>1. /\ ~Doing(p, "make") /\ ~Doing(p, "new") /\ Return(p, local[p].val)
        /\ UNCHANGED <<driver, clients, sdVars, broker>>
        /\ cached' \subseteq cached \cup {local[p].val}
    BY <1>0, <1>7, <1>b, LastReturns DEF Store, cfgVars
  <2>2. local[p].val \in Ids /\ Owns(p)
    BY <1>0, <2>1, HasMade
  <2>3. Ids' = Ids /\ ClientsGrow
    BY <2>1 DEF ClientsGrow, sdVars, Ids
  <2>4. /\ local' = [local EXCEPT ![p] = local'[p]]
        /\ local'[p].val = local[p].val /\ local'[p].pc = "idle"
    BY <1>0, <2>1 DEF Return, Idle
  <2>5. ActsAlone(p)
    BY <1>0, <2>1, <2>2, <2>3, <2>4 DEF ActsAlone, sdVars, Inside, At
  <2> QED BY <2>1, <2>2, <2>3, <2>5, ReturnedOK
<1>8. CASE DeclareNext(p)
  <2> DEFINE r == [local[p] EXCEPT !.decl = @ + 1]
             D == Wanted(p)
             n == local[p].decl
  <2>1. /\ local' = [local EXCEPT ![p] = r] /\ local'[p] = r
        /\ r.pc = "steps" /\ r.at = local[p].at /\ r.call = local[p].call
        /\ r.val = local[p].val /\ r.key = local[p].key /\ r.decl = n + 1
        /\ r.stale = local[p].stale /\ r.obj = local[p].obj
    BY <1>0, <1>8 DEF Locals, DeclareNext
  <2> HIDE DEF r
  <2>2. /\ UNCHANGED <<driver, clients, cached, sdVars>>
        /\ n < Len(D) /\ Declare(D[n + 1])
    BY <1>8 DEF DeclareNext, cfgVars
  <2>3. broker \subseteq broker' /\ (D[n + 1].kind = "channel" \/ D[n + 1] \in broker')
    BY <2>2 DEF Declare
  <2>4. ActsAlone(p)
    BY <1>0, <2>1, <2>2, <2>3, NoneChanged
  <2>5. Wanted(p)' = D /\ Steps(local[p].call)' = Steps(local[p].call)
    BY <2>1, <2>2 DEF Wanted, Steps
  <2>6. Declared(p)'
    <3>1. /\ Len(D) \in Nat /\ n \in 0..Len(D)
          /\ \A i \in 1..n : D[i].kind = "channel" \/ D[i] \in broker
      <4>1. local[p].obj \in Contents
        BY <1>0 DEF Locals
      <4>2. Len(D) \in Nat
        BY <4>1, SectionOf, DeclarationsForm, LenProperties DEF Wanted, BoundBefore
      <4> QED BY <1>0, <4>2 DEF CallerOK, Declared
    <3> HIDE DEF D, n
    <3>2. n + 1 \in 0..Len(D)
      BY <2>2, <3>1
    <3>3. \A i \in 1..(n + 1) : D[i].kind = "channel" \/ D[i] \in broker'
      <4>1. \A i \in 1..(n + 1) : i \in 1..n \/ i = n + 1
        BY <3>1
      <4> QED BY <2>3, <3>1, <4>1
    <3> QED BY <2>1, <2>5, <3>2, <3>3 DEF Declared
  <2>7. local[p].at # 1 => Owns(p)'
    BY <1>0, <2>1, <2>2, <2>5 DEF CallerOK, Owns, Ids, sdVars
  <2>8. Excludes(p)'
    <3>1. \A k : Deleted(k) => Deleted(k)'
      BY <2>2 DEF Deleted, Ids, sdVars
    <3>2. \A k : CachedFor(k)' = CachedFor(k)
      BY <2>2 DEF CachedFor
    <3>3. \A q \in Procs \ {p} : local'[q] = local[q]
      BY <1>0, <2>1
    <3> QED BY <1>0, <2>1, <3>1, <3>2, <3>3 DEF CallerOK, Excludes, Inside, At
  <2>9. CallerOK(p)'
    <3>1. local'[p].val \in Ids' \cup {NoClient}
      BY <1>0, <2>1, <2>2 DEF Ids
    <3>2. /\ local[p].call \in Wrapper /\ local[p].key \in Keys
          /\ local[p].key.content = local[p].obj
          /\ local[p].at \in 1..Len(Steps(local[p].call))
          /\ local[p].at = 1 => local[p].val = NoClient
      BY <1>0 DEF CallerOK
    <3> QED BY <2>1, <2>5, <2>6, <2>7, <2>8, <3>1, <3>2 DEF CallerOK, Inside, At
  <2> QED BY <2>4, <2>9
<1> QED BY <1>1, <1>2, <1>3, <1>4, <1>5, <1>6, <1>7, <1>8

-----------------------------------------------------------------------------
\* The steps of Shutdown's goroutines: none touches a client that is not stored.
ClosesCached ==
  /\ UNCHANGED <<driver, local, cached, broker>> /\ ClientsGrow
  /\ cachedAtCall' \subseteq cachedAtCall \cup cached
  /\ \A d \in Ids : \/ clients'[d].status = clients[d].status
                    \/ d \in cachedAtCall
                    \/ clients[d].status = "stopping"

LEMMA CallersLeftAlone ==
  ASSUME TypesInv, CallersInv, ClosesCached, NEW r \in Procs
  PROVE  CallerOK(r)'
<1>1. /\ CallerOK(r) /\ local[r] \in Locals /\ local' = local /\ driver' = driver
      /\ ClientsGrow /\ broker \subseteq broker' /\ cached \subseteq Ids
  BY DEF CallersInv, TypesInv, ClosesCached
<1>2. local'[r] = [local[r] EXCEPT !.stale = local'[r].stale]
  BY <1>1 DEF Locals
<1>3. ASSUME Inside(r), Owns(r)
      PROVE  /\ clients'[local[r].val].status = clients[local[r].val].status
             /\ local[r].val \notin cached' \cup cachedAtCall'
             /\ \A q \in Procs \ {r} : local'[q].val # local[r].val
  BY <1>1, <1>3 DEF ClosesCached, Owns
<1>4. ASSUME Inside(r)
      PROVE  Excludes(r)'
  <2>1. CASE Deleted(local[r].key)
    BY <1>1, <2>1, DeletedStays DEF Excludes
  <2>2. CASE ~Deleted(local[r].key)
    <3>1. /\ ~local[r].stale /\ CachedFor(local[r].key) = {}
          /\ \A q \in Procs \ {r} : Inside(q) => local[q].key # local[r].key
      BY <1>1, <1>4, <2>2 DEF CallerOK, Excludes
    <3>2. CachedFor(local[r].key)' = {}
      BY <1>1, <3>1 DEF ClosesCached, CachedFor, ClientsGrow
    <3> QED BY <1>1, <3>1, <3>2 DEF Excludes, Inside, At
  <2> QED BY <2>1, <2>2
<1>5. ~Inside(r) => ~local'[r].stale
  BY <1>1 DEF CallerOK, Inside, At
<1> QED BY <1>1, <1>2, <1>3, <1>4, <1>5, CallerFrame

LEMMA CloseStep ==
  ASSUME TypesInv, ShutdownInv,
         \/ UNCHANGED vars
         \/ \E c \in 1..MaxClients : \/ CloseClient(c) \/ AwaitStop(c)
                                     \/ AddHandler(c) \/ StopChanCloses(c)
         \/ StartShutdown \/ Graceful \/ TimeOut
  PROVE  ClosesCached
<1>0. cachedAtCall \subseteq Ids /\ cached \subseteq Ids /\ Ids \subseteq 1..MaxClients
  BY IdsBound DEF TypesInv
<1>1. CASE UNCHANGED vars \/ (\E c \in 1..MaxClients : AddHandler(c)) \/ Graceful \/ TimeOut
  BY <1>1 DEF vars, cfgVars, sdVars, AddHandler, Graceful, TimeOut, ClosesCached,
    ClientsGrow, Ids
<1>2. ASSUME NEW c \in 1..MaxClients, CloseClient(c)
      PROVE  ClosesCached
  <2>1. c \in cachedAtCall /\ c \in Ids
    BY <1>0, <1>2 DEF CloseClient, ShutdownInv
  <2>2. /\ Ids' = Ids /\ \A d \in Ids : clients'[d].key = clients[d].key
        /\ \A d \in Ids : d # c => clients'[d].status = clients[d].status
    BY <1>2, <2>1, SetStatusFrame DEF CloseClient
  <2>3. \A d \in 1..MaxClients : closing[d] = "done" => closing'[d] = "done"
    BY <1>2 DEF CloseClient, TypesInv
  <2> QED BY <1>0, <1>2, <2>1, <2>2, <2>3 DEF ClosesCached, ClientsGrow, CloseClient, cfgVars
<1>3. ASSUME NEW c \in 1..MaxClients, AwaitStop(c)
      PROVE  ClosesCached
  <2>1. \A d \in 1..MaxClients : closing[d] = "done" => closing'[d] = "done"
    BY <1>3 DEF AwaitStop, TypesInv
  <2> QED BY <1>0, <1>3, <2>1 DEF ClosesCached, ClientsGrow, AwaitStop, cfgVars, Ids
<1>4. ASSUME NEW c \in 1..MaxClients, StopChanCloses(c)
      PROVE  ClosesCached
  <2>1. c \in Ids /\ clients[c].status = "stopping"
    BY <1>4 DEF StopChanCloses
  <2>2. /\ Ids' = Ids /\ \A d \in Ids : clients'[d].key = clients[d].key
        /\ \A d \in Ids : d # c => clients'[d].status = clients[d].status
    BY <1>4, <2>1, SetStatusFrame DEF StopChanCloses
  <2> QED BY <1>4, <2>1, <2>2 DEF ClosesCached, ClientsGrow, StopChanCloses, cfgVars, sdVars
<1>5. CASE StartShutdown
  <2>1. \A d \in 1..MaxClients : closing[d] # "done"
    BY <1>5 DEF StartShutdown, ShutdownInv
  <2> QED BY <1>0, <1>5, <2>1 DEF ClosesCached, ClientsGrow, StartShutdown, cfgVars, Ids
<1> QED BY <1>1, <1>2, <1>3, <1>4, <1>5

\* The two deletes of a closing goroutine.
LEMMA EvictStep ==
  ASSUME TypesInv, CallersInv, ShutdownInv, NEW c \in 1..MaxClients, Evict(c)
  PROVE  CallersInv'
<1> SUFFICES ASSUME NEW r \in Procs
             PROVE  CallerOK(r)'
  BY DEF CallersInv
<1>0. /\ local \in [Procs -> Locals] /\ CallerOK(r) /\ local[r] \in Locals
      /\ c \in Ids /\ closing[c] = "evict" /\ \A d \in Ids : d \in 1..MaxClients
  BY IdsBound DEF TypesInv, CallersInv, ShutdownInv, Evict
<1>1. /\ UNCHANGED <<driver, clients, broker, cachedAtCall>>
      /\ cached' = cached \ CachedFor(clients[c].key)
      /\ closing' = [closing EXCEPT ![c] = "done"]
  BY DEF Evict, cfgVars
<1>2. \A q \in Procs : local'[q] =
        [local[q] EXCEPT !.stale = @ \/ (Inside(q) /\ local[q].key = clients[c].key)]
  BY DEF Evict
<1>3. \A q \in Procs :
        /\ local'[q].pc = local[q].pc /\ local'[q].key = local[q].key
        /\ local'[q].val = local[q].val
        /\ local'[q].stale =
             (local[q].stale \/ (Inside(q) /\ local[q].key = clients[c].key))
  <2>1. ASSUME NEW q \in Procs, NEW b
        PROVE  LET l == [local[q] EXCEPT !.stale = b] IN
               /\ l.pc = local[q].pc /\ l.key = local[q].key /\ l.val = local[q].val
               /\ l.stale = b
    BY <1>0 DEF Locals
  <2> SUFFICES ASSUME NEW q \in Procs
               PROVE  /\ local'[q].pc = local[q].pc /\ local'[q].key = local[q].key
                      /\ local'[q].val = local[q].val
                      /\ local'[q].stale =
                           (local[q].stale \/ (Inside(q) /\ local[q].key = clients[c].key))
    OBVIOUS
  <2> DEFINE b == local[q].stale \/ (Inside(q) /\ local[q].key = clients[c].key)
  <2>2. local'[q] = [local[q] EXCEPT !.stale = b]
    BY <1>2
  <2> HIDE DEF b
  <2>3. /\ local'[q].pc = local[q].pc /\ local'[q].key = local[q].key
        /\ local'[q].val = local[q].val /\ local'[q].stale = b
    BY <2>1, <2>2
  <2> QED BY <2>3 DEF b
<1>4. local'[r] = [local[r] EXCEPT !.stale = local'[r].stale]
  <2>1. \A b : [local[r] EXCEPT !.stale = b].stale = b
    BY <1>0 DEF Locals
  <2> QED BY <1>2, <2>1
<1>5. ClientsGrow /\ closing'[c] = "done"
  BY <1>0, <1>1 DEF ClientsGrow, Ids, TypesInv
<1>6. Deleted(clients[c].key)'
  BY <1>0, <1>1, <1>5 DEF Deleted, Ids
<1>7. ASSUME Inside(r), Owns(r)
      PROVE  /\ clients'[local[r].val].status = clients[local[r].val].status
             /\ local[r].val \notin cached' \cup cachedAtCall'
             /\ \A q \in Procs \ {r} : local'[q].val # local[r].val
  BY <1>1, <1>3, <1>7 DEF Owns
<1>8. ASSUME Inside(r)
      PROVE  Excludes(r)'
  <2>1. CASE Deleted(local[r].key)
    BY <1>3, <1>5, <2>1, DeletedStays DEF Excludes
  <2>2. CASE local[r].key = clients[c].key
    BY <1>1, <1>3, <1>6, <2>2 DEF Excludes
  <2>3. CASE ~Deleted(local[r].key) /\ local[r].key # clients[c].key
    <3>1. /\ ~local[r].stale /\ CachedFor(local[r].key) = {}
          /\ \A q \in Procs \ {r} : Inside(q) => local[q].key # local[r].key
      BY <1>0, <1>8, <2>3 DEF CallerOK, Excludes
    <3>2. CachedFor(local[r].key)' = {}
      BY <1>1, <1>3, <3>1 DEF CachedFor
    <3>3. \A q \in Procs \ {r} : Inside(q)' => local'[q].key # local'[r].key
      BY <1>3, <3>1 DEF Inside, At
    <3> QED BY <1>3, <2>3, <3>1, <3>2, <3>3 DEF Excludes
  <2> QED BY <2>1, <2>2, <2>3
<1>9. ~Inside(r) => ~local'[r].stale
  BY <1>0, <1>3 DEF CallerOK, Inside, At
<1> QED BY <1>0, <1>1, <1>4, <1>5, <1>7, <1>8, <1>9, CallerFrame

LEMMA CallersStep ==
  ASSUME TypesInv, CallersInv, ShutdownInv, [Next]_vars
  PROVE  CallersInv'
<1>1. ASSUME NEW p \in Procs, (\E w \in Wrappers : Call(p, w)) \/ Reload(p) \/ Proceed(p)
      PROVE  CallersInv'
  <2>1. ActsAlone(p) /\ CallerOK(p)'
    BY <1>1, OutsideStep, EnterStep, InsideStep DEF Proceed
  <2>2. \A r \in Procs \ {p} : CallerOK(r)'
    BY <2>1, OthersStay
  <2> QED BY <2>1, <2>2 DEF CallersInv
<1>2. ASSUME \/ UNCHANGED vars
             \/ \E c \in 1..MaxClients : \/ CloseClient(c) \/ AwaitStop(c)
                                         \/ AddHandler(c) \/ StopChanCloses(c)
             \/ StartShutdown \/ Graceful \/ TimeOut
      PROVE  CallersInv'
  BY <1>2, CloseStep, CallersLeftAlone DEF CallersInv
<1> QED BY <1>1, <1>2, EvictStep DEF Next, Closing

-----------------------------------------------------------------------------
\* The shared Config.
LEMMA ModeStep ==
  ASSUME TypesInv, CallersInv, ModeInv, [Next]_vars
  PROVE  ModeInv'
<1>0. local \in [Procs -> Locals] /\ \A r \in Procs : local[r] \in Locals /\ CallerOK(r)
  BY DEF TypesInv, CallersInv
<1>1. ASSUME UNCHANGED <<modeOf, mixed>>,
             \A r \in Procs : local'[r].pc \in {"key", "load"} =>
               /\ local'[r].pc = local[r].pc /\ local'[r].call = local[r].call
               /\ local'[r].obj = local[r].obj /\ local'[r].key = local[r].key
      PROVE  ModeInv'
  BY <1>1 DEF ModeInv, OwnMode, At
<1>2. ASSUME NEW p \in Procs, NEW r, local' = [local EXCEPT ![p] = r],
             UNCHANGED <<modeOf, mixed>>, r.pc \notin {"key", "load"}
      PROVE  ModeInv'
  <2>1. local'[p] = r /\ \A q \in Procs \ {p} : local'[q] = local[q]
    BY <1>0, <1>2
  <2> QED BY <1>1, <1>2, <2>1
<1>3. ASSUME NEW p \in Procs, NEW c, Return(p, c), UNCHANGED <<modeOf, mixed>>
      PROVE  ModeInv'
  <2>1. [Idle EXCEPT !.val = c].pc = "idle"
    BY DEF Idle
  <2> QED BY <1>2, <1>3, <2>1 DEF Return
<1>4. ASSUME NEW p \in Procs, NEW c, Inside(p), Advance(p, c), UNCHANGED <<modeOf, mixed>>
      PROVE  ModeInv'
  <2>1. [local[p] EXCEPT !.at = @ + 1, !.val = c, !.decl = 0].pc = "steps"
    BY <1>0, <1>4 DEF Locals, Inside, At
  <2>2. \/ Return(p, c)
        \/ local' = [local EXCEPT ![p] = [local[p] EXCEPT !.at = @ + 1, !.val = c, !.decl = 0]]
    BY <1>0, <1>4 DEF Advance
  <2> QED BY <1>2, <1>3, <1>4, <2>1, <2>2
<1>5. ASSUME NEW p \in Procs, NEW w \in Wrappers, Call(p, w)
      PROVE  ModeInv'
  <2> DEFINE l == IF w.via = "path" THEN "mode" ELSE "key"
             o == IF w.via = "path" THEN snapshot ELSE 1
             r == [Idle EXCEPT !.pc = l, !.call = w, !.obj = o]
  <2>1. local' = [local EXCEPT ![p] = r] /\ UNCHANGED <<modeOf, mixed>>
    BY <1>5 DEF Call, Begin, cfgVars
  <2>2. r.pc = l /\ r.call = w
    BY DEF Idle
  <2>3. local'[p] = r /\ \A q \in Procs \ {p} : local'[q] = local[q]
    BY <1>0, <2>1
  <2> HIDE DEF r
  <2> QED BY <1>0, <2>1, <2>2, <2>3 DEF ModeInv, OwnMode, At
<1>6. ASSUME NEW p \in Procs, Reload(p)
      PROVE  ModeInv'
  <2> DEFINE r == [Idle EXCEPT !.pc = "reload", !.call = NoCall, !.obj = snapshot + 1]
  <2>1. local' = [local EXCEPT ![p] = r] /\ r.pc = "reload" /\ UNCHANGED <<modeOf, mixed>>
    BY <1>6 DEF Reload, Begin, Idle
  <2> HIDE DEF r
  <2> QED BY <1>2, <2>1
<1>7. ASSUME NEW p \in Procs, ReloadTarget(p)
      PROVE  ModeInv'
  <2> DEFINE m == modeOf[local[p].obj]
             x == [role |-> "producer", via |-> "path", mode |-> Reloaded(m)]
             y == IF driver = "redis" /\ m = "cluster" THEN "key" ELSE "mode"
             r == [local[p] EXCEPT !.pc = y, !.call = x]
  <2>1. y = "key" => m = x.mode
    BY DEF Reloaded, redisReload
  <2>2. y = "key" \/ y = "mode"
    OBVIOUS
  <2>3. local' = [local EXCEPT ![p].pc = y, ![p].call = x] /\ UNCHANGED <<modeOf, mixed>>
    BY <1>7 DEF ReloadTarget, cfgVars
  <2> HIDE DEF y, x, m
  <2>4. local' = [local EXCEPT ![p] = r]
    BY <1>0, <2>3
  <2>5. r.pc = y /\ r.call = x /\ r.obj = local[p].obj
    BY <1>0 DEF Locals
  <2>6. local'[p] = r /\ \A q \in Procs \ {p} : local'[q] = local[q]
    BY <1>0, <2>4
  <2> HIDE DEF r
  <2> QED BY <1>0, <2>1, <2>2, <2>3, <2>5, <2>6 DEF ModeInv, OwnMode, At, m
<1>8. ASSUME NEW p \in Procs, SetMode(p)
      PROVE  ModeInv'
  <2> DEFINE r == [local[p] EXCEPT !.pc = "key"]
             o == local[p].obj
             m == local[p].call.mode
  <2>1. /\ local'[p] = r /\ \A q \in Procs \ {p} : local'[q] = local[q]
        /\ r.pc = "key" /\ r.call = local[p].call /\ r.obj = o
    BY <1>0, <1>8 DEF Locals, SetMode, Goto
  <2> HIDE DEF r
  <2>2. /\ o \in Contents /\ modeOf \in [Contents -> ModeFields]
        /\ modeOf' = [modeOf EXCEPT ![o] = m]
        /\ mixed' = IF modeOf[o] \in {"", m} THEN mixed ELSE mixed \cup {o}
    BY <1>0, <1>8 DEF SetMode, TypesInv, Locals
  <2>3. modeOf'[o] = m /\ mixed \subseteq mixed'
        /\ \A n \in Contents : n # o => modeOf'[n] = modeOf[n]
    BY <2>2
  <2>4. \A q \in Procs : At(q, "key") =>
          local[q].call.mode \in Modes /\ local[q].obj \in Contents
    BY <1>0 DEF At, CallerOK, Wrapper, Modes, Locals
  <2>5. ASSUME NEW q \in Procs \ {p}, At(q, "key"), local[q].call.via = "path"
        PROVE  modeOf'[local[q].obj] = local[q].call.mode \/ local[q].obj \in mixed'
    <3>1. modeOf[local[q].obj] = local[q].call.mode \/ local[q].obj \in mixed
      BY <2>5 DEF ModeInv
    <3>2. local[q].call.mode # ""
      BY <2>4, <2>5 DEF Modes
    <3> HIDE DEF o, m
    <3> QED BY <2>2, <2>3, <2>4, <2>5, <3>1, <3>2
  <2> HIDE DEF o, m
  <2>6. \A q \in Procs : At(q, "key")' /\ local'[q].call.via = "path" =>
          modeOf'[local'[q].obj] = local'[q].call.mode \/ local'[q].obj \in mixed'
    BY <2>1, <2>3, <2>5 DEF At, m
  <2>7. OwnMode'
    BY <2>1, <2>3 DEF ModeInv, OwnMode, At
  <2> QED BY <2>6, <2>7 DEF ModeInv
<1>9. ASSUME NEW p \in Procs, MakeKey(p)
      PROVE  ModeInv'
  <2>1. /\ local[p].call \in Wrapper /\ local[p].obj \in Contents
        /\ PrintedMode(p) \in ModeFields
    BY <1>0, <1>9 DEF MakeKey, At, CallerOK, Locals, PrintedMode, Wrapper, Modes, ModeFields, TypesInv
  <2>2. PICK k \in Keys : /\ k = KeyFor(local[p].call, local[p].obj, PrintedMode(p))
                         /\ k.print = PrintedMode(p)
    BY <2>1, KeyForm
  <2> DEFINE r == [local[p] EXCEPT !.pc = "load", !.key = k]
  <2>3. local' = [local EXCEPT ![p].pc = "load", ![p].key = k] /\ UNCHANGED <<modeOf, mixed>>
        /\ local[p].pc = "key"
    BY <1>9, <2>2 DEF MakeKey, cfgVars, At
  <2>4. /\ local'[p] = r /\ \A q \in Procs \ {p} : local'[q] = local[q]
        /\ r.pc = "load" /\ r.call = local[p].call /\ r.obj = local[p].obj /\ r.key = k
    BY <1>0, <2>3 DEF Locals
  <2> HIDE DEF r
  <2>5. \/ k.print = local[p].call.mode
        \/ local[p].call.via = "path" /\ local[p].obj \in mixed
    <3>1. local[p].call.via = "path" =>
            modeOf[local[p].obj] = local[p].call.mode \/ local[p].obj \in mixed
      BY <2>3 DEF ModeInv, At
    <3> QED BY <2>2, <3>1 DEF PrintedMode
  <2>6. modeOf' = modeOf /\ mixed' = mixed
    BY <2>3
  <2>7. ASSUME NEW q \in Procs, At(q, "key")', local'[q].call.via = "path"
        PROVE  modeOf'[local'[q].obj] = local'[q].call.mode \/ local'[q].obj \in mixed'
    BY <2>4, <2>6, <2>7 DEF ModeInv, At
  <2>8. ASSUME NEW q \in Procs, At(q, "load")'
        PROVE  \/ local'[q].key.print = local'[q].call.mode
               \/ local'[q].call.via = "path" /\ local'[q].obj \in mixed'
    <3>1. CASE q = p
      BY <2>4, <2>5, <2>6, <3>1
    <3>2. CASE q # p
      BY <2>4, <2>6, <2>8, <3>2 DEF ModeInv, OwnMode, At
    <3> QED BY <3>1, <3>2
  <2>9. OwnMode'
    BY <2>8 DEF OwnMode
  <2> QED BY <2>7, <2>9 DEF ModeInv
<1>10. ASSUME NEW p \in Procs, Load(p) \/ Enter(p)
       PROVE  ModeInv'
  <2>1. UNCHANGED <<modeOf, mixed>>
    BY <1>10 DEF Load, Enter, cfgVars
  <2>2. CASE \E c : Return(p, c)
    BY <1>3, <2>1, <2>2
  <2>3. CASE Goto(p, "enter")
    <3>1. /\ local' = [local EXCEPT ![p] = [local[p] EXCEPT !.pc = "enter"]]
          /\ [local[p] EXCEPT !.pc = "enter"].pc = "enter"
      BY <1>0, <2>3 DEF Goto, Locals
    <3> QED BY <1>2, <2>1, <3>1
  <2>4. CASE local' = [local EXCEPT ![p].pc = "steps", ![p].at = 1]
    <3>1. /\ local' = [local EXCEPT ![p] = [local[p] EXCEPT !.pc = "steps", !.at = 1]]
          /\ [local[p] EXCEPT !.pc = "steps", !.at = 1].pc = "steps"
      BY <1>0, <2>4 DEF Locals
    <3> QED BY <1>2, <2>1, <3>1
  <2> QED BY <1>10, <2>2, <2>3, <2>4 DEF Load, Enter, ReturnCached
<1>11. ASSUME NEW p \in Procs,
              \/ Make(p) \/ MakeFails(p) \/ Verify(p) \/ VerifyFails(p) \/ Start(p)
              \/ StartFails(p) \/ Store(p) \/ DeclaredAll(p) \/ DeclareFails(p)
       PROVE  ModeInv'
  <2>1. /\ UNCHANGED <<modeOf, mixed>> /\ Inside(p)
        /\ \E c : Return(p, c) \/ Advance(p, c)
    BY <1>11 DEF Make, MakeFails, Verify, VerifyFails, Start, StartFails, Store,
      DeclaredAll, DeclareFails, Doing, Fail, cfgVars
  <2> QED BY <1>3, <1>4, <2>1
<1>12. ASSUME NEW p \in Procs, DeclareNext(p)
       PROVE  ModeInv'
  <2>1. /\ local' = [local EXCEPT ![p] = [local[p] EXCEPT !.decl = @ + 1]]
        /\ [local[p] EXCEPT !.decl = @ + 1].pc = "steps"
        /\ UNCHANGED <<modeOf, mixed>>
    BY <1>0, <1>12 DEF DeclareNext, Doing, Inside, At, Locals, cfgVars
  <2> QED BY <1>2, <2>1
<1>13. ASSUME NEW c \in 1..MaxClients, Evict(c)
       PROVE  ModeInv'
  <2>1. \A r \in Procs : /\ local'[r].pc = local[r].pc /\ local'[r].call = local[r].call
                         /\ local'[r].obj = local[r].obj /\ local'[r].key = local[r].key
    BY <1>0, <1>13 DEF Evict, Locals
  <2> QED BY <1>1, <1>13, <2>1 DEF Evict, cfgVars
<1>14. ASSUME UNCHANGED <<modeOf, mixed, local>>
       PROVE  ModeInv'
  BY <1>1, <1>14
<1>15. ASSUME \/ UNCHANGED vars
              \/ \E c \in 1..MaxClients : \/ CloseClient(c) \/ AwaitStop(c)
                                          \/ AddHandler(c) \/ StopChanCloses(c)
              \/ StartShutdown \/ Graceful \/ TimeOut
       PROVE  ModeInv'
  BY <1>14, <1>15 DEF vars, cfgVars, CloseClient, AwaitStop, AddHandler, StopChanCloses,
    StartShutdown, Graceful, TimeOut
<1> QED BY <1>5, <1>6, <1>7, <1>8, <1>9, <1>10, <1>11, <1>12, <1>13, <1>15
          DEF Next, Proceed, Closing

-----------------------------------------------------------------------------
\* The broker.
LEMMA DeclaredStays ==
  ASSUME TypesInv, DeclaredIsInPlace, broker \subseteq broker',
         \A c \in Ids' : clients'[c].declared =>
           /\ c \in Ids /\ clients'[c].key = clients[c].key
           /\ clients[c].declared \/ InPlace(Sections[clients[c].key.content])
  PROVE  DeclaredIsInPlace'
<1> SUFFICES ASSUME NEW c \in Ids', clients'[c].declared
             PROVE  \A d \in Range(Declarations(Sections[clients'[c].key.content])) :
                      d.kind = "channel" \/ d \in broker'
  BY DEF DeclaredIsInPlace, InPlace
<1>1. /\ InPlace(Sections[clients[c].key.content])
      /\ clients'[c].key = clients[c].key
  BY DEF DeclaredIsInPlace
<1> QED BY <1>1 DEF InPlace

LEMMA BrokerStep ==
  ASSUME TypesInv, CallersInv, ShutdownInv, BrokerInv, [Next]_vars
  PROVE  BrokerInv'
<1>0. local \in [Procs -> Locals] /\ \A r \in Procs : local[r] \in Locals /\ CallerOK(r)
  BY DEF TypesInv, CallersInv
<1>1. ASSUME UNCHANGED broker,
             \A c \in Ids' : clients'[c].declared =>
               c \in Ids /\ clients'[c].key = clients[c].key /\ clients[c].declared
      PROVE  BrokerInv'
  BY <1>1, DeclaredStays DEF BrokerInv, DeadLettersKept
<1>2. ASSUME UNCHANGED <<broker, clients>>
      PROVE  BrokerInv'
  BY <1>1, <1>2 DEF Ids
<1>3. ASSUME NEW p \in Procs, Make(p)
      PROVE  BrokerInv'
  <2>1. UNCHANGED broker
    BY <1>3 DEF Make
  <2>2. ~clients'[Len(clients) + 1].declared
    BY <1>3, MakeFrame
  <2>3. Ids' = Ids \cup {Len(clients) + 1} /\ \A d \in Ids : clients'[d] = clients[d]
    BY <1>3, MakeFrame
  <2> QED BY <1>1, <2>1, <2>2, <2>3
<1>4. ASSUME NEW c \in Ids, NEW s \in Statuses, SetStatus(c, s), UNCHANGED broker
      PROVE  BrokerInv'
  BY <1>1, <1>4, SetStatusFrame
<1>5. ASSUME NEW p \in Procs, VerifyFails(p) \/ Start(p)
      PROVE  BrokerInv'
  <2>1. local[p].val \in Ids
    BY <1>0, <1>5, HasMade DEF VerifyFails, Start, Doing
  <2> QED BY <1>4, <1>5, <2>1 DEF VerifyFails, Start, Statuses
<1>6. ASSUME NEW c \in 1..MaxClients, CloseClient(c) \/ StopChanCloses(c)
      PROVE  BrokerInv'
  <2>1. c \in Ids
    BY <1>6 DEF CloseClient, StopChanCloses, ShutdownInv, TypesInv
  <2> QED BY <1>4, <1>6, <2>1 DEF CloseClient, StopChanCloses, Statuses
<1>7. ASSUME NEW p \in Procs, DeclareNext(p)
      PROVE  BrokerInv'
  <2> DEFINE D == Wanted(p)
             n == local[p].decl
  <2>1. /\ UNCHANGED clients /\ n < Len(D) /\ Declare(D[n + 1])
    BY <1>7 DEF DeclareNext
  <2>2. BoundBefore(D) /\ Len(D) \in Nat
    <3>1. local[p].obj \in Contents
      BY <1>0 DEF Locals
    <3>2. BoundBefore(D)
      BY <3>1, SectionOf, DeclarationsForm DEF Wanted
    <3> QED BY <3>2, LenProperties DEF BoundBefore
  <2>3. /\ n \in Nat
        /\ \A i \in 1..n : D[i].kind = "channel" \/ D[i] \in broker
    BY <1>0, <1>7 DEF DeclareNext, Doing, CallerOK, Declared, Locals
  <2>4. /\ broker \subseteq broker'
        /\ broker' \subseteq broker \cup {D[n + 1]}
    BY <2>1 DEF Declare
  <2>5. DeclaredIsInPlace'
    BY <2>1, <2>4, DeclaredStays DEF BrokerInv, Ids
  <2> HIDE DEF D, n
  <2>6. ASSUME NEW q \in broker', q.kind = "queue", q.arg # "none"
        PROVE  \E b \in broker' : b.kind = "binding" /\ b.arg = q.arg
    <3>1. CASE q \in broker
      BY <2>4, <2>6, <3>1 DEF BrokerInv, DeadLettersKept
    <3>2. CASE q = D[n + 1]
      <4>1. n + 1 \in 1..Len(D)
        BY <2>1, <2>2, <2>3
      <4>2. PICK j \in 1..n : D[j].kind = "binding" /\ D[j].arg = D[n + 1].arg
        <5>1. \E j \in 1..((n + 1) - 1) : D[j].kind = "binding" /\ D[j].arg = D[n + 1].arg
          BY <2>2, <2>6, <3>2, <4>1 DEF BoundBefore
        <5>2. (n + 1) - 1 = n
          BY <2>3
        <5> QED BY <5>1, <5>2
      <4>3. D[j] \in broker
        BY <2>3, <4>2
      <4> QED BY <2>4, <3>2, <4>2, <4>3
    <3> QED BY <2>4, <3>1, <3>2
  <2> QED BY <2>5, <2>6 DEF BrokerInv, DeadLettersKept
<1>8. ASSUME NEW p \in Procs, DeclaredAll(p)
      PROVE  BrokerInv'
  <2> DEFINE D == Wanted(p)
             c == local[p].val
  <2>1. /\ UNCHANGED broker /\ local[p].decl = Len(D)
        /\ \A i \in 1..Len(D) : D[i].kind = "channel" \/ D[i] \in broker
    BY <1>0, <1>8 DEF DeclaredAll, Doing, CallerOK, Declared
  <2>2. /\ Ids' = Ids /\ c \in Ids
        /\ \A d \in Ids : /\ clients'[d].key = clients[d].key
                          /\ d # c => clients'[d] = clients[d]
    BY <1>0, <1>8, DeclaredFrame
  <2>3. clients[c].key.content = local[p].obj
    BY <1>0, <1>8, HasMade DEF DeclaredAll, Doing, Inside, At, CallerOK, Owns
  <2>4. DOMAIN D = 1..Len(D)
    <3>1. local[p].obj \in Contents
      BY <1>0 DEF Locals
    <3> QED BY <3>1, SectionOf, DeclarationsForm, LenProperties DEF Wanted, BoundBefore
  <2>5. InPlace(Sections[clients[c].key.content])
    BY <2>1, <2>3, <2>4 DEF InPlace, Range, Wanted
  <2>6. DeclaredIsInPlace'
    BY <2>1, <2>2, <2>5, DeclaredStays DEF BrokerInv
  <2> QED BY <2>1, <2>6 DEF BrokerInv, DeadLettersKept
<1>9. ASSUME NEW p \in Procs,
             \/ (\E w \in Wrappers : Call(p, w)) \/ Reload(p) \/ ReloadTarget(p) \/ SetMode(p)
             \/ MakeKey(p) \/ Load(p) \/ Enter(p) \/ MakeFails(p) \/ Verify(p)
             \/ StartFails(p) \/ Store(p) \/ DeclareFails(p)
      PROVE  BrokerInv'
  BY <1>2, <1>9 DEF Call, Reload, ReloadTarget, SetMode, MakeKey, Load, Enter, MakeFails,
    Verify, StartFails, Store, DeclareFails
<1>10. ASSUME \/ UNCHANGED vars
              \/ \E c \in 1..MaxClients : AwaitStop(c) \/ Evict(c) \/ AddHandler(c)
              \/ StartShutdown \/ Graceful \/ TimeOut
       PROVE  BrokerInv'
  BY <1>2, <1>10 DEF vars, AwaitStop, Evict, AddHandler, StartShutdown, Graceful, TimeOut
<1> QED BY <1>3, <1>5, <1>6, <1>7, <1>8, <1>9, <1>10 DEF Next, Proceed, Closing

-----------------------------------------------------------------------------
\* Running clients.
LEMMA KeptBefore ==
  ASSUME ClientsGrow, NEW c \in Ids, Kept(c)'
  PROVE  Kept(c) /\ ~Deleted(clients[c].key)'
<1>1. ~Deleted(clients[c].key)'
  BY DEF Kept, Deleted, ClientsGrow
<1>2. clients'[c].key = clients[c].key
  BY DEF ClientsGrow
<1>3. ~Deleted(clients[c].key)
  <2>1. ASSUME NEW k, Deleted(k)
        PROVE  Deleted(k)'
    BY <2>1, DeletedStays
  <2> QED BY <1>1, <1>2, <2>1 DEF Deleted
<1> QED BY <1>1, <1>3 DEF Kept, Deleted

LEMMA LostByActor ==
  ASSUME TypesInv, NothingIsLost, NEW p \in Procs, ActsAlone(p), NEW c \in Ids,
         ~(Inside(p) /\ local[p].val = c), clients'[c].status = "open", Kept(c)',
         c \in cached => c \in cached'
  PROVE  c \in cached' \/ \E q \in Procs : Inside(q)' /\ local'[q].val = c
<1>1. clients[c].status = "open"
  BY DEF ActsAlone
<1>2. Kept(c)
  BY KeptBefore DEF ActsAlone
<1>3. c \in cached \/ \E q \in Procs : Inside(q) /\ local[q].val = c
  BY <1>1, <1>2 DEF NothingIsLost
<1>4. \A q \in Procs \ {p} : local'[q] = local[q]
  BY DEF ActsAlone, TypesInv
<1> QED BY <1>3, <1>4 DEF Inside, At

LEMMA LostStep ==
  ASSUME TypesInv, CallersInv, ShutdownInv, NothingIsLost, [Next]_vars
  PROVE  NothingIsLost'
<1> SUFFICES ASSUME NEW c \in Ids', clients'[c].status = "open", Kept(c)'
             PROVE  c \in cached' \/ \E q \in Procs : Inside(q)' /\ local'[q].val = c
  BY DEF NothingIsLost
<1> DEFINE Found == c \in cached' \/ \E q \in Procs : Inside(q)' /\ local'[q].val = c
<1>0. /\ local \in [Procs -> Locals] /\ \A r \in Procs : local[r] \in Locals /\ CallerOK(r)
      /\ NoClient \notin Ids /\ cached \subseteq Ids
  BY IdsBound DEF TypesInv, CallersInv
<1>1. ASSUME NEW p \in Procs,
             \/ (\E w \in Wrappers : Call(p, w)) \/ Reload(p) \/ ReloadTarget(p)
             \/ SetMode(p) \/ MakeKey(p) \/ Load(p) \/ Enter(p)
      PROVE  Found
  <2>1. ActsAlone(p)
    BY <1>1, OutsideStep, EnterStep
  <2>2. UNCHANGED <<clients, cached>> /\ c \in Ids
    BY <1>1 DEF Call, Reload, ReloadTarget, SetMode, MakeKey, Load, Enter, Ids
  <2>3. ~Inside(p)
    BY <1>1 DEF Call, Reload, Begin, ReloadTarget, SetMode, MakeKey, Load, Enter, Inside, At
  <2> QED BY <2>1, <2>2, <2>3, LostByActor
<1>2. ASSUME NEW p \in Procs, Make(p)
      PROVE  Found
  <2>1. ActsAlone(p) /\ local[p].val = NoClient /\ cached' = cached
    BY <1>0, <1>2, InsideStep, NothingMade DEF Make
  <2>2. CASE c \in Ids
    BY <1>0, <2>1, <2>2, LostByActor
  <2>3. CASE c = Len(clients) + 1
    <3>1. ~Doing(p, "store") /\ Inside(p) /\ Advance(p, Len(clients) + 1)
      BY <1>2 DEF Make, Doing
    <3>2. local' = [local EXCEPT ![p].at = @ + 1, ![p].val = Len(clients) + 1, ![p].decl = 0]
      BY <1>0, <3>1, NotLast
    <3>3. local'[p].pc = "steps" /\ local'[p].val = Len(clients) + 1
      BY <1>0, <3>1, <3>2 DEF Locals, Inside, At
    <3> QED BY <2>3, <3>3 DEF Inside, At
  <2> QED BY <1>2, <2>2, <2>3, MakeFrame
<1>3. ASSUME NEW p \in Procs, MakeFails(p) \/ StartFails(p)
      PROVE  Found
  <2>1. ActsAlone(p) /\ UNCHANGED <<clients, cached>> /\ c \in Ids
    BY <1>3, InsideStep DEF MakeFails, StartFails, Ids
  <2>2. CASE MakeFails(p)
    <3>1. local[p].val = NoClient
      BY <1>0, <2>2, NothingMade DEF MakeFails
    <3> QED BY <1>0, <2>1, <3>1, LostByActor
  <2>3. CASE StartFails(p)
    <3>1. clients[local[p].val].status = "unstarted"
      BY <1>0, <2>3, OwnedStatus DEF StartFails, Doing
    <3>2. c # local[p].val
      BY <2>1, <3>1
    <3> QED BY <2>1, <3>2, LostByActor
  <2> QED BY <1>3, <2>2, <2>3
<1>4. ASSUME NEW p \in Procs, VerifyFails(p)
      PROVE  Found
  <2>1. ActsAlone(p) /\ cached' = cached /\ SetStatus(local[p].val, "closed")
    BY <1>4, InsideStep DEF VerifyFails
  <2>2. local[p].val \in Ids
    BY <1>0, <1>4, HasMade DEF VerifyFails, Doing
  <2>3. c \in Ids /\ c # local[p].val
    BY <2>1, <2>2, SetStatusFrame
  <2> QED BY <2>1, <2>3, LostByActor
<1>5. ASSUME NEW p \in Procs,
             Verify(p) \/ Start(p) \/ DeclaredAll(p) \/ DeclareFails(p) \/ DeclareNext(p)
      PROVE  Found
  <2>1. ActsAlone(p) /\ cached' = cached /\ Inside(p) /\ ~Doing(p, "store")
        /\ ~Doing(p, "make") /\ ~Doing(p, "new")
    BY <1>5, InsideStep DEF Verify, Start, DeclaredAll, DeclareFails, DeclareNext, Doing
  <2>2. c \in Ids
    <3>1. CASE Verify(p) \/ DeclareFails(p) \/ DeclareNext(p)
      BY <3>1 DEF Verify, DeclareFails, DeclareNext, Ids
    <3>2. CASE DeclaredAll(p)
      BY <1>0, <3>2, DeclaredFrame
    <3>3. CASE Start(p)
      BY <1>0, <2>1, <3>3, HasMade, SetStatusFrame DEF Start
    <3> QED BY <1>5, <3>1, <3>2, <3>3
  <2>3. local'[p].pc = "steps" /\ local'[p].val = local[p].val
    <3>1. CASE DeclareNext(p)
      BY <1>0, <2>1, <3>1 DEF DeclareNext, Locals, Inside, At
    <3>2. CASE Advance(p, local[p].val)
      <4>1. local' = [local EXCEPT ![p].at = @ + 1, ![p].val = local[p].val, ![p].decl = 0]
        BY <1>0, <2>1, <3>2, NotLast
      <4> QED BY <1>0, <2>1, <4>1 DEF Locals, Inside, At
    <3> QED BY <1>5, <3>1, <3>2 DEF Verify, Start, DeclaredAll, DeclareFails
  <2>4. CASE c = local[p].val
    BY <2>3, <2>4 DEF Inside, At
  <2>5. CASE c # local[p].val
    BY <2>1, <2>2, <2>5, LostByActor
  <2> QED BY <2>4, <2>5
<1>6. ASSUME NEW p \in Procs, Store(p)
      PROVE  Found
  <2>1. /\ ActsAlone(p) /\ UNCHANGED clients /\ c \in Ids
        /\ cached' = (cached \ CachedFor(local[p].key)) \cup {local[p].val}
    BY <1>6, InsideStep DEF Store, Ids
  <2>2. ~Deleted(clients[c].key)
    <3>1. Kept(c)
      BY <2>1, KeptBefore DEF ActsAlone
    <3> QED BY <3>1 DEF Kept, Deleted
  <2>3. Excludes(p)
    BY <1>0, <1>6 DEF Store, Doing, CallerOK
  <2>4. c \in cached => c \in cached'
    BY <2>1, <2>2, <2>3 DEF Excludes, CachedFor
  <2>5. CASE c = local[p].val
    BY <2>1, <2>5
  <2>6. CASE c # local[p].val
    BY <2>1, <2>4, <2>6, LostByActor
  <2> QED BY <2>5, <2>6
<1>7. ASSUME UNCHANGED <<local, cached>>, ClientsGrow, c \in Ids, clients[c].status = "open"
      PROVE  Found
  BY <1>7, KeptBefore DEF NothingIsLost, Inside, At
<1>8. ASSUME \/ UNCHANGED vars
             \/ \E d \in 1..MaxClients : AwaitStop(d) \/ AddHandler(d)
             \/ StartShutdown \/ Graceful \/ TimeOut
      PROVE  Found
  <2>1. ClosesCached
    BY <1>8, CloseStep
  <2>2. UNCHANGED <<clients, local, cached>>
    BY <1>8 DEF vars, AwaitStop, AddHandler, StartShutdown, Graceful, TimeOut
  <2> QED BY <1>7, <2>1, <2>2 DEF ClosesCached, Ids
<1>9. ASSUME NEW d \in 1..MaxClients, CloseClient(d) \/ StopChanCloses(d)
      PROVE  Found
  <2>1. ClosesCached /\ d \in Ids /\ UNCHANGED <<local, cached>>
    BY <1>9, CloseStep DEF CloseClient, StopChanCloses, ShutdownInv, TypesInv
  <2>2. PICK s \in {"closed", "stopping"} : SetStatus(d, s)
    BY <1>9 DEF CloseClient, StopChanCloses
  <2>3. c \in Ids /\ clients[c].status = "open"
    BY <2>1, <2>2, SetStatusFrame
  <2> QED BY <1>7, <2>1, <2>3 DEF ClosesCached
<1>10. ASSUME NEW d \in 1..MaxClients, Evict(d)
       PROVE  Found
  <2>1. /\ UNCHANGED clients /\ cached' = cached \ CachedFor(clients[d].key)
        /\ c \in Ids /\ d \in Ids /\ closing[d] = "evict"
        /\ closing' = [closing EXCEPT ![d] = "done"]
    BY <1>10 DEF Evict, Ids, ShutdownInv, TypesInv
  <2>2. ClientsGrow /\ closing'[d] = "done"
    <3>1. \A e \in Ids : e \in 1..MaxClients
      BY IdsBound
    <3> QED BY <2>1, <3>1 DEF ClientsGrow, Ids, TypesInv
  <2>3. Kept(c)
    BY <2>1, <2>2, KeptBefore
  <2>4. clients[c].key # clients[d].key
    BY <2>1, <2>2 DEF Kept, Ids
  <2>5. \A q \in Procs : local'[q].pc = local[q].pc /\ local'[q].val = local[q].val
    BY <1>0, <1>10 DEF Evict, Locals
  <2>6. c \in cached \/ \E q \in Procs : Inside(q) /\ local[q].val = c
    BY <2>1, <2>3 DEF NothingIsLost
  <2> QED BY <2>1, <2>4, <2>5, <2>6 DEF CachedFor, Inside, At
<1> QED BY <1>1, <1>2, <1>3, <1>4, <1>5, <1>6, <1>8, <1>9, <1>10 DEF Next, Proceed, Closing

-----------------------------------------------------------------------------
LEMMA DriversInit ==
  ASSUME Init
  PROVE  DriversInv
<1>1. TypesInv
  <2>1. Idle \in Locals
    BY ContentsStart DEF Idle, Locals, Labels, NoCall, NoClient
  <2>2. local \in [Procs -> Locals]
    BY <2>1 DEF Init
  <2>3. clients \in Seq(Clients) /\ Len(clients) <= MaxClients
    <3>1. clients = <<>> /\ MaxClients \in Nat
      BY DriversAssumption DEF DriversAssumption, Init
    <3>2. clients \in Seq(Clients) /\ Len(clients) = 0
      BY <3>1, EmptySeq
    <3> QED BY <3>1, <3>2
  <2>4. FileModes \in [Contents -> ModeFields]
    <3>1. FileModes \in Seq({"", "single", "cluster"})
      BY DriversAssumption DEF DriversAssumption
    <3>2. ModeFields = {"", "single", "cluster"}
      BY Zenon DEF ModeFields, Modes
    <3>3. \A s \in Seq(ModeFields) : s \in [1..Len(s) -> ModeFields]
      BY LenProperties
    <3> QED BY <3>1, <3>2, <3>3, Zenon DEF Contents
  <2> QED BY <2>2, <2>3, <2>4, ContentsStart DEF Init, TypesInv
<1>2. \A p \in Procs : local[p] = Idle
  BY DEF Init
<1>3. CallersInv
  BY <1>2 DEF CallersInv, CallerOK, Idle, Inside, At
<1>4. ShutdownInv
  BY DEF Init, ShutdownInv
<1>5. ModeInv
  BY <1>2 DEF ModeInv, OwnMode, At, Idle
<1>6. Ids = {}
  BY DEF Init, Ids
<1>7. BrokerInv /\ NothingIsLost
  BY <1>6 DEF Init, BrokerInv, DeadLettersKept, DeclaredIsInPlace, NothingIsLost
<1> QED BY <1>1, <1>3, <1>4, <1>5, <1>7 DEF DriversInv

LEMMA DriversStep ==
  ASSUME DriversInv, [Next]_vars
  PROVE  DriversInv'
<1>1. TypesInv /\ CallersInv /\ ShutdownInv /\ ModeInv /\ BrokerInv /\ NothingIsLost
  BY DEF DriversInv
<1>2. TypesInv'
  BY <1>1, TypesStep
<1>3. CallersInv'
  BY <1>1, CallersStep
<1>4. ShutdownInv'
  BY <1>1, <1>2, ShutdownStep
<1>5. ModeInv'
  BY <1>1, ModeStep
<1>6. BrokerInv'
  BY <1>1, BrokerStep
<1>7. NothingIsLost'
  BY <1>1, LostStep
<1> QED BY <1>2, <1>3, <1>4, <1>5, <1>6, <1>7 DEF DriversInv

\* In every state a client is with its creator, in its cache, or on its way
\* out, with the status that fits.
THEOREM DriversInvariance == Spec => []DriversInv
<1>1. Init => DriversInv
  BY DriversInit
<1>2. DriversInv /\ [Next]_vars => DriversInv'
  BY DriversStep
<1> QED BY <1>1, <1>2, PTL DEF Spec

\* The variables of the five registries keep their types.
THEOREM DriversTypeCorrect == Spec => []TypeOK
<1>1. DriversInv => TypeOK
  <2> SUFFICES ASSUME DriversInv
               PROVE  TypeOK
    OBVIOUS
  <2>1. /\ TypesInv /\ \A p \in Procs : CallerOK(p)
    BY DEF DriversInv, CallersInv
  <2>2. \A p \in Procs : local[p] \in Locals
    BY <2>1 DEF TypesInv
  <2>3. ASSUME NEW p \in Procs, local[p].pc = "steps"
        PROVE  local[p].at \in DOMAIN Steps(local[p].call)
    <3>1. CallerOK(p) /\ local[p].at \in 1..Len(Steps(local[p].call))
      BY <2>1, <2>3 DEF CallerOK, Inside, At
    <3>2. WellFormed(Steps(local[p].call))
      BY <2>1, <2>3, StepsOfCaller
    <3> QED BY <3>1, <3>2 DEF WellFormed
  <2>4. \A c \in Ids : clients[c].status \in Statuses
    <3>1. \A c \in Ids : clients[c] \in Clients
      BY <2>1, ElementOfSeq DEF TypesInv, Ids
    <3> QED BY <3>1 DEF Clients
  <2>5. \A p \in Procs : local[p].pc \in Labels /\ local[p].val \in Ids \cup {NoClient}
    BY <2>1, <2>2 DEF Locals, CallerOK
  <2> QED BY <2>1, <2>3, <2>4, <2>5 DEF TypeOK, TypesInv, Labels, Statuses, ModeFields, Modes
<1> QED BY <1>1, DriversInvariance, PTL

\* Whatever fails on the way through the eleven getOrCreate functions, a client
\* that runs is where Shutdown finds it, or with its creator.
THEOREM RunningIsFound == Spec => []NothingIsLost
<1>1. DriversInv => NothingIsLost
  BY DEF DriversInv
<1> QED BY <1>1, DriversInvariance, PTL

\* A Shutdown that did not time out has closed what it ranges over.
THEOREM GracefulCloses == Spec => []ShutdownClosesScanned
<1>1. DriversInv => ShutdownClosesScanned
  <2> SUFFICES ASSUME DriversInv, sd = "graceful", NEW c \in cachedAtCall
               PROVE  clients[c].status =
                        IF clients[c].key.role \in Scanned THEN "closed" ELSE "open"
    BY DEF ShutdownClosesScanned
  <2>1. AtCallOK(c) /\ closing[c] \in {"none", "done"}
    BY DEF DriversInv, ShutdownInv
  <2> QED BY <2>1 DEF AtCallOK
<1> QED BY <1>1, DriversInvariance, PTL

\* A fingerprint is taken of the wrapper's own mode, unless two modes share a
\* path.
THEOREM PrintsOwnMode == Spec => []OwnMode
<1>1. DriversInv => OwnMode
  BY DEF DriversInv, ModeInv
<1> QED BY <1>1, DriversInvariance, PTL

\* Where SetupTopology reported no error, the broker has all it declared.
THEOREM TopologyInPlace == Spec => []DeclaredIsInPlace
<1>1. DriversInv => DeclaredIsInPlace
  BY DEF DriversInv, BrokerInv
<1> QED BY <1>1, DriversInvariance, PTL

\* A queue with a dead-letter exchange has a queue bound to that exchange.
THEOREM DeadLettersHeld == Spec => []DeadLettersKept
<1>1. DriversInv => DeadLettersKept
  BY DEF DriversInv, BrokerInv
<1> QED BY <1>1, DriversInvariance, PTL

\* Only a Shutdown stops a client that a caller was given.
THEOREM OnlyShutdownStops == Spec => StaysOpen
<1> DEFINE Stays == \A c \in Ids : \A p \in Procs :
      /\ At(p, "idle") /\ local[p].val = c /\ clients[c].status = "open"
      /\ clients'[c].status # "open"
      => closing[c] = "close"
<1>1. ASSUME DriversInv, [Next]_vars
      PROVE  Stays
  <2> SUFFICES ASSUME NEW c \in Ids, NEW q \in Procs, At(q, "idle"), local[q].val = c,
                      clients[c].status = "open", clients'[c].status # "open"
               PROVE  closing[c] = "close"
    OBVIOUS
  <2>0. TypesInv /\ CallersInv /\ ShutdownInv
    BY <1>1 DEF DriversInv
  <2>1. ASSUME NEW p \in Procs, (\E w \in Wrappers : Call(p, w)) \/ Reload(p) \/ Proceed(p)
        PROVE  closing[c] = "close"
    <3>1. ActsAlone(p)
      BY <2>0, <2>1, OutsideStep, EnterStep, InsideStep DEF Proceed
    <3>2. Inside(p) /\ Owns(p) /\ c = local[p].val
      BY <3>1 DEF ActsAlone
    <3>3. q # p
      BY <3>2 DEF Inside, At
    <3> QED BY <3>2, <3>3 DEF Owns
  <2>2. ASSUME NEW d \in 1..MaxClients, CloseClient(d)
        PROVE  closing[c] = "close"
    <3>1. d \in Ids /\ closing[d] = "close"
      BY <2>0, <2>2 DEF CloseClient, ShutdownInv, TypesInv
    <3>2. c = d
      BY <2>0, <2>2, <3>1, SetStatusFrame DEF CloseClient
    <3> QED BY <3>1, <3>2
  <2>3. ASSUME NEW d \in 1..MaxClients, StopChanCloses(d)
        PROVE  closing[c] = "close"
    <3>1. d \in Ids /\ clients[d].status = "stopping"
      BY <2>3 DEF StopChanCloses
    <3>2. c = d
      BY <2>0, <2>3, <3>1, SetStatusFrame DEF StopChanCloses
    <3> QED BY <3>1, <3>2
  <2>4. CASE UNCHANGED clients
    BY <2>4
  <2>5. ASSUME \/ UNCHANGED vars
               \/ \E d \in 1..MaxClients : AwaitStop(d) \/ Evict(d) \/ AddHandler(d)
               \/ StartShutdown \/ Graceful \/ TimeOut
        PROVE  UNCHANGED clients
    BY <2>5 DEF vars, AwaitStop, Evict, AddHandler, StartShutdown, Graceful, TimeOut
  <2> QED BY <1>1, <2>1, <2>2, <2>3, <2>4, <2>5 DEF Next, Closing
<1>2. DriversInv /\ [Next]_vars => [Stays]_vars
  BY <1>1
<1> QED BY <1>2, DriversInvariance, PTL DEF Spec, StaysOpen
=============================================================================
