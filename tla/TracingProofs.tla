----------------------------- MODULE TracingProofs -----------------------------
(***************************************************************************)
(* Tracing, for every driver, any number of processes, spans and messages. *)
(* Spans are numbered in the order they are started, so a number that is   *)
(* in use stays a span; a message and what a process got of it keep what   *)
(* they were made with. TracingInv says what that is.                      *)
(***************************************************************************)
EXTENDS Tracing, SequenceTheorems, TLAPS

\* Traceparents: spans, and the empty one.
Ids == 0 .. Len(roots)

\* A span's trace began with a span.
RootsInv == roots \in Seq(Nat \ {0}) /\ \A s \in Spans : roots[s] \in Spans

\* What a sending function makes of the body and the headers it is given.
MessageOK(m) ==
  /\ m.header \in Seq(Ids) /\ m.body \in Seq(Ids) /\ m.given \in Seq(Ids)
  /\ m.sender \in Ids /\ m.from \in Ids
  /\ m.traced =>
       /\ m.body = IF Envelopes THEN marshalTraced(m.sender, m.given) ELSE m.given
       /\ ~Envelopes /\ Injects /\ m.sender # NoSpan /\ ~(sender = "kafka" /\ m.carries)
            => m.header = <<m.sender>>

\* What a process that received a message has of it.
ReceivedOK(p) ==
  /\ got[p].msg \in wire
  /\ got[p].body \in Seq(Ids)
  /\ got[p].parent \in Ids /\ got[p].context \in Ids
  /\ got[p].traced => /\ got[p].parent = TraceparentOf(got[p].msg)
                      /\ got[p].body = BodyFor(got[p].msg)
  /\ sender \in {"nats", "rocketmq"} /\ got[p].parent # NoSpan =>
       got[p].context # NoSpan /\ roots[got[p].context] = roots[got[p].parent]

TracingInv ==
  /\ RootsInv
  /\ \A m \in wire : MessageOK(m)
  /\ DOMAIN got = Procs /\ DOMAIN otel = Procs
  /\ \A p \in Procs : got[p].has => ReceivedOK(p)
  /\ StaysInTrace

-----------------------------------------------------------------------------
\* What an envelope was wrapped around, and what it was wrapped with.
LEMMA Unwrapped ==
  ASSUME NEW S, NEW b \in Seq(S), NEW tp \in S
  PROVE  LET e == marshalTraced(tp, b) IN
         /\ e \in Seq(S) /\ e # <<>> /\ e # b
         /\ Last(e) = tp /\ Front(e) = b
<1> DEFINE e == Append(b, tp)
<1>1. /\ e \in Seq(S) /\ Len(e) = Len(b) + 1 /\ Len(b) \in Nat
      /\ e[Len(b) + 1] = tp /\ \A n \in 1 .. Len(b) : e[n] = b[n]
  OBVIOUS
<1>2. Front(e) = b
  <2>1. SubSeq(e, 1, Len(b)) \in Seq(S) /\ Len(SubSeq(e, 1, Len(b))) = Len(b)
    BY <1>1
  <2>2. \A n \in 1 .. Len(b) : SubSeq(e, 1, Len(b))[n] = b[n]
    BY <1>1
  <2>3. SubSeq(e, 1, Len(b)) = b
    BY <2>1, <2>2, SeqEqual
  <2> QED BY <1>1, <2>3 DEF Front
<1>3. Last(e) = tp /\ e # <<>> /\ e # b
  BY <1>1 DEF Last
<1> QED BY <1>1, <1>2, <1>3 DEF marshalTraced

\* What a consumer reads of a message are spans, and bytes that were wrapped in
\* spans.
LEMMA Readable ==
  ASSUME NEW S, 0 \in S, NEW m, m.header \in Seq(S), m.body \in Seq(S)
  PROVE  TraceparentOf(m) \in S /\ BodyFor(m) \in Seq(S)
<1>1. m.header # <<>> => Head(m.header) \in S
  OBVIOUS
<1>2. m.body # <<>> => Last(m.body) \in S /\ Front(m.body) \in Seq(S)
  BY DEF Last, Front
<1> QED BY <1>1, <1>2 DEF TraceparentOf, BodyFor, GetHeader, Wrapped, unmarshalTraced, NoSpan

\* A carrier's header that is set once is the traceparent alone.
LEMMA HeaderSet ==
  ASSUME NEW S, NEW h \in Seq(S), NEW tp \in S
  PROVE  /\ SetHeader(h, tp) \in Seq(S)
         /\ ~(sender = "kafka" /\ h # <<>>) => SetHeader(h, tp) = <<tp>>
<1>1. Append(h, tp) \in Seq(S) /\ <<tp>> \in Seq(S) /\ Append(<<>>, tp) = <<tp>>
  OBVIOUS
<1>2. CASE sender = "kafka"
  BY <1>1, <1>2 DEF SetHeader
<1>3. CASE sender # "kafka"
  BY <1>1, <1>3 DEF SetHeader
<1> QED BY <1>2, <1>3

-----------------------------------------------------------------------------
\* Spans are only added.
Grows ==
  /\ sender' = sender
  /\ Len(roots) <= Len(roots')
  /\ \A s \in Spans : roots'[s] = roots[s]

\* A span that is started in the context of another belongs to its trace.
LEMMA StartedSpan ==
  ASSUME RootsInv, NEW p \in Procs, NEW ctx \in Ids, StartSpan(p, ctx), sender' = sender
  PROVE  /\ RootsInv' /\ Grows
         /\ SpanIn(p, ctx) \in Ids'
         /\ ctx # NoSpan => SpanIn(p, ctx) # NoSpan /\ roots'[SpanIn(p, ctx)] = roots[ctx]
<1> USE DEF RootsInv, Grows, Spans, Ids, NoSpan
<1>1. CASE otel[p] # "on"
  BY <1>1 DEF StartSpan, SpanIn
<1>2. CASE otel[p] = "on"
  <2> DEFINE r == IF ctx = NoSpan THEN Len(roots) + 1 ELSE roots[ctx]
  <2>1. roots' = Append(roots, r) /\ SpanIn(p, ctx) = Len(roots) + 1
    BY <1>2 DEF StartSpan, SpanIn
  <2>2. r \in 1 .. Len(roots) + 1
    OBVIOUS
  <2>3. /\ roots' \in Seq(Nat \ {0}) /\ Len(roots') = Len(roots) + 1
        /\ roots'[Len(roots) + 1] = r
        /\ \A s \in 1 .. Len(roots) : roots'[s] = roots[s]
    BY <2>1, <2>2
  <2> QED BY <2>1, <2>2, <2>3
<1> QED BY <1>1, <1>2

\* When nothing is started spans stay as they are.
LEMMA NoSpanStarted ==
  ASSUME RootsInv, UNCHANGED <<roots, sender>>
  PROVE  RootsInv' /\ Grows
BY DEF RootsInv, Grows, Spans

\* A number that is in use stays one.
LEMMA IdsGrow ==
  ASSUME RootsInv, RootsInv', Grows
  PROVE  Ids \subseteq Ids' /\ Seq(Ids) \subseteq Seq(Ids')
<1>1. Ids \subseteq Ids'
  BY DEF Ids, Grows, RootsInv
<1> QED BY <1>1, SeqMonotonic

\* Messages keep what they were made with.
LEMMA MessageKept ==
  ASSUME RootsInv, RootsInv', Grows, NEW m, MessageOK(m)
  PROVE  MessageOK(m)'
BY IdsGrow DEF MessageOK, Grows, Envelopes, Injects, marshalTraced

\* A process that receives nothing keeps what it has.
LEMMA ReceivedKept ==
  ASSUME RootsInv, RootsInv', Grows, NEW p \in Procs, ReceivedOK(p),
         got'[p] = got[p], wire \subseteq wire'
  PROVE  ReceivedOK(p)'
<1>1. Ids \subseteq Ids' /\ Seq(Ids) \subseteq Seq(Ids')
  BY IdsGrow
<1>2. \A n \in Ids : n # NoSpan => roots'[n] = roots[n]
  BY DEF Grows, Spans, Ids, NoSpan
<1> QED
  BY <1>1, <1>2
     DEF ReceivedOK, Grows, TraceparentOf, BodyFor, Envelopes, GetHeader

\* And what was relayed stays in its trace.
LEMMA TraceKept ==
  ASSUME TracingInv, Grows, NEW m \in wire, sender \in {"nats", "rocketmq"},
         m.from # NoSpan, m.sender # NoSpan
  PROVE  roots'[m.sender] = roots'[m.from]
<1>1. m.sender \in Spans /\ m.from \in Spans /\ roots[m.sender] = roots[m.from]
  BY DEF TracingInv, MessageOK, StaysInTrace, Ids, Spans, NoSpan
<1> QED BY <1>1 DEF Grows

-----------------------------------------------------------------------------
\* A step that only adds spans and a message keeps the invariant if the new
\* message is in order.
LEMMA PutKeeps ==
  ASSUME TracingInv, RootsInv', Grows, UNCHANGED <<otel, got>>,
         NEW new, wire' = wire \cup {new}, MessageOK(new)',
         sender \in {"nats", "rocketmq"} /\ new.from # NoSpan /\ new.sender # NoSpan
           => roots'[new.sender] = roots'[new.from]
  PROVE  TracingInv'
<1>1. \A m \in wire' : MessageOK(m)'
  BY MessageKept DEF TracingInv
<1>2. \A p \in Procs : got'[p].has => ReceivedOK(p)'
  BY ReceivedKept DEF TracingInv
<1>3. StaysInTrace'
  BY TraceKept DEF StaysInTrace, Grows
<1> QED BY <1>1, <1>2, <1>3 DEF TracingInv

\* A traced message names the span that sent it, in the trace of its context.
LEMMA SendTracedKeeps ==
  ASSUME TracingInv, NEW p \in Procs, NEW ctx \in Ids, NEW h \in Seq(Ids),
         NEW b \in Seq(Ids), NEW from \in Ids, SendTraced(p, ctx, h, b, from),
         sender \in {"nats", "rocketmq"} /\ from # NoSpan =>
           ctx # NoSpan /\ roots[ctx] = roots[from]
  PROVE  TracingInv'
<1>a. PICK tp, h1 : /\ tp = Injected(p, SpanIn(p, ctx))
                     /\ h1 = IF KeepsHeaders THEN h ELSE <<>>
  OBVIOUS
<1> DEFINE header == IF Envelopes \/ ~Injects \/ tp = NoSpan THEN h1 ELSE SetHeader(h1, tp)
           body   == IF Envelopes THEN marshalTraced(tp, b) ELSE b
<1>b. PICK new : new = [traced |-> TRUE, sender |-> tp, given |-> b, from |-> from,
                        carries |-> h1 # <<>>, header |-> header, body |-> body]
  OBVIOUS
<1>0. /\ StartSpan(p, ctx) /\ wire' = wire \cup {new}
      /\ UNCHANGED <<sender, otel, got>>
  BY <1>a, <1>b DEF SendTraced, Put
<1>1. /\ RootsInv' /\ Grows
      /\ SpanIn(p, ctx) \in Ids'
      /\ ctx # NoSpan => SpanIn(p, ctx) # NoSpan /\ roots'[SpanIn(p, ctx)] = roots[ctx]
  BY <1>0, StartedSpan DEF TracingInv
<1>2. Ids \subseteq Ids' /\ h \in Seq(Ids') /\ b \in Seq(Ids') /\ from \in Ids'
  BY <1>1, IdsGrow DEF TracingInv
<1>3. tp \in Ids' /\ (tp = SpanIn(p, ctx) \/ tp = NoSpan)
  BY <1>1, <1>a DEF Injected, Ids, NoSpan, RootsInv
<1>4. h1 \in Seq(Ids')
  BY <1>2, <1>a
<1>5. /\ SetHeader(h1, tp) \in Seq(Ids')
      /\ ~(sender = "kafka" /\ h1 # <<>>) => SetHeader(h1, tp) = <<tp>>
  BY <1>3, <1>4, HeaderSet
<1>6. marshalTraced(tp, b) \in Seq(Ids')
  BY <1>2, <1>3 DEF marshalTraced
<1>7. MessageOK(new)'
  <2>1. /\ new.header \in Seq(Ids') /\ new.body \in Seq(Ids') /\ new.given \in Seq(Ids')
        /\ new.sender \in Ids' /\ new.from \in Ids'
    BY <1>b, <1>2, <1>3, <1>4, <1>5, <1>6
  <2>2. new.body = IF Envelopes THEN Append(new.given, new.sender) ELSE new.given
    BY <1>b DEF marshalTraced
  <2>3. ~Envelopes /\ Injects /\ new.sender # NoSpan /\ ~(sender = "kafka" /\ new.carries)
          => new.header = <<new.sender>>
    BY <1>b, <1>5
  <2> QED
    BY <1>0, <2>1, <2>2, <2>3 DEF MessageOK, Envelopes, Injects, marshalTraced
<1>8. sender \in {"nats", "rocketmq"} /\ new.from # NoSpan /\ new.sender # NoSpan
        => roots'[new.sender] = roots'[new.from]
  <2> SUFFICES ASSUME sender \in {"nats", "rocketmq"}, from # NoSpan, tp # NoSpan
               PROVE  roots'[tp] = roots'[from]
    BY <1>b
  <2>1. roots'[tp] = roots[ctx] /\ roots[ctx] = roots[from]
    BY <1>1, <1>3
  <2>2. roots'[from] = roots[from]
    BY <1>1 DEF Grows, Ids, Spans, NoSpan
  <2> QED BY <2>1, <2>2
<1> QED BY <1>0, <1>1, <1>7, <1>8, PutKeeps

\* A plain message claims nothing.
LEMMA SendPlainKeeps ==
  ASSUME TracingInv, NEW p \in Procs, NEW h \in Seq(Ids), NEW b \in Seq(Ids),
         SendPlain(p, h, b)
  PROVE  TracingInv'
<1>b. PICK new : new = [traced |-> FALSE, sender |-> NoSpan, given |-> b, from |-> NoSpan,
                        carries |-> h # <<>>, header |-> h, body |-> b]
  OBVIOUS
<1>0. wire' = wire \cup {new} /\ UNCHANGED <<sender, otel, roots, got>>
  BY <1>b DEF SendPlain, Put
<1>1. RootsInv' /\ Grows /\ Ids' = Ids
  BY <1>0, NoSpanStarted DEF TracingInv, Ids
<1>2. MessageOK(new)'
  <2>1. NoSpan \in Ids
    BY DEF NoSpan, Ids, TracingInv, RootsInv
  <2>2. /\ new.header \in Seq(Ids) /\ new.body \in Seq(Ids) /\ new.given \in Seq(Ids)
        /\ new.sender \in Ids /\ new.from \in Ids /\ new.traced = FALSE
    BY <1>b, <2>1
  <2> QED BY <1>1, <2>2 DEF MessageOK
<1>3. new.sender = NoSpan
  BY <1>b
<1> QED BY <1>0, <1>1, <1>2, <1>3, PutKeeps

\* A receiver that gets a message right keeps the invariant.
LEMMA ReceiveKeeps ==
  ASSUME TracingInv, RootsInv', Grows, UNCHANGED <<otel, wire>>,
         NEW p \in Procs, NEW r, got' = [got EXCEPT ![p] = r],
         r.has => ReceivedOK(p)'
  PROVE  TracingInv'
<1>1. \A m \in wire' : MessageOK(m)'
  BY MessageKept DEF TracingInv
<1>2. ASSUME NEW q \in Procs, got'[q].has PROVE ReceivedOK(q)'
  <2>1. CASE q = p
    BY <1>2, <2>1 DEF TracingInv
  <2>2. CASE q # p
    BY <1>2, <2>2, ReceivedKept DEF TracingInv
  <2> QED BY <2>1, <2>2
<1>3. StaysInTrace'
  BY TraceKept DEF StaysInTrace, Grows
<1>4. DOMAIN got' = Procs /\ DOMAIN otel' = Procs
  BY DEF TracingInv
<1> QED BY <1>1, <1>2, <1>3, <1>4 DEF TracingInv

\* A traced consumer takes parent and body from the message, and its handler a
\* context in the parent's trace.
LEMMA ReceiveTracedKeeps ==
  ASSUME TracingInv, NEW p \in Procs, ReceiveTraced(p)
  PROVE  TracingInv'
<1>1. PICK m \in wire :
        LET parent == IF Propagates(p) THEN TraceparentOf(m) ELSE NoSpan
        IN  /\ IF sender = "nats" THEN StartSpan(p, parent) ELSE UNCHANGED roots
            /\ got' = [got EXCEPT ![p] =
                 [has |-> TRUE, traced |-> Propagates(p), msg |-> m, body |-> BodyFor(m),
                  parent |-> parent,
                  context |-> HandlerContext(parent, SpanIn(p, parent))]]
            /\ UNCHANGED <<sender, otel, wire>>
  BY DEF ReceiveTraced
<1> DEFINE parent == IF Propagates(p) THEN TraceparentOf(m) ELSE NoSpan
           context == HandlerContext(parent, SpanIn(p, parent))
           r == [has |-> TRUE, traced |-> Propagates(p), msg |-> m, body |-> BodyFor(m),
                 parent |-> parent, context |-> context]
<1>2. /\ IF sender = "nats" THEN StartSpan(p, parent) ELSE UNCHANGED roots
      /\ got' = [got EXCEPT ![p] = r]
      /\ UNCHANGED <<sender, otel, wire>>
  BY <1>1
<1>3. parent \in Ids /\ BodyFor(m) \in Seq(Ids) /\ 0 \in Ids
  <2>1. 0 \in Ids
    BY DEF TracingInv, RootsInv, Ids
  <2>2. TraceparentOf(m) \in Ids /\ BodyFor(m) \in Seq(Ids)
    BY <2>1, Readable DEF TracingInv, MessageOK
  <2> QED BY <2>1, <2>2 DEF NoSpan
<1> HIDE DEF parent
<1>4. /\ RootsInv' /\ Grows
      /\ sender = "nats" =>
           /\ SpanIn(p, parent) \in Ids'
           /\ parent # NoSpan => SpanIn(p, parent) # NoSpan
                                 /\ roots'[SpanIn(p, parent)] = roots[parent]
  BY <1>2, <1>3, StartedSpan, NoSpanStarted DEF TracingInv
<1>5. parent \in Ids' /\ 0 \in Ids' /\ BodyFor(m) \in Seq(Ids')
  BY <1>3, <1>4, IdsGrow DEF TracingInv
<1>6. parent # NoSpan => roots'[parent] = roots[parent]
  BY <1>3, <1>4 DEF Grows, Ids, Spans, NoSpan
<1>7. /\ context \in Ids'
      /\ sender \in {"nats", "rocketmq"} /\ parent # NoSpan
           => context # NoSpan /\ roots'[context] = roots'[parent]
  BY <1>4, <1>5, <1>6 DEF HandlerContext, NoSpan
<1>8. /\ got'[p] = r
      /\ TraceparentOf(m)' = TraceparentOf(m) /\ BodyFor(m)' = BodyFor(m)
  BY <1>2 DEF TracingInv, TraceparentOf, BodyFor, Envelopes, GetHeader
<1> HIDE DEF context
<1>9. ReceivedOK(p)'
  BY <1>2, <1>5, <1>7, <1>8 DEF ReceivedOK, parent, TraceparentOf, BodyFor, Envelopes
<1> HIDE DEF r
<1> QED BY <1>2, <1>4, <1>9, ReceiveKeeps

\* A plain consumer has the bytes, and no context.
LEMMA ReceivePlainKeeps ==
  ASSUME TracingInv, NEW p \in Procs, ReceivePlain(p)
  PROVE  TracingInv'
<1>1. PICK m \in wire :
        /\ got' = [got EXCEPT ![p] =
             [Nothing EXCEPT !.has = TRUE, !.msg = m, !.body = m.body]]
        /\ UNCHANGED <<sender, otel, roots, wire>>
  BY DEF ReceivePlain
<1> DEFINE r == [Nothing EXCEPT !.has = TRUE, !.msg = m, !.body = m.body]
<1>2. /\ r.traced = FALSE /\ r.msg = m /\ r.body = m.body
      /\ r.parent = NoSpan /\ r.context = NoSpan
  BY DEF Nothing
<1>3. RootsInv' /\ Grows /\ Ids' = Ids
  BY <1>1, NoSpanStarted DEF TracingInv, Ids
<1>4. got' = [got EXCEPT ![p] = r]
  BY <1>1
<1> HIDE DEF r
<1>5. /\ got'[p].traced = FALSE /\ got'[p].msg = m /\ got'[p].body = m.body
      /\ got'[p].parent = NoSpan /\ got'[p].context = NoSpan
  BY <1>2, <1>4 DEF TracingInv
<1>6. NoSpan \in Ids /\ m.body \in Seq(Ids)
  BY DEF NoSpan, Ids, TracingInv, RootsInv, MessageOK
<1>7. ReceivedOK(p)'
  BY <1>1, <1>3, <1>5, <1>6 DEF ReceivedOK
<1> QED BY <1>1, <1>3, <1>4, <1>7, ReceiveKeeps

-----------------------------------------------------------------------------
\* Every step keeps the invariant.
LEMMA TracingStep == TracingInv /\ [Next]_vars => TracingInv'
<1> SUFFICES ASSUME TracingInv, [Next]_vars PROVE TracingInv'
  OBVIOUS
<1>0. NoSpan \in Ids /\ <<>> \in Seq(Ids)
  BY DEF TracingInv, RootsInv, Ids, NoSpan
<1>1. ASSUME NEW p \in Procs, InitTracing(p) \/ Shutdown(p) PROVE TracingInv'
  <2>1. UNCHANGED <<sender, roots, wire, got>> /\ DOMAIN otel' = Procs
    BY <1>1 DEF InitTracing, Shutdown, TracingInv
  <2> QED
    BY <2>1 DEF TracingInv, RootsInv, MessageOK, ReceivedOK, StaysInTrace, Ids, Spans,
                Envelopes, Injects, marshalTraced, TraceparentOf, BodyFor, GetHeader
<1>2. ASSUME NEW p \in Procs, Publish(p) PROVE TracingInv'
  BY <1>0, <1>2, SendTracedKeeps, SendPlainKeeps DEF Publish
<1>3. ASSUME NEW p \in Procs, Relay(p) PROVE TracingInv'
  <2>1. PICK h \in {<<>>, got[p].msg.header} :
          \/ SendTraced(p, got[p].context, h, got[p].body, got[p].parent)
          \/ SendPlain(p, h, got[p].body)
    BY <1>3 DEF Relay
  <2>2. ReceivedOK(p) /\ MessageOK(got[p].msg)
    BY <1>3 DEF Relay, TracingInv, ReceivedOK
  <2>3. h \in Seq(Ids)
    BY <1>0, <2>1, <2>2 DEF MessageOK
  <2> QED BY <2>1, <2>2, <2>3, SendTracedKeeps, SendPlainKeeps DEF ReceivedOK
<1>4. ASSUME NEW p \in Procs, ReceiveTraced(p) \/ ReceivePlain(p) PROVE TracingInv'
  BY <1>4, ReceiveTracedKeeps, ReceivePlainKeeps
<1>5. CASE UNCHANGED vars
  BY <1>5 DEF vars, TracingInv, RootsInv, MessageOK, ReceivedOK, StaysInTrace, Ids,
              Spans, Envelopes, Injects, marshalTraced, TraceparentOf, BodyFor, GetHeader
<1> QED BY <1>1, <1>2, <1>3, <1>4, <1>5 DEF Next

\* Whatever tracing is switched on and off in the processes, messages say who
\* sent them and receivers read that.
THEOREM TracingInvariance == Spec => []TracingInv
<1>1. Init => TracingInv
  BY DEF Init, TracingInv, RootsInv, Spans, Nothing, StaysInTrace
<1> QED BY <1>1, TracingStep, PTL DEF Spec

\* The variables of senders and receivers keep their types.
THEOREM TracingTypeCorrect == Spec => []TypeOK
<1> DEFINE Switches == /\ sender \in Senders /\ otel \in [Procs -> {"off", "on", "shut"}]
                       /\ \A m \in wire : m.traced \in BOOLEAN
<1>1. Init => Switches
  BY DEF Init
<1>2. ASSUME Switches, [Next]_vars PROVE Switches'
  <2>1. ASSUME NEW p \in Procs, InitTracing(p) \/ Shutdown(p) PROVE Switches'
    BY <1>2, <2>1 DEF InitTracing, Shutdown
  <2>2. ASSUME NEW p \in Procs, Publish(p) \/ Relay(p) PROVE Switches'
    <3> DEFINE Sends == /\ \E n : n.traced \in BOOLEAN /\ wire' = wire \cup {n}
                        /\ sender' = sender /\ otel' = otel
    <3>1. ASSUME NEW ctx, NEW h, NEW b, NEW from, SendTraced(p, ctx, h, b, from)
          PROVE  Sends
      <4> DEFINE tp == Injected(p, SpanIn(p, ctx))
                 h1 == IF KeepsHeaders THEN h ELSE <<>>
                 m == [traced |-> TRUE, sender |-> tp, given |-> b, from |-> from,
                       carries |-> h1 # <<>>,
                       header |-> IF Envelopes \/ ~Injects \/ tp = NoSpan
                                    THEN h1 ELSE SetHeader(h1, tp),
                       body |-> IF Envelopes THEN marshalTraced(tp, b) ELSE b]
      <4>1. wire' = wire \cup {m} /\ sender' = sender /\ otel' = otel
        BY <3>1, Zenon DEF SendTraced, Put
      <4>2. m.traced \in BOOLEAN
        OBVIOUS
      <4>3. \E n : n.traced \in BOOLEAN /\ wire' = wire \cup {n}
        <5> HIDE DEF m
        <5> QED BY <4>1, <4>2
      <4> QED BY <4>1, <4>3
    <3>2. ASSUME NEW h, NEW b, SendPlain(p, h, b)
          PROVE  Sends
      <4> DEFINE m == [traced |-> FALSE, sender |-> NoSpan, given |-> b, from |-> NoSpan,
                       carries |-> h # <<>>, header |-> h, body |-> b]
      <4>1. wire' = wire \cup {m} /\ sender' = sender /\ otel' = otel
        BY <3>2, Zenon DEF SendPlain, Put
      <4>2. m.traced \in BOOLEAN
        OBVIOUS
      <4>3. \E n : n.traced \in BOOLEAN /\ wire' = wire \cup {n}
        <5> HIDE DEF m
        <5> QED BY <4>1, <4>2
      <4> QED BY <4>1, <4>3
    <3>3. Sends
      BY <2>2, <3>1, <3>2 DEF Publish, Relay
    <3> QED BY <1>2, <3>3
  <2>3. ASSUME NEW p \in Procs, ReceiveTraced(p) \/ ReceivePlain(p) PROVE Switches'
    BY <1>2, <2>3 DEF ReceiveTraced, ReceivePlain
  <2>4. CASE UNCHANGED vars
    BY <1>2, <2>4 DEF vars
  <2> QED BY <1>2, <2>1, <2>2, <2>3, <2>4 DEF Next
<1>3. TracingInv /\ Switches => TypeOK
  BY DEF TracingInv, RootsInv, MessageOK, ReceivedOK, Ids, Spans, NoSpan, TypeOK
<1> QED BY <1>1, <1>2, <1>3, TracingInvariance, PTL DEF Spec

\* NATS and RocketMQ handlers stay in the trace of what they pass on.
THEOREM TraceIsKept == Spec => []StaysInTrace
<1>1. TracingInv => StaysInTrace
  BY DEF TracingInv
<1> QED BY <1>1, TracingInvariance, PTL

\* A consumer gets the body the sender was given, of every driver, except for
\* an envelope without a traceparent.
THEOREM BodyIsDelivered == Spec => []BodySurvives
<1>1. TracingInv => BodySurvives
  <2> SUFFICES ASSUME TracingInv, NEW p \in Procs, Traced(p)
               PROVE  got[p].body = got[p].msg.given
                        <=> ~Envelopes \/ got[p].msg.sender # NoSpan
    BY DEF BodySurvives
  <2> DEFINE m == got[p].msg
  <2>1. m \in wire /\ m.traced /\ got[p].body = BodyFor(m)
    BY DEF Traced, TracingInv, ReceivedOK
  <2>2. /\ m.given \in Seq(Ids) /\ m.sender \in Ids
        /\ m.body = IF Envelopes THEN marshalTraced(m.sender, m.given) ELSE m.given
    BY <2>1 DEF TracingInv, MessageOK
  <2>3. LET e == marshalTraced(m.sender, m.given) IN
        /\ e # <<>> /\ e # m.given /\ Last(e) = m.sender /\ Front(e) = m.given
    BY <2>2, Unwrapped
  <2> QED BY <2>1, <2>2, <2>3 DEF BodyFor, unmarshalTraced, Wrapped
<1> QED BY <1>1, TracingInvariance, PTL

\* And its span hangs on the span that sent the message, of every driver that
\* injects one, but for a Kafka message that is passed on with its headers.
THEOREM LinkIsRight == Spec => []LinksToSender
<1>1. TracingInv => LinksToSender
  <2> SUFFICES ASSUME TracingInv, NEW p \in Procs, Traced(p), Injects,
                      got[p].msg.sender # NoSpan,
                      ~(sender = "kafka" /\ got[p].msg.carries)
               PROVE  got[p].parent = got[p].msg.sender
    BY DEF LinksToSender
  <2> DEFINE m == got[p].msg
  <2>1. m \in wire /\ m.traced /\ got[p].parent = TraceparentOf(m)
    BY DEF Traced, TracingInv, ReceivedOK
  <2>2. /\ m.given \in Seq(Ids) /\ m.sender \in Ids
        /\ Envelopes => m.body = marshalTraced(m.sender, m.given)
        /\ ~Envelopes => m.header = <<m.sender>>
    BY <2>1 DEF TracingInv, MessageOK
  <2>3. CASE Envelopes
    <3>1. m.given \in Seq(Ids) /\ m.sender \in Ids
      BY <2>2
    <3>2. LET e == marshalTraced(m.sender, m.given) IN e # <<>> /\ Last(e) = m.sender
      BY <3>1, Unwrapped
    <3> QED BY <2>1, <2>2, <2>3, <3>2 DEF TraceparentOf, Wrapped
  <2>4. CASE ~Envelopes
    <3>1. <<m.sender>> # <<>> /\ Head(<<m.sender>>) = m.sender
      OBVIOUS
    <3> QED BY <2>1, <2>2, <2>4, <3>1 DEF TraceparentOf, GetHeader
  <2> QED BY <2>3, <2>4
<1> QED BY <1>1, TracingInvariance, PTL
=============================================================================
