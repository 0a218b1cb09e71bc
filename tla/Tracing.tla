------------------------------- MODULE Tracing -------------------------------
(***************************************************************************)
(* Messages that carry a trace: the Trace functions of all drivers and the *)
(* carriers of package observability. Processes send, receive and pass on  *)
(* messages over one driver, with tracing not yet initialised, on, or shut *)
(* down in each of them.                                                   *)
(*                                                                         *)
(* A traceparent is the number of the span that was injected; NoSpan is    *)
(* the empty one. A body is what was wrapped around the application's      *)
(* bytes: <<>> are the bytes, and a JSON envelope of NSQ or MQTT appends   *)
(* its "tp". Consume spans matter only to those whose handler gets them.   *)
(***************************************************************************)
EXTENDS SequencesExt

CONSTANTS Procs,     \* processes
          Senders,   \* the sending functions, named for their driver
          MaxSpans,  \* bound: spans started in a behaviour
          MaxHops    \* bound: messages sent in a behaviour

NoSpan == 0

ASSUME TracingAssumption ==
  /\ Senders \subseteq {"kafka", "rabbitmq", "nats", "redis", "redis_maxlen",
                        "rocketmq", "pulsar", "nsq", "mqtt"}
  /\ MaxSpans \in Nat /\ MaxHops \in Nat

VARIABLES
  sender,   \* the function that is used for sending
  otel,     \* tracing in each process: "off", "on" or "shut"
  roots,    \* of each span, the span its trace began with
  wire,     \* the messages the broker has
  got       \* what each process received last, see Nothing

vars == <<sender, otel, roots, wire, got>>

-----------------------------------------------------------------------------
(***************************************************************************)
(* What differs between the drivers.                                       *)
(***************************************************************************)
\* No headers: the trace travels in an envelope around the body.
Envelopes == sender \in {"nsq", "mqtt"}

\* XAddTrace starts a span and sends the values as they are.
Injects == sender # "redis"

\* PublishTrace of NATS makes a new message; the others send the message,
\* values or properties they are given, with the headers these have.
KeepsHeaders == sender \notin {"nats"}

\* Mutant of SetHeader: all carriers append, as Kafka's does.
SetAppended(h, s) == Append(h, s)

\* Set of the carriers; only Kafka's leaves an earlier traceparent in place.
SetHeader(h, s) == IF sender = "kafka" THEN Append(h, s) ELSE <<s>>

\* Get of the carriers: the first header of that name.
GetHeader(h) == IF h = <<>> THEN NoSpan ELSE Head(h)

marshalTraced(tp, body) == Append(body, tp)

\* Mutant of Wrapped: any envelope is one, with or without a traceparent.
WrappedAtAll(body) == body # <<>>

\* An envelope without a traceparent is taken for the application's own.
Wrapped(body) == body # <<>> /\ Last(body) # NoSpan

unmarshalTraced(body) == IF Wrapped(body) THEN Front(body) ELSE body

\* The traceparent of a message, and what its traced consumer hands on.
TraceparentOf(m) ==
  IF ~Envelopes THEN GetHeader(m.header)
  ELSE IF Wrapped(m.body) THEN Last(m.body) ELSE NoSpan
BodyFor(m) == IF Envelopes THEN unmarshalTraced(m.body) ELSE m.body

\* Mutant of HandlerContext: NATS handlers get the subscriber's context.
HandlerContextOwn(parent, span) == IF sender = "rocketmq" THEN parent ELSE NoSpan

\* The context the application goes on with: NATS hands the consume span's to
\* the handler, RocketMQ the extracted one, all others their caller's own.
HandlerContext(parent, span) ==
  CASE sender = "nats" -> span
    [] sender = "rocketmq" -> parent
    [] OTHER -> NoSpan

-----------------------------------------------------------------------------
\* Before a process has received anything.
Nothing == [has |-> FALSE, traced |-> FALSE, msg |-> <<>>, body |-> <<>>,
            parent |-> NoSpan, context |-> NoSpan]

Spans == 1..Len(roots)

\* The one type invariant.
TypeOK ==
  /\ sender \in Senders
  /\ otel \in [Procs -> {"off", "on", "shut"}]
  /\ \A s \in Spans : roots[s] \in Spans
  /\ \A m \in wire : m.sender \in Spans \cup {NoSpan} /\ m.traced \in BOOLEAN
  /\ \A p \in Procs : got[p].has => got[p].msg \in wire

Init ==
  /\ sender \in Senders
  /\ otel = [p \in Procs |-> "off"]
  /\ roots = <<>> /\ wire = {}
  /\ got = [p \in Procs |-> Nothing]

\* InitTracing installs a provider and the propagator. Shutdown shuts the
\* provider down and leaves the propagator; then InitTracing may come again.
InitTracing(p) ==
  /\ otel[p] # "on" /\ otel' = [otel EXCEPT ![p] = "on"]
  /\ UNCHANGED <<sender, roots, wire, got>>
Shutdown(p) ==
  /\ otel[p] = "on" /\ otel' = [otel EXCEPT ![p] = "shut"]
  /\ UNCHANGED <<sender, roots, wire, got>>

Propagates(p) == otel[p] # "off"

\* The span StartSpan gives in a context: a new one, or, from a provider that
\* is not there or shut down, one that stands for the context's own span.
StartSpan(p, ctx) ==
  IF otel[p] # "on" THEN roots' = roots
  ELSE /\ Len(roots) < MaxSpans
       /\ roots' = Append(roots, IF ctx = NoSpan THEN Len(roots) + 1 ELSE roots[ctx])
SpanIn(p, ctx) == IF otel[p] = "on" THEN Len(roots) + 1 ELSE ctx

\* The traceparent Inject writes, if any.
Injected(p, span) == IF Propagates(p) THEN span ELSE NoSpan

Put(m) ==
  /\ Cardinality(wire) < MaxHops
  /\ wire' = wire \cup {m}

\* A message goes out in the context ctx with the headers h and the body b;
\* "from" is the sender of the message that is being passed on, if any.
SendTraced(p, ctx, h, b, from) ==
  LET tp == Injected(p, SpanIn(p, ctx))
      h1 == IF KeepsHeaders THEN h ELSE <<>>
  IN  /\ StartSpan(p, ctx)
      /\ Put([traced |-> TRUE, sender |-> tp, given |-> b, from |-> from,
              carries |-> h1 # <<>>,
              header |-> IF Envelopes \/ ~Injects \/ tp = NoSpan
                           THEN h1 ELSE SetHeader(h1, tp),
              body |-> IF Envelopes THEN marshalTraced(tp, b) ELSE b])
      /\ UNCHANGED <<sender, otel, got>>

\* enabled = FALSE, or the driver's own function.
SendPlain(p, h, b) ==
  /\ Put([traced |-> FALSE, sender |-> NoSpan, given |-> b, from |-> NoSpan,
          carries |-> h # <<>>, header |-> h, body |-> b])
  /\ UNCHANGED <<sender, otel, roots, got>>

\* A new message of the application.
Publish(p) == SendTraced(p, NoSpan, <<>>, <<>>, NoSpan) \/ SendPlain(p, <<>>, <<>>)

\* The last message is passed on, with its headers or without.
Relay(p) ==
  /\ got[p].has
  /\ \E h \in {<<>>, got[p].msg.header} :
       \/ SendTraced(p, got[p].context, h, got[p].body, got[p].parent)
       \/ SendPlain(p, h, got[p].body)

\* The broker delivers a message, at least once.
ReceiveTraced(p) == \E m \in wire :
  LET parent == IF Propagates(p) THEN TraceparentOf(m) ELSE NoSpan
  IN  /\ IF sender = "nats" THEN StartSpan(p, parent) ELSE UNCHANGED roots
      /\ got' = [got EXCEPT ![p] =
           [has |-> TRUE, traced |-> Propagates(p), msg |-> m, body |-> BodyFor(m),
            parent |-> parent,
            context |-> HandlerContext(parent, SpanIn(p, parent))]]
      /\ UNCHANGED <<sender, otel, wire>>

ReceivePlain(p) == \E m \in wire :
  /\ got' = [got EXCEPT ![p] =
       [Nothing EXCEPT !.has = TRUE, !.msg = m, !.body = m.body]]
  /\ UNCHANGED <<sender, otel, roots, wire>>

Next == \E p \in Procs :
  \/ InitTracing(p) \/ Shutdown(p)
  \/ Publish(p) \/ Relay(p) \/ ReceiveTraced(p) \/ ReceivePlain(p)

Spec == Init /\ [][Next]_vars

-----------------------------------------------------------------------------
(***************************************************************************)
(* Properties.                                                             *)
(***************************************************************************)
\* What a traced consumer with a propagator receives of a traced sender.
Traced(p) == got[p].has /\ got[p].traced /\ got[p].msg.traced

\* The consumer gets the very body the sender was given, except that NSQ and
\* MQTT hand on the envelope when nothing was injected: tracing was off, or
\* was shut down and the sender's context had no span.
BodySurvives ==
  \A p \in Procs : Traced(p) =>
    (got[p].body = got[p].msg.given
       <=> ~Envelopes \/ got[p].msg.sender # NoSpan)

\* The consumer's span hangs on the span that sent this message, not on that
\* of an earlier hop; XAddTrace links nothing, and a Kafka message that is
\* passed on with its headers stays linked to its first sender.
LinksToSender ==
  \A p \in Procs :
    Traced(p) /\ Injects /\ got[p].msg.sender # NoSpan
      /\ ~(sender = "kafka" /\ got[p].msg.carries)
    => got[p].parent = got[p].msg.sender

\* A NATS or RocketMQ handler that passes its message on stays in the trace
\* of the message, also when its own provider has been shut down.
StaysInTrace ==
  sender \in {"nats", "rocketmq"} =>
    \A m \in wire : m.from # NoSpan /\ m.sender # NoSpan
                      => roots[m.sender] = roots[m.from]
=============================================================================
