---------------------------- MODULE Observability ----------------------------
(***************************************************************************)
(* The tracer providers of package observability: InitTracing and the      *)
(* cleanup it returns, Shutdown, the spans that start and end meanwhile,    *)
(* and the exporters that write them to a Redis stream or a Kafka topic.    *)
(*                                                                         *)
(* Each call of InitTracing makes at most one provider and is its name.    *)
(* A provider queues the spans that end, and one worker of the SDK hands   *)
(* them to its exporter in batches.                                        *)
(***************************************************************************)
EXTENDS SequencesExt

CONSTANTS Inits,     \* calls of InitTracing
          KafkaTopic,\* those whose backend is kafka_topic; else redis_stream
          MaxSpans,  \* bound: spans started in a behaviour
          None

ASSUME ObservabilityAssumption ==
  KafkaTopic \subseteq Inits /\ MaxSpans \in Nat /\ None \notin Inits

Spans == 1..MaxSpans

VARIABLES
  pc,                    \* of each InitTracing and its cleanup
  tracerProvider, otelProvider,  \* the package's variable, OpenTelemetry's
  expired,               \* cleanups whose context ended
  shut, stopped,         \* providers that make no more spans, take no more
  spanOf, ended,         \* provider of each span that was started
  queue, batch, rest,    \* spans that wait, are being exported, not yet written
  pending, written,      \* spans in the Kafka producer, in the backend
  refused,               \* spans whose delivery Kafka reported as failed
  succeeded,             \* spans of batches that were exported without error
  disturbed, overlapped  \* history, see Assign

spanVars   == <<spanOf, ended, queue, batch, rest, pending, written, refused, succeeded>>
globalVars == <<tracerProvider, otelProvider, shut, stopped, disturbed, overlapped>>
vars       == <<pc, expired, globalVars, spanVars>>

\* The one type invariant.
TypeOK ==
  /\ pc \in [Inits -> {"start", "built", "assigned", "ready", "flushing", "flushed",
                       "stopping", "done", "noop"}]
  /\ {tracerProvider, otelProvider} \subseteq Inits \cup {None}
  /\ expired \subseteq Inits /\ shut \subseteq Inits /\ stopped \subseteq shut
  /\ spanOf \in [Spans -> Inits \cup {None}] /\ ended \subseteq Spans
  /\ \A v \in Inits : IsSuffix(rest[v], batch[v])
  /\ written \cap pending = {} /\ disturbed \subseteq Inits

Init ==
  /\ pc = [g \in Inits |-> "start"]
  /\ tracerProvider = None /\ otelProvider = None
  /\ expired = {} /\ shut = {} /\ stopped = {}
  /\ spanOf = [s \in Spans |-> None] /\ ended = {}
  /\ queue = [v \in Inits |-> <<>>]
  /\ batch = [v \in Inits |-> <<>>] /\ rest = [v \in Inits |-> <<>>]
  /\ pending = {} /\ written = {} /\ refused = {} /\ succeeded = {}
  /\ disturbed = {} /\ overlapped = FALSE

-----------------------------------------------------------------------------
(***************************************************************************)
(* InitTracing.                                                            *)
(***************************************************************************)
Goto(g, label) == pc' = [pc EXCEPT ![g] = label]

\* Tracing is not enabled, the backend is unknown or lacks its client, or no
\* exporter could be made: nothing global is touched, and the cleanup, if
\* there is one, does nothing.
Skip(g) ==
  /\ pc[g] = "start" /\ Goto(g, "noop")
  /\ UNCHANGED <<expired, globalVars, spanVars>>

buildSpanExporter(g) ==
  /\ pc[g] = "start" /\ Goto(g, "built")
  /\ UNCHANGED <<expired, globalVars, spanVars>>

\* Mutant of ResourceFails: the provider is made before its resource.
ResourceFailsLate(g) ==
  /\ pc[g] = "built" /\ Goto(g, "noop")
  /\ tracerProvider' = g
  /\ UNCHANGED <<expired, otelProvider, shut, stopped, disturbed, overlapped, spanVars>>

ResourceFails(g) ==
  /\ pc[g] = "built" /\ Goto(g, "noop")
  /\ UNCHANGED <<expired, globalVars, spanVars>>

\* tracerProvider = NewTracerProvider(...). The history: cleanups that are not
\* done yet meet another provider than their own; two calls overlap.
Assign(g) ==
  /\ pc[g] = "built" /\ Goto(g, "assigned")
  /\ tracerProvider' = g
  /\ disturbed' = disturbed \cup {h \in Inits : pc[h] \notin {"start", "built", "done", "noop"}}
  /\ overlapped' = (overlapped \/ \E h \in Inits : pc[h] = "assigned")
  /\ UNCHANGED <<expired, otelProvider, shut, stopped, spanVars>>

\* otel.SetTracerProvider with the variable, and the propagator.
SetGlobals(g) ==
  /\ pc[g] = "assigned" /\ Goto(g, "ready")
  /\ otelProvider' = tracerProvider
  /\ UNCHANGED <<expired, tracerProvider, shut, stopped, disturbed, overlapped, spanVars>>

-----------------------------------------------------------------------------
(***************************************************************************)
(* The cleanup that InitTracing returns; every step reads tracerProvider.  *)
(***************************************************************************)
\* Nothing waits and nothing is being exported.
Flushed(v) == queue[v] = <<>> /\ batch[v] = <<>>

ForceFlush(g) ==
  /\ pc[g] = "ready" /\ Goto(g, "flushing")
  /\ UNCHANGED <<expired, globalVars, spanVars>>

\* The flush is over, or the context is; an error is only logged.
ForceFlushEnds(g) ==
  /\ pc[g] = "flushing" /\ Goto(g, "flushed")
  /\ \/ (Flushed(tracerProvider) \/ tracerProvider \in stopped) /\ UNCHANGED expired
     \/ expired' = expired \cup {g}
  /\ UNCHANGED <<globalVars, spanVars>>

\* History: the cleanup shuts the provider of another call.
Disturb(g) == disturbed' = disturbed \cup ({tracerProvider} \ {g})

\* Mutant of StopProvider: an error of ForceFlush ends the cleanup.
StopUnlessExpired(g) ==
  /\ pc[g] = "flushed" /\ Disturb(g)
  /\ IF g \in expired
       THEN Goto(g, "done") /\ UNCHANGED <<shut, stopped>>
       ELSE /\ Goto(g, "stopping")
            /\ shut' = shut \cup {tracerProvider}
            /\ stopped' = stopped \cup {tracerProvider}
  /\ UNCHANGED <<expired, tracerProvider, otelProvider, overlapped, spanVars>>

\* Two seconds later, Shutdown. With an expired context the SDK makes no more
\* spans but leaves the worker and its queue alone; a second call returns.
StopProvider(g) ==
  /\ pc[g] = "flushed" /\ Disturb(g)
  /\ shut' = shut \cup {tracerProvider}
  /\ IF g \in expired \/ tracerProvider \in shut
       THEN Goto(g, "done") /\ UNCHANGED stopped
       ELSE Goto(g, "stopping") /\ stopped' = stopped \cup {tracerProvider}
  /\ UNCHANGED <<expired, tracerProvider, otelProvider, overlapped, spanVars>>

\* Shutdown waits for the worker, or for the context.
Stopped(g) ==
  /\ pc[g] = "stopping" /\ Goto(g, "done")
  /\ \/ Flushed(tracerProvider) /\ UNCHANGED expired
     \/ expired' = expired \cup {g}
  /\ UNCHANGED <<globalVars, spanVars>>

\* observability.Shutdown, with OpenTelemetry's provider; only the first call
\* for a provider does anything, and the provider's own cleanup finds it shut.
Shutdown ==
  /\ otelProvider # None /\ otelProvider \notin shut
  /\ shut' = shut \cup {otelProvider} /\ stopped' = stopped \cup {otelProvider}
  /\ disturbed' = disturbed \cup {otelProvider}
  /\ UNCHANGED <<pc, expired, tracerProvider, otelProvider, overlapped, spanVars>>

-----------------------------------------------------------------------------
(***************************************************************************)
(* Spans and their export.                                                 *)
(***************************************************************************)
exportVars == <<batch, rest, pending, written, refused, succeeded>>

Started == {s \in Spans : spanOf[s] # None}

\* StartSpan takes the tracer of the moment, and never keeps it.
StartSpan ==
  /\ otelProvider # None /\ otelProvider \notin shut
  /\ \E s \in Spans :
       /\ s - 1 \in Started \cup {0} /\ s \notin Started
       /\ spanOf' = [spanOf EXCEPT ![s] = otelProvider]
  /\ UNCHANGED <<pc, expired, globalVars, ended, queue, exportVars>>

\* The span goes to the provider it began with; a stopped one drops it.
EndSpan(s) ==
  /\ s \in Started \ ended /\ ended' = ended \cup {s}
  /\ queue' = IF spanOf[s] \in stopped THEN queue
                ELSE [queue EXCEPT ![spanOf[s]] = Append(@, s)]
  /\ UNCHANGED <<pc, expired, globalVars, spanOf, exportVars>>

\* The worker calls ExportSpans with all that waits.
ExportSpans(v) ==
  /\ batch[v] = <<>> /\ queue[v] # <<>>
  /\ batch' = [batch EXCEPT ![v] = queue[v]] /\ rest' = [rest EXCEPT ![v] = queue[v]]
  /\ queue' = [queue EXCEPT ![v] = <<>>]
  /\ UNCHANGED <<pc, expired, globalVars, spanOf, ended, pending, written, refused, succeeded>>

\* XAdd writes a span; Produce queues it in the Kafka producer.
WriteSpan(v) ==
  /\ rest[v] # <<>> /\ rest' = [rest EXCEPT ![v] = Tail(@)]
  /\ IF v \in KafkaTopic THEN pending' = pending \cup {Head(rest[v])} /\ UNCHANGED written
                         ELSE written' = written \cup {Head(rest[v])} /\ UNCHANGED pending
  /\ UNCHANGED <<pc, expired, globalVars, spanOf, ended, queue, batch, refused, succeeded>>

\* The batch is over for the worker; what it did not write is gone.
EndBatch(v) == batch' = [batch EXCEPT ![v] = <<>>] /\ rest' = [rest EXCEPT ![v] = <<>>]

\* Mutant of WriteFails: the span is skipped and the loop goes on.
WriteSkips(v) ==
  /\ rest[v] # <<>> /\ rest' = [rest EXCEPT ![v] = Tail(@)]
  /\ UNCHANGED <<pc, expired, globalVars, spanOf, ended, queue, batch, pending, written,
                 refused, succeeded>>

\* An error for the whole batch. An XAdd that timed out may have been done.
WriteFails(v) ==
  /\ rest[v] # <<>>
  /\ EndBatch(v)
  /\ \/ UNCHANGED written
     \/ v \notin KafkaTopic /\ written' = written \cup {Head(rest[v])}
  /\ UNCHANGED <<pc, expired, globalVars, spanOf, ended, queue, pending, refused, succeeded>>

\* After the loop Kafka's producer is flushed, of whatever it has.
ExportEnds(v) ==
  /\ batch[v] # <<>> /\ rest[v] = <<>>
  /\ v \in KafkaTopic => pending = {}
  /\ succeeded' = succeeded \cup Range(batch[v])
  /\ EndBatch(v)
  /\ UNCHANGED <<pc, expired, globalVars, spanOf, ended, queue, pending, written, refused>>

\* Messages remain after the five seconds of Flush: an error.
FlushTimesOut(v) ==
  /\ v \in KafkaTopic /\ batch[v] # <<>> /\ rest[v] = <<>> /\ pending # {}
  /\ EndBatch(v)
  /\ UNCHANGED <<pc, expired, globalVars, spanOf, ended, queue, pending, written, refused, succeeded>>

\* librdkafka: a message is delivered, or reported as failed.
Deliver(s) ==
  /\ s \in pending /\ pending' = pending \ {s}
  /\ \/ written' = written \cup {s} /\ UNCHANGED refused
     \/ refused' = refused \cup {s} /\ UNCHANGED written
  /\ UNCHANGED <<pc, expired, globalVars, spanOf, ended, queue, batch, rest, succeeded>>

-----------------------------------------------------------------------------
InitStep(g) ==
  \/ Skip(g) \/ buildSpanExporter(g) \/ ResourceFails(g) \/ Assign(g) \/ SetGlobals(g)
  \/ ForceFlush(g) \/ ForceFlushEnds(g) \/ StopProvider(g) \/ Stopped(g)

Worker(v) ==
  \/ ExportSpans(v) \/ WriteSpan(v) \/ WriteFails(v) \/ ExportEnds(v) \/ FlushTimesOut(v)

Next ==
  \/ \E g \in Inits : InitStep(g) \/ Worker(g)
  \/ Shutdown \/ StartSpan
  \/ \E s \in Spans : EndSpan(s) \/ Deliver(s)

Spec == Init /\ [][Next]_vars

-----------------------------------------------------------------------------
(***************************************************************************)
(* Properties.                                                             *)
(***************************************************************************)
\* A cleanup has shut its own provider down, whatever errors it met, and if its
\* context lasted, nothing the provider was given waits any more: unless
\* another InitTracing came since its own, or another call shut the provider.
CleanupStopsOwn ==
  \A g \in Inits : pc[g] = "done" /\ g \notin disturbed =>
    /\ g \in shut
    /\ g \notin expired => g \in stopped /\ Flushed(g)

\* Calls of InitTracing that fail or are disabled leave both variables alone,
\* so that they agree unless two calls overlapped: the provider that makes the
\* spans is the one a cleanup will flush.
GlobalsAgree ==
  ~overlapped /\ (\A g \in Inits : pc[g] # "assigned") => tracerProvider = otelProvider

\* A batch that was exported without error is in the backend, but for spans
\* whose failure Kafka reported elsewhere.
ExportedIsWritten == succeeded \subseteq written \cup refused
=============================================================================
