-------------------------- MODULE ObservabilityProofs --------------------------
(***************************************************************************)
(* Observability, for any number of InitTracing calls of each backend and  *)
(* any number of spans; then Validate of TracingConfig, for every section. *)
(***************************************************************************)
EXTENDS Observability, TracingConfig, TLAPS

Places == {"start", "built", "assigned", "ready", "flushing", "flushed",
           "stopping", "done", "noop"}

\* What the proofs need of the types.
Types ==
  /\ pc \in [Inits -> Places]
  /\ tracerProvider \in Inits \cup {None} /\ otelProvider \in Inits \cup {None}
  /\ stopped \subseteq shut
  /\ spanOf \in [Spans -> Inits \cup {None}]
  /\ queue \in [Inits -> Seq(Spans)]
  /\ batch \in [Inits -> Seq(Spans)] /\ rest \in [Inits -> Seq(Spans)]

\* A call has its provider in the variable from Assign to the end of its cleanup.
Held == {"assigned", "ready", "flushing", "flushed", "stopping"}

\* Who was not disturbed has the variable for itself, and is the only one that
\* shuts its provider.
OwnInv ==
  \A g \in Inits \ disturbed :
    /\ pc[g] \in Held => tracerProvider = g
    /\ g \in shut => pc[g] \in {"stopping", "done"}
    /\ pc[g] = "stopping" => g \in stopped

\* A variable that somebody assigned stays assigned.
Assigned == \A g \in Inits : pc[g] \in Held => tracerProvider # None

\* What the exporter of v has written from the batch in its hands.
Exported(v) == Range(batch[v]) \ Range(rest[v])

\* It is in the backend, or Kafka's producer still has it.
SpanInv ==
  \A v \in Inits : Exported(v) \subseteq
    written \cup refused \cup (IF v \in KafkaTopic THEN pending ELSE {})

ObservabilityInv ==
  /\ Types /\ Assigned /\ OwnInv /\ SpanInv
  /\ CleanupStopsOwn /\ GlobalsAgree /\ ExportedIsWritten

-----------------------------------------------------------------------------
\* The empty sequence ranges over nothing.
LEMMA RangeEmpty == Range(<<>>) = {}
BY DEF Range

\* Taking the head off a sequence removes at most the head from its range.
LEMMA RangeTail ==
  ASSUME NEW S, NEW q \in Seq(S), q # <<>>
  PROVE  /\ Head(q) \in S /\ Tail(q) \in Seq(S)
         /\ Range(q) \subseteq Range(Tail(q)) \cup {Head(q)}
<1>1. Head(q) \in S /\ Tail(q) \in Seq(S)
  OBVIOUS
<1>2. ASSUME NEW i \in DOMAIN q PROVE q[i] \in Range(Tail(q)) \cup {Head(q)}
  <2>1. CASE i = 1
    BY <2>1
  <2>2. CASE i # 1
    <3>1. i - 1 \in DOMAIN Tail(q) /\ Tail(q)[i - 1] = q[i]
      BY <2>2
    <3> QED
      BY <3>1 DEF Range
  <2> QED
    BY <2>1, <2>2
<1> QED
  BY <1>1, <1>2 DEF Range

-----------------------------------------------------------------------------
\* Before the first call nothing was made.
LEMMA ObservabilityInit == Init => ObservabilityInv
<1> SUFFICES ASSUME Init PROVE ObservabilityInv
  OBVIOUS
<1>1. Types
  BY ObservabilityAssumption DEF Init, Types, Places
<1>2. Assigned /\ OwnInv /\ CleanupStopsOwn /\ GlobalsAgree /\ ExportedIsWritten
  BY DEF Init, Assigned, OwnInv, Held, CleanupStopsOwn, GlobalsAgree, ExportedIsWritten
<1>3. SpanInv
  BY RangeEmpty DEF Init, SpanInv, Exported
<1> QED
  BY <1>1, <1>2, <1>3 DEF ObservabilityInv

\* The types, and that an assigned variable is not nil again.
LEMMA TypesStep == Types /\ Assigned /\ [Next]_vars => Types' /\ Assigned'
<1> SUFFICES ASSUME Types, Assigned, [Next]_vars PROVE Types' /\ Assigned'
  OBVIOUS
<1> USE ObservabilityAssumption DEF Types, Places, Assigned, Held
<1>1. ASSUME NEW g \in Inits, InitStep(g) PROVE Types' /\ Assigned'
  <2>1. CASE Skip(g) \/ buildSpanExporter(g) \/ ResourceFails(g)
    BY <2>1 DEF Skip, buildSpanExporter, ResourceFails, Goto, globalVars, spanVars
  <2>2. CASE Assign(g) \/ SetGlobals(g)
    BY <2>2 DEF Assign, SetGlobals, Goto, spanVars
  <2>3. CASE ForceFlush(g) \/ ForceFlushEnds(g) \/ Stopped(g)
    BY <2>3 DEF ForceFlush, ForceFlushEnds, Stopped, Goto, globalVars, spanVars
  <2>4. CASE StopProvider(g)
    BY <2>4 DEF StopProvider, Goto, spanVars
  <2> QED
    BY <1>1, <2>1, <2>2, <2>3, <2>4 DEF InitStep
<1>2. ASSUME NEW v \in Inits, Worker(v) PROVE Types' /\ Assigned'
  <2>1. CASE ExportSpans(v)
    BY <2>1 DEF ExportSpans, globalVars
  <2>2. CASE WriteSpan(v)
    <3>1. Tail(rest[v]) \in Seq(Spans)
      BY <2>2, RangeTail DEF WriteSpan
    <3> QED
      BY <2>2, <3>1 DEF WriteSpan, globalVars
  <2>3. CASE WriteFails(v) \/ ExportEnds(v) \/ FlushTimesOut(v)
    <3>1. EndBatch(v) /\ UNCHANGED <<pc, expired, globalVars, spanOf, queue>>
      BY <2>3 DEF WriteFails, ExportEnds, FlushTimesOut
    <3>2. batch' \in [Inits -> Seq(Spans)] /\ rest' \in [Inits -> Seq(Spans)]
      BY <3>1 DEF EndBatch
    <3> QED
      BY <3>1, <3>2 DEF globalVars
  <2> QED
    BY <1>2, <2>1, <2>2, <2>3 DEF Worker
<1>3. CASE Shutdown
  BY <1>3 DEF Shutdown, spanVars
<1>4. CASE StartSpan
  BY <1>4 DEF StartSpan, globalVars, exportVars
<1>5. ASSUME NEW s \in Spans, EndSpan(s) PROVE Types' /\ Assigned'
  <2>1. spanOf[s] \in Inits
    BY <1>5 DEF EndSpan, Started
  <2>2. Append(queue[spanOf[s]], s) \in Seq(Spans)
    BY <2>1
  <2> QED
    BY <1>5, <2>1, <2>2 DEF EndSpan, globalVars, exportVars
<1>6. ASSUME NEW s \in Spans, Deliver(s) PROVE Types' /\ Assigned'
  BY <1>6 DEF Deliver, globalVars
<1>7. CASE UNCHANGED vars
  BY <1>7 DEF vars, globalVars, spanVars
<1> QED
  BY <1>1, <1>2, <1>3, <1>4, <1>5, <1>6, <1>7 DEF Next

\* A provider that takes no more spans and has none left stays that way: spans
\* that end are dropped, and the worker has nothing to take.
LEMMA StaysFlushed ==
  ASSUME Types, [Next]_vars, NEW g \in Inits, g \in stopped, Flushed(g)
  PROVE  g \in stopped' /\ Flushed(g)'
<1> USE DEF Types, Flushed
<1>1. ASSUME NEW h \in Inits, InitStep(h) PROVE g \in stopped' /\ Flushed(g)'
  BY <1>1 DEF InitStep, Skip, buildSpanExporter, ResourceFails, Assign, SetGlobals,
     ForceFlush, ForceFlushEnds, StopProvider, Stopped, globalVars, spanVars
<1>2. ASSUME NEW v \in Inits, Worker(v) PROVE g \in stopped' /\ Flushed(g)'
  BY <1>2 DEF Worker, ExportSpans, WriteSpan, WriteFails, ExportEnds, FlushTimesOut,
     EndBatch, globalVars
<1>3. CASE Shutdown
  BY <1>3 DEF Shutdown, spanVars
<1>4. CASE StartSpan
  BY <1>4 DEF StartSpan, globalVars, exportVars
<1>5. ASSUME NEW s \in Spans, EndSpan(s) \/ Deliver(s) PROVE g \in stopped' /\ Flushed(g)'
  BY <1>5 DEF EndSpan, Deliver, Started, globalVars, exportVars
<1>6. CASE UNCHANGED vars
  BY <1>6 DEF vars, globalVars, spanVars
<1> QED
  BY <1>1, <1>2, <1>3, <1>4, <1>5, <1>6 DEF Next

\* The steps of the spans change nothing of the providers.
LEMMA SpanSteps ==
  ASSUME Next
  PROVE  \/ \E g \in Inits : InitStep(g)
         \/ Shutdown
         \/ UNCHANGED <<pc, expired, globalVars>>
BY DEF Next, Worker, ExportSpans, WriteSpan, WriteFails, ExportEnds, FlushTimesOut,
   StartSpan, EndSpan, Deliver

\* A cleanup that nobody disturbs works on its own provider only, and nobody
\* else works on that.
LEMMA OwnStep ==
  ObservabilityInv /\ [Next]_vars => OwnInv' /\ CleanupStopsOwn'
<1> SUFFICES ASSUME ObservabilityInv, [Next]_vars PROVE OwnInv' /\ CleanupStopsOwn'
  OBVIOUS
<1>0. Types /\ Assigned /\ OwnInv /\ CleanupStopsOwn
  BY DEF ObservabilityInv
<1> USE DEF Places, Held
<1>1. ASSUME NEW h \in Inits, InitStep(h) PROVE OwnInv' /\ CleanupStopsOwn'
  <2>1. CASE Skip(h) \/ buildSpanExporter(h) \/ ResourceFails(h)
    BY <1>0, <2>1 DEF Types, OwnInv, CleanupStopsOwn, Flushed, Skip, buildSpanExporter,
       ResourceFails, Goto, globalVars, spanVars
  <2>2. CASE Assign(h)
    BY <1>0, <2>2 DEF Types, OwnInv, CleanupStopsOwn, Flushed, Assign, Goto, spanVars
  <2>3. CASE SetGlobals(h) \/ ForceFlush(h)
    BY <1>0, <2>3 DEF Types, OwnInv, CleanupStopsOwn, Flushed, SetGlobals, ForceFlush,
       Goto, globalVars, spanVars
  <2>4. CASE ForceFlushEnds(h)
    BY <1>0, <2>4 DEF Types, OwnInv, CleanupStopsOwn, Flushed, ForceFlushEnds, Goto,
       globalVars, spanVars
  <2>5. CASE StopProvider(h)
    <3>1. tracerProvider \in Inits
      BY <1>0, <2>5 DEF Types, Assigned, StopProvider
    <3>2. OwnInv'
      BY <1>0, <2>5, <3>1 DEF Types, OwnInv, StopProvider, Disturb, Goto
    <3>3. CleanupStopsOwn'
      BY <1>0, <2>5, <3>1 DEF Types, OwnInv, CleanupStopsOwn, Flushed, StopProvider,
         Disturb, Goto, spanVars
    <3> QED
      BY <3>2, <3>3
  <2>6. CASE Stopped(h)
    BY <1>0, <2>6 DEF Types, OwnInv, CleanupStopsOwn, Flushed, Stopped, Goto,
       globalVars, spanVars
  <2> QED
    BY <1>1, <2>1, <2>2, <2>3, <2>4, <2>5, <2>6 DEF InitStep
<1>2. CASE Shutdown
  BY <1>0, <1>2 DEF Types, OwnInv, CleanupStopsOwn, Flushed, Shutdown, spanVars
<1>3. CASE UNCHANGED <<pc, expired, globalVars>>
  <2>1. OwnInv'
    BY <1>0, <1>3 DEF OwnInv, globalVars
  <2>2. CleanupStopsOwn'
    BY <1>0, <1>3, StaysFlushed DEF CleanupStopsOwn, globalVars
  <2> QED
    BY <2>1, <2>2
<1>4. CASE UNCHANGED vars
  BY <1>3, <1>4 DEF vars
<1> QED
  BY <1>1, <1>2, <1>3, <1>4, SpanSteps

\* Assign makes the variables differ until the same call's SetGlobals.
LEMMA GlobalsStep == ObservabilityInv /\ [Next]_vars => GlobalsAgree'
<1> SUFFICES ASSUME ObservabilityInv, [Next]_vars PROVE GlobalsAgree'
  OBVIOUS
<1>0. Types /\ GlobalsAgree
  BY DEF ObservabilityInv
<1> USE <1>0 DEF Types, GlobalsAgree
<1>1. ASSUME NEW g \in Inits, InitStep(g) PROVE GlobalsAgree'
  <2>1. CASE Assign(g)
    BY <2>1 DEF Assign, Goto
  <2>2. CASE SetGlobals(g)
    BY <2>2 DEF SetGlobals
  <2>3. CASE ~ Assign(g) /\ ~ SetGlobals(g)
    BY <1>1, <2>3 DEF InitStep, Skip, buildSpanExporter, ResourceFails, ForceFlush,
       ForceFlushEnds, StopProvider, Stopped, Goto, globalVars
  <2> QED
    BY <2>1, <2>2, <2>3
<1>2. CASE Shutdown
  BY <1>2 DEF Shutdown
<1>3. CASE UNCHANGED <<pc, expired, globalVars>>
  BY <1>3 DEF globalVars
<1>4. CASE UNCHANGED vars
  BY <1>3, <1>4 DEF vars
<1> QED
  BY <1>1, <1>2, <1>3, <1>4, SpanSteps

\* Every step of an export keeps account of the spans it has dealt with.
LEMMA ExportStep == ObservabilityInv /\ [Next]_vars => SpanInv' /\ ExportedIsWritten'
<1> SUFFICES ASSUME ObservabilityInv, [Next]_vars PROVE SpanInv' /\ ExportedIsWritten'
  OBVIOUS
<1>0. Types /\ SpanInv /\ ExportedIsWritten
  BY DEF ObservabilityInv
<1>1. CASE UNCHANGED exportVars
  BY <1>0, <1>1 DEF SpanInv, Exported, ExportedIsWritten, exportVars
<1>2. ASSUME NEW v \in Inits, Worker(v) PROVE SpanInv' /\ ExportedIsWritten'
  <2>1. CASE ExportSpans(v)
    BY <1>0, <2>1 DEF Types, SpanInv, Exported, ExportedIsWritten, ExportSpans
  <2>2. CASE WriteSpan(v)
    <3>1. Range(rest[v]) \subseteq Range(Tail(rest[v])) \cup {Head(rest[v])}
      BY <1>0, <2>2, RangeTail DEF Types, WriteSpan
    <3>2. Exported(v)' \subseteq Exported(v) \cup {Head(rest[v])}
      BY <1>0, <2>2, <3>1 DEF Types, WriteSpan, Exported
    <3>3. \A w \in Inits : w # v => Exported(w)' = Exported(w)
      BY <1>0, <2>2 DEF Types, WriteSpan, Exported
    <3> QED
      BY <1>0, <2>2, <3>2, <3>3 DEF SpanInv, ExportedIsWritten, WriteSpan
  <2>3. CASE WriteFails(v) \/ ExportEnds(v) \/ FlushTimesOut(v)
    <3>1. Exported(v)' = {}
      BY <1>0, <2>3, RangeEmpty DEF Types, Exported, WriteFails, ExportEnds, FlushTimesOut,
         EndBatch
    <3>2. \A w \in Inits : w # v => Exported(w)' = Exported(w)
      BY <1>0, <2>3 DEF Types, Exported, WriteFails, ExportEnds, FlushTimesOut, EndBatch
    <3>3. SpanInv'
      BY <1>0, <2>3, <3>1, <3>2 DEF SpanInv, WriteFails, ExportEnds, FlushTimesOut
    <3>4. ExportedIsWritten'
      BY <1>0, <2>3, RangeEmpty DEF SpanInv, Exported, ExportedIsWritten, WriteFails,
         ExportEnds, FlushTimesOut
    <3> QED
      BY <3>3, <3>4
  <2> QED
    BY <1>2, <2>1, <2>2, <2>3 DEF Worker
<1>3. ASSUME NEW s \in Spans, Deliver(s) PROVE SpanInv' /\ ExportedIsWritten'
  BY <1>0, <1>3 DEF SpanInv, Exported, ExportedIsWritten, Deliver
<1>4. ASSUME NEW g \in Inits, InitStep(g) PROVE UNCHANGED exportVars
  BY <1>4 DEF InitStep, Skip, buildSpanExporter, ResourceFails, Assign, SetGlobals,
     ForceFlush, ForceFlushEnds, StopProvider, Stopped, spanVars, exportVars
<1>5. ASSUME Shutdown \/ StartSpan \/ (\E s \in Spans : EndSpan(s)) PROVE UNCHANGED exportVars
  BY <1>5 DEF Shutdown, StartSpan, EndSpan, spanVars, exportVars
<1>6. ASSUME UNCHANGED vars PROVE UNCHANGED exportVars
  BY <1>6 DEF vars, spanVars, exportVars
<1> QED
  BY <1>1, <1>2, <1>3, <1>4, <1>5, <1>6 DEF Next

-----------------------------------------------------------------------------
\* The invariant holds in every state.
THEOREM ObservabilityInvariance == Spec => []ObservabilityInv
<1>1. Init => ObservabilityInv
  BY ObservabilityInit
<1>2. ObservabilityInv /\ [Next]_vars => ObservabilityInv'
  <2>1. ObservabilityInv => Types /\ Assigned
    BY DEF ObservabilityInv
  <2> QED
    BY <2>1, TypesStep, OwnStep, GlobalsStep, ExportStep DEF ObservabilityInv
<1> QED
  BY <1>1, <1>2, PTL DEF Spec

\* A cleanup of InitTracing has shut and flushed its own provider, whatever
\* errors it met, unless other calls interfered (observability/server.go:181).
THEOREM OwnProviderStops == Spec => []CleanupStopsOwn
<1>1. ObservabilityInv => CleanupStopsOwn
  BY DEF ObservabilityInv
<1> QED
  BY <1>1, ObservabilityInvariance, PTL

\* The package's provider and OpenTelemetry's are the same unless two calls of
\* InitTracing overlapped.
THEOREM OneGlobalProvider == Spec => []GlobalsAgree
<1>1. ObservabilityInv => GlobalsAgree
  BY DEF ObservabilityInv
<1> QED
  BY <1>1, ObservabilityInvariance, PTL

\* A batch for which ExportSpans returned no error is in the backend, but for
\* spans that Kafka reported elsewhere.
THEOREM NothingExportedIsLost == Spec => []ExportedIsWritten
<1>1. ObservabilityInv => ExportedIsWritten
  BY DEF ObservabilityInv
<1> QED
  BY <1>1, ObservabilityInvariance, PTL

-----------------------------------------------------------------------------
(***************************************************************************)
(* Validate.                                                               *)
(***************************************************************************)
\* The defaults are texts, and none is empty.
LEMMA Defaults ==
  \A n \in {"service", "kafka", "redis_stream", "grpc", "http", "topic"} :
     DefaultText[n] \in Text /\ DefaultText[n] # ""
BY TextAssumption

\* Validate's first assignments fill the names and leave the rest alone.
LEMMA NamesFilled ==
  ASSUME NEW c \in Config
  PROVE  LET n == FillNames(c) IN
         /\ n \in Config /\ n.service # ""
         /\ n.exporter \in Exporters /\ n.protocol \in Protocols
         /\ n.enabled = c.enabled /\ n.username = c.username /\ n.hasAuth = c.hasAuth
         /\ n.authUser = c.authUser /\ n.authPassword = c.authPassword
         /\ n.ratio = c.ratio
<1>1. /\ Known(c.exporter, Exporters, "jaeger") \in Exporters
      /\ Known(c.protocol, Protocols, "http") \in Protocols
  BY DEF Known, Exporters, Protocols
<1>2. Or(c.service, DefaultText["service"]) \in Text \ {""}
  BY Defaults DEF Or, Config
<1> QED
  BY <1>1, <1>2 DEF FillNames, Config

\* The endpoint gets the default of its exporter.
LEMMA EndpointFilled ==
  ASSUME NEW c \in Config, c.exporter \in Exporters, c.protocol \in Protocols
  PROVE  LET e == FillEndpoint(c) IN
         /\ e \in Config /\ e.endpoint # "" /\ e.service = c.service
         /\ e.exporter = c.exporter /\ e.protocol = c.protocol
         /\ e.enabled = c.enabled /\ e.username = c.username /\ e.hasAuth = c.hasAuth
         /\ e.authUser = c.authUser /\ e.authPassword = c.authPassword
         /\ e.ratio = c.ratio
<1> DEFINE d == IF c.exporter = "jaeger" THEN c.protocol ELSE c.exporter
<1>1. DefaultText[d] \in Text /\ DefaultText[d] # ""
  BY Defaults DEF Exporters, Protocols
<1>2. Or(c.endpoint, DefaultText[d]) \in Text \ {""}
  BY <1>1 DEF Or, Config
<1> QED
  BY <1>2 DEF FillEndpoint, Config

\* The sampler gets a known name and its ratio a value from 0 to 1.
LEMMA SamplerFilled ==
  ASSUME NEW c \in Config
  PROVE  LET s == FillSampler(c) IN
         /\ s \in Config /\ s.sampler \in Samplers /\ s.ratio \in 0..10
         /\ c.ratio >= 0 => s.ratio # 0 \/ s.sampler \notin RatioSamplers
         /\ s.endpoint = c.endpoint /\ s.service = c.service
         /\ s.exporter = c.exporter /\ s.protocol = c.protocol
         /\ s.enabled = c.enabled /\ s.username = c.username /\ s.hasAuth = c.hasAuth
         /\ s.authUser = c.authUser /\ s.authPassword = c.authPassword
<1> DEFINE k == Known(c.sampler, Samplers, "parent_based_trace_id_ratio")
<1>1. c.ratio \in Int
  BY DEF Config
<1>2. k \in Samplers
  BY DEF Known, Samplers
<1>3. /\ defaultRatio(c) \in Int
      /\ c.ratio >= 0 => /\ defaultRatio(c) >= 0
                         /\ defaultRatio(c) # 0 \/ k \notin RatioSamplers
  BY <1>1 DEF defaultRatio
<1>4. /\ clamp(defaultRatio(c)) \in 0..10
      /\ c.ratio >= 0 => clamp(defaultRatio(c)) # 0 \/ k \notin RatioSamplers
  BY <1>3 DEF clamp
<1>5. FillSampler(c) = [c EXCEPT !.sampler = k, !.ratio = clamp(defaultRatio(c))]
  BY DEF FillSampler
<1> DEFINE r == clamp(defaultRatio(c))
<1> HIDE DEF k, r
<1>6. r \in Int
  BY <1>4 DEF r
<1>7. /\ FillSampler(c) \in Config
      /\ FillSampler(c).sampler = k /\ FillSampler(c).ratio = r
  BY <1>2, <1>5, <1>6 DEF Config, r
<1>8. LET s == FillSampler(c) IN
        /\ s.endpoint = c.endpoint /\ s.service = c.service
        /\ s.exporter = c.exporter /\ s.protocol = c.protocol
        /\ s.enabled = c.enabled /\ s.username = c.username /\ s.hasAuth = c.hasAuth
        /\ s.authUser = c.authUser /\ s.authPassword = c.authPassword
  BY DEF FillSampler, Config
<1> QED
  BY <1>2, <1>4, <1>7, <1>8 DEF r

\* The topic or the stream gets its default.
LEMMA TargetFilled ==
  ASSUME NEW c \in Config
  PROVE  LET t == FillTarget(c) IN
         /\ t \in Config
         /\ t.exporter = "kafka" => t.topic # ""
         /\ t.exporter = "redis_stream" => t.stream # ""
         /\ t.sampler = c.sampler /\ t.ratio = c.ratio
         /\ t.endpoint = c.endpoint /\ t.service = c.service
         /\ t.exporter = c.exporter /\ t.protocol = c.protocol
         /\ t.enabled = c.enabled /\ t.username = c.username /\ t.hasAuth = c.hasAuth
         /\ t.authUser = c.authUser /\ t.authPassword = c.authPassword
<1>1. /\ Or(c.topic, DefaultText["topic"]) \in Text \ {""}
      /\ Or(c.stream, DefaultText["topic"]) \in Text \ {""}
  BY Defaults DEF Or, Config
<1> QED
  BY <1>1 DEF FillTarget, Config

\* What Fill establishes, and what it leaves alone.
LEMMA Filled ==
  ASSUME NEW c \in Config
  PROVE  LET f == Fill(c) IN
         /\ f \in Config /\ Usable(f)
         /\ c.ratio >= 0 => f.ratio # 0 \/ f.sampler \notin RatioSamplers
         /\ f.enabled = c.enabled /\ f.username = c.username /\ f.hasAuth = c.hasAuth
         /\ f.authUser = c.authUser /\ f.authPassword = c.authPassword
<1> DEFINE n == FillNames(c)
           e == FillEndpoint(n)
           s == FillSampler(e)
<1>1. Fill(c) = FillTarget(s)
  BY DEF Fill
<1>2. /\ n \in Config /\ n.exporter \in Exporters /\ n.protocol \in Protocols
      /\ n.service # "" /\ n.ratio = c.ratio
      /\ n.enabled = c.enabled /\ n.username = c.username /\ n.hasAuth = c.hasAuth
      /\ n.authUser = c.authUser /\ n.authPassword = c.authPassword
  BY NamesFilled
<1> HIDE DEF n
<1>3. /\ e \in Config /\ e.exporter \in Exporters /\ e.protocol \in Protocols
      /\ e.service # "" /\ e.endpoint # "" /\ e.ratio = c.ratio
      /\ e.enabled = c.enabled /\ e.username = c.username /\ e.hasAuth = c.hasAuth
      /\ e.authUser = c.authUser /\ e.authPassword = c.authPassword
  BY <1>2, EndpointFilled
<1> HIDE DEF e
<1>4. /\ s \in Config /\ s.exporter \in Exporters /\ s.protocol \in Protocols
      /\ s.service # "" /\ s.endpoint # "" /\ s.sampler \in Samplers /\ s.ratio \in 0..10
      /\ c.ratio >= 0 => s.ratio # 0 \/ s.sampler \notin RatioSamplers
      /\ s.enabled = c.enabled /\ s.username = c.username /\ s.hasAuth = c.hasAuth
      /\ s.authUser = c.authUser /\ s.authPassword = c.authPassword
  BY <1>3, SamplerFilled
<1> HIDE DEF s
<1>5. LET t == FillTarget(s) IN
         /\ t \in Config
         /\ t.exporter = "kafka" => t.topic # ""
         /\ t.exporter = "redis_stream" => t.stream # ""
         /\ t.sampler = s.sampler /\ t.ratio = s.ratio
         /\ t.endpoint = s.endpoint /\ t.service = s.service
         /\ t.exporter = s.exporter /\ t.protocol = s.protocol
         /\ t.enabled = s.enabled /\ t.username = s.username /\ t.hasAuth = s.hasAuth
         /\ t.authUser = s.authUser /\ t.authPassword = s.authPassword
  BY <1>4, TargetFilled
<1> QED
  BY <1>1, <1>4, <1>5 DEF Usable

\* A section that was filled in and validated is usable (config/tracing.go:45):
\* no default branch of the exporters or of GetSampler is reached with it.
THEOREM ValidatedIsUsable ==
  ASSUME NEW c \in Config, c.enabled PROVE Usable(Validate(c))
<1>1. Fill(c) \in Config /\ Usable(Fill(c))
  BY Filled
<1>2. Usable(Authorize(Fill(c)))
  BY <1>1 DEF Usable, Authorize, Config
<1> QED
  BY <1>2 DEF Validate

\* A usable section is left as it is, but for the header.
LEMMA FillUsable ==
  ASSUME NEW c \in Config, Usable(c), c.ratio # 0 \/ c.sampler \notin RatioSamplers
  PROVE  Fill(c) = c
<1>1. FillNames(c) = c
  BY DEF FillNames, Known, Or, Usable, Config
<1>2. FillEndpoint(c) = c
  BY DEF FillEndpoint, Or, Usable, Config
<1>3. FillSampler(c) = c
  <2>1. c.sampler \in Samplers /\ c.sampler # "other" /\ c.ratio \in 0..10
    BY DEF Usable, Samplers
  <2>2. Known(c.sampler, Samplers, "parent_based_trace_id_ratio") = c.sampler
    BY <2>1 DEF Known
  <2>3. defaultRatio(c) = c.ratio
    BY <2>1, <2>2 DEF defaultRatio
  <2>4. clamp(c.ratio) = c.ratio
    BY <2>1 DEF clamp
  <2> QED
    BY <2>2, <2>3, <2>4 DEF FillSampler, Config
<1>4. FillTarget(c) = c
  BY DEF FillTarget, Or, Usable, Config
<1> QED
  BY <1>1, <1>2, <1>3, <1>4 DEF Fill

\* Validate does nothing more the second time, unless the ratio was negative.
THEOREM ValidateSettles == ASSUME NEW c \in Config PROVE SettlesAtOnce(c)
<1> SUFFICES ASSUME c.ratio >= 0, c.enabled PROVE Validate(Validate(c)) = Validate(c)
  BY DEF SettlesAtOnce, Validate
<1> DEFINE f == Fill(c)
           v == Validate(c)
<1>1. f \in Config /\ f.enabled
  BY Filled
<1>2. f.ratio # 0 \/ f.sampler \notin RatioSamplers
  BY Filled
<1>3. v = Authorize(f)
  BY DEF Validate
<1> HIDE DEF f
<1>4. v \in Config /\ v.enabled /\ v.ratio = f.ratio /\ v.sampler = f.sampler
  <2>1. CASE v = f
    BY <1>1, <2>1
  <2>2. CASE v = [f EXCEPT !.hasAuth = TRUE, !.authUser = f.username,
                             !.authPassword = f.password]
    BY <1>1, <2>2 DEF Config
  <2> QED
    BY <1>3, <2>1, <2>2 DEF Authorize
<1>5. v.hasAuth \/ v.username = ""
  BY <1>1, <1>3 DEF Authorize, Config
<1>6. Usable(v)
  BY ValidatedIsUsable
<1> HIDE DEF v
<1>7. Fill(v) = v
  BY <1>2, <1>4, <1>6, FillUsable
<1> QED
  BY <1>4, <1>5, <1>7 DEF Validate, Authorize, v

\* A password that is changed between two calls never reaches the header.
THEOREM OldCredentialsStay ==
  ASSUME NEW c \in Config, NEW u \in Text, NEW w \in Text PROVE KeepsAuthorization(c, u, w)
<1> SUFFICES ASSUME c.enabled, c.username # ""
             PROVE  LET old == Validate(c)
                        new == Validate([old EXCEPT !.username = u, !.password = w])
                    IN  <<new.authUser, new.authPassword>> = <<old.authUser, old.authPassword>>
  BY DEF KeepsAuthorization
<1> DEFINE old == Validate(c)
           mid == [old EXCEPT !.username = u, !.password = w]
<1>1. Fill(c) \in Config /\ Fill(c).username = c.username
  BY Filled
<1>2. old \in Config /\ old.hasAuth /\ old.enabled
  <2>1. Fill(c).enabled
    BY Filled
  <2>2. old = Authorize(Fill(c))
    BY DEF Validate
  <2>3. CASE old = Fill(c) /\ Fill(c).hasAuth
    BY <1>1, <2>1, <2>3
  <2>4. CASE old = [Fill(c) EXCEPT !.hasAuth = TRUE, !.authUser = Fill(c).username,
                                     !.authPassword = Fill(c).password]
    BY <1>1, <2>1, <2>4 DEF Config
  <2> QED
    BY <1>1, <2>2, <2>3, <2>4 DEF Authorize
<1> HIDE DEF old
<1>3. /\ mid \in Config /\ mid.hasAuth /\ mid.enabled
      /\ mid.authUser = old.authUser /\ mid.authPassword = old.authPassword
  BY <1>2 DEF Config
<1> HIDE DEF mid
<1>4. /\ Fill(mid).hasAuth
      /\ Fill(mid).authUser = mid.authUser /\ Fill(mid).authPassword = mid.authPassword
  BY <1>3, Filled
<1>5. Validate(mid) = Fill(mid)
  BY <1>3, <1>4 DEF Validate, Authorize
<1> QED
  BY <1>3, <1>4, <1>5 DEF old, mid
=============================================================================
