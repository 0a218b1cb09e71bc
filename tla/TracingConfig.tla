---------------------------- MODULE TracingConfig ----------------------------
(***************************************************************************)
(* TracingConfig.Validate, which fills a tracing section in place, and     *)
(* GetSampler. Names are compared in lower case, so there is one value for *)
(* each name, and "other" for all that are unknown. SamplerRatio is in     *)
(* tenths. Of the headers only Authorization matters.                      *)
(***************************************************************************)
EXTENDS Integers

CONSTANTS Text,       \* service names, endpoints, topics, streams, credentials
          DefaultText \* the defaults of these: [service |-> ..., ...]

Exporters == {"jaeger", "kafka", "redis_stream"}
Protocols == {"http", "grpc"}
Samplers  == {"always_on", "always_off", "trace_id_ratio", "parent_based",
              "parent_based_trace_id_ratio"}
RatioSamplers == {"trace_id_ratio", "parent_based_trace_id_ratio"}

ASSUME TextAssumption ==
  /\ "" \in Text
  /\ DefaultText \in [{"service", "kafka", "redis_stream", "grpc", "http", "topic"}
                        -> Text \ {""}]

Config == [enabled : BOOLEAN, service : Text, endpoint : Text,
           exporter : Exporters \cup {"", "other"},
           protocol : Protocols \cup {"", "other"},
           sampler : Samplers \cup {"", "other"}, ratio : Int,
           topic : Text, stream : Text, username : Text, password : Text,
           hasAuth : BOOLEAN, authUser : Text, authPassword : Text]

Or(value, default) == IF value = "" THEN default ELSE value
Known(name, names, default) == IF name \in names THEN name ELSE default

FillNames(c) ==
  [c EXCEPT !.service  = Or(@, DefaultText["service"]),
            !.exporter = Known(@, Exporters, "jaeger"),
            !.protocol = Known(@, Protocols, "http")]

\* The default port of Jaeger depends on the protocol.
FillEndpoint(c) ==
  [c EXCEPT !.endpoint =
     Or(@, DefaultText[IF c.exporter = "jaeger" THEN c.protocol ELSE c.exporter])]

\* An unknown sampler gets the ratio 0.1, and so does 0 where a ratio is used.
defaultRatio(c) ==
  LET kind == Known(c.sampler, Samplers, "parent_based_trace_id_ratio")
  IN  IF c.sampler = "other" \/ (c.ratio = 0 /\ kind \in RatioSamplers)
        THEN 1 ELSE c.ratio

clamp(r) == IF r < 0 THEN 0 ELSE IF r > 10 THEN 10 ELSE r

FillSampler(c) ==
  [c EXCEPT !.sampler = Known(@, Samplers, "parent_based_trace_id_ratio"),
            !.ratio   = clamp(defaultRatio(c))]

FillTarget(c) ==
  [c EXCEPT !.topic  = IF c.exporter = "kafka" THEN Or(@, DefaultText["topic"]) ELSE @,
            !.stream = IF c.exporter = "redis_stream" THEN Or(@, DefaultText["topic"]) ELSE @]

Fill(c) == FillTarget(FillSampler(FillEndpoint(FillNames(c))))

\* The Authorization header, unless there is one.
Authorize(c) ==
  IF c.hasAuth \/ c.username = "" THEN c
  ELSE [c EXCEPT !.hasAuth = TRUE, !.authUser = c.username, !.authPassword = c.password]

Validate(c) == IF c.enabled THEN Authorize(Fill(c)) ELSE c

\* The sampler GetSampler makes, and its ratio where it has one.
GetSampler(c) ==
  CASE c.sampler \in RatioSamplers -> <<c.sampler, c.ratio>>
    [] c.sampler \in Samplers \ RatioSamplers -> <<c.sampler>>
    [] OTHER -> <<"parent_based_trace_id_ratio", 1>>

-----------------------------------------------------------------------------
\* A validated section needs no fallback any more: its exporter, protocol and
\* sampler are known, its ratio is one, and what its exporter needs is there.
Usable(c) ==
  /\ c.exporter \in Exporters /\ c.protocol \in Protocols /\ c.sampler \in Samplers
  /\ c.ratio \in 0..10 /\ c.service # "" /\ c.endpoint # ""
  /\ c.exporter = "kafka" => c.topic # ""
  /\ c.exporter = "redis_stream" => c.stream # ""

\* Validating again changes nothing, unless the ratio was negative: it becomes
\* 0, "no sampling", and the next time 0.1.
SettlesAtOnce(c) == c.ratio >= 0 => Validate(Validate(c)) = Validate(c)

\* New credentials never replace an Authorization header, not even one that
\* an earlier Validate made of the old ones.
KeepsAuthorization(c, u, w) ==
  c.enabled /\ c.username # "" =>
    LET old == Validate(c)
        new == Validate([old EXCEPT !.username = u, !.password = w])
    IN  <<new.authUser, new.authPassword>> = <<old.authUser, old.authPassword>>
=============================================================================
