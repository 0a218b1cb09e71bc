--------------------------- MODULE ObservabilityMC ---------------------------
(* Observability for TLC: two calls of InitTracing, one for each backend,   *)
(* and three spans. Before it starts, TLC evaluates Validate on sections    *)
(* with every exporter, protocol, sampler and kind of ratio.                *)
EXTENDS Observability, TracingConfig

CONSTANTS g1, g2

MCDefaultText == [n \in {"service", "kafka", "redis_stream", "grpc", "http", "topic"} |-> n]

Sections ==
  [enabled : {TRUE}, service : {""}, endpoint : {"", "u"},
   exporter : Exporters \cup {"", "other"}, protocol : Protocols \cup {"", "other"},
   sampler : Samplers \cup {"", "other"}, ratio : {-1, 0, 1, 10, 12},
   topic : {""}, stream : {""}, username : {"", "u"}, password : {"w"},
   hasAuth : BOOLEAN, authUser : {""}, authPassword : {""}]

ASSUME \A c \in Sections :
         Usable(Validate(c)) /\ SettlesAtOnce(c) /\ KeepsAuthorization(c, "u", "")

\* Only a negative ratio does not settle at once.
ASSUME \E c \in Sections : Validate(Validate(c)) # Validate(c)

\* GetSampler of a validated section makes the sampler the section names.
ASSUME \A c \in Sections : Head(GetSampler(Validate(c))) = Validate(c).sampler
=============================================================================
