------------------------------ MODULE Topology ------------------------------
(***************************************************************************)
(* What SetupTopology of rabbitx declares on the broker, in its order: the *)
(* dead-letter exchange with its queue first, the main exchange, the main  *)
(* queue with the dead-letter arguments, its binding. The first error ends *)
(* it. The broker is RabbitMQ's: it refuses a second declaration of a name *)
(* with other arguments, and a binding of what does not exist.             *)
(***************************************************************************)
EXTENDS Naturals, Sequences, SequencesExt

CONSTANT Sections   \* the RabbitMQ and DLQ sections of each config content

\* Is there a RabbitMQ section, is DLQ enabled, and which of Exchange, Queue,
\* Prefetch and Confirm are given?
SectionType == [present : BOOLEAN, dlq : BOOLEAN, exchange : BOOLEAN,
                queue : BOOLEAN, prefetch : BOOLEAN, confirm : BOOLEAN]

ASSUME SectionsAssumption == Sections \in Seq(SectionType)

VARIABLE broker     \* the exchanges, queues and bindings there are

Exchange(name)       == [kind |-> "exchange", name |-> name, arg |-> "none"]
Queue(name, dlx)     == [kind |-> "queue", name |-> name, arg |-> dlx]
Binding(queue, exch) == [kind |-> "binding", name |-> queue, arg |-> exch]
\* Qos and Confirm hold for the channel alone, which is closed right after.
OnChannel(what)      == [kind |-> "channel", name |-> what, arg |-> "none"]

If(condition, declarations) == IF condition THEN declarations ELSE <<>>

\* Mutant of Declarations: the main queue first, its dead letters after it.
QueueFirst(s) ==
  IF ~s.present THEN <<>> ELSE
     If(s.queue, <<Queue("main", IF s.dlq THEN "dlx" ELSE "none")>>)
  \o If(s.dlq, <<Exchange("dlx"), Queue("dlq", "none"), Binding("dlq", "dlx")>>)
  \o If(s.exchange, <<Exchange("main")>>)
  \o If(s.queue /\ s.exchange, <<Binding("main", "main")>>)

\* The declarations of a section, in order; none without a RabbitMQ section.
Declarations(s) ==
  IF ~s.present THEN <<>> ELSE
     If(s.dlq, <<Exchange("dlx"), Queue("dlq", "none"), Binding("dlq", "dlx")>>)
  \o If(s.exchange, <<Exchange("main")>>)
  \o If(s.queue, <<Queue("main", IF s.dlq THEN "dlx" ELSE "none")>>)
  \o If(s.queue /\ s.exchange, <<Binding("main", "main")>>)
  \o If(s.prefetch, <<OnChannel("qos")>>)
  \o If(s.confirm, <<OnChannel("confirm")>>)

\* Does the broker accept d?
Accepts(d) ==
  CASE d.kind \in {"exchange", "queue"} ->
         \A e \in broker : e.kind = d.kind /\ e.name = d.name => e.arg = d.arg
    [] d.kind = "binding" ->
         /\ \E e \in broker : e.kind = "queue" /\ e.name = d.name
         /\ \E e \in broker : e.kind = "exchange" /\ e.name = d.arg
    [] OTHER -> TRUE

Declare(d) == /\ Accepts(d)
              /\ broker' = IF d.kind = "channel" THEN broker
                                                 ELSE broker \cup {d}

\* A queue that sends its dead letters to an exchange has that exchange, and
\* the exchange has a queue bound to it, even when SetupTopology failed
\* halfway: no rejected message of the main queue falls into the void.
DeadLettersKept ==
  \A q \in broker : q.kind = "queue" /\ q.arg # "none" =>
    \E b \in broker : b.kind = "binding" /\ b.arg = q.arg

\* The broker has everything a section asks of it.
InPlace(s) ==
  \A d \in Range(Declarations(s)) : d.kind = "channel" \/ d \in broker
=============================================================================
