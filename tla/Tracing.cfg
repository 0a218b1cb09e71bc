SPECIFICATION Spec
CONSTANTS
  p1 = p1 p2 = p2
  Procs = {p1, p2}
  Senders = {"kafka", "rabbitmq", "nats", "redis", "redis_maxlen", "rocketmq", "pulsar", "nsq", "mqtt"}
  MaxSpans = 4
  MaxHops = 3
SYMMETRY Symmetric
INVARIANTS  LinksToSender StaysInTrace
