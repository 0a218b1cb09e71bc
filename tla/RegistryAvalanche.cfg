SPECIFICATION Spec
CONSTANTS
  Procs = {p1, p2}
  Shutdowns = {s1}
  ProducerKeys = {k1}
  ConsumerKeys = {}
  SubscribeKeys = {}
  ForeignKeys = {}
  ScansConsumers = TRUE
  Clients = {c1, c2}
  Mutexes = {m1, m2, m3}
  NoKey = NoKey
  NoClient = NoClient
  NoMutex = NoMutex
  NoProc = NoProc
INVARIANT AvalanchePrevented
