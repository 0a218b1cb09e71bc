SPECIFICATION FairSpec
CONSTANTS
  Procs = {p1, p2}
  Shutdowns = {s1}
  ProducerKeys = {}
  ConsumerKeys = {g1}
  SubscribeKeys = {g1}
  ForeignKeys = {}
  ScansConsumers = TRUE
  Clients = {c1, c2}
  Mutexes = {m1, m2, m3}
  NoKey = NoKey
  NoClient = NoClient
  NoMutex = NoMutex
  NoProc = NoProc
PROPERTY CallReturns
PROPERTY ShutdownReturns
PROPERTY CachedGetClosed
