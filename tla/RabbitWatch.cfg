SPECIFICATION RabbitSpec
CONSTANTS
  Procs = {p1}
  Shutdowns = {s1}
  ProducerKeys = {k1}
  ConsumerKeys = {g1}
  SubscribeKeys = {}
  ForeignKeys = {}
  ScansConsumers = TRUE
  Clients = {c1, c2}
  Mutexes = {m1, m2}
  NoKey = NoKey
  NoClient = NoClient
  NoMutex = NoMutex
  NoProc = NoProc
INVARIANT LostIsBeingEvicted
INVARIANT EvictsOwn
SYMMETRY Symmetry
