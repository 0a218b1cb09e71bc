SPECIFICATION Spec
CONSTANTS
  Procs = {p1, p2}
  Shutdowns = {s1}
  ProducerKeys = {k1}
  ConsumerKeys = {g1, g2}
  SubscribeKeys = {g1}
  ForeignKeys = {g2}
  ScansConsumers = TRUE
  Clients = {c1, c2}
  Mutexes = {m1, m2, m3, m4}
  NoKey = NoKey
  NoClient = NoClient
  NoMutex = NoMutex
  NoProc = NoProc
SYMMETRY Symmetry
INVARIANT TypeOK
INVARIANT OneOpenClientPerKey
INVARIANT NoOrphans
INVARIANT HandedOutIsCached
INVARIANT DeletesWhatItClosed
INVARIANT GracefulClosesCached
PROPERTY SharesOneClient
