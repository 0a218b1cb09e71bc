SPECIFICATION Spec
CONSTANTS
  Procs = {p1, p2}
  ProducerKeys = {k1}
  ConsumerKeys = {g1}
  Prints = {"f"}
  PrintOf <- MCPrintOf
  Handles = {h1, h2}
  Clients = {c1, c2}
  NoKey = NoKey
  NoHandle = NoHandle
  NoClient = NoClient
INVARIANT TypeOK
INVARIANT OneClientPerPrint
INVARIANT HandlesOnCachedClient
INVARIANT GracefulClosesProducers
SYMMETRY Symmetry
