SPECIFICATION Spec
CONSTANTS
  p1 = p1 p2 = p2 c1 = c1 c2 = c2 c3 = c3
  Procs = {p1, p2}
  Keys = {"orders", "orders2", "reader", "audit"}
  ProducerKeys = {"orders", "orders2", "audit"}
  Prints = {"f1", "f2"}
  PrintOf <- MCPrintOf
  Conns = {c1, c2, c3}
  PoolSize = 2
  NoConn = NoConn
SYMMETRY Symmetric
INVARIANTS   GracefulDrains
