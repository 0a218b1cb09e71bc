SPECIFICATION Spec
CONSTANTS
  Paths = {a}
  Anonymous = {}
  Names = {"main", "default"}
  NameOf <- MCNameOf
  DefaultName = "default"
  Contents = {v1, v2}
  Prints = {v1, v2}
  PrintOf <- DistinctPrints
  MayRevert = TRUE
  Overlap = FALSE
  Callers = {p1}
  Reloads = {r1, r2}
  Pools = {q1, q2, q3}
  NoContent = NoContent
  NoPool = NoPool
  NoPath = NoPath
INVARIANT CurrentPoolOpen
