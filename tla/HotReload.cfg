SPECIFICATION FairSpec
CONSTANTS
  Paths = {a}
  Anonymous = {}
  Names = {"main", "default"}
  NameOf <- MCNameOf
  DefaultName = "default"
  Contents = {v1, v2, v3}
  Prints = {v1, v2, v3}
  PrintOf <- DistinctPrints
  MayRevert = FALSE
  Overlap = FALSE
  Callers = {p1}
  Reloads = {r1, r2}
  Pools = {q1, q2, q3}
  NoContent = NoContent
  NoPool = NoPool
  NoPath = NoPath
INVARIANT TypeOK
INVARIANT CurrentPoolOpen
 
PROPERTY ReplacedPoolCloses
