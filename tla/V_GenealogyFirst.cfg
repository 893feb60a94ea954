SPECIFICATION Spec
CONSTANTS
  a = a
  b = b
  p = p
  q = q
  Shards = {a}
  Procs = {p, q}
  Root = p
  MaxOrdinal = 2
  Traces <- MCTraces
  Events = {"crash"}
  MaxEvents = 1
INVARIANTS
  SourcesSaved
CHECK_DEADLOCK FALSE
