SPECIFICATION FairSpec
CONSTANTS
  a = a
  b = b
  p = p
  q = q
  Shards = {a, b}
  Procs = {p, q}
  Root = p
  MaxOrdinal = 2
  Traces <- MCTraces
  Events = {"crash", "mergecrash", "keep", "broken", "overlap", "own"}
  MaxEvents = 1
INVARIANTS
  TypeOK
  NeverTwice
  Accounted
  SourcesFirst
PROPERTIES
  GenealogyKept
  AllMerged
CHECK_DEADLOCK FALSE
