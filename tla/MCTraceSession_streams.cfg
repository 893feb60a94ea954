SPECIFICATION Spec
CONSTANTS
  c1 = c1
  c2 = c2
  s1 = s1
  Ctxs = {c1, c2}
  Sections = {s1}
  MaxNest = 1
  MaxIds = 3
  MaxOrdinal = 2
  MaxRecords = 1
  Events = {"fork", "clone", "disable", "crash", "evals", "always", "early", "guards", "openfail", "nothread"}
SYMMETRY Symmetry
INVARIANTS
  TypeOK
  OneWriter
  LineageKept
  SectionsMatched
  ChildShutsQuietly
PROPERTIES
  ImplementsStream
CHECK_DEADLOCK FALSE
