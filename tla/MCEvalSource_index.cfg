SPECIFICATION IndexSpec
CONSTANTS
  a = a
  b = b
  parent = parent
  child = child
  NoParent = NoParent
  Forked = 3
  Holders = {a, b}
  Processes = {parent, child}
  Parent <- MCParent
  LastOrdinal <- MCLastOrdinal
  Inherited <- MCInherited
  Numbers = {1, 2, 3, 4}
  HoleLimit = 2
  MaxAdded = 3
  MaxReads = 3
SYMMETRY Symmetry
INVARIANTS
  LookupsRight
CHECK_DEADLOCK FALSE
