SPECIFICATION Spec
CONSTANTS
  h1 = h1
  h2 = h2
  d = d
  w1 = w1
  p1 = p1
  p2 = p2
  r1 = r1
  a1 = a1
  a2 = a2
  Hashes = {h1, h2}
  Dirs = {d}
  DirOf <- MCDirOf
  Writers = {w1}
  Packers = {p1, p2}
  Readers = {r1}
  Names = {a1, a2}
  Events = {"overlap", "crash"}
SYMMETRY Symmetry
INVARIANTS
  NothingLost
  SourcesFindable
  LookupsSucceed
CHECK_DEADLOCK FALSE
