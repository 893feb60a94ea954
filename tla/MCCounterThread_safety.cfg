SPECIFICATION Spec
CONSTANTS
  NoOne = NoOne
  i1 = i1
  i2 = i2
  i3 = i3
  t1 = t1
  t2 = t2
  Interps = {i1, i2, i3}
  Threads = {t1, t2}
  CountdownTicks = 2
  Events = {"fork", "suspend", "clone", "exit"}
SYMMETRY Symmetry
INVARIANTS
  RefcountAccounting
  OneCounterThread
  SamplingHasCounter
PROPERTIES
  ExitsUnreferenced
CHECK_DEADLOCK FALSE
