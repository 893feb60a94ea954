SPECIFICATION FairSpec
CONSTANTS
  NoOne = NoOne
  i1 = i1
  i2 = i2
  t1 = t1
  t2 = t2
  Interps = {i1, i2}
  Threads = {t1, t2}
  CountdownTicks = 2
  Events = {"create", "attr", "fork", "slowfork", "clone"}
INVARIANTS
  TypeOK
  IdleProcessReportsIdle
PROPERTIES
  CounterThreadStops
  MutexReleased
