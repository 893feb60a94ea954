SPECIFICATION RunloopSpec
CONSTANTS
  MaxDepth = 3
  MaxTicks = 4
  Modulus = 4
  Events = {"nest", "overload", "die", "stop", "openfail"}
INVARIANTS
  TypeOK
  AttributedOnce
  AllAttributed
CHECK_DEADLOCK FALSE
