SPECIFICATION Spec
CONSTANTS
  Subs = {"f"}
  Lines = {l1, l2}
  Texts = {s1, s2}
  Kinds = {"traced", "always"}
  Debugger = {TRUE, FALSE}
  Depths = {3}
  SwitchInside = FALSE
  OpenFails = TRUE
  MaxContexts = 3
  MaxEvals = 2
  MaxSubs = 1
SYMMETRY Symmetry
INVARIANTS
  FramesTrue
  SampledEvalsSaved
  SubsHaveSource
CHECK_DEADLOCK FALSE
