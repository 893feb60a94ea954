--------------------------- MODULE MCTraceSession ---------------------------
(* Instances of TraceSession for TLC.                                      *)
EXTENDS TraceSession

(* Contexts are interchangeable.                                           *)
Symmetry == Permutations(Ctxs)
=============================================================================
