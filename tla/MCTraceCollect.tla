--------------------------- MODULE MCTraceCollect ---------------------------
(* Nothing tells the texts of evals or the lines apart.                    *)
EXTENDS TraceCollect, TLC

Symmetry == Permutations(Texts) \cup Permutations(Lines)

=============================================================================
