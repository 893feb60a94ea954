--------------------------- MODULE MCCounterThread ---------------------------
(* Instances of CounterThread for TLC.                                     *)
EXTENDS CounterThread, TLC

(* Interpreters and thread slots are interchangeable; only used by runs    *)
(* that check no liveness.                                                 *)
Symmetry == Permutations(Interps) \cup Permutations(Threads)
=============================================================================
