---------------------------- MODULE MCEvalSource ----------------------------
(* A process that forks a child during its first file.                     *)
EXTENDS EvalSource, TLC

CONSTANTS a, b, parent, child, Forked

MCParent == [p \in Processes |-> IF p = child THEN [process |-> parent, ordinal |-> 1] ELSE NoParent]
MCLastOrdinal == [p \in Processes |-> IF p = parent THEN 2 ELSE 1]
MCInherited == [p \in Processes |-> IF p = child THEN Forked ELSE 0]
Symmetry == Permutations(Holders)
=============================================================================
