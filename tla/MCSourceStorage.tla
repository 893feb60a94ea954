-------------------------- MODULE MCSourceStorage --------------------------
(* Two sources, whose files are in one directory.                          *)
EXTENDS SourceStorage, TLC

CONSTANTS h1, h2

MCDirOf == [h \in Hashes |-> CHOOSE d \in Dirs : TRUE]
Symmetry == Permutations(Hashes) \cup Permutations(Packers) \cup Permutations(Names)
=============================================================================
