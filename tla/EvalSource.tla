------------------------------ MODULE EvalSource ------------------------------
(***************************************************************************)
(* Which source an eval of a process had (EvalSource.pm): an index from    *)
(* the numbers of evals to hashes, for each trace file.                    *)
(*                                                                         *)
(* The hashes of consecutive evals are packed behind the first one, the    *)
(* others are kept by number.  Indexes are packed when they are saved, and *)
(* merged with those of other shards.  An eval a process does not have is  *)
(* looked for in its parent, up to the file the process was forked in.     *)
(***************************************************************************)
EXTENDS Integers, Functions, SequencesExt

CONSTANTS
    Holders,      \* objects that hold an index
    Processes,
    Parent,       \* the file each process was forked in, or NoParent
    NoParent,
    LastOrdinal,  \* the number of files of each process
    Inherited,    \* the number of evals started before each process was
    Numbers,      \* the numbers of evals
    HoleLimit,    \* holes that are shorter are worth it
    MaxAdded,     \* evals that are read at once
    MaxReads      \* how often evals are read

Files == UNION {{[process |-> p, ordinal |-> o] : o \in 1 .. LastOrdinal[p]} : p \in Processes}

ASSUME IndexAssumption ==
    /\ Numbers \subseteq Nat \ {0} /\ IsFiniteSet(Numbers) /\ HoleLimit \in Nat
    /\ IsFiniteSet(Processes) /\ NoParent \notin Files
    /\ Parent \in [Processes -> Files \cup {NoParent}]
    /\ LastOrdinal \in [Processes -> Nat \ {0}] /\ Inherited \in [Processes -> Nat]

(* A process starts after its parent, and goes on counting where that was. *)
Younger(age, p) ==
    Parent[p] # NoParent =>
        /\ age[Parent[p].process] < age[p]
        /\ Inherited[Parent[p].process] <= Inherited[p]

ASSUME GenealogyAssumption ==
    \E age \in [Processes -> 1 .. Cardinality(Processes)] : \A p \in Processes : Younger(age, p)

VARIABLES
    all,     \* the index each holder has, by file
    added,   \* history: the evals whose sources reached each holder, by file
    skewed,  \* history: holders with an index that was packed over a gap
    reads    \* how often evals were read

indexVars == <<all, added, skewed, reads>>

-----------------------------------------------------------------------------
(* Processes and evals                                                     *)

(* The process that ran an eval: a child goes on counting where it forked. *)
RanBy(n) ==
    LET ran[p \in Processes] ==
            IF Parent[p] = NoParent \/ n > Inherited[p] THEN p ELSE ran[Parent[p].process]
    IN  ran
Source(p, n) == <<RanBy(n)[p], n>>

(* A file ends before a process that depends on it runs evals of its own.  *)
Possible(f) ==
    {n \in Numbers : \A p \in Processes :
        Parent[p] # NoParent /\ Parent[p].process = f.process /\ f.ordinal <= Parent[p].ordinal
           => n <= Inherited[p]}

-----------------------------------------------------------------------------
(* The entry of a file                                                     *)

Hole == <<>>
Nothing == [sparse |-> <<>>, first |-> 0, packed |-> <<>>]
After(e) == e.first + Len(e.packed)

(* The hashes of some numbers that are kept by number, in their order.     *)
Nth(ns, i) == CHOOSE n \in ns : Cardinality({m \in ns : m <= n}) = i
HashesOf(e, ns) == [i \in 1 .. Cardinality(ns) |-> e.sparse[Nth(ns, i)]]

(* As many steps as there are sparse hashes, whether they follow or not.   *)
Taken(e) ==
    LET ns == DOMAIN e.sparse IN ns \cap (After(e) .. After(e) + Cardinality(ns) - 1)
Extend(e) ==
    [first |-> e.first, packed |-> e.packed \o HashesOf(e, Taken(e)),
     sparse |-> Restrict(e.sparse, DOMAIN e.sparse \ Taken(e))]

(* _pack_data(): behind what is packed, or everything if it has no gap.    *)
Contiguous(ns) == ns # {} /\ ns = Min(ns) .. Max(ns)
Pack(e) ==
    IF e.first # 0
    THEN IF After(e) \in DOMAIN e.sparse THEN Extend(e) ELSE e
    ELSE IF Contiguous(DOMAIN e.sparse)
         THEN Extend([e EXCEPT !.first = Min(DOMAIN e.sparse)])
         ELSE e

(* A hash lands at the position of another eval.                           *)
PacksOverGap(e) ==
    /\ e.first # 0 /\ After(e) \in DOMAIN e.sparse
    /\ ~Contiguous(Taken(e))

(* What is kept by number, the new hashes before the old ones.             *)
Over(new, old) == [n \in DOMAIN new \cup DOMAIN old |-> IF n \in DOMAIN new THEN new[n] ELSE old[n]]

(* Mutant of Join: ranges that are close are packed without a hole.        *)
JoinClose(sparse, lo, hi) ==
    IF hi.first - After(lo) \in 0 .. HoleLimit - 1
    THEN [sparse |-> sparse, first |-> lo.first, packed |-> lo.packed \o hi.packed]
    ELSE [sparse |-> Over([n \in hi.first .. After(hi) - 1 |-> hi.packed[n - hi.first + 1]], sparse),
          first |-> lo.first, packed |-> lo.packed]

(* Two packed ranges: one, one with a hole, or one and its rest by number. *)
Join(sparse, lo, hi) ==
    LET gap == hi.first - After(lo)
        small == gap < HoleLimit \/ HoleLimit * gap < After(hi) - lo.first IN
    IF gap >= 0 /\ (gap = 0 \/ small)
    THEN [sparse |-> sparse, first |-> lo.first,
          packed |-> lo.packed \o [i \in 1 .. gap |-> Hole] \o hi.packed]
    ELSE [sparse |-> Over([n \in hi.first .. After(hi) - 1 |-> hi.packed[n - hi.first + 1]], sparse),
          first |-> lo.first, packed |-> lo.packed]

(* _merge_source(): what is kept by number is replaced.                    *)
MergeSource(e, g) ==
    LET sparse == Over(g.sparse, e.sparse) IN
    IF g.first = 0 THEN [e EXCEPT !.sparse = sparse]
    ELSE IF e.first = 0 THEN [g EXCEPT !.sparse = sparse]
    ELSE IF e.first < g.first THEN Join(sparse, e, g) ELSE Join(sparse, g, e)

-----------------------------------------------------------------------------
(* _get_hash_by_name(): the hash, a hole, or nothing                       *)

Known(e, n) == n \in DOMAIN e.sparse \cup (e.first .. After(e) - 1)
HashIn(e, n) == IF n \in DOMAIN e.sparse THEN e.sparse[n] ELSE e.packed[n - e.first + 1]

(* Of the files up to f the last one that has it, then those of the parent. *)
Having(index, f, n) == {o \in 1 .. f.ordinal : Known(index[[f EXCEPT !.ordinal = o]], n)}
HashFrom(index, n) ==
    LET from[f \in Files] ==
            LET having == Having(index, f, n) IN
            IF having # {} THEN HashIn(index[[f EXCEPT !.ordinal = Max(having)]], n)
            ELSE IF Parent[f.process] = NoParent THEN Hole
            ELSE from[Parent[f.process]]
    IN  from

LastFile(p) == [process |-> p, ordinal |-> LastOrdinal[p]]
HashByName(o, p, n) == HashFrom(all[o], n)[LastFile(p)]

-----------------------------------------------------------------------------
IndexInit ==
    /\ all = [o \in Holders |-> [f \in Files |-> Nothing]]
    /\ added = [o \in Holders |-> {}]
    /\ skewed = {} /\ reads = 0

(* add_sources_from_reader()                                               *)
AddSources(o, f, ns) ==
    /\ reads < MaxReads /\ reads' = reads + 1
    /\ all' = [all EXCEPT ![o][f].sparse = Over([n \in ns |-> Source(f.process, n)], @)]
    /\ added' = [added EXCEPT ![o] = @ \cup {<<f, n>> : n \in ns}]
    /\ UNCHANGED skewed

(* _pack_data(), when an index is saved or was loaded                      *)
PackData(o) ==
    /\ all' = [all EXCEPT ![o] = [f \in Files |-> Pack(@[f])]]
    /\ skewed' = IF \E f \in Files : PacksOverGap(all[o][f]) THEN skewed \cup {o} ELSE skewed
    /\ UNCHANGED <<added, reads>>

(* load_and_merge(): the index another holder saved                        *)
LoadAndMerge(o, from) ==
    /\ from # o
    /\ LET merged == [f \in Files |-> MergeSource(all[o][f], all[from][f])] IN
       /\ all' = [all EXCEPT ![o] = [f \in Files |-> Pack(merged[f])]]
       /\ skewed' = IF from \in skewed \/ \E f \in Files : PacksOverGap(merged[f])
                    THEN skewed \cup {o} ELSE skewed
    /\ added' = [added EXCEPT ![o] = @ \cup added[from]]
    /\ UNCHANGED reads

(* delete_process()                                                        *)
DeleteProcess(o, p) ==
    /\ all' = [all EXCEPT ![o] = [f \in Files |-> IF f.process = p THEN Nothing ELSE @[f]]]
    /\ added' = [added EXCEPT ![o] = {x \in @ : x[1].process # p}]
    /\ UNCHANGED <<skewed, reads>>

IndexNext ==
    \E o \in Holders :
       \/ \E f \in Files : \E ns \in UNION {kSubset(k, Possible(f)) : k \in 1 .. MaxAdded} : AddSources(o, f, ns)
       \/ PackData(o)
       \/ \E from \in Holders : LoadAndMerge(o, from)
       \/ \E p \in Processes : DeleteProcess(o, p)

IndexSpec == IndexInit /\ [][IndexNext]_indexVars

-----------------------------------------------------------------------------
(* Properties                                                              *)

(* The files a process may find evals in: those up to its last one, then   *)
(* those of its parent up to the one it was forked in.                     *)
Line ==
    LET line[f \in Files] ==
            {[f EXCEPT !.ordinal = o] : o \in 1 .. f.ordinal}
            \cup IF Parent[f.process] = NoParent THEN {} ELSE line[Parent[f.process]]
    IN  line

Masked(o, p, n) ==
    \E f \in Line[LastFile(p)] : Known(all[o][f], n) /\ HashIn(all[o][f], n) = Hole

(* Whatever was packed and merged in which order, an eval has the source   *)
(* that the process or the ancestor that ran it gave it, never that of     *)
(* another eval or of a relative with the same number; it has one if it    *)
(* was in any of the files, unless a hole is found first.                  *)
LookupsRight ==
    \A o \in Holders \ skewed, p \in Processes, n \in Numbers :
       LET h == HashByName(o, p, n)
           known == \E f \in Line[LastFile(p)] : <<f, n>> \in added[o] IN
       IF known /\ ~(h = Hole /\ Masked(o, p, n)) THEN h = Source(p, n) ELSE h = Hole

=============================================================================
