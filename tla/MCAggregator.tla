---------------------------- MODULE MCAggregator ----------------------------
(* Aggregator for TLC: a root process with two files, the first one with    *)
(* sections, and a child that is sent to the same shard; and a root with    *)
(* one file and a child in another shard, which waits for its parent.       *)
EXTENDS Aggregator, TLC

CONSTANTS a, b, p, q    \* two shards, two processes

MCTraces ==
    {t \in AllTraces :
        /\ t.home[p] = a /\ t.mapped = (t.home[q] = b)
        /\ t.size = (p :> (IF t.home[q] = a THEN 2 ELSE 1) @@ q :> 1)
        /\ <<p, 1>> \in t.changes /\ <<q, 1>> \notin t.changes
        /\ t.open = {} <=> t.home[q] = b}
=============================================================================
