-------------------------- MODULE AggregatorProofs --------------------------
(***************************************************************************)
(* Proofs about Aggregator, for any shards, processes and files: the       *)
(* merged metadata only grows, and whenever it announces a file the        *)
(* sources of the file are there; the types; no trace file counts twice;   *)
(* none is lost.                                                           *)
(***************************************************************************)
EXTENDS Aggregator, FiniteSetTheorems, TLAPS

(* No worker was killed, and metadata was merged only between saves.       *)
Orderly == happened \cap {"crash", "overlap", "own"} = {}

LEMMA InitMetadata == Init => MetadataInv
<1> SUFFICES ASSUME Init PROVE MetadataInv
    OBVIOUS
<1>1. ShapeInv
    BY DEF Init, ShapeInv, NoWorker, NoMerger
<1>2. ASSUME NEW s \in Shards
      PROVE  HoldsMerged(s) /\ PartsCovered(s) /\ MergerCovered(s)
    BY DEF Init, HoldsMerged, PartsCovered, MergerCovered, NoMerger, PartsOf, MergedSets
<1>3. QED BY <1>1, <1>2 DEF MetadataInv

(* Events are never taken back.                                            *)
LEMMA EventsStay == [Next]_vars => happened \subseteq happened'
<1> SUFFICES ASSUME [Next]_vars PROVE happened \subseteq happened'
    OBVIOUS
<1>1. ASSUME NEW s \in Shards, Start(s) \/ Save(s) \/ Crash(s)
      PROVE  happened \subseteq happened'
    BY <1>1 DEF Start, Save, SaveGenealogy, SaveState, SaveSources, SaveReport, Finish,
                Crash, Happens
<1>2. ASSUME NEW s \in Shards, NEW f \in Files, Process(s, f) \/ ProcessBroken(s, f)
      PROVE  happened \subseteq happened'
    BY <1>2 DEF Process, ProcessBroken, Happens
<1>3. ASSUME NEW s \in Shards,
             \/ MergeMetadata(s) \/ MergeReport(s) \/ MergeOwn(s)
             \/ Unlink(s) \/ MergerCrash(s)
      PROVE  happened \subseteq happened'
    BY <1>3 DEF MergeMetadata, LoadGenealogy, LoadSources, SaveMerged, MergeReport,
                LoadReports, SaveAggregate, MergeOwn, Unlink, MergerCrash, Happens
<1>4. QED BY <1>1, <1>2, <1>3 DEF Next, vars

(* What a shard's invariants speak of.                                     *)
Same(t) ==
    /\ merged'[t] = merged[t] /\ merger'[t] = merger[t]
    /\ worker'[t] = worker[t] /\ parts'[t] = parts[t]

LEMMA Frame ==
    ASSUME NEW t, Same(t)
    PROVE  /\ HoldsMerged(t) => HoldsMerged(t)'
           /\ PartsCovered(t) => PartsCovered(t)'
           /\ MergerCovered(t) => MergerCovered(t)'
BY DEF Same, HoldsMerged, PartsCovered, MergerCovered, Sources, PartsOf

(* It suffices to look at the shard that moved.                            *)
LEMMA OneShard ==
    ASSUME MetadataInv, [Next]_vars, ShapeInv', NEW s \in Shards,
           \A t \in Shards \ {s} : Same(t),
           "own" \notin happened' /\ HoldsMerged(s) => HoldsMerged(s)',
           Orderly' /\ PartsCovered(s) /\ MergerCovered(s) =>
              PartsCovered(s)' /\ MergerCovered(s)'
    PROVE  MetadataInv'
<1>1. happened \subseteq happened'
    BY EventsStay
<1>2. ASSUME "own" \notin happened', NEW t \in Shards PROVE HoldsMerged(t)'
    BY <1>1, <1>2, Frame DEF MetadataInv
<1>3. ASSUME Orderly', NEW t \in Shards PROVE PartsCovered(t)' /\ MergerCovered(t)'
    BY <1>1, <1>3, Frame DEF MetadataInv, Orderly
<1>4. QED BY <1>2, <1>3 DEF MetadataInv, Orderly

-----------------------------------------------------------------------------
(* The worker.                                                             *)

(* write_data_part() adds one part, of its kind, to the parts of a shard.  *)
LEMMA OnePart ==
    ASSUME ShapeInv, NEW s \in Shards, NEW kind, NEW data, AddPart(s, kind, data)
    PROVE  /\ DOMAIN parts' = Shards /\ \A t \in Shards \ {s} : parts'[t] = parts[t]
           /\ \A k : k # kind => PartsOf(s, k)' = PartsOf(s, k)
           /\ \E x : x.data = data /\ PartsOf(s, kind)' = PartsOf(s, kind) \cup {x}
<1>1. PICK x : x.kind = kind /\ x.data = data /\ parts' = [parts EXCEPT ![s] = @ \cup {x}]
    <2> DEFINE new(n) == [kind |-> kind, name |-> n, data |-> data]
               name == CHOOSE n \in 1 .. Cardinality(parts[s]) + 1 : new(n) \notin parts[s]
    <2>1. parts' = [parts EXCEPT ![s] = @ \cup {new(name)}]
        BY DEF AddPart
    <2>2. new(name).kind = kind /\ new(name).data = data
        OBVIOUS
    <2>3. QED BY <2>1, <2>2
<1>2. parts'[s] = parts[s] \cup {x}
    BY <1>1 DEF ShapeInv
<1>3. QED BY <1>1, <1>2 DEF ShapeInv, PartsOf

(* A step of a worker that writes no metadata and does not leave "states"  *)
(* unless it is killed.                                                    *)
LEMMA WorkerStep ==
    ASSUME MetadataInv, [Next]_vars, NEW s \in Shards, UNCHANGED <<merged, merger>>,
           DOMAIN worker' = Shards, DOMAIN worker'[s] = DOMAIN worker[s],
           \A t \in Shards \ {s} : worker'[t] = worker[t],
           DOMAIN parts' = Shards, \A t \in Shards \ {s} : parts'[t] = parts[t],
           PartsOf(s, "genealogy")' = PartsOf(s, "genealogy"),
           PartsOf(s, "source")' = PartsOf(s, "source"),
           \/ "crash" \in happened'
           \/ worker[s].pc = "states" =>
                 worker'[s].pc = "states" /\ worker'[s].seen = worker[s].seen
    PROVE  MetadataInv'
<1>1. ShapeInv'
    BY DEF MetadataInv, ShapeInv
<1>2. \A t \in Shards \ {s} : Same(t)
    BY DEF Same
<1>3. HoldsMerged(s) => HoldsMerged(s)'
    BY DEF HoldsMerged
<1>4. Sources(s)' = Sources(s)
    BY DEF Sources, MergedSets
<1>5. Orderly' /\ PartsCovered(s) => PartsCovered(s)'
    BY <1>4 DEF PartsCovered, Orderly
<1>6. MergerCovered(s) => MergerCovered(s)'
    BY <1>4 DEF MergerCovered, MergedSets
<1>7. QED BY <1>1, <1>2, <1>3, <1>5, <1>6, OneShard

LEMMA WorkerActions ==
    ASSUME MetadataInv, [Next]_vars, NEW s \in Shards,
           \/ Start(s) \/ SaveReport(s) \/ Finish(s) \/ Crash(s)
           \/ \E p \in Procs : SaveState(s, p)
           \/ \E f \in Files : Process(s, f) \/ ProcessBroken(s, f)
    PROVE  MetadataInv'
<1> USE DEF MetadataInv, ShapeInv
<1>1. CASE Start(s)
    BY <1>1, WorkerStep DEF Start, NoWorker, PartsOf
<1>2. CASE SaveReport(s)
    <2>1. CASE worker[s].report = EmptyBag
        BY <1>2, <2>1, WorkerStep DEF SaveReport, PartsOf
    <2>2. CASE worker[s].report # EmptyBag
        <3>1. AddPart(s, "report", worker[s].report)
            BY <1>2, <2>2 DEF SaveReport
        <3>2. QED BY <1>2, <3>1, OnePart, WorkerStep DEF SaveReport
    <2>3. QED BY <2>1, <2>2
<1>3. CASE Finish(s)
    BY <1>3, WorkerStep DEF Finish, NoWorker, PartsOf
<1>4. CASE Crash(s)
    BY <1>4, WorkerStep DEF Crash, Happens, NoWorker, PartsOf
<1>5. ASSUME NEW p \in Procs, SaveState(s, p) PROVE MetadataInv'
    BY <1>5, WorkerStep DEF SaveState, PartsOf
<1>6. ASSUME NEW f \in Files, Process(s, f) PROVE MetadataInv'
    BY <1>6, WorkerStep, ZenonT(60) DEF Process, Offered, PartsOf
<1>7. ASSUME NEW f \in Files, ProcessBroken(s, f) PROVE MetadataInv'
    BY <1>7, WorkerStep, ZenonT(60) DEF ProcessBroken, Offered, PartsOf
<1>8. QED BY <1>1, <1>2, <1>3, <1>4, <1>5, <1>6, <1>7

LEMMA SaveGenealogyKeeps ==
    ASSUME MetadataInv, [Next]_vars, NEW s \in Shards, SaveGenealogy(s)
    PROVE  MetadataInv'
<1> USE DEF MetadataInv, ShapeInv
<1>1. CASE worker[s].seen = {}
    BY <1>1, WorkerStep DEF SaveGenealogy, PartsOf
<1>2. CASE worker[s].seen # {}
    <2>1. AddPart(s, "genealogy", worker[s].seen)
        BY <1>2 DEF SaveGenealogy
    <2>2. PICK x : x.data = worker[s].seen
                   /\ PartsOf(s, "genealogy")' = PartsOf(s, "genealogy") \cup {x}
        BY <2>1, OnePart
    <2>3. DOMAIN parts' = Shards /\ \A t \in Shards \ {s} : parts'[t] = parts[t]
        BY <2>1, OnePart
    <2>4. Sources(s)' = Sources(s)
        BY <2>1, OnePart DEF SaveGenealogy, Sources, MergedSets
    <2>5. worker'[s].pc = "states" /\ worker'[s].seen = worker[s].seen
          /\ worker[s].pc = "work"
        BY DEF SaveGenealogy
    <2>6. ShapeInv' /\ \A t \in Shards \ {s} : Same(t)
        BY <2>3 DEF SaveGenealogy, Same
    <2>7. HoldsMerged(s) => HoldsMerged(s)'
        BY DEF SaveGenealogy, HoldsMerged
    <2>8. PartsCovered(s) => PartsCovered(s)'
        BY <2>2, <2>4, <2>5 DEF PartsCovered
    <2>9. MergerCovered(s) => MergerCovered(s)'
        BY <2>4 DEF SaveGenealogy, MergerCovered, MergedSets
    <2>10. QED BY <2>6, <2>7, <2>8, <2>9, OneShard
<1>3. QED BY <1>1, <1>2

LEMMA SaveSourcesKeeps ==
    ASSUME MetadataInv, [Next]_vars, NEW s \in Shards, SaveSources(s)
    PROVE  MetadataInv'
<1> USE DEF MetadataInv, ShapeInv
<1>1. /\ DOMAIN parts' = Shards /\ \A t \in Shards \ {s} : parts'[t] = parts[t]
      /\ PartsOf(s, "genealogy")' = PartsOf(s, "genealogy")
      /\ Sources(s)' = Sources(s) \cup worker[s].seen
    <2>1. CASE worker[s].seen = {}
        BY <2>1 DEF SaveSources, PartsOf, Sources, MergedSets
    <2>2. CASE worker[s].seen # {}
        <3>1. AddPart(s, "source", worker[s].seen)
            BY <2>2 DEF SaveSources
        <3>2. PICK x : x.data = worker[s].seen
                       /\ PartsOf(s, "source")' = PartsOf(s, "source") \cup {x}
            BY <3>1, OnePart
        <3>3. MergedSets(PartsOf(s, "source"))' = MergedSets(PartsOf(s, "source")) \cup worker[s].seen
            BY <3>2 DEF MergedSets
        <3>4. QED BY <3>1, <3>3, OnePart DEF SaveSources, Sources
    <2>3. QED BY <2>1, <2>2
<1>2. ShapeInv' /\ \A t \in Shards \ {s} : Same(t)
    BY <1>1 DEF SaveSources, Same
<1>3. HoldsMerged(s) => HoldsMerged(s)'
    BY DEF SaveSources, HoldsMerged
<1>4. PartsCovered(s) => PartsCovered(s)'
    BY <1>1 DEF PartsCovered
<1>5. MergerCovered(s) => MergerCovered(s)'
    BY <1>1 DEF SaveSources, MergerCovered, MergedSets
<1>6. QED BY <1>2, <1>3, <1>4, <1>5, OneShard

-----------------------------------------------------------------------------
(* The merger.                                                             *)

(* A step of a merger that leaves merged metadata and parts alone.         *)
LEMMA MergerStep ==
    ASSUME MetadataInv, [Next]_vars, NEW s \in Shards, UNCHANGED <<worker, parts>>,
           DOMAIN merger' = Shards, DOMAIN merger'[s] = DOMAIN merger[s],
           \A t \in Shards \ {s} : merger'[t] = merger[t],
           DOMAIN merged' = Shards, DOMAIN merged'[s] = DOMAIN merged[s],
           \A t \in Shards \ {s} : merged'[t] = merged[t],
           merged'[s].genealogy = merged[s].genealogy,
           merged'[s].source = merged[s].source,
           "own" \notin happened' /\ HoldsMerged(s) => HoldsMerged(s)',
           Orderly' /\ PartsCovered(s) /\ MergerCovered(s) => MergerCovered(s)'
    PROVE  MetadataInv'
<1>1. ShapeInv'
    BY DEF MetadataInv, ShapeInv
<1>2. \A t \in Shards \ {s} : Same(t)
    BY DEF Same
<1>3. PartsCovered(s) => PartsCovered(s)'
    BY DEF PartsCovered, Sources, PartsOf
<1>4. QED BY <1>1, <1>2, <1>3, OneShard

LEMMA LoadGenealogyKeeps ==
    ASSUME MetadataInv, [Next]_vars, NEW s \in Shards, LoadGenealogy(s)
    PROVE  MetadataInv'
<1> USE DEF MetadataInv, ShapeInv
<1> DEFINE P == PartsOf(s, "genealogy")
<1>1. /\ merger'[s].pc = "sources" /\ merger'[s].parts = P
      /\ merger'[s].genealogy = merged[s].genealogy \cup MergedSets(P)
      /\ UNCHANGED <<merged, parts, worker>>
    BY DEF LoadGenealogy, NoMerger
<1>2. HoldsMerged(s)'
    BY <1>1 DEF HoldsMerged
<1>3. ASSUME Orderly', PartsCovered(s), MergerCovered(s) PROVE MergerCovered(s)'
    <2>1. worker[s].pc # "states"
        BY <1>3 DEF LoadGenealogy, Saving, Happens, Orderly
    <2>2. MergedSets(P) \subseteq Sources(s)
        BY <1>3, <2>1 DEF PartsCovered, MergedSets
    <2>3. Sources(s)' = Sources(s) /\ merged[s].genealogy \subseteq Sources(s)
        BY <1>1, <1>3 DEF Sources, PartsOf, MergerCovered
    <2>4. {x \in P : x.kind = "source"} = {}
        BY DEF PartsOf
    <2>5. QED BY <1>1, <1>3, <2>2, <2>3, <2>4 DEF MergerCovered, MergedSets
<1>4. QED BY <1>1, <1>2, <1>3, MergerStep DEF LoadGenealogy, NoMerger

LEMMA LoadSourcesKeeps ==
    ASSUME MetadataInv, [Next]_vars, NEW s \in Shards, LoadSources(s)
    PROVE  MetadataInv'
<1> USE DEF MetadataInv, ShapeInv
<1> DEFINE P == PartsOf(s, "source")
           read == {x \in merger[s].parts : x.kind = "source"}
<1>1. /\ merger[s].pc = "sources" /\ merger'[s].pc = "save"
      /\ merger'[s].parts = merger[s].parts \cup P
      /\ merger'[s].source = Sources(s)
      /\ merger'[s].genealogy = merger[s].genealogy
      /\ UNCHANGED <<merged, parts, worker>>
    BY DEF LoadSources, Sources
<1>2. HoldsMerged(s) => HoldsMerged(s)'
    BY <1>1 DEF HoldsMerged
<1>3. ASSUME MergerCovered(s) PROVE MergerCovered(s)'
    <2>1. {x \in merger'[s].parts : x.kind = "source"} = read \cup P
        BY <1>1 DEF PartsOf
    <2>2. MergedSets(read) = {}
        BY <1>1, <1>3 DEF MergerCovered
    <2>3. MergedSets(read \cup P) = MergedSets(P)
        BY <2>2 DEF MergedSets
    <2>4. QED BY <1>1, <1>3, <2>1, <2>3 DEF MergerCovered, Sources
<1>4. QED BY <1>1, <1>2, <1>3, MergerStep DEF LoadSources

LEMMA SaveMergedKeeps ==
    ASSUME MetadataInv, [Next]_vars, NEW s \in Shards, SaveMerged(s)
    PROVE  MetadataInv'
<1> USE DEF MetadataInv, ShapeInv
<1>1. ShapeInv' /\ \A t \in Shards \ {s} : Same(t)
    BY DEF SaveMerged, Same
<1>2. HoldsMerged(s) => HoldsMerged(s)'
    BY DEF SaveMerged, HoldsMerged
<1>3. ASSUME MergerCovered(s) PROVE MergerCovered(s)' /\ merged[s].source \subseteq merged'[s].source
    BY <1>3 DEF SaveMerged, MergerCovered, MergedSets
<1>4. ASSUME MergerCovered(s), PartsCovered(s) PROVE PartsCovered(s)'
    <2>1. Sources(s) \subseteq Sources(s)'
        BY <1>3, <1>4 DEF SaveMerged, Sources, PartsOf
    <2>2. QED BY <1>4, <2>1 DEF SaveMerged, PartsCovered, PartsOf
<1>5. QED BY <1>1, <1>2, <1>3, <1>4, OneShard

LEMMA ReportActions ==
    ASSUME MetadataInv, [Next]_vars, NEW s \in Shards,
           MergeReport(s) \/ MergeOwn(s) \/ MergerCrash(s)
    PROVE  MetadataInv'
<1> USE DEF MetadataInv, ShapeInv
<1>1. CASE LoadReports(s)
    <2>1. {x \in PartsOf(s, "report") : x.kind = "source"} = {}
        BY DEF PartsOf
    <2>2. MergerCovered(s) => MergerCovered(s)'
        BY <1>1, <2>1 DEF LoadReports, MergerCovered, MergedSets, NoMerger
    <2>3. HoldsMerged(s)'
        BY <1>1 DEF LoadReports, HoldsMerged, NoMerger
    <2>4. QED BY <1>1, <2>2, <2>3, MergerStep DEF LoadReports, NoMerger
<1>2. CASE SaveAggregate(s)
    <2>1. MergerCovered(s) => MergerCovered(s)'
        BY <1>2 DEF SaveAggregate, MergerCovered, MergedSets
    <2>2. HoldsMerged(s)'
        BY <1>2 DEF SaveAggregate, HoldsMerged
    <2>3. QED BY <1>2, <2>1, <2>2, MergerStep DEF SaveAggregate
<1>3. CASE MergeOwn(s)
    BY <1>3, MergerStep DEF MergeOwn, NoMerger, Happens, Orderly
<1>4. CASE MergerCrash(s)
    <2>1. MergerCovered(s) => MergerCovered(s)'
        BY <1>4 DEF MergerCrash, MergerCovered, NoMerger
    <2>2. HoldsMerged(s)'
        BY <1>4 DEF MergerCrash, HoldsMerged, NoMerger
    <2>3. QED BY <1>4, <2>1, <2>2, MergerStep DEF MergerCrash, NoMerger
<1>5. QED BY <1>1, <1>2, <1>3, <1>4 DEF MergeReport

LEMMA UnlinkKeeps ==
    ASSUME MetadataInv, [Next]_vars, NEW s \in Shards, Unlink(s)
    PROVE  MetadataInv'
<1> USE DEF MetadataInv, ShapeInv
<1>1. ShapeInv' /\ \A t \in Shards \ {s} : Same(t)
    BY DEF Unlink, Same, NoMerger
<1>2. HoldsMerged(s)'
    BY DEF Unlink, HoldsMerged, NoMerger
<1>3. ASSUME MergerCovered(s) PROVE MergerCovered(s)'
    BY <1>3 DEF Unlink, MergerCovered, NoMerger
<1>4. ASSUME MergerCovered(s), PartsCovered(s) PROVE PartsCovered(s)'
    <2>1. \A k : PartsOf(s, k)' = PartsOf(s, k) \ merger[s].parts
        BY DEF Unlink, PartsOf
    <2>2. MergedSets({x \in merger[s].parts : x.kind = "source"}) \subseteq merged[s].source
        BY <1>4 DEF Unlink, MergerCovered
    <2>3. Sources(s) \subseteq Sources(s)'
        BY <2>1, <2>2 DEF Unlink, Sources, MergedSets, PartsOf
    <2>4. QED BY <1>4, <2>1, <2>3 DEF Unlink, PartsCovered
<1>5. QED BY <1>1, <1>2, <1>3, <1>4, OneShard

-----------------------------------------------------------------------------
(* The theorems.                                                           *)

LEMMA MetadataStep ==
    ASSUME MetadataInv, [Next]_vars
    PROVE  MetadataInv'
<1>1. CASE UNCHANGED vars
    BY <1>1 DEF vars, MetadataInv, ShapeInv, HoldsMerged, PartsCovered, MergerCovered, Sources,
                PartsOf, MergedSets
<1>2. ASSUME NEW s \in Shards, Start(s) \/ Save(s) \/ Crash(s) PROVE MetadataInv'
    BY <1>2, WorkerActions, SaveGenealogyKeeps, SaveSourcesKeeps DEF Save
<1>3. ASSUME NEW s \in Shards, NEW f \in Files, Process(s, f) \/ ProcessBroken(s, f)
      PROVE  MetadataInv'
    BY <1>3, WorkerActions
<1>4. ASSUME NEW s \in Shards,
             \/ MergeMetadata(s) \/ MergeReport(s) \/ MergeOwn(s)
             \/ Unlink(s) \/ MergerCrash(s)
      PROVE  MetadataInv'
    BY <1>4, LoadGenealogyKeeps, LoadSourcesKeeps, SaveMergedKeeps, ReportActions, UnlinkKeeps
       DEF MergeMetadata
<1>5. QED BY <1>1, <1>2, <1>3, <1>4 DEF Next

LEMMA MetadataInvariant == Spec => []MetadataInv
BY InitMetadata, MetadataStep, PTL DEF Spec

(* The genealogy a merge announces has all its sources merged, unless a    *)
(* worker was killed, or metadata was merged during a save or by a worker. *)
THEOREM SourcesBeforeGenealogy == Spec => []SourcesFirst
<1>1. MetadataInv => SourcesFirst
    BY DEF MetadataInv, MergerCovered, SourcesFirst, SourcesSaved
<1>2. QED BY <1>1, MetadataInvariant, PTL

(* No merge forgets a process that the merged genealogy announced, even if *)
(* workers and mergers are killed and read files that are damaged, as long *)
(* as no worker merges metadata by itself.                                 *)
THEOREM GenealogyGrows == Spec => GenealogyKept
<1> DEFINE Grows == \A s \in Shards : "own" \notin happened =>
                        merged[s].genealogy \subseteq merged'[s].genealogy
<1>1. ASSUME MetadataInv, [Next]_vars PROVE Grows
    <2>1. ASSUME UNCHANGED merged PROVE Grows
        BY <2>1
    <2>2. ASSUME NEW s \in Shards, SaveMerged(s) PROVE Grows
        <3>1. \A t \in Shards \ {s} : merged'[t] = merged[t]
            BY <1>1, <2>2 DEF SaveMerged, MetadataInv, ShapeInv
        <3>2. "own" \notin happened => merged[s].genealogy \subseteq merged'[s].genealogy
            BY <1>1, <2>2 DEF SaveMerged, HoldsMerged, MetadataInv, ShapeInv
        <3>3. QED BY <3>1, <3>2
    <2>3. ASSUME NEW s \in Shards, SaveAggregate(s) PROVE Grows
        BY <1>1, <2>3 DEF SaveAggregate, MetadataInv, ShapeInv
    <2>4. ASSUME NEW s \in Shards, Start(s) \/ Save(s) \/ Crash(s) PROVE UNCHANGED merged
        BY <2>4 DEF Start, Save, SaveGenealogy, SaveState, SaveSources, SaveReport, Finish, Crash
    <2>5. ASSUME NEW s \in Shards, NEW f \in Files, Process(s, f) \/ ProcessBroken(s, f)
          PROVE  UNCHANGED merged
        BY <2>5 DEF Process, ProcessBroken
    <2>6. ASSUME NEW s \in Shards,
                 \/ LoadGenealogy(s) \/ LoadSources(s) \/ LoadReports(s)
                 \/ MergeOwn(s) \/ Unlink(s) \/ MergerCrash(s)
          PROVE  UNCHANGED merged
        BY <2>6 DEF LoadGenealogy, LoadSources, LoadReports, MergeOwn, Unlink, MergerCrash
    <2>7. ASSUME NEW s \in Shards, MergeMetadata(s) \/ MergeReport(s) PROVE Grows
        BY <2>1, <2>2, <2>3, <2>6, <2>7 DEF MergeMetadata, MergeReport
    <2>8. CASE UNCHANGED vars
        BY <2>1, <2>8 DEF vars
    <2>9. CASE Next
        <3> HIDE DEF Grows
        <3>1. QED BY <2>1, <2>4, <2>5, <2>6, <2>7, <2>9 DEF Next
    <2>10. QED BY <1>1, <2>8, <2>9
<1>2. QED BY <1>1, MetadataInvariant, PTL DEF Spec, GenealogyKept

-----------------------------------------------------------------------------
(* Reports are bags of trace files.                                        *)

LEMMA FileParts == \A f \in Files : f[1] \in Procs /\ f[2] \in Nat /\ f = <<f[1], f[2]>>
BY BoundsAssumption DEF Files

LEMMA CopiesType ==
    ASSUME NEW b \in Reports, NEW f
    PROVE  /\ Copies(f, b) \in Nat
           /\ f \in DOMAIN b <=> Copies(f, b) # 0
           /\ DOMAIN b \subseteq Files
<1>1. PICK S \in SUBSET Files : b \in [S -> Nat \ {0}]
    BY DEF Reports
<1> QED
    BY <1>1 DEF Copies

LEMMA ReportsAre ==
    ASSUME NEW S \in SUBSET Files, NEW b \in [S -> Nat \ {0}]
    PROVE  b \in Reports
BY DEF Reports

LEMMA EmptyReport ==
    EmptyBag \in Reports /\ DOMAIN EmptyBag = {} /\ \A f : Copies(f, EmptyBag) = 0
<1>1. EmptyBag \in [{} -> Nat \ {0}]
    BY DEF EmptyBag, SetToBag
<1> QED
    BY <1>1, ReportsAre DEF EmptyBag, SetToBag, Copies

LEMMA OneFile ==
    ASSUME NEW f \in Files
    PROVE  /\ SetToBag({f}) \in Reports /\ DOMAIN SetToBag({f}) = {f}
           /\ \A g : Copies(g, SetToBag({f})) = IF g = f THEN 1 ELSE 0
<1>1. SetToBag({f}) \in [{f} -> Nat \ {0}]
    BY DEF SetToBag
<1> QED
    BY <1>1, ReportsAre DEF SetToBag, Copies

LEMMA AddReports ==
    ASSUME NEW b \in Reports, NEW c \in Reports
    PROVE  /\ b (+) c \in Reports /\ DOMAIN (b (+) c) = DOMAIN b \cup DOMAIN c
           /\ \A f : Copies(f, b (+) c) = Copies(f, b) + Copies(f, c)
<1>1. PICK S \in SUBSET Files : b \in [S -> Nat \ {0}]
    BY DEF Reports
<1>2. PICK T \in SUBSET Files : c \in [T -> Nat \ {0}]
    BY DEF Reports
<1>3. b (+) c \in [S \cup T -> Nat \ {0}]
    BY <1>1, <1>2 DEF (+)
<1>4. DOMAIN (b (+) c) = DOMAIN b \cup DOMAIN c
    BY DEF (+)
<1>5. \A f : Copies(f, b (+) c) = Copies(f, b) + Copies(f, c)
    BY <1>1, <1>2 DEF (+), Copies
<1> QED
    BY <1>3, <1>4, <1>5, ReportsAre

LEMMA SubtractReports ==
    ASSUME NEW b \in Reports, NEW c \in Reports
    PROVE  b (-) c \in Reports /\ DOMAIN (b (-) c) \subseteq DOMAIN b
<1>1. PICK S \in SUBSET Files : b \in [S -> Nat \ {0}]
    BY DEF Reports
<1>2. PICK T \in SUBSET Files : c \in [T -> Nat \ {0}]
    BY DEF Reports
<1> DEFINE B == [e \in DOMAIN b |-> IF e \in DOMAIN c THEN b[e] - c[e] ELSE b[e]]
<1>3. b (-) c = [e \in {d \in DOMAIN B : B[d] > 0} |-> B[e]]
    BY DEF (-)
<1>4. \A e \in S : B[e] \in Int
    BY <1>1, <1>2
<1>5. DOMAIN B = S
    BY <1>1
<1> HIDE DEF B
<1>6. b (-) c \in [{d \in S : B[d] > 0} -> Nat \ {0}] /\ {d \in S : B[d] > 0} \subseteq S
    BY <1>3, <1>4, <1>5
<1> QED
    BY <1>1, <1>6, <1>3, <1>5, ReportsAre

-----------------------------------------------------------------------------
(* Counting over parts.                                                    *)

Occurrences(f, P) == UNION {{x} \X (1 .. Copies(f, x.data)) : x \in P}

LEMMA Copied ==
    ASSUME NEW x, NEW n \in Nat
    PROVE  IsFiniteSet({x} \X (1 .. n)) /\ Cardinality({x} \X (1 .. n)) = n
<1>1. IsFiniteSet({x}) /\ Cardinality({x}) = 1
    BY FS_Singleton
<1>2. IsFiniteSet(1 .. n) /\ Cardinality(1 .. n) = IF 1 > n THEN 0 ELSE n - 1 + 1
    <2>1. 1 \in Int /\ n \in Int
        OBVIOUS
    <2> QED
        BY <2>1, FS_Interval
<1>3. /\ IsFiniteSet({x} \X (1 .. n))
      /\ Cardinality({x} \X (1 .. n)) = Cardinality({x}) * Cardinality(1 .. n)
    BY <1>1, <1>2, FS_Product, Zenon
<1>4. Cardinality(1 .. n) = n
    BY <1>2
<1> QED
    BY <1>1, <1>3, <1>4

LEMMA OccurrencesFinite ==
    ASSUME NEW P, IsFiniteSet(P), \A x \in P : x.data \in Reports, NEW f
    PROVE  IsFiniteSet(Occurrences(f, P))
<1> DEFINE copies(x) == {x} \X (1 .. Copies(f, x.data))
           S == {copies(x) : x \in P}
           g == [x \in P |-> copies(x)]
<1>1. g \in Surjection(P, S)
    BY DEF Surjection
<1>2. IsFiniteSet(S)
    BY <1>1, FS_Surjection, Zenon
<1>3. ASSUME NEW x \in P PROVE IsFiniteSet(copies(x))
    BY Copied, CopiesType
<1>4. IsFiniteSet(UNION S)
    BY <1>2, <1>3, FS_UNION
<1> QED
    BY <1>4 DEF Occurrences

LEMMA CountType ==
    ASSUME NEW P, IsFiniteSet(P), \A x \in P : x.data \in Reports
    PROVE  /\ MergedReports(P) \in Reports
           /\ \A f : Count(f, P) \in Nat /\ Copies(f, MergedReports(P)) = Count(f, P)
<1> DEFINE S == UNION {DOMAIN x.data : x \in P}
<1>1. ASSUME NEW f PROVE Count(f, P) \in Nat /\ (f \in S <=> Count(f, P) # 0)
    <2>1. IsFiniteSet(Occurrences(f, P)) /\ Count(f, P) = Cardinality(Occurrences(f, P))
        BY OccurrencesFinite DEF Count, Occurrences
    <2>2. ASSUME NEW x \in P, f \in DOMAIN x.data PROVE Occurrences(f, P) # {}
        <3>1. 1 \in 1 .. Copies(f, x.data)
            BY <2>2, CopiesType
        <3>2. <<x, 1>> \in {x} \X (1 .. Copies(f, x.data))
            BY <3>1
        <3> QED
            BY <3>2 DEF Occurrences
    <2>3. ASSUME f \notin S PROVE Occurrences(f, P) = {}
        <3>1. \A x \in P : 1 .. Copies(f, x.data) = {}
            BY <2>3 DEF Copies
        <3> QED
            BY <3>1 DEF Occurrences
    <2> QED
        BY <2>1, <2>2, <2>3, FS_EmptySet, FS_CardinalityType
<1>2. S \subseteq Files
    BY CopiesType
<1>3. MergedReports(P) = [f \in S |-> Count(f, P)]
    BY DEF MergedReports
<1> HIDE DEF S
<1>4. MergedReports(P) \in [S -> Nat \ {0}]
    BY <1>1, <1>3
<1> QED
    BY <1>1, <1>2, <1>3, <1>4, ReportsAre DEF Copies

LEMMA CountOne ==
    ASSUME NEW x, x.data \in Reports, NEW f
    PROVE  Count(f, {x}) = Copies(f, x.data)
<1> DEFINE n == Copies(f, x.data)
<1>1. n \in Nat
    BY CopiesType
<1>2. Occurrences(f, {x}) = {x} \X (1 .. n)
    BY DEF Occurrences
<1> HIDE DEF n
<1>3. Cardinality({x} \X (1 .. n)) = n
    BY <1>1, Copied
<1> QED
    BY <1>2, <1>3 DEF Count, Occurrences, n

LEMMA CountBoth ==
    ASSUME NEW P, NEW Q, IsFiniteSet(P), IsFiniteSet(Q), P \cap Q = {},
           \A x \in P \cup Q : x.data \in Reports, NEW f
    PROVE  Count(f, P \cup Q) = Count(f, P) + Count(f, Q)
<1>1. Occurrences(f, P \cup Q) = Occurrences(f, P) \cup Occurrences(f, Q)
    BY DEF Occurrences
<1>2. Occurrences(f, P) \cap Occurrences(f, Q) = {}
    BY DEF Occurrences
<1>3. IsFiniteSet(Occurrences(f, P)) /\ IsFiniteSet(Occurrences(f, Q))
    BY OccurrencesFinite
<1>4. /\ Cardinality(Occurrences(f, P)) \in Nat /\ Cardinality(Occurrences(f, Q)) \in Nat
      /\ Cardinality(Occurrences(f, P \cup Q)) =
            Cardinality(Occurrences(f, P)) + Cardinality(Occurrences(f, Q))
    <2>1. Cardinality(Occurrences(f, P) \cup Occurrences(f, Q)) =
             Cardinality(Occurrences(f, P)) + Cardinality(Occurrences(f, Q))
                - Cardinality(Occurrences(f, P) \cap Occurrences(f, Q))
        BY <1>3, FS_Union, Zenon
    <2>2. /\ Cardinality(Occurrences(f, P)) \in Nat /\ Cardinality(Occurrences(f, Q)) \in Nat
          /\ Cardinality(Occurrences(f, P) \cap Occurrences(f, Q)) = 0
        BY <1>2, <1>3, FS_EmptySet, FS_CardinalityType
    <2>3. Cardinality(Occurrences(f, P \cup Q)) =
             Cardinality(Occurrences(f, P) \cup Occurrences(f, Q))
        BY <1>1, Zenon
    <2> QED
        BY <2>1, <2>2, <2>3
<1> QED
    BY <1>4 DEF Count, Occurrences

LEMMA CountNone ==
    ASSUME NEW f
    PROVE  Count(f, {}) = 0
<1>1. Occurrences(f, {}) = {}
    BY DEF Occurrences
<1> QED
    BY <1>1, FS_EmptySet DEF Count, Occurrences

(* write_data_part() finds a name that no part with the same data has.     *)
LEMMA NewPart ==
    ASSUME ShapeInv, NEW s \in Shards, IsFiniteSet(parts[s]), NEW kind, NEW data,
           AddPart(s, kind, data)
    PROVE  \E x : /\ x.kind = kind /\ x.name \in Nat /\ x.data = data /\ x \notin parts[s]
                  /\ parts' = [parts EXCEPT ![s] = @ \cup {x}]
<1> DEFINE N == 1 .. Cardinality(parts[s]) + 1
           new(n) == [kind |-> kind, name |-> n, data |-> data]
<1>1. Cardinality(parts[s]) \in Nat
    BY FS_CardinalityType
<1>2. IsFiniteSet(N) /\ Cardinality(N) = Cardinality(parts[s]) + 1
    BY <1>1, FS_Interval
<1>3. \E n \in N : new(n) \notin parts[s]
    <2> SUFFICES ASSUME \A n \in N : new(n) \in parts[s] PROVE FALSE
        OBVIOUS
    <2> DEFINE g == [n \in N |-> new(n)]
    <2>1. g \in [N -> parts[s]]
        OBVIOUS
    <2>2. PICK m \in N, n \in N : m # n /\ g[m] = g[n]
        <3> HIDE DEF g, N
        <3> QED
            BY <1>1, <1>2, <2>1, FS_PigeonHole
    <2>3. new(m).name = m /\ new(n).name = n /\ new(m) = new(n)
        BY <2>2
    <2> QED
        BY <2>2, <2>3
<1> DEFINE name == CHOOSE n \in N : new(n) \notin parts[s]
<1>4. name \in N /\ new(name) \notin parts[s]
    BY <1>3
<1>5. parts' = [parts EXCEPT ![s] = @ \cup {new(name)}]
    BY DEF AddPart
<1>6. new(name).kind = kind /\ new(name).name = name /\ new(name).data = data
    OBVIOUS
<1>7. name \in Nat
    BY <1>1, <1>4
<1> HIDE DEF name
<1> QED
    BY <1>4, <1>5, <1>6, <1>7

-----------------------------------------------------------------------------
(* Types.                                                                  *)

LEMMA NoWorkerTyped ==
    /\ NoWorker \in WorkerTypes /\ DOMAIN NoWorker.states = {}
    /\ NoWorker.report = EmptyBag /\ NoWorker.unsaved = {} /\ NoWorker.pc = "off"
    /\ NoWorker.seen = {} /\ NoWorker.failed = {}
<1>1. <<>> \in [{} -> States] /\ DOMAIN <<>> = {}
    OBVIOUS
<1>2. <<>> \in UNION {[P -> States] : P \in SUBSET Procs}
    BY <1>1
<1> QED
    BY <1>1, <1>2, EmptyReport DEF NoWorker, WorkerTypes

LEMMA NoMergerTyped ==
    /\ NoMerger.pc = "off" /\ NoMerger.parts = {} /\ NoMerger.genealogy = {}
    /\ NoMerger.source = {} /\ NoMerger.report \in Reports
BY EmptyReport DEF NoMerger

LEMMA InitialTyped ==
    /\ Initial \in States /\ Initial.ordinal = 0 /\ Initial.report = EmptyBag
    /\ \A p : trace.size[p] \in Nat => StateOK(p, Initial)
BY EmptyReport DEF Initial, States, StateOK

(* The traces of the program.                                              *)
LEMMA TraceTyped ==
    ASSUME trace \in AllTraces
    PROVE  /\ \A p \in Procs : trace.home[p] \in Shards
           /\ \A p \in Procs : trace.size[p] \in Nat /\ trace.size[p] > 0
           /\ \A p \in Procs : trace.size[p] <= MaxOrdinal
           /\ trace.changes \subseteq Files /\ trace.open \subseteq Files
BY BoundsAssumption DEF AllTraces

LEMMA StatesTyped ==
    ASSUME TypeInv, NEW s \in Shards
    PROVE  /\ saved[s] \in [Procs -> States] /\ worker[s] \in WorkerTypes /\ merged[s] \in Merged
           /\ DOMAIN worker[s].states \subseteq Procs
           /\ \A p \in DOMAIN worker[s].states : worker[s].states[p] \in States
           /\ \A p \in Procs : State(s, p) \in States /\ StateOK(p, State(s, p))
           /\ \A p \in Procs : Target(s, p) \in States /\ StateOK(p, Target(s, p))
<1>1. saved[s] \in [Procs -> States] /\ worker[s] \in WorkerTypes /\ merged[s] \in Merged
      /\ WorkerOK(s)
    BY DEF TypeInv
<1>2. PICK P \in SUBSET Procs : worker[s].states \in [P -> States]
    BY <1>1 DEF WorkerTypes
<1> QED
    BY <1>1, <1>2 DEF State, Target, WorkerOK

LEMMA StateReport ==
    ASSUME NEW p \in Procs, NEW st \in States, StateOK(p, st)
    PROVE  /\ st.ordinal \in Nat /\ st.report \in Reports
           /\ \A f \in DOMAIN st.report : f \in Files /\ f[1] = p /\ f[2] <= st.ordinal
BY DEF States, StateOK, Of

(* What reading a file yields.                                             *)
LEMMA ReadTyped ==
    ASSUME TypeInv, NEW s \in Shards, NEW f \in Files
    PROVE  /\ Counted(s, f) \in Reports /\ Waiting(s, f) \in Reports
           /\ CountedBroken(s, f) \in Reports
           /\ DOMAIN Waiting(s, f) \subseteq DOMAIN State(s, f[1]).report \cup {f}
           /\ StateBroken(s, f) \in States /\ StateOK(f[1], StateBroken(s, f))
           /\ StateBroken(s, f).ordinal = State(s, f[1]).ordinal
<1> DEFINE st == State(s, f[1])
<1>1. st \in States /\ StateOK(f[1], st) /\ f[1] \in Procs
    BY FileParts, StatesTyped
<1>2. st.report \in Reports /\ st.ordinal \in Nat
    BY <1>1 DEF States
<1> HIDE DEF st
<1>3. ASSUME NEW b \in {st.report, EmptyBag}, NEW c \in {SetToBag({f}), EmptyBag}
      PROVE  b (+) c \in Reports /\ DOMAIN (b (+) c) \subseteq DOMAIN st.report \cup {f}
    <2>1. b \in Reports /\ DOMAIN b \subseteq DOMAIN st.report
        BY <1>2, EmptyReport
    <2>2. c \in Reports /\ DOMAIN c \subseteq {f}
        BY EmptyReport, OneFile
    <2> QED
        BY <2>1, <2>2, AddReports
<1>4. Counted(s, f) \in Reports
    BY <1>3 DEF Counted, st
<1>5. Waiting(s, f) \in Reports /\ DOMAIN Waiting(s, f) \subseteq DOMAIN st.report \cup {f}
    BY <1>3 DEF Waiting, st
<1>6. CountedBroken(s, f) \in Reports
    BY <1>2, EmptyReport DEF CountedBroken, st
<1>7. st.report (-) CountedBroken(s, f) \in Reports
      /\ DOMAIN (st.report (-) CountedBroken(s, f)) \subseteq DOMAIN st.report
    BY <1>2, <1>6, SubtractReports
<1>8. StateBroken(s, f) = [st EXCEPT !.report = st.report (-) CountedBroken(s, f)]
    BY DEF StateBroken, st
<1>9. StateBroken(s, f) \in States /\ StateBroken(s, f).ordinal = st.ordinal
      /\ StateBroken(s, f).report = st.report (-) CountedBroken(s, f)
    BY <1>1, <1>7, <1>8 DEF States
<1>10. StateOK(f[1], StateBroken(s, f))
    BY <1>1, <1>7, <1>9 DEF StateOK
<1> QED
    BY <1>4, <1>5, <1>6, <1>9, <1>10 DEF st

-----------------------------------------------------------------------------
(* Each step keeps the types; events, shapes and the metadata are known    *)
(* from the invariant MetadataInv.                                         *)

LEMMA InitTypes == Init => TypeInv
<1> SUFFICES ASSUME Init PROVE TypeInv
    OBVIOUS
<1>1. trace \in AllTraces /\ ShapeInv /\ happened \subseteq Events /\ ended \subseteq Procs
    BY TracesAssumption, InitMetadata DEF Init, MetadataInv
<1>2. saved \in [Shards -> [Procs -> States]] /\ worker \in [Shards -> WorkerTypes]
    BY NoWorkerTyped, InitialTyped DEF Init
<1>3. merged \in [Shards -> Merged]
    BY EmptyReport DEF Init, Merged
<1>4. \A s \in Shards : WorkerOK(s)
    BY <1>1, NoWorkerTyped, InitialTyped, TraceTyped DEF Init, WorkerOK
<1>5. \A s \in Shards : PartsOK(s)
    BY NoMergerTyped, FS_EmptySet DEF Init, PartsOK
<1>6. inbox \subseteq {f \in Files : f[2] <= trace.size[f[1]]}
    BY DEF Init
<1> QED
    BY <1>1, <1>2, <1>3, <1>4, <1>5, <1>6 DEF TypeInv

(* It suffices to look at the shard that moved.                            *)
LEMMA ShardTypes ==
    ASSUME TypeInv, ShapeInv', UNCHANGED trace, happened' \subseteq Events,
           ended' \subseteq Procs, inbox' \subseteq inbox,
           saved' \in [Shards -> [Procs -> States]],
           merged' \in [Shards -> Merged], worker' \in [Shards -> WorkerTypes],
           NEW s \in Shards, \A t \in Shards \ {s} : Same(t) /\ saved'[t] = saved[t],
           WorkerOK(s)', PartsOK(s)'
    PROVE  TypeInv'
<1>1. ASSUME NEW t \in Shards \ {s} PROVE WorkerOK(t)' /\ PartsOK(t)'
    <2>1. WorkerOK(t) /\ PartsOK(t) /\ Same(t) /\ saved'[t] = saved[t]
        BY DEF TypeInv
    <2>2. WorkerOK(t)'
        BY <2>1 DEF Same, WorkerOK, StateOK
    <2>3. PartsOK(t)'
        BY <2>1 DEF Same, PartsOK
    <2> QED
        BY <2>2, <2>3
<1> QED
    BY <1>1 DEF TypeInv

(* A step of a worker that leaves parts and saved states alone.            *)
LEMMA WorkerTypesStep ==
    ASSUME TypeInv, ShapeInv', UNCHANGED <<trace, saved, merged, merger, parts>>,
           happened' \subseteq Events, ended' = ended, inbox' \subseteq inbox,
           NEW s \in Shards, NEW w \in WorkerTypes, worker' = [worker EXCEPT ![s] = w],
           \A p \in DOMAIN w.states : StateOK(p, w.states[p]),
           w.unsaved \subseteq DOMAIN w.states, w.pc = "off" => w = NoWorker
    PROVE  TypeInv'
<1>1. worker' \in [Shards -> WorkerTypes] /\ worker'[s] = w
      /\ \A t \in Shards \ {s} : worker'[t] = worker[t]
    BY DEF TypeInv
<1>2. WorkerOK(s)' /\ PartsOK(s)'
    BY <1>1 DEF TypeInv, WorkerOK, StateOK, PartsOK
<1> QED
    BY <1>1, <1>2, ShardTypes DEF TypeInv, Same

LEMMA EventTypes ==
    ASSUME TypeInv, NEW e, Happens(e)
    PROVE  happened' \subseteq Events
BY DEF Happens, TypeInv

LEMMA StartTypes ==
    ASSUME TypeInv, ShapeInv', NEW s \in Shards, Start(s)
    PROVE  TypeInv'
<1> DEFINE w == [NoWorker EXCEPT !.pc = "work", !.known = Known(s)]
<1>1. Known(s) \subseteq Files
    BY DEF Known, TypeInv, Merged
<1>2. w \in WorkerTypes /\ w.states = NoWorker.states /\ w.unsaved = {} /\ w.pc = "work"
    BY <1>1, NoWorkerTyped DEF WorkerTypes
<1>3. worker' = [worker EXCEPT ![s] = w]
    BY DEF Start
<1> HIDE DEF w
<1> QED
    BY <1>2, <1>3, NoWorkerTyped, WorkerTypesStep DEF Start, TypeInv

(* A worker that starts again or is killed.                                *)
LEMMA DroppedTypes ==
    ASSUME TypeInv, ShapeInv', NEW s \in Shards, Finish(s) \/ Crash(s)
    PROVE  TypeInv'
<1>1. worker' = [worker EXCEPT ![s] = NoWorker]
    BY DEF Finish, Crash
<1>2. happened' \subseteq Events /\ inbox' \subseteq inbox
    BY EventTypes DEF Finish, Crash, TypeInv
<1>3. UNCHANGED <<trace, saved, merged, merger, parts, ended>>
    BY DEF Finish, Crash
<1> QED
    BY <1>1, <1>2, <1>3, NoWorkerTyped, WorkerTypesStep

LEMMA SetStateTyped ==
    ASSUME TypeInv, NEW s \in Shards, NEW p \in Procs, NEW st \in States, StateOK(p, st)
    PROVE  LET states == SetState(worker[s], p, st)
           IN  /\ DOMAIN states = DOMAIN worker[s].states \cup {p}
               /\ states[p] = st
               /\ \A q \in DOMAIN worker[s].states \ {p} : states[q] = worker[s].states[q]
               /\ states \in UNION {[P -> States] : P \in SUBSET Procs}
               /\ \A q \in DOMAIN states : StateOK(q, states[q])
<1> DEFINE states == SetState(worker[s], p, st)
           P == DOMAIN worker[s].states \cup {p}
<1>1. P \subseteq Procs /\ \A q \in DOMAIN worker[s].states : worker[s].states[q] \in States
    BY StatesTyped
<1>2. states = [q \in P |-> IF q = p THEN st ELSE worker[s].states[q]]
    BY DEF SetState
<1>3. states \in [P -> States]
    BY <1>1, <1>2
<1>4. WorkerOK(s)
    BY DEF TypeInv
<1> QED
    BY <1>1, <1>2, <1>3, <1>4 DEF WorkerOK

LEMMA ProcessTypes ==
    ASSUME TypeInv, ShapeInv', NEW s \in Shards, NEW f \in Files,
           Process(s, f) \/ ProcessBroken(s, f)
    PROVE  TypeInv'
<1>1. f[1] \in Procs /\ f \in inbox /\ f[2] <= trace.size[f[1]] /\ f[2] \in Nat
    BY FileParts DEF Process, ProcessBroken, Offered, TypeInv
<1>2. worker[s] \in WorkerTypes /\ worker[s].unsaved \subseteq DOMAIN worker[s].states
    BY DEF TypeInv, WorkerOK
<1>3. CASE Process(s, f)
    <2> DEFINE st == [ordinal |-> f[2], report |-> Waiting(s, f)]
               w == [worker[s] EXCEPT !.states = SetState(worker[s], f[1], st),
                        !.unsaved = @ \cup {f[1]}, !.seen = @ \cup {f},
                        !.report = @ (+) Counted(s, f)]
    <2>1. st \in States
        BY <1>1, ReadTyped DEF States
    <2>2. f[2] = State(s, f[1]).ordinal + 1
        BY <1>3 DEF Process, CanProcess
    <2>3. StateOK(f[1], st)
        <3>1. State(s, f[1]) \in States /\ StateOK(f[1], State(s, f[1]))
            BY <1>1, StatesTyped
        <3>2. DOMAIN State(s, f[1]).report \subseteq {g \in Of(f[1]) : g[2] <= f[2]}
            BY <1>1, <2>2, <3>1, FileParts DEF StateOK, States, Of
        <3>3. f \in {g \in Of(f[1]) : g[2] <= f[2]}
            BY <1>1 DEF Of
        <3>4. DOMAIN Waiting(s, f) \subseteq {g \in Of(f[1]) : g[2] <= f[2]}
            BY <3>2, <3>3, ReadTyped
        <3> QED
            BY <1>1, <3>4 DEF StateOK
    <2> HIDE DEF st
    <2>4. /\ SetState(worker[s], f[1], st) \in UNION {[P -> States] : P \in SUBSET Procs}
          /\ DOMAIN SetState(worker[s], f[1], st) = DOMAIN worker[s].states \cup {f[1]}
          /\ \A q \in DOMAIN SetState(worker[s], f[1], st) :
                StateOK(q, SetState(worker[s], f[1], st)[q])
        BY SMTT(60), <1>1, <2>1, <2>3, SetStateTyped
    <2>5. worker[s].report (+) Counted(s, f) \in Reports
        BY <1>2, ReadTyped, AddReports DEF WorkerTypes
    <2>6. w \in WorkerTypes
        BY <1>1, <1>2, <2>4, <2>5 DEF WorkerTypes
    <2>7. w.states = SetState(worker[s], f[1], st) /\ w.unsaved = worker[s].unsaved \cup {f[1]}
          /\ w.pc = "work"
        BY <1>2, <1>3 DEF WorkerTypes, Process, Offered
    <2>8. worker' = [worker EXCEPT ![s] = w]
        BY <1>3 DEF Process, st
    <2> HIDE DEF w
    <2> QED
        BY <1>2, <1>3, <2>4, <2>6, <2>7, <2>8, WorkerTypesStep, ZenonT(60) DEF Process, TypeInv
<1>4. CASE ProcessBroken(s, f)
    <2> DEFINE st == StateBroken(s, f)
               w == [worker[s] EXCEPT !.states = SetState(worker[s], f[1], st),
                        !.failed = @ \cup {f[1]}, !.seen = @ \cup {f},
                        !.report = @ (+) CountedBroken(s, f)]
    <2>1. st \in States /\ StateOK(f[1], st)
        BY ReadTyped
    <2>2. worker' = [worker EXCEPT ![s] = w]
        BY <1>4 DEF ProcessBroken
    <2> HIDE DEF st
    <2>4. /\ SetState(worker[s], f[1], st) \in UNION {[P -> States] : P \in SUBSET Procs}
          /\ DOMAIN SetState(worker[s], f[1], st) = DOMAIN worker[s].states \cup {f[1]}
          /\ \A q \in DOMAIN SetState(worker[s], f[1], st) :
                StateOK(q, SetState(worker[s], f[1], st)[q])
        BY SMTT(60), <1>1, <2>1, SetStateTyped
    <2>5. worker[s].report (+) CountedBroken(s, f) \in Reports
        BY <1>2, ReadTyped, AddReports DEF WorkerTypes
    <2>6. w \in WorkerTypes
        BY <1>1, <1>2, <2>4, <2>5 DEF WorkerTypes
    <2>7. w.states = SetState(worker[s], f[1], st) /\ w.unsaved = worker[s].unsaved
          /\ w.pc = "work"
        BY <1>2, <1>4 DEF WorkerTypes, ProcessBroken, Offered
    <2> HIDE DEF w
    <2>8. happened' \subseteq Events
        BY <1>4, EventTypes DEF ProcessBroken
    <2> QED
        BY <1>2, <1>4, <2>2, <2>4, <2>6, <2>7, <2>8, WorkerTypesStep, ZenonT(60) DEF ProcessBroken, TypeInv
<1> QED
    BY <1>3, <1>4

LEMMA SaveStateTypes ==
    ASSUME TypeInv, ShapeInv', NEW s \in Shards, NEW p \in Procs, SaveState(s, p)
    PROVE  TypeInv'
<1> DEFINE st == IF Ends(s, p) THEN Initial ELSE worker[s].states[p]
           w == [worker[s] EXCEPT !.unsaved = @ \ {p}]
<1>1. worker[s] \in WorkerTypes /\ WorkerOK(s) /\ PartsOK(s) /\ p \in DOMAIN worker[s].states
    BY DEF TypeInv, SaveState, WorkerOK
<1>2. st \in States /\ StateOK(p, st) /\ st.ordinal # trace.size[p]
    BY <1>1, StatesTyped, InitialTyped, TraceTyped DEF TypeInv, Ends, WorkerOK
<1>3. saved' = [saved EXCEPT ![s][p] = st] /\ worker' = [worker EXCEPT ![s] = w]
    BY DEF SaveState
<1>4. w \in WorkerTypes /\ w.pc = "states" /\ w.states = worker[s].states
      /\ w.unsaved \subseteq worker[s].unsaved
    BY <1>1 DEF WorkerTypes, SaveState
<1>5. UNCHANGED <<trace, inbox, parts, merged, merger, happened>> /\ ended' \subseteq Procs
    BY DEF SaveState, TypeInv
<1> HIDE DEF st, w
<1>6. saved' \in [Shards -> [Procs -> States]] /\ worker' \in [Shards -> WorkerTypes]
    BY <1>2, <1>3, <1>4 DEF TypeInv
<1>7. /\ worker'[s] = w /\ \A q \in Procs \ {p} : saved'[s][q] = saved[s][q]
      /\ saved'[s][p] = st
      /\ \A t \in Shards \ {s} : saved'[t] = saved[t] /\ worker'[t] = worker[t]
    BY <1>2, <1>3 DEF TypeInv
<1>8. WorkerOK(s)' /\ PartsOK(s)'
    BY <1>1, <1>2, <1>4, <1>5, <1>7 DEF WorkerOK, StateOK, PartsOK
<1> QED
    BY <1>5, <1>6, <1>7, <1>8, ShardTypes DEF TypeInv, Same

(* A worker writes a part, or nothing, and goes on.                        *)
LEMMA SavePartTypes ==
    ASSUME TypeInv, ShapeInv', UNCHANGED <<trace, inbox, saved, merged, merger, happened, ended>>,
           NEW s \in Shards, NEW pc \in {"work", "states", "reports", "saved"},
           worker' = [worker EXCEPT ![s].pc = pc], worker[s].pc # "off",
           NEW kind \in Kinds, NEW data,
           data \in (IF kind = "report" THEN Reports ELSE SUBSET Files),
           UNCHANGED parts \/ AddPart(s, kind, data)
    PROVE  TypeInv'
<1>1. worker[s] \in WorkerTypes /\ WorkerOK(s) /\ PartsOK(s) /\ ShapeInv
    BY DEF TypeInv
<1>2. worker' \in [Shards -> WorkerTypes] /\ \A t \in Shards \ {s} : worker'[t] = worker[t]
    BY <1>1 DEF TypeInv, WorkerTypes
<1>3. /\ worker'[s].pc = pc /\ worker'[s].states = worker[s].states
      /\ worker'[s].unsaved = worker[s].unsaved
    BY <1>1 DEF TypeInv, WorkerTypes
<1>4. WorkerOK(s)'
    BY <1>1, <1>3 DEF WorkerOK, StateOK
<1>5. PartsOK(s)' /\ \A t \in Shards \ {s} : parts'[t] = parts[t]
    <2>1. CASE UNCHANGED parts
        BY <1>1, <2>1 DEF PartsOK
    <2>2. CASE AddPart(s, kind, data)
        <3>1. PICK x : /\ x.kind = kind /\ x.name \in Nat /\ x.data = data
                       /\ parts' = [parts EXCEPT ![s] = @ \cup {x}]
            BY <1>1, <2>2, NewPart DEF PartsOK
        <3>2. parts'[s] = parts[s] \cup {x} /\ \A t \in Shards \ {s} : parts'[t] = parts[t]
            BY <1>1, <3>1 DEF ShapeInv
        <3>3. IsFiniteSet(parts[s] \cup {x})
            BY <1>1, FS_AddElement DEF PartsOK
        <3> QED
            BY <1>1, <3>1, <3>2, <3>3 DEF PartsOK
    <2> QED
        BY <2>1, <2>2
<1> QED
    BY <1>2, <1>4, <1>5, ShardTypes DEF TypeInv, Same

LEMMA SaveTypes ==
    ASSUME TypeInv, ShapeInv', NEW s \in Shards, SaveGenealogy(s) \/ SaveSources(s) \/ SaveReport(s)
    PROVE  TypeInv'
<1>1. worker[s].seen \in SUBSET Files /\ worker[s].report \in Reports
    BY DEF TypeInv, WorkerTypes
<1>2. CASE SaveGenealogy(s)
    <2>1. /\ worker[s].pc # "off" /\ worker' = [worker EXCEPT ![s].pc = "states"]
          /\ UNCHANGED parts \/ AddPart(s, "genealogy", worker[s].seen)
          /\ UNCHANGED <<trace, inbox, saved, merged, merger, happened, ended>>
        BY <1>2 DEF SaveGenealogy
    <2> QED
        BY <1>1, <2>1, SavePartTypes DEF Kinds
<1>3. CASE SaveSources(s)
    <2>1. /\ worker[s].pc # "off" /\ worker' = [worker EXCEPT ![s].pc = "reports"]
          /\ UNCHANGED parts \/ AddPart(s, "source", worker[s].seen)
          /\ UNCHANGED <<trace, inbox, saved, merged, merger, happened, ended>>
        BY <1>3 DEF SaveSources
    <2> QED
        BY <1>1, <2>1, SavePartTypes DEF Kinds
<1>4. CASE SaveReport(s)
    <2>1. /\ worker[s].pc # "off" /\ worker' = [worker EXCEPT ![s].pc = "saved"]
          /\ UNCHANGED parts \/ AddPart(s, "report", worker[s].report)
          /\ UNCHANGED <<trace, inbox, saved, merged, merger, happened, ended>>
        BY <1>4 DEF SaveReport
    <2> QED
        BY <1>1, <2>1, SavePartTypes DEF Kinds
<1> QED
    BY <1>2, <1>3, <1>4

(* A step of a merger that leaves the parts alone.                         *)
LEMMA MergerTypesStep ==
    ASSUME TypeInv, ShapeInv', UNCHANGED <<trace, inbox, saved, parts, worker, ended>>,
           happened' \subseteq Events, NEW s \in Shards, merged' \in [Shards -> Merged],
           \A t \in Shards \ {s} : merged'[t] = merged[t] /\ merger'[t] = merger[t],
           merger'[s].pc \in {"off", "sources", "save", "genealogy", "report", "unlink"},
           merger'[s].parts \subseteq parts[s],
           merger'[s].genealogy \subseteq Files, merger'[s].source \subseteq Files,
           merger'[s].report \in Reports
    PROVE  TypeInv'
<1>1. WorkerOK(s)' /\ PartsOK(s)'
    BY DEF TypeInv, WorkerOK, StateOK, PartsOK
<1> QED
    BY <1>1, ShardTypes DEF TypeInv, Same

LEMMA MergedTyped ==
    ASSUME TypeInv, NEW s \in Shards
    PROVE  /\ merged[s].genealogy \subseteq Files /\ merged[s].source \subseteq Files
           /\ merged[s].report \in Reports /\ PartsOK(s)
           /\ MergedSets(PartsOf(s, "genealogy")) \subseteq Files
           /\ MergedSets(PartsOf(s, "source")) \subseteq Files
           /\ \A P \in SUBSET PartsOf(s, "report") :
                 IsFiniteSet(P) /\ (\A x \in P : x.data \in Reports) /\ MergedReports(P) \in Reports
<1>1. PartsOK(s) /\ merged[s] \in Merged
    BY DEF TypeInv
<1>2. ASSUME NEW P \in SUBSET PartsOf(s, "report")
      PROVE  IsFiniteSet(P) /\ (\A x \in P : x.data \in Reports) /\ MergedReports(P) \in Reports
    <2>1. P \subseteq parts[s] /\ \A x \in P : x.data \in Reports
        BY <1>1 DEF PartsOf, PartsOK
    <2>2. IsFiniteSet(P)
        BY <1>1, <2>1, FS_Subset DEF PartsOK
    <2> QED
        BY <2>1, <2>2, CountType
<1>3. \A kind \in {"genealogy", "source"} : MergedSets(PartsOf(s, kind)) \subseteq Files
    BY <1>1 DEF MergedSets, PartsOf, PartsOK
<1> QED
    BY <1>1, <1>2, <1>3 DEF Merged

LEMMA MetadataTypes ==
    ASSUME TypeInv, ShapeInv', NEW s \in Shards, MergeMetadata(s) \/ MergeOwn(s)
    PROVE  TypeInv'
<1>1. ShapeInv /\ PartsOK(s) /\ worker[s].seen \subseteq Files /\ merged \in [Shards -> Merged]
    BY DEF TypeInv, WorkerTypes
<1>2. CASE LoadGenealogy(s)
    <2>1. /\ merger'[s].pc = "sources" /\ merger'[s].parts = PartsOf(s, "genealogy")
          /\ merger'[s].genealogy = merged[s].genealogy \cup MergedSets(PartsOf(s, "genealogy"))
          /\ merger'[s].source = {} /\ merger'[s].report = NoMerger.report
          /\ \A t \in Shards \ {s} : merger'[t] = merger[t]
        BY <1>1, <1>2 DEF LoadGenealogy, NoMerger, ShapeInv
    <2>2. happened' \subseteq Events
        BY <1>2, EventTypes DEF LoadGenealogy, TypeInv
    <2>3. UNCHANGED <<trace, inbox, saved, parts, merged, worker, ended>>
        BY <1>2 DEF LoadGenealogy
    <2> QED
        BY <1>1, <2>1, <2>2, <2>3, MergedTyped, NoMergerTyped, MergerTypesStep DEF PartsOf
<1>3. CASE LoadSources(s)
    <2>1. /\ merger'[s].pc = "save"
          /\ merger'[s].parts = merger[s].parts \cup PartsOf(s, "source")
          /\ merger'[s].source = merged[s].source \cup MergedSets(PartsOf(s, "source"))
          /\ merger'[s].genealogy = merger[s].genealogy /\ merger'[s].report = merger[s].report
          /\ \A t \in Shards \ {s} : merger'[t] = merger[t]
        BY <1>1, <1>3 DEF LoadSources, ShapeInv
    <2>2. UNCHANGED <<trace, inbox, saved, parts, merged, worker, ended>>
          /\ happened' \subseteq Events
        BY <1>3 DEF LoadSources, TypeInv
    <2> QED
        BY <1>1, <2>1, <2>2, MergedTyped, MergerTypesStep DEF PartsOf, PartsOK
<1>4. CASE SaveMerged(s)
    <2>1. /\ merger'[s].pc \in {"genealogy", "unlink"} /\ merger'[s].parts = merger[s].parts
          /\ merger'[s].source = merger[s].source
          /\ merger'[s].genealogy = merger[s].genealogy /\ merger'[s].report = merger[s].report
          /\ \A t \in Shards \ {s} : merger'[t] = merger[t] /\ merged'[t] = merged[t]
        BY <1>1, <1>4 DEF SaveMerged, ShapeInv
    <2>2. merged' \in [Shards -> Merged]
        BY <1>1, <1>4 DEF SaveMerged, Merged, PartsOK
    <2>3. UNCHANGED <<trace, inbox, saved, parts, worker, ended>> /\ happened' \subseteq Events
        BY <1>4 DEF SaveMerged, TypeInv
    <2> QED
        BY <1>1, <2>1, <2>2, <2>3, MergerTypesStep DEF PartsOK
<1>5. CASE MergeOwn(s)
    <2>1. /\ merger'[s].pc = "save" /\ merger'[s].parts = {}
          /\ merger'[s].source = worker[s].seen
          /\ merger'[s].genealogy = worker[s].seen /\ merger'[s].report = NoMerger.report
          /\ \A t \in Shards \ {s} : merger'[t] = merger[t]
        BY <1>1, <1>5 DEF MergeOwn, NoMerger, ShapeInv
    <2>2. happened' \subseteq Events
        BY <1>5, EventTypes DEF MergeOwn
    <2>3. UNCHANGED <<trace, inbox, saved, parts, merged, worker, ended>>
        BY <1>5 DEF MergeOwn
    <2> QED
        BY <1>1, <2>1, <2>2, <2>3, NoMergerTyped, MergerTypesStep
<1> QED
    BY <1>2, <1>3, <1>4, <1>5 DEF MergeMetadata

LEMMA ReportTypes ==
    ASSUME TypeInv, ShapeInv', NEW s \in Shards, MergeReport(s) \/ Unlink(s) \/ MergerCrash(s)
    PROVE  TypeInv'
<1>1. ShapeInv /\ PartsOK(s) /\ WorkerOK(s) /\ merged \in [Shards -> Merged]
    BY DEF TypeInv
<1>2. CASE LoadReports(s)
    <2>1. /\ merger'[s].pc = "report" /\ merger'[s].parts = PartsOf(s, "report")
          /\ merger'[s].genealogy = {} /\ merger'[s].source = {}
          /\ merger'[s].report = merged[s].report (+) MergedReports(PartsOf(s, "report"))
          /\ \A t \in Shards \ {s} : merger'[t] = merger[t]
        BY <1>1, <1>2 DEF LoadReports, NoMerger, ShapeInv
    <2>2. merger'[s].report \in Reports
        <3>1. merged[s].report \in Reports /\ MergedReports(PartsOf(s, "report")) \in Reports
            BY MergedTyped
        <3> QED
            BY <2>1, <3>1, AddReports
    <2>3. UNCHANGED <<trace, inbox, saved, parts, merged, worker, ended>>
          /\ happened' \subseteq Events
        BY <1>2 DEF LoadReports, TypeInv
    <2> QED
        BY <1>1, <2>1, <2>2, <2>3, MergerTypesStep DEF PartsOf
<1>3. CASE SaveAggregate(s)
    <2>1. /\ merger'[s].pc = "unlink" /\ merger'[s].parts = merger[s].parts
          /\ merger'[s].source = merger[s].source
          /\ merger'[s].genealogy = merger[s].genealogy /\ merger'[s].report = merger[s].report
          /\ \A t \in Shards \ {s} : merger'[t] = merger[t] /\ merged'[t] = merged[t]
        BY <1>1, <1>3 DEF SaveAggregate, ShapeInv
    <2>2. merged' \in [Shards -> Merged]
        BY <1>1, <1>3 DEF SaveAggregate, Merged, PartsOK
    <2>3. UNCHANGED <<trace, inbox, saved, parts, worker, ended>> /\ happened' \subseteq Events
        BY <1>3 DEF SaveAggregate, TypeInv
    <2> QED
        BY <1>1, <2>1, <2>2, <2>3, MergerTypesStep DEF PartsOK
<1>4. CASE MergerCrash(s)
    <2>1. merger'[s] = NoMerger /\ \A t \in Shards \ {s} : merger'[t] = merger[t]
        BY <1>1, <1>4 DEF MergerCrash, ShapeInv
    <2>2. happened' \subseteq Events
        BY <1>4, EventTypes DEF MergerCrash
    <2>3. UNCHANGED <<trace, inbox, saved, parts, merged, worker, ended>>
        BY <1>4 DEF MergerCrash
    <2> QED
        BY <1>1, <2>1, <2>2, <2>3, NoMergerTyped, MergerTypesStep
<1>5. CASE Unlink(s)
    <2>1. /\ merger'[s] = NoMerger /\ parts'[s] = parts[s] \ merger[s].parts
          /\ \A t \in Shards \ {s} : merger'[t] = merger[t] /\ parts'[t] = parts[t]
        BY <1>1, <1>5 DEF Unlink, ShapeInv
    <2>2. UNCHANGED <<trace, inbox, saved, merged, worker, happened, ended>>
        BY <1>5 DEF Unlink
    <2>3. IsFiniteSet(parts'[s])
        BY <1>1, <2>1, FS_Subset DEF PartsOK
    <2>4. PartsOK(s)'
        BY <1>1, <2>1, <2>3, NoMergerTyped DEF PartsOK
    <2>5. WorkerOK(s)'
        BY <1>1, <2>2 DEF WorkerOK, StateOK
    <2> QED
        BY <2>1, <2>2, <2>4, <2>5, ShardTypes DEF TypeInv, Same
<1> QED
    BY <1>2, <1>3, <1>4, <1>5 DEF MergeReport

LEMMA TypesStep ==
    ASSUME TypeInv, ShapeInv', [Next]_vars
    PROVE  TypeInv'
<1>1. CASE UNCHANGED vars
    BY <1>1 DEF vars, TypeInv, WorkerOK, StateOK, PartsOK
<1>2. ASSUME NEW s \in Shards, Start(s) \/ Save(s) \/ Crash(s) PROVE TypeInv'
    BY <1>2, StartTypes, DroppedTypes, SaveStateTypes, SaveTypes DEF Save
<1>3. ASSUME NEW s \in Shards, NEW f \in Files, Process(s, f) \/ ProcessBroken(s, f)
      PROVE  TypeInv'
    BY <1>3, ProcessTypes
<1>4. ASSUME NEW s \in Shards,
             \/ MergeMetadata(s) \/ MergeReport(s) \/ MergeOwn(s)
             \/ Unlink(s) \/ MergerCrash(s)
      PROVE TypeInv'
    BY <1>4, MetadataTypes, ReportTypes
<1> QED
    BY <1>1, <1>2, <1>3, <1>4 DEF Next

LEMMA TypesInvariant == Spec => []TypeInv
<1>1. MetadataInv => ShapeInv
    BY DEF MetadataInv
<1> QED
    BY <1>1, InitTypes, TypesStep, MetadataInvariant, PTL DEF Spec

(* Only processes are torn.                                                *)
TornOK == torn \subseteq Procs

LEMMA TornStep ==
    ASSUME TypeInv, TornOK, [Next]_vars
    PROVE  TornOK'
<1> USE DEF TornOK
<1>1. CASE UNCHANGED vars
    BY <1>1 DEF vars
<1>2. ASSUME NEW s \in Shards, Start(s) \/ Save(s) PROVE TornOK'
    BY <1>2 DEF Start, Save, SaveGenealogy, SaveState, SaveSources, SaveReport, Finish
<1>3. ASSUME NEW s \in Shards, Crash(s) PROVE TornOK'
    BY <1>3, StatesTyped DEF Crash, HalfSaved
<1>4. ASSUME NEW s \in Shards, NEW f \in Files, Process(s, f) \/ ProcessBroken(s, f)
      PROVE  TornOK'
    BY <1>4 DEF Process, ProcessBroken
<1>5. ASSUME NEW s \in Shards,
             \/ MergeMetadata(s) \/ MergeReport(s) \/ MergeOwn(s)
             \/ Unlink(s) \/ MergerCrash(s)
      PROVE  TornOK'
    BY <1>5 DEF MergeMetadata, LoadGenealogy, LoadSources, SaveMerged, MergeOwn, MergeReport,
           LoadReports, SaveAggregate, Unlink, MergerCrash
<1> QED
    BY <1>1, <1>2, <1>3, <1>4, <1>5 DEF Next

LEMMA TornTyped == Spec => []TornOK
<1>1. Init => TornOK
    BY DEF Init, TornOK
<1> QED
    BY <1>1, TornStep, TypesInvariant, PTL DEF Spec

(* Whatever is killed, damaged or merged meanwhile, what is saved of a     *)
(* process stays in front of its last file and holds only its own samples, *)
(* and a worker saves only states it has.                                  *)
THEOREM TypeCorrect == Spec => []TypeOK
<1>1. TypeInv /\ TornOK => TypeOK
    <2> SUFFICES ASSUME TypeInv, TornOK PROVE TypeOK
        OBVIOUS
    <2>1. ASSUME NEW s \in Shards, NEW p \in Procs
          PROVE  /\ saved[s][p].ordinal \in 0 .. trace.size[p] - 1
                 /\ BagToSet(saved[s][p].report) \subseteq
                        {f \in Of(p) : f[2] <= saved[s][p].ordinal}
        <3>1. saved[s][p] \in States /\ StateOK(p, saved[s][p])
              /\ saved[s][p].ordinal # trace.size[p]
            BY DEF TypeInv, WorkerOK
        <3>2. trace.size[p] \in Nat
            BY TraceTyped DEF TypeInv
        <3> QED
            BY <3>1, <3>2 DEF StateOK, States, BagToSet
    <2>2. ASSUME NEW s \in Shards
          PROVE  /\ \A x \in parts[s] : x.kind \in Kinds /\ x.name \in Nat
                 /\ worker[s].pc \in {"off", "work", "states", "reports", "saved"}
                 /\ merger[s].pc \in {"off", "sources", "save", "genealogy", "report", "unlink"}
                 /\ worker[s].unsaved \subseteq DOMAIN worker[s].states
                 /\ worker[s].seen \subseteq Files
        BY DEF TypeInv, WorkerOK, PartsOK, WorkerTypes
    <2> QED
        BY <2>1, <2>2 DEF TypeInv, TornOK, TypeOK
<1> QED
    BY <1>1, TypesInvariant, TornTyped, PTL

-----------------------------------------------------------------------------
(* How often a file is reported.                                           *)

(* The parts that were not merged yet.                                     *)
Unmerged(s) == PartsOf(s, "report") \ Stale(s)

LEMMA ReportedIs ==
    ASSUME TypeInv, NEW s \in Shards, NEW f
    PROVE  /\ Reported(s, f) = Copies(f, merged[s].report) + Count(f, Unmerged(s))
           /\ Reported(s, f) \in Nat /\ Copies(f, merged[s].report) \in Nat
           /\ IsFiniteSet(Unmerged(s)) /\ \A x \in Unmerged(s) : x.data \in Reports
<1>1. Unmerged(s) \in SUBSET PartsOf(s, "report")
    BY DEF Unmerged
<1>2. IsFiniteSet(Unmerged(s)) /\ \A x \in Unmerged(s) : x.data \in Reports
    BY <1>1, MergedTyped
<1>3. Count(f, Unmerged(s)) \in Nat /\ Copies(f, MergedReports(Unmerged(s))) = Count(f, Unmerged(s))
    BY <1>2, CountType
<1>4. Copies(f, merged[s].report) \in Nat
    BY MergedTyped, CopiesType
<1> QED
    BY <1>2, <1>3, <1>4 DEF Reported, Unmerged

LEMMA CopiesTyped ==
    ASSUME TypeInv, NEW s \in Shards, NEW f \in Files
    PROVE  /\ f[1] \in Procs /\ f[2] \in Nat /\ Reported(s, f) \in Nat
           /\ Copies(f, worker[s].report) \in Nat
           /\ saved[s][f[1]].ordinal \in Nat /\ Copies(f, saved[s][f[1]].report) \in Nat
           /\ State(s, f[1]).ordinal \in Nat /\ Copies(f, State(s, f[1]).report) \in Nat
           /\ Target(s, f[1]).ordinal \in Nat /\ Copies(f, Target(s, f[1]).report) \in Nat
           /\ f[2] > saved[s][f[1]].ordinal => Copies(f, saved[s][f[1]].report) = 0
           /\ f[2] > State(s, f[1]).ordinal => Copies(f, State(s, f[1]).report) = 0
           /\ f[2] > Target(s, f[1]).ordinal => Copies(f, Target(s, f[1]).report) = 0
<1>1. f[1] \in Procs /\ f[2] \in Nat
    BY FileParts
<1>2. WorkerOK(s) /\ worker[s].report \in Reports
    BY DEF TypeInv, WorkerTypes
<1>3. ASSUME NEW st \in States, StateOK(f[1], st)
      PROVE  /\ st.ordinal \in Nat /\ Copies(f, st.report) \in Nat
             /\ f[2] > st.ordinal => Copies(f, st.report) = 0
    BY <1>1, <1>3, StateReport, CopiesType DEF Copies
<1>4. saved[s][f[1]] \in States /\ StateOK(f[1], saved[s][f[1]])
    BY <1>1, <1>2, StatesTyped DEF WorkerOK
<1>5. State(s, f[1]) \in States /\ StateOK(f[1], State(s, f[1]))
      /\ Target(s, f[1]) \in States /\ StateOK(f[1], Target(s, f[1]))
    BY <1>1, StatesTyped
<1>6. Copies(f, worker[s].report) \in Nat /\ Reported(s, f) \in Nat
    BY <1>2, CopiesType, ReportedIs
<1> QED
    BY <1>1, <1>3, <1>4, <1>5, <1>6

(* Every sample of the state, and those of the file, are counted or wait.  *)
LEMMA ReadCopies ==
    ASSUME TypeInv, NEW s \in Shards, NEW f \in Files, NEW g \in Files
    PROVE  /\ Copies(g, Counted(s, f)) \in Nat /\ Copies(g, Waiting(s, f)) \in Nat
           /\ Copies(g, Counted(s, f)) + Copies(g, Waiting(s, f)) =
                 Copies(g, State(s, f[1]).report) + (IF g = f THEN 1 ELSE 0)
           /\ g[1] # f[1] => Copies(g, Counted(s, f)) = 0
           /\ Copies(g, worker[s].report (+) Counted(s, f)) =
                 Copies(g, worker[s].report) + Copies(g, Counted(s, f))
<1> DEFINE st == State(s, f[1])
<1>1. st \in States /\ StateOK(f[1], st) /\ f[1] \in Procs
    BY FileParts, StatesTyped
<1>2. st.report \in Reports /\ Copies(g, st.report) \in Nat
      /\ (g[1] # f[1] => Copies(g, st.report) = 0)
    BY <1>1, StateReport, CopiesType DEF Copies
<1> HIDE DEF st
<1>3. ASSUME NEW b \in {st.report, EmptyBag}, NEW c \in {SetToBag({f}), EmptyBag}
      PROVE  Copies(g, b (+) c) = Copies(g, b) + Copies(g, c)
    <2>1. b \in Reports /\ c \in Reports
        BY <1>2, EmptyReport, OneFile
    <2>2. \A bb \in Reports, cc \in Reports :
              Copies(g, bb (+) cc) = Copies(g, bb) + Copies(g, cc)
        BY AddReports
    <2> QED
        BY <2>1, <2>2
<1>4. Copies(g, EmptyBag) = 0 /\ Copies(g, SetToBag({f})) = (IF g = f THEN 1 ELSE 0)
    BY EmptyReport, OneFile
<1>5. Copies(g, Counted(s, f)) = (IF f \in trace.changes THEN Copies(g, st.report) ELSE 0)
                                 + (IF f \in trace.open \/ g # f THEN 0 ELSE 1)
    BY <1>3, <1>4 DEF Counted, st
<1>6. Copies(g, Waiting(s, f)) = (IF f \in trace.changes THEN 0 ELSE Copies(g, st.report))
                                 + (IF f \in trace.open /\ g = f THEN 1 ELSE 0)
    BY <1>3, <1>4 DEF Waiting, st
<1>7. Copies(g, worker[s].report (+) Counted(s, f)) =
         Copies(g, worker[s].report) + Copies(g, Counted(s, f))
    <2>1. worker[s].report \in Reports
        BY DEF TypeInv, WorkerTypes
    <2> QED
        BY <2>1, ReadTyped, AddReports
<1> QED
    BY <1>2, <1>5, <1>6, <1>7 DEF st

(* Workers change what is reported only by adding a part.                  *)
LEMMA SameReported ==
    ASSUME NEW s \in Shards, merged'[s] = merged[s], merger'[s] = merger[s],
           PartsOf(s, "report")' = PartsOf(s, "report")
    PROVE  /\ MergerOK(s) => MergerOK(s)'
           /\ \A f : Reported(s, f)' = Reported(s, f)
BY DEF MergerOK, Reported, Stale

(* Merging does not change how often a file is reported.                   *)
LEMMA MergeKeepsReported ==
    ASSUME TypeInv, TypeInv', NEW s \in Shards, MergerOK(s),
           MergeMetadata(s) \/ MergeOwn(s) \/ MergeReport(s) \/ Unlink(s)
    PROVE  /\ MergerOK(s)'
           /\ \A f : Reported(s, f)' = Reported(s, f)
<1>1. ShapeInv /\ PartsOK(s)
    BY DEF TypeInv
<1>2. ASSUME merged'[s].report = merged[s].report, Unmerged(s)' = Unmerged(s)
      PROVE  \A f : Reported(s, f)' = Reported(s, f)
    BY <1>2 DEF Reported, Unmerged
<1>3. CASE LoadGenealogy(s)
    <2>1. /\ merger[s].pc = "off" /\ merger'[s].pc = "sources"
          /\ merger'[s].parts = PartsOf(s, "genealogy") /\ UNCHANGED <<merged, parts>>
        BY <1>1, <1>3 DEF LoadGenealogy, NoMerger, ShapeInv
    <2>2. Unmerged(s)' = Unmerged(s)
        BY <2>1 DEF Unmerged, Stale, PartsOf
    <2> QED
        BY <1>2, <2>1, <2>2 DEF MergerOK, PartsOf
<1>4. CASE LoadSources(s)
    <2>1. /\ merger[s].pc = "sources" /\ merger'[s].pc = "save"
          /\ merger'[s].parts = merger[s].parts \cup PartsOf(s, "source")
          /\ UNCHANGED <<merged, parts>>
        BY <1>1, <1>4 DEF LoadSources, ShapeInv
    <2>2. Unmerged(s)' = Unmerged(s)
        BY <2>1 DEF Unmerged, Stale, PartsOf
    <2> QED
        BY <1>2, <2>1, <2>2 DEF MergerOK, PartsOf
<1>5. CASE SaveMerged(s)
    <2>1. /\ merger'[s].parts = merger[s].parts /\ UNCHANGED parts
          /\ merged'[s].report = merged[s].report
          /\ \/ merger[s].pc = "save" /\ merger'[s].pc = "genealogy"
             \/ merger[s].pc = "genealogy" /\ merger'[s].pc = "unlink"
        BY <1>1, <1>5 DEF SaveMerged, ShapeInv
    <2>2. Unmerged(s)' = Unmerged(s)
        BY <2>1 DEF Unmerged, Stale, PartsOf, MergerOK
    <2> QED
        BY <1>2, <2>1, <2>2 DEF MergerOK
<1>6. CASE MergeOwn(s)
    <2>1. /\ merger[s].pc = "off" /\ merger'[s].pc = "save" /\ merger'[s].parts = {}
          /\ UNCHANGED <<merged, parts>>
        BY <1>1, <1>6 DEF MergeOwn, NoMerger, ShapeInv
    <2>2. Unmerged(s)' = Unmerged(s)
        BY <2>1 DEF Unmerged, Stale, PartsOf
    <2> QED
        BY <1>2, <2>1, <2>2 DEF MergerOK
<1>7. CASE LoadReports(s)
    <2>1. /\ merger[s].pc = "off" /\ merger'[s].pc = "report"
          /\ merger'[s].parts = PartsOf(s, "report") /\ UNCHANGED <<merged, parts>>
          /\ merger'[s].report = merged[s].report (+) MergedReports(PartsOf(s, "report"))
        BY <1>1, <1>7 DEF LoadReports, NoMerger, ShapeInv
    <2>2. Unmerged(s)' = Unmerged(s)
        BY <2>1 DEF Unmerged, Stale, PartsOf
    <2> QED
        BY <1>2, <2>1, <2>2 DEF MergerOK, PartsOf
<1>8. CASE SaveAggregate(s)
    <2> DEFINE P == merger[s].parts
               Q == PartsOf(s, "report") \ P
    <2>1. /\ merger[s].pc = "report" /\ merger'[s].pc = "unlink" /\ merger'[s].parts = P
          /\ merged'[s].report = merger[s].report /\ UNCHANGED parts
        BY <1>1, <1>8 DEF SaveAggregate, ShapeInv
    <2>2. P \subseteq PartsOf(s, "report") /\ P \cup Q = PartsOf(s, "report") /\ P \cap Q = {}
        BY <1>1, <2>1 DEF MergerOK, PartsOf, PartsOK
    <2>3. merged'[s].report = merged[s].report (+) MergedReports(P)
        BY <2>1 DEF MergerOK
    <2>4. Unmerged(s) = P \cup Q /\ Unmerged(s)' = Q
        BY <2>1, <2>2 DEF Unmerged, Stale, PartsOf
    <2>5. /\ IsFiniteSet(P) /\ IsFiniteSet(Q) /\ \A x \in P \cup Q : x.data \in Reports
          /\ MergedReports(P) \in Reports /\ merged[s].report \in Reports
        <3>1. P \in SUBSET PartsOf(s, "report") /\ Q \in SUBSET PartsOf(s, "report")
            BY <2>2
        <3> QED
            BY <3>1, MergedTyped
    <2> HIDE DEF P, Q
    <2>6. ASSUME NEW f PROVE Reported(s, f)' = Reported(s, f)
        <3>1. Reported(s, f) = Copies(f, merged[s].report) + Count(f, P \cup Q)
            BY <2>4, ReportedIs
        <3>2. Reported(s, f)' = Copies(f, merged'[s].report) + Count(f, Q)
            <4>1. Reported(s, f)' = Copies(f, merged'[s].report)
                                    + Copies(f, MergedReports(Unmerged(s)'))
                BY DEF Reported, Unmerged
            <4> QED
                BY <2>4, <2>5, <4>1, CountType
        <3>3. Count(f, P \cup Q) = Count(f, P) + Count(f, Q)
            BY <2>2, <2>5, CountBoth
        <3>4. Copies(f, merged'[s].report) = Copies(f, merged[s].report) + Count(f, P)
            <4>1. Copies(f, merged[s].report (+) MergedReports(P)) =
                     Copies(f, merged[s].report) + Copies(f, MergedReports(P))
                BY <2>5, AddReports, Zenon
            <4>2. Copies(f, MergedReports(P)) = Count(f, P)
                BY <2>5, CountType
            <4> QED
                BY <2>3, <4>1, <4>2
        <3>5. /\ Copies(f, merged[s].report) \in Nat
              /\ Count(f, P) \in Nat /\ Count(f, Q) \in Nat
            BY <2>5, CopiesType, CountType
        <3> QED
            BY <3>1, <3>2, <3>3, <3>4, <3>5
    <2>7. MergerOK(s)'
        BY <2>1 DEF MergerOK
    <2> QED
        BY <2>6, <2>7
<1>9. CASE Unlink(s)
    <2>1. /\ merger[s].pc = "unlink" /\ merger'[s] = NoMerger /\ UNCHANGED merged
          /\ parts'[s] = parts[s] \ merger[s].parts
        BY <1>1, <1>9 DEF Unlink, ShapeInv
    <2>2. Unmerged(s)' = Unmerged(s)
        BY <2>1, NoMergerTyped DEF Unmerged, Stale, PartsOf
    <2> QED
        BY <1>2, <2>1, <2>2, NoMergerTyped DEF MergerOK
<1> QED
    BY <1>3, <1>4, <1>5, <1>6, <1>7, <1>8, <1>9 DEF MergeMetadata, MergeReport

-----------------------------------------------------------------------------
(* No file counts twice.                                                   *)

(* No merger was killed and no file was damaged.                           *)
Steady == happened \cap {"mergecrash", "broken"} = {}

LEMMA InitOnce == Init => OnceInv
<1> SUFFICES ASSUME Init PROVE OnceInv
    OBVIOUS
<1>1. TypeInv
    BY InitTypes
<1>2. ASSUME NEW s \in Shards PROVE OnceOK(s)
    <2>1. /\ worker[s] = NoWorker /\ merger[s] = NoMerger /\ parts[s] = {}
          /\ merged[s].report = EmptyBag /\ \A p \in Procs : saved[s][p] = Initial
        BY DEF Init
    <2>2. MergerOK(s) /\ UnsavedOK(s)
        BY <2>1, NoWorkerTyped, NoMergerTyped DEF MergerOK, UnsavedOK
    <2>3. ASSUME NEW f \in Files PROVE Once(s, f)
        <3>1. Unmerged(s) = {}
            BY <2>1 DEF Unmerged, PartsOf
        <3>2. Reported(s, f) = 0
            <4>1. Reported(s, f) = Copies(f, merged[s].report) + Count(f, Unmerged(s))
                BY <1>1, ReportedIs
            <4>2. Copies(f, merged[s].report) = 0 /\ Count(f, Unmerged(s)) = 0
                BY <2>1, <3>1, CountNone, EmptyReport
            <4> QED
                BY <4>1, <4>2
        <3>3. Copies(f, saved[s][f[1]].report) = 0
            BY <2>1, FileParts, InitialTyped, EmptyReport
        <3> QED
            BY <2>1, <3>2, <3>3, NoWorkerTyped DEF Once
    <2> QED
        BY <2>2, <2>3 DEF OnceOK
<1> QED
    BY <1>2 DEF OnceInv

LEMMA OnceShard ==
    ASSUME OnceInv, happened \subseteq happened', ended \subseteq ended',
           NEW s \in Shards, \A t \in Shards \ {s} : Same(t) /\ saved'[t] = saved[t],
           Steady' /\ OnceOK(s) => OnceOK(s)'
    PROVE  OnceInv'
<1>1. ASSUME NEW t \in Shards \ {s}, OnceOK(t) PROVE OnceOK(t)'
    <2>1. MergerOK(t)' /\ UnsavedOK(t)' /\ \A f : Reported(t, f)' = Reported(t, f)
        BY <1>1 DEF Same, OnceOK, MergerOK, UnsavedOK, Reported, Stale, PartsOf
    <2>2. \A p : Target(t, p)' = Target(t, p)
        BY DEF Same, Target
    <2>3. ASSUME NEW f \in Files, Once(t, f) PROVE Once(t, f)'
        BY <2>1, <2>2, <2>3 DEF Same, Once
    <2> QED
        BY <1>1, <2>1, <2>3 DEF OnceOK
<1> QED
    BY <1>1 DEF OnceInv, Steady

(* Once and UnsavedOK of a worker that writes no report part: what it      *)
(* holds is known.                                                         *)
LEMMA OnceWorker ==
    ASSUME TypeInv, NEW s \in Shards, OnceOK(s), ended \subseteq ended',
           merged'[s] = merged[s], merger'[s] = merger[s],
           PartsOf(s, "report")' = PartsOf(s, "report"), saved'[s] = saved[s],
           UnsavedOK(s)',
           worker'[s].pc \in {"work", "states", "reports"} =>
              \A f \in Files : f[1] \notin ended' =>
                  LET n == Reported(s, f) + Copies(f, worker'[s].report)
                  IN  /\ n + Copies(f, (Target(s, f[1])').report) <= 1
                      /\ f[2] > (Target(s, f[1])').ordinal => n = 0
    PROVE  OnceOK(s)'
<1>1. MergerOK(s)' /\ \A f : Reported(s, f)' = Reported(s, f)
    BY SameReported DEF OnceOK
<1>2. ASSUME NEW f \in Files, f[1] \notin ended' PROVE Once(s, f)'
    BY <1>1, <1>2 DEF Once, OnceOK
<1> QED
    BY <1>1, <1>2 DEF OnceOK

LEMMA StartOnce ==
    ASSUME TypeInv, NEW s \in Shards, OnceOK(s), Start(s)
    PROVE  OnceOK(s)'
<1>1. worker'[s] = [NoWorker EXCEPT !.pc = "work", !.known = Known(s)]
    BY DEF Start, TypeInv
<1>2. /\ worker'[s].pc = "work" /\ worker'[s].states = NoWorker.states
      /\ worker'[s].unsaved = {} /\ worker'[s].report = EmptyBag
    BY <1>1, NoWorkerTyped DEF WorkerTypes
<1>3. UNCHANGED <<saved, parts, merged, merger, ended>>
    BY DEF Start
<1>4. UnsavedOK(s)'
    BY <1>2, NoWorkerTyped DEF UnsavedOK
<1>5. ASSUME NEW f \in Files, f[1] \notin ended'
      PROVE  LET n == Reported(s, f) + Copies(f, worker'[s].report)
             IN  /\ n + Copies(f, (Target(s, f[1])').report) <= 1
                 /\ f[2] > (Target(s, f[1])').ordinal => n = 0
    <2>1. Target(s, f[1])' = saved[s][f[1]]
        BY <1>2, <1>3 DEF Target
    <2>2. Copies(f, worker'[s].report) = 0
        BY <1>2, EmptyReport
    <2>3. Once(s, f) /\ Reported(s, f) \in Nat
        BY <1>3, <1>5, CopiesTyped DEF OnceOK
    <2> QED
        BY <2>1, <2>2, <2>3 DEF Once
<1> QED
    BY <1>3, <1>4, <1>5, OnceWorker DEF PartsOf

LEMMA DroppedOnce ==
    ASSUME TypeInv, NEW s \in Shards, OnceOK(s), Finish(s) \/ Crash(s)
    PROVE  OnceOK(s)'
<1>1. worker'[s] = NoWorker /\ UNCHANGED <<saved, parts, merged, merger, ended>>
    BY DEF Finish, Crash, TypeInv
<1>2. UnsavedOK(s)'
    BY <1>1, NoWorkerTyped DEF UnsavedOK
<1> QED
    BY <1>1, <1>2, NoWorkerTyped, OnceWorker DEF PartsOf

LEMMA ProcessOnce ==
    ASSUME TypeInv, NEW s \in Shards, NEW f \in Files, OnceOK(s), Process(s, f)
    PROVE  OnceOK(s)'
<1> DEFINE st == [ordinal |-> f[2], report |-> Waiting(s, f)]
           p == f[1]
<1>1. worker[s] \in WorkerTypes /\ worker[s].pc = "work" /\ p \in Procs /\ f[2] \in Nat
    BY FileParts DEF TypeInv, Process, Offered
<1>2. /\ worker'[s].pc = "work" /\ worker'[s].states = SetState(worker[s], p, st)
      /\ worker'[s].unsaved = worker[s].unsaved \cup {p}
      /\ worker'[s].report = worker[s].report (+) Counted(s, f)
    BY <1>1 DEF Process, TypeInv, WorkerTypes
<1>3. UNCHANGED <<saved, parts, merged, merger, ended>>
    BY DEF Process
<1>4. DOMAIN worker[s].states = worker[s].unsaved
    BY <1>1 DEF OnceOK, UnsavedOK
<1>5. f[2] = Target(s, p).ordinal + 1 /\ Target(s, p) = State(s, p)
    BY <1>4 DEF Process, CanProcess, Target, State
<1>6. worker'[s].states = [q \in worker[s].unsaved \cup {p} |->
                              IF q = p THEN st ELSE worker[s].states[q]]
    BY <1>2, <1>4 DEF SetState
<1>7. UnsavedOK(s)'
    BY <1>2, <1>6 DEF UnsavedOK
<1>8. Target(s, p)' = st /\ \A q \in Procs \ {p} : Target(s, q)' = Target(s, q)
    BY <1>2, <1>3, <1>6 DEF Target
<1>9. st.ordinal = f[2] /\ st.report = Waiting(s, f)
    OBVIOUS
<1> HIDE DEF st
<1>10. ASSUME NEW g \in Files, g[1] \notin ended'
      PROVE  LET n == Reported(s, g) + Copies(g, worker'[s].report)
             IN  /\ n + Copies(g, (Target(s, g[1])').report) <= 1
                 /\ g[2] > (Target(s, g[1])').ordinal => n = 0
    <2> DEFINE n == Reported(s, g) + Copies(g, worker[s].report)
    <2>1. n + Copies(g, Target(s, g[1]).report) <= 1 /\ (g[2] > Target(s, g[1]).ordinal => n = 0)
        BY <1>1, <1>3, <1>10 DEF OnceOK, Once
    <2>2. /\ Reported(s, g) \in Nat /\ Copies(g, worker[s].report) \in Nat /\ g[2] \in Nat
          /\ g[1] \in Procs /\ Target(s, g[1]).ordinal \in Nat
          /\ Copies(g, Target(s, g[1]).report) \in Nat
          /\ g[2] > Target(s, g[1]).ordinal => Copies(g, Target(s, g[1]).report) = 0
        BY CopiesTyped
    <2>3. /\ Copies(g, Counted(s, f)) \in Nat /\ Copies(g, Waiting(s, f)) \in Nat
          /\ Copies(g, Counted(s, f)) + Copies(g, Waiting(s, f)) =
                Copies(g, State(s, p).report) + (IF g = f THEN 1 ELSE 0)
          /\ g[1] # p => Copies(g, Counted(s, f)) = 0
          /\ Copies(g, worker'[s].report) = Copies(g, worker[s].report) + Copies(g, Counted(s, f))
        BY <1>2, ReadCopies
    <2>4. CASE g[1] # p
        BY <1>8, <2>1, <2>2, <2>3, <2>4
    <2>5. CASE g[1] = p
        <3>1. (Target(s, g[1])').ordinal = f[2] /\ (Target(s, g[1])').report = Waiting(s, f)
            BY <1>8, <1>9, <2>5
        <3>2. Target(s, g[1]) = State(s, p) /\ f[2] = Target(s, g[1]).ordinal + 1
            BY <1>5, <2>5
        <3>3. /\ Copies(g, Counted(s, f)) + Copies(g, Waiting(s, f)) =
                    Copies(g, Target(s, g[1]).report) + (IF g = f THEN 1 ELSE 0)
              /\ f[2] \in Nat
            BY <1>1, <2>3, <3>2
        <3>4. /\ n + Copies(g, Counted(s, f)) + Copies(g, Waiting(s, f)) <= 1
              /\ g[2] > f[2] => n + Copies(g, Counted(s, f)) = 0
            <4> HIDE DEF n
            <4>1. n \in Nat
                BY <2>2 DEF n
            <4>2. CASE g = f
                BY <2>1, <2>2, <2>3, <3>2, <3>3, <4>1, <4>2
            <4>3. CASE g # f
                BY <2>1, <2>2, <2>3, <3>2, <3>3, <4>1, <4>3
            <4> QED
                BY <4>2, <4>3
        <3> QED
            BY <2>2, <2>3, <3>1, <3>4
    <2> QED
        BY <2>4, <2>5
<1> QED
    BY <1>3, <1>7, <1>10, OnceWorker DEF PartsOf

LEMMA SaveStateOnce ==
    ASSUME TypeInv, NEW s \in Shards, NEW p \in Procs, OnceOK(s), SaveState(s, p)
    PROVE  OnceOK(s)'
<1>1. worker[s] \in WorkerTypes /\ worker[s].pc = "states" /\ p \in worker[s].unsaved
    BY DEF TypeInv, SaveState
<1>2. /\ worker'[s].pc = "states" /\ worker'[s].states = worker[s].states
      /\ worker'[s].unsaved = worker[s].unsaved \ {p} /\ worker'[s].report = worker[s].report
    BY <1>1 DEF SaveState, TypeInv, WorkerTypes
<1>3. UNCHANGED <<parts, merged, merger>> /\ ended \subseteq ended'
    BY DEF SaveState
<1>4. MergerOK(s)' /\ UnsavedOK(s)' /\ \A f : Reported(s, f)' = Reported(s, f)
    BY <1>2, <1>3, SameReported DEF OnceOK, UnsavedOK, PartsOf
<1>5. \A q \in Procs \ {p} : saved'[s][q] = saved[s][q] /\ Target(s, q)' = Target(s, q)
    BY <1>2 DEF SaveState, TypeInv, Target
<1>6. p \notin ended' => saved'[s][p] = Target(s, p) /\ Target(s, p)' = Target(s, p)
    BY <1>1, <1>2 DEF SaveState, TypeInv, Target
<1>7. ASSUME NEW f \in Files, f[1] \notin ended' PROVE Once(s, f)'
    <2>1. Once(s, f) /\ f[1] \in Procs
        BY <1>3, <1>7, FileParts DEF OnceOK
    <2>2. CASE f[1] # p
        BY <1>1, <1>2, <1>4, <1>5, <2>1, <2>2 DEF Once
    <2>3. CASE f[1] = p
        <3>1. /\ Reported(s, f) + Copies(f, worker[s].report) + Copies(f, Target(s, p).report) <= 1
              /\ f[2] > Target(s, p).ordinal => Reported(s, f) + Copies(f, worker[s].report) = 0
            BY <1>1, <2>1, <2>3 DEF Once
        <3>2. /\ Reported(s, f) \in Nat /\ Copies(f, worker[s].report) \in Nat
              /\ Copies(f, Target(s, p).report) \in Nat
            BY <2>3, CopiesTyped
        <3>3. /\ Reported(s, f)' = Reported(s, f) /\ worker'[s].report = worker[s].report
              /\ saved'[s][f[1]] = Target(s, p) /\ Target(s, f[1])' = Target(s, p)
            BY <1>2, <1>4, <1>6, <1>7, <2>3
        <3>4. /\ Reported(s, f) + Copies(f, Target(s, p).report) <= 1
              /\ f[2] > Target(s, p).ordinal => Reported(s, f) = 0
            BY <3>1, <3>2
        <3> QED
            BY <3>1, <3>3, <3>4 DEF Once
    <2> QED
        BY <2>2, <2>3
<1> QED
    BY <1>4, <1>7 DEF OnceOK

(* Parts of the metadata leave those of reports alone.                     *)
LEMMA MetadataParts ==
    ASSUME ShapeInv, NEW s \in Shards, SaveGenealogy(s) \/ SaveSources(s)
    PROVE  PartsOf(s, "report")' = PartsOf(s, "report")
<1>1. \/ UNCHANGED parts
      \/ AddPart(s, "genealogy", worker[s].seen) \/ AddPart(s, "source", worker[s].seen)
    BY DEF SaveGenealogy, SaveSources
<1>2. ASSUME NEW kind \in {"genealogy", "source"}, AddPart(s, kind, worker[s].seen)
      PROVE  PartsOf(s, "report")' = PartsOf(s, "report")
    BY <1>2, OnePart
<1>3. CASE UNCHANGED parts
    BY <1>3 DEF PartsOf
<1> QED
    BY <1>1, <1>2, <1>3

LEMMA SaveMetadataOnce ==
    ASSUME TypeInv, NEW s \in Shards, OnceOK(s), SaveGenealogy(s) \/ SaveSources(s)
    PROVE  OnceOK(s)'
<1>1. worker[s] \in WorkerTypes /\ ShapeInv
    BY DEF TypeInv
<1>2. /\ worker'[s].states = worker[s].states /\ worker'[s].unsaved = worker[s].unsaved
      /\ worker'[s].report = worker[s].report
      /\ worker[s].pc \in {"work", "states"} /\ worker'[s].pc \in {"states", "reports"}
      /\ worker'[s].pc = "reports" => worker[s].unsaved = {}
    BY <1>1 DEF SaveGenealogy, SaveSources, TypeInv, WorkerTypes
<1>3. UNCHANGED <<saved, merged, merger, ended>>
    BY DEF SaveGenealogy, SaveSources
<1>4. UnsavedOK(s)'
    BY <1>2 DEF UnsavedOK
<1>5. \A q : Target(s, q)' = Target(s, q)
    BY <1>2, <1>3 DEF Target
<1>6. PartsOf(s, "report")' = PartsOf(s, "report")
    BY <1>1, MetadataParts
<1> QED
    BY <1>2, <1>3, <1>4, <1>5, <1>6, OnceWorker DEF OnceOK, Once

(* The report part brings in what the worker counted.                      *)
LEMMA SavedReport ==
    ASSUME TypeInv, NEW s \in Shards, SaveReport(s)
    PROVE  \A f : Reported(s, f)' = Reported(s, f) + Copies(f, worker[s].report)
<1>1. worker[s].report \in Reports /\ ShapeInv /\ PartsOK(s)
    BY DEF TypeInv, WorkerTypes
<1>2. UNCHANGED <<merged, merger>>
    BY DEF SaveReport
<1>3. CASE worker[s].report = EmptyBag
    <2>1. UNCHANGED parts
        BY <1>3 DEF SaveReport
    <2>2. ASSUME NEW f
          PROVE  Reported(s, f)' = Reported(s, f) /\ Copies(f, worker[s].report) = 0
                 /\ Reported(s, f) \in Nat
        BY <1>2, <1>3, <2>1, EmptyReport, ReportedIs DEF Reported, Stale, PartsOf
    <2> QED
        BY <2>2
<1>4. CASE worker[s].report # EmptyBag
    <2>1. PICK x : /\ x.kind = "report" /\ x.data = worker[s].report /\ x \notin parts[s]
                   /\ parts' = [parts EXCEPT ![s] = @ \cup {x}]
        BY <1>1, <1>4, NewPart DEF SaveReport, PartsOK
    <2>2. parts'[s] = parts[s] \cup {x}
        BY <1>1, <2>1 DEF ShapeInv
    <2>3. Stale(s)' = Stale(s) /\ x \notin Stale(s) /\ x \notin Unmerged(s)
        BY <1>1, <1>2, <2>1 DEF Stale, PartsOK, Unmerged, PartsOf
    <2>4. Unmerged(s)' = Unmerged(s) \cup {x}
        BY <2>1, <2>2, <2>3 DEF Unmerged, PartsOf
    <2>5. ASSUME NEW f
          PROVE  Reported(s, f)' = Reported(s, f) + Copies(f, worker[s].report)
        <3> DEFINE U == Unmerged(s)
        <3>1. /\ IsFiniteSet(U) /\ (\A y \in U : y.data \in Reports) /\ x \notin U
              /\ IsFiniteSet({x}) /\ U \cap {x} = {}
            BY <2>3, ReportedIs, FS_Singleton
        <3>2. IsFiniteSet(U \cup {x}) /\ \A y \in U \cup {x} : y.data \in Reports
            BY <1>1, <2>1, <3>1, FS_AddElement
        <3>3. Reported(s, f) = Copies(f, merged[s].report) + Count(f, U)
            BY ReportedIs
        <3>4. Reported(s, f)' = Copies(f, merged[s].report) + Count(f, U \cup {x})
            <4>1. Reported(s, f)' = Copies(f, merged'[s].report)
                                    + Copies(f, MergedReports(Unmerged(s)'))
                BY DEF Reported, Unmerged
            <4> HIDE DEF U
            <4>2. Copies(f, MergedReports(U \cup {x})) = Count(f, U \cup {x})
                BY <3>2, CountType
            <4> QED
                BY <1>2, <2>4, <4>1, <4>2 DEF U
        <3> HIDE DEF U
        <3>5. Count(f, U \cup {x}) = Count(f, U) + Count(f, {x})
            BY <3>1, <3>2, CountBoth
        <3>6. Count(f, {x}) = Copies(f, worker[s].report)
            BY <1>1, <2>1, CountOne
        <3>7. Count(f, U) \in Nat /\ Copies(f, merged[s].report) \in Nat
              /\ Copies(f, worker[s].report) \in Nat
            BY <1>1, <3>1, CountType, ReportedIs, CopiesType
        <3> QED
            BY <3>3, <3>4, <3>5, <3>6, <3>7
    <2> QED
        BY <2>5
<1> QED
    BY <1>3, <1>4

LEMMA SaveReportOnce ==
    ASSUME TypeInv, NEW s \in Shards, OnceOK(s), SaveReport(s)
    PROVE  OnceOK(s)'
<1>1. worker[s] \in WorkerTypes /\ worker[s].pc = "reports"
    BY DEF TypeInv, SaveReport
<1>2. worker'[s].pc = "saved" /\ worker'[s].unsaved = worker[s].unsaved
    BY <1>1 DEF SaveReport, TypeInv, WorkerTypes
<1>3. UNCHANGED <<saved, merged, merger, ended>>
    BY DEF SaveReport
<1>4. worker[s].unsaved = {}
    BY <1>1 DEF OnceOK, UnsavedOK
<1>5. MergerOK(s)' /\ UnsavedOK(s)'
    BY <1>2, <1>3, <1>4 DEF OnceOK, MergerOK, UnsavedOK
<1>6. ASSUME NEW f \in Files, f[1] \notin ended' PROVE Once(s, f)'
    <2>1. Target(s, f[1]) = saved[s][f[1]]
        BY <1>4 DEF Target
    <2>2. Reported(s, f)' = Reported(s, f) + Copies(f, worker[s].report)
        BY SavedReport
    <2>3. Once(s, f)
        BY <1>3, <1>6 DEF OnceOK
    <2> QED
        BY <1>1, <1>2, <1>3, <2>1, <2>2, <2>3 DEF Once
<1> QED
    BY <1>5, <1>6 DEF OnceOK

LEMMA MergeOnce ==
    ASSUME TypeInv, TypeInv', NEW s \in Shards, OnceOK(s),
           MergeMetadata(s) \/ MergeOwn(s) \/ MergeReport(s) \/ Unlink(s)
    PROVE  OnceOK(s)'
<1>1. UNCHANGED <<saved, worker, ended>>
    BY DEF MergeMetadata, LoadGenealogy, LoadSources, SaveMerged, MergeOwn, MergeReport,
           LoadReports, SaveAggregate, Unlink
<1>2. MergerOK(s)' /\ \A f : Reported(s, f)' = Reported(s, f)
    BY MergeKeepsReported DEF OnceOK
<1>3. \A p : Target(s, p)' = Target(s, p)
    BY <1>1 DEF Target
<1>4. ASSUME NEW f \in Files, Once(s, f) PROVE Once(s, f)'
    BY <1>1, <1>2, <1>3, <1>4 DEF Once
<1> QED
    BY <1>1, <1>2, <1>4 DEF OnceOK, UnsavedOK

(* A worker and a merger touch only what belongs to their shard.           *)
LEMMA OthersStay ==
    ASSUME TypeInv, NEW s \in Shards,
           \/ Start(s) \/ Save(s) \/ Crash(s)
           \/ \E f \in Files : Process(s, f) \/ ProcessBroken(s, f)
           \/ MergeMetadata(s) \/ MergeReport(s) \/ MergeOwn(s) \/ Unlink(s) \/ MergerCrash(s)
    PROVE  /\ \A t \in Shards \ {s} : Same(t) /\ saved'[t] = saved[t]
           /\ UNCHANGED trace /\ ended \subseteq ended' /\ torn \subseteq torn'
<1> USE DEF Same
<1>1. ShapeInv
    BY DEF TypeInv
<1>2. CASE Start(s) \/ Crash(s) \/ Finish(s) \/ \E p \in Procs : SaveState(s, p)
    BY <1>1, <1>2 DEF Start, Crash, Finish, SaveState, TypeInv, ShapeInv
<1>3. CASE SaveGenealogy(s) \/ SaveSources(s) \/ SaveReport(s)
    <2>1. UNCHANGED <<trace, torn, saved, merged, merger, ended>>
        BY <1>3 DEF SaveGenealogy, SaveSources, SaveReport
    <2>2. \A t \in Shards \ {s} : worker'[t] = worker[t]
        BY <1>1, <1>3 DEF SaveGenealogy, SaveSources, SaveReport, ShapeInv
    <2>3. ASSUME NEW kind, NEW data, AddPart(s, kind, data)
          PROVE  \A t \in Shards \ {s} : parts'[t] = parts[t]
        BY <1>1, <2>3, OnePart
    <2>4. \A t \in Shards \ {s} : parts'[t] = parts[t]
        BY <1>3, <2>3 DEF SaveGenealogy, SaveSources, SaveReport
    <2> QED
        BY <2>1, <2>2, <2>4
<1>4. ASSUME NEW f \in Files, Process(s, f) \/ ProcessBroken(s, f)
      PROVE  /\ \A t \in Shards \ {s} : Same(t) /\ saved'[t] = saved[t]
             /\ UNCHANGED trace /\ ended \subseteq ended' /\ torn \subseteq torn'
    BY <1>1, <1>4 DEF Process, ProcessBroken, ShapeInv
<1>5. CASE MergeMetadata(s) \/ MergeReport(s) \/ MergeOwn(s) \/ Unlink(s) \/ MergerCrash(s)
    BY <1>1, <1>5 DEF MergeMetadata, LoadGenealogy, LoadSources, SaveMerged, MergeOwn, MergeReport,
           LoadReports, SaveAggregate, Unlink, MergerCrash, ShapeInv
<1> QED
    BY <1>2, <1>3, <1>4, <1>5 DEF Save

LEMMA OnceStep ==
    ASSUME TypeInv, TypeInv', OnceInv, [Next]_vars
    PROVE  OnceInv'
<1>1. happened \subseteq happened'
    BY EventsStay
<1>2. ASSUME NEW s \in Shards, Start(s) \/ Save(s) \/ Crash(s) PROVE OnceInv'
    <2>1. OnceOK(s) => OnceOK(s)'
        BY <1>2, StartOnce, DroppedOnce, SaveStateOnce, SaveMetadataOnce, SaveReportOnce DEF Save
    <2>2. (\A t \in Shards \ {s} : Same(t) /\ saved'[t] = saved[t]) /\ ended \subseteq ended'
        BY <1>2, OthersStay
    <2> QED
        BY <1>1, <2>1, <2>2, OnceShard
<1>3. ASSUME NEW s \in Shards, NEW f \in Files, Process(s, f) \/ ProcessBroken(s, f)
      PROVE  OnceInv'
    <2>1. Steady' /\ OnceOK(s) => OnceOK(s)'
        BY <1>3, ProcessOnce DEF ProcessBroken, Happens, Steady
    <2>2. (\A t \in Shards \ {s} : Same(t) /\ saved'[t] = saved[t]) /\ ended \subseteq ended'
        BY <1>3, OthersStay
    <2> QED
        BY <1>1, <2>1, <2>2, OnceShard
<1>4. ASSUME NEW s \in Shards,
             \/ MergeMetadata(s) \/ MergeReport(s) \/ MergeOwn(s)
             \/ Unlink(s) \/ MergerCrash(s)
      PROVE  OnceInv'
    <2>1. Steady' /\ OnceOK(s) => OnceOK(s)'
        BY <1>4, MergeOnce DEF MergerCrash, Happens, Steady
    <2>2. (\A t \in Shards \ {s} : Same(t) /\ saved'[t] = saved[t]) /\ ended \subseteq ended'
        BY <1>4, OthersStay
    <2> QED
        BY <1>1, <2>1, <2>2, OnceShard
<1>5. CASE UNCHANGED vars
    BY <1>5 DEF vars, OnceInv, OnceOK, MergerOK, UnsavedOK, Once, Reported, Stale, PartsOf, Target
<1> QED
    BY <1>2, <1>3, <1>4, <1>5 DEF Next

LEMMA OnceInvariant == Spec => []OnceInv
BY InitOnce, OnceStep, TypesInvariant, PTL DEF Spec

(* No trace file counts twice while its process has a state, for any       *)
(* number of shards, processes and files: whatever workers are killed, and *)
(* however often the files they saved are offered again.                   *)
THEOREM NothingCountsTwice == Spec => []NeverTwice
<1>1. OnceInv => NeverTwice
    BY DEF OnceInv, OnceOK, Once, NeverTwice
<1> QED
    BY <1>1, OnceInvariant, PTL

-----------------------------------------------------------------------------
(* No file is lost.                                                        *)

(* No file was damaged or kept, and no merger was killed.                  *)
Calm == happened \subseteq {"overlap", "own", "crash"}

LEMMA KeptIs ==
    ASSUME NEW s, NEW f, trace.home[f[1]] = s
    PROVE  Kept(f) = Reported(s, f) + Copies(f, State(s, f[1]).report)
                     + (IF worker[s].pc = "saved" THEN 0 ELSE Copies(f, worker[s].report))
BY DEF Kept

LEMMA KeptAfter ==
    ASSUME NEW s, NEW f, trace.home[f[1]] = s, trace' = trace
    PROVE  Kept(f)' = Reported(s, f)' + Copies(f, (State(s, f[1])').report)
                      + (IF worker'[s].pc = "saved" THEN 0 ELSE Copies(f, worker'[s].report))
BY DEF Kept, State, Reported, PartsOf, Stale

(* What FileOK and WaitingOK say of a file does not change as long as the  *)
(* state of its process and its copies stay.                               *)
LEMMA StillKept ==
    ASSUME NEW s, NEW f \in Files, trace.home[f[1]] = s, trace' = trace,
           f \in inbox' \ worker'[s].seen <=> f \in inbox \ worker[s].seen,
           State(s, f[1])' = State(s, f[1]), Kept(f)' = Kept(f)
    PROVE  /\ FileOK(f) => FileOK(f)'
           /\ WaitingOK(f) => WaitingOK(f)'
<1>1. Unfinished(f)' = Unfinished(f)
    BY DEF Unfinished
<1>2. FileOK(f) => FileOK(f)'
    <2>1. State(s, f[1])'.ordinal = State(s, f[1]).ordinal
        OBVIOUS
    <2>2. FileOK(f) <=> IF f \in inbox \ worker[s].seen
                        THEN f[2] > State(s, f[1]).ordinal /\ Kept(f) = 0
                        ELSE Kept(f) = 1 \/ (Kept(f) = 0 /\ Unfinished(f))
        BY DEF FileOK
    <2>3. FileOK(f)' <=> IF f \in inbox' \ worker'[s].seen
                         THEN f[2] > State(s, f[1])'.ordinal /\ Kept(f)' = 0
                         ELSE Kept(f)' = 1 \/ (Kept(f)' = 0 /\ Unfinished(f)')
        BY DEF FileOK, State
    <2> QED
        BY <1>1, <2>2, <2>3
<1>3. WaitingOK(f) => WaitingOK(f)'
    BY DEF WaitingOK, State
<1> QED
    BY <1>2, <1>3

(* What counts as kept, piece by piece.                                    *)
LEMMA KeptSame ==
    ASSUME NEW s, NEW f, trace.home[f[1]] = s, trace' = trace,
           Reported(s, f)' = Reported(s, f), State(s, f[1])' = State(s, f[1]),
           worker'[s].report = worker[s].report,
           worker'[s].pc = "saved" <=> worker[s].pc = "saved"
    PROVE  Kept(f)' = Kept(f)
BY KeptIs, KeptAfter

LEMMA InitKept == Init => KeptInv
<1> SUFFICES ASSUME Init PROVE KeptInv
    OBVIOUS
<1>1. TypeInv
    BY InitTypes
<1>2. ASSUME NEW s \in Shards PROVE KeptOK(s) /\ DiskOK(s)
    <2>1. /\ worker[s] = NoWorker /\ merger[s] = NoMerger /\ parts[s] = {}
          /\ merged[s].report = EmptyBag /\ \A p \in Procs : saved[s][p] = Initial
        BY DEF Init
    <2>2. SavedOK(s)
        BY <2>1, NoWorkerTyped DEF SavedOK
    <2>3. ASSUME NEW f \in Files, trace.home[f[1]] = s, f[2] <= trace.size[f[1]]
          PROVE  FileOK(f) /\ WaitingOK(f)
        <3>1. Unmerged(s) = {}
            BY <2>1 DEF Unmerged, PartsOf
        <3>2. Reported(s, f) = 0
            <4>1. Reported(s, f) = Copies(f, merged[s].report) + Count(f, Unmerged(s))
                BY <1>1, ReportedIs
            <4>2. Copies(f, merged[s].report) = 0 /\ Count(f, Unmerged(s)) = 0
                BY <2>1, <3>1, CountNone, EmptyReport
            <4> QED
                BY <4>1, <4>2
        <3>3. State(s, f[1]) = Initial
            BY <2>1, FileParts, NoWorkerTyped DEF State
        <3>4. Kept(f) = 0
            BY <2>1, <2>3, <3>2, <3>3, KeptIs, NoWorkerTyped, InitialTyped, EmptyReport
        <3>5. f \in inbox \ worker[s].seen /\ f[2] > 0
            BY <2>1, <2>3, NoWorkerTyped, BoundsAssumption DEF Init, Files
        <3>6. FileOK(f)
            BY <2>3, <3>3, <3>4, <3>5, InitialTyped DEF FileOK
        <3>7. WaitingOK(f)
            BY <2>3, <3>3, InitialTyped, EmptyReport DEF WaitingOK
        <3> QED
            BY <3>6, <3>7
    <2>4. DiskOK(s)
        BY <2>1, NoWorkerTyped DEF DiskOK
    <2> QED
        BY <2>2, <2>3, <2>4 DEF KeptOK
<1> QED
    BY <1>2 DEF KeptInv

(* What a worker that is killed leaves of a file stays as it is, as long   *)
(* as nothing is saved for its process.                                    *)
LEMMA StillOnDisk ==
    ASSUME NEW s, NEW f \in Files, trace.home[f[1]] = s, trace' = trace,
           f \in inbox' <=> f \in inbox, saved'[s][f[1]] = saved[s][f[1]],
           Reported(s, f)' = Reported(s, f), DiskFileOK(f)
    PROVE  DiskFileOK(f)'
<1> DEFINE st == saved[s][f[1]]
           n == Reported(s, f) + Copies(f, st.report)
<1>1. Unfinished(f)' = Unfinished(f)
    BY DEF Unfinished
<1>2. DiskFileOK(f) <=>
         /\ IF f \in inbox THEN f[2] > st.ordinal /\ n = 0
            ELSE n = 1 \/ (n = 0 /\ Unfinished(f))
         /\ f \in DOMAIN st.report =>
               /\ f \in trace.open
               /\ \A m \in f[2] + 1 .. st.ordinal : <<f[1], m>> \notin trace.changes
    BY DEF DiskFileOK
<1>3. DiskFileOK(f)' <=>
         /\ IF f \in inbox' THEN f[2] > st.ordinal /\ n = 0
            ELSE n = 1 \/ (n = 0 /\ Unfinished(f)')
         /\ f \in DOMAIN st.report =>
               /\ f \in trace.open
               /\ \A m \in f[2] + 1 .. st.ordinal : <<f[1], m>> \notin trace.changes
    BY DEF DiskFileOK, Reported, Stale, PartsOf
<1> QED
    BY <1>1, <1>2, <1>3

LEMMA DiskStays ==
    ASSUME TypeInv, NEW s \in Shards, DiskOK(s), UNCHANGED <<trace, inbox>>, torn \subseteq torn',
           worker'[s].pc \in {"work", "states", "reports"} =>
              /\ worker[s].pc \in {"work", "states", "reports"}
              /\ HalfSaved(s) \subseteq HalfSaved(s)'
              /\ \A p \in Procs \ HalfSaved(s)' : saved'[s][p] = saved[s][p]
              /\ \A f \in Files : Reported(s, f)' = Reported(s, f)
    PROVE  DiskOK(s)'
<1> SUFFICES ASSUME worker'[s].pc \in {"work", "states", "reports"},
                    NEW f \in Files, trace.home[f[1]] = s, f[2] <= trace.size[f[1]],
                    f[1] \notin torn' \cup HalfSaved(s)'
             PROVE  DiskFileOK(f)'
    BY DEF DiskOK
<1>1. f[1] \in Procs \ HalfSaved(s)'
    BY FileParts
<1>2. DiskFileOK(f)
    BY DEF DiskOK
<1> QED
    BY <1>1, <1>2, StillOnDisk

(* A shard without a worker: what counts is on disk.                       *)
LEMMA Alone ==
    ASSUME TypeInv, NEW s \in Shards, worker[s] = NoWorker, NEW f \in Files, trace.home[f[1]] = s,
           FileOK(f), WaitingOK(f)
    PROVE  DiskFileOK(f)
<1>1. State(s, f[1]) = saved[s][f[1]]
    BY FileParts, NoWorkerTyped DEF State
<1>2. Kept(f) = Reported(s, f) + Copies(f, saved[s][f[1]].report)
    <2>1. Kept(f) = Reported(s, f) + Copies(f, saved[s][f[1]].report) + 0
        BY <1>1, KeptIs, NoWorkerTyped, EmptyReport
    <2>2. Reported(s, f) \in Nat /\ Copies(f, State(s, f[1]).report) \in Nat
        BY CopiesTyped
    <2> QED
        BY <1>1, <2>1, <2>2
<1> QED
    BY <1>1, <1>2, NoWorkerTyped DEF FileOK, WaitingOK, DiskFileOK

LEMMA KeptShard ==
    ASSUME TypeInv, KeptInv, happened \subseteq happened', UNCHANGED trace,
           NEW s \in Shards, \A t \in Shards \ {s} : Same(t) /\ saved'[t] = saved[t],
           Calm' /\ SavedOK(s) =>
              \A f \in Files : trace.home[f[1]] # s => (f \in inbox' <=> f \in inbox),
           torn \subseteq torn',
           Calm' /\ KeptOK(s) /\ DiskOK(s) => KeptOK(s)' /\ DiskOK(s)'
    PROVE  KeptInv'
<1> SUFFICES ASSUME Calm' PROVE \A t \in Shards : KeptOK(t)' /\ DiskOK(t)'
    BY DEF KeptInv, Calm
<1>1. \A t \in Shards : KeptOK(t) /\ DiskOK(t)
    BY DEF KeptInv, Calm
<1>2. ASSUME NEW t \in Shards \ {s} PROVE KeptOK(t)' /\ DiskOK(t)'
    <2>1. worker'[t] = worker[t] /\ saved'[t] = saved[t] /\ KeptOK(t)
        BY <1>1 DEF Same
    <2>2. SavedOK(t)'
        BY <2>1 DEF KeptOK, SavedOK
    <2>3. ASSUME NEW f \in Files, trace.home[f[1]] = t, f[2] <= trace.size[f[1]],
                 f[1] \notin torn'
          PROVE  FileOK(f)' /\ WaitingOK(f)'
        <3>1. f \in inbox' <=> f \in inbox
            BY <1>1, <2>3 DEF KeptOK
        <3>2. State(t, f[1])' = State(t, f[1])
            BY <2>1 DEF State
        <3>3. Reported(t, f)' = Reported(t, f)
            BY DEF Same, Reported, Stale, PartsOf
        <3>4. Kept(f)' = Kept(f)
            BY <2>1, <2>3, <3>2, <3>3, KeptIs, KeptAfter
        <3> QED
            BY <2>1, <2>3, <3>1, <3>2, <3>4, StillKept DEF KeptOK
    <2>4. KeptOK(t)'
        BY <2>2, <2>3 DEF KeptOK
    <2>5. ASSUME worker'[t].pc \in {"work", "states", "reports"},
                 NEW f \in Files, trace.home[f[1]] = t, f[2] <= trace.size[f[1]],
                 f[1] \notin torn' \cup HalfSaved(t)'
          PROVE  DiskFileOK(f)'
        <3>1. DiskFileOK(f)
            BY <1>1, <2>1, <2>5 DEF DiskOK, HalfSaved
        <3>2. f \in inbox' <=> f \in inbox
            BY <1>1, <2>5 DEF KeptOK
        <3>3. Reported(t, f)' = Reported(t, f)
            BY DEF Same, Reported, Stale, PartsOf
        <3> QED
            BY <2>1, <2>5, <3>1, <3>2, <3>3, StillOnDisk
    <2> QED
        BY <2>4, <2>5 DEF DiskOK
<1> QED
    BY <1>1, <1>2

(* A step that keeps every state and what is kept of every file.           *)
LEMMA KeptStays ==
    ASSUME TypeInv, NEW s \in Shards, KeptOK(s), UNCHANGED <<trace, torn, inbox>>,
           worker'[s].seen = worker[s].seen, SavedOK(s)',
           \A p \in Procs : State(s, p)' = State(s, p),
           \A f \in Files : trace.home[f[1]] = s => Kept(f)' = Kept(f)
    PROVE  KeptOK(s)'
<1>1. ASSUME NEW f \in Files, trace.home[f[1]] = s, f[2] <= trace.size[f[1]], f[1] \notin torn
      PROVE  FileOK(f)' /\ WaitingOK(f)'
    <2>1. f[1] \in Procs
        BY FileParts
    <2>2. State(s, f[1])' = State(s, f[1]) /\ Kept(f)' = Kept(f)
        BY <1>1, <2>1
    <2>3. FileOK(f) /\ WaitingOK(f)
        BY <1>1 DEF KeptOK
    <2> QED
        BY <1>1, <2>2, <2>3, StillKept
<1> QED
    BY <1>1 DEF KeptOK

LEMMA StartKept ==
    ASSUME TypeInv, NEW s \in Shards, KeptOK(s), Start(s)
    PROVE  KeptOK(s)' /\ DiskOK(s)'
<1>1. worker'[s] = [NoWorker EXCEPT !.pc = "work", !.known = Known(s)] /\ worker[s] = NoWorker
    BY DEF Start, TypeInv, WorkerOK
<1>2. /\ worker'[s].pc = "work" /\ worker'[s].states = NoWorker.states
      /\ worker'[s].unsaved = {} /\ worker'[s].report = EmptyBag /\ worker'[s].seen = {}
      /\ worker'[s].failed = {}
    BY <1>1, NoWorkerTyped DEF WorkerTypes
<1>3. UNCHANGED <<trace, torn, inbox, saved, parts, merged, merger>>
    BY DEF Start
<1>4. \A p \in Procs : State(s, p)' = State(s, p)
    BY <1>1, <1>2, <1>3 DEF State
<1>5. SavedOK(s)'
    BY <1>2, NoWorkerTyped DEF SavedOK
<1>6. ASSUME NEW f \in Files, trace.home[f[1]] = s PROVE Kept(f)' = Kept(f)
    <2>1. Reported(s, f)' = Reported(s, f)
        BY <1>3 DEF Reported, Stale, PartsOf
    <2>2. worker'[s].report = worker[s].report /\ worker'[s].pc # "saved" /\ worker[s].pc # "saved"
        BY <1>1, <1>2, NoWorkerTyped
    <2>3. State(s, f[1])' = State(s, f[1])
        BY <1>4, FileParts
    <2> QED
        BY <1>3, <1>6, <2>1, <2>2, <2>3, KeptSame
<1>7. KeptOK(s)'
    BY <1>1, <1>2, <1>3, <1>4, <1>5, <1>6, NoWorkerTyped, KeptStays
<1>8. ASSUME NEW f \in Files, trace.home[f[1]] = s, f[2] <= trace.size[f[1]], f[1] \notin torn
      PROVE  DiskFileOK(f)'
    <2>1. DiskFileOK(f)
        BY <1>1, <1>8, Alone DEF KeptOK
    <2>2. Reported(s, f)' = Reported(s, f)
        BY <1>3 DEF Reported, Stale, PartsOf
    <2> QED
        BY <1>3, <1>8, <2>1, <2>2, StillOnDisk
<1>9. DiskOK(s)'
    BY <1>3, <1>8 DEF DiskOK
<1> QED
    BY <1>7, <1>9

LEMMA SaveStateKept ==
    ASSUME TypeInv, NEW s \in Shards, NEW p \in Procs, KeptOK(s), SaveState(s, p)
    PROVE  KeptOK(s)'
<1>1. worker[s] \in WorkerTypes /\ p \in worker[s].unsaved /\ p \in DOMAIN worker[s].states
    BY DEF TypeInv, SaveState, WorkerOK
<1>2. /\ worker'[s].pc = worker[s].pc /\ worker'[s].states = worker[s].states
      /\ worker'[s].unsaved = worker[s].unsaved \ {p} /\ worker'[s].report = worker[s].report
      /\ worker'[s].seen = worker[s].seen /\ worker'[s].failed = worker[s].failed
    BY <1>1 DEF SaveState, TypeInv, WorkerTypes
<1>3. UNCHANGED <<trace, torn, inbox, parts, merged, merger>>
    BY DEF SaveState
<1>4. /\ saved'[s][p] = IF Ends(s, p) THEN Initial ELSE worker[s].states[p]
      /\ \A q \in Procs \ {p} : saved'[s][q] = saved[s][q]
    BY DEF SaveState, TypeInv
<1>5. \A q \in Procs : State(s, q)' = State(s, q)
    BY <1>1, <1>2, <1>4 DEF State
<1>6. SavedOK(s)'
    <2>1. SavedOK(s) /\ DOMAIN worker[s].states \subseteq Procs
        BY StatesTyped DEF KeptOK
    <2>2. ASSUME NEW q \in DOMAIN worker[s].states \ (worker[s].unsaved \ {p})
          PROVE  saved'[s][q] = IF worker[s].states[q].ordinal = trace.size[q] THEN Initial
                                ELSE worker[s].states[q]
        BY <1>4, <2>1 DEF SavedOK, Ends
    <2> QED
        BY <1>2, <1>3, <2>1, <2>2 DEF SavedOK
<1>7. ASSUME NEW f \in Files, trace.home[f[1]] = s PROVE Kept(f)' = Kept(f)
    <2>1. Reported(s, f)' = Reported(s, f)
        BY <1>3 DEF Reported, Stale, PartsOf
    <2>2. State(s, f[1])' = State(s, f[1])
        BY <1>5, FileParts
    <2> QED
        BY <1>2, <1>3, <1>7, <2>1, <2>2, KeptSame
<1> QED
    BY <1>2, <1>3, <1>5, <1>6, <1>7, KeptStays


LEMMA SaveMetadataKept ==
    ASSUME TypeInv, NEW s \in Shards, KeptOK(s), SaveGenealogy(s) \/ SaveSources(s)
    PROVE  KeptOK(s)'
<1>1. worker[s] \in WorkerTypes /\ ShapeInv
    BY DEF TypeInv
<1>2. /\ worker'[s].states = worker[s].states /\ worker'[s].unsaved = worker[s].unsaved
      /\ worker'[s].report = worker[s].report /\ worker'[s].seen = worker[s].seen
      /\ worker'[s].failed = worker[s].failed
      /\ worker[s].pc # "saved" /\ worker'[s].pc # "saved"
    BY <1>1 DEF SaveGenealogy, SaveSources, TypeInv, WorkerTypes
<1>3. UNCHANGED <<trace, torn, inbox, saved, merged, merger>>
    BY DEF SaveGenealogy, SaveSources
<1>4. \A q \in Procs : State(s, q)' = State(s, q)
    BY <1>2, <1>3 DEF State
<1>5. SavedOK(s)'
    BY <1>2, <1>3 DEF KeptOK, SavedOK
<1>6. PartsOf(s, "report")' = PartsOf(s, "report")
    BY <1>1, MetadataParts
<1>7. ASSUME NEW f \in Files, trace.home[f[1]] = s PROVE Kept(f)' = Kept(f)
    <2>1. Reported(s, f)' = Reported(s, f)
        BY <1>3, <1>6, SameReported
    <2>2. State(s, f[1])' = State(s, f[1])
        BY <1>4, FileParts
    <2> QED
        BY <1>2, <1>3, <1>7, <2>1, <2>2, KeptSame
<1> QED
    BY <1>2, <1>3, <1>4, <1>5, <1>7, KeptStays

(* What the worker counted is in a part from now on.                       *)
LEMMA SaveReportKept ==
    ASSUME TypeInv, NEW s \in Shards, KeptOK(s), SaveReport(s)
    PROVE  KeptOK(s)'
<1>1. worker[s] \in WorkerTypes /\ worker[s].pc = "reports"
    BY DEF TypeInv, SaveReport
<1>2. /\ worker'[s].states = worker[s].states /\ worker'[s].unsaved = worker[s].unsaved
      /\ worker'[s].seen = worker[s].seen /\ worker'[s].failed = worker[s].failed
      /\ worker'[s].pc = "saved"
    BY <1>1 DEF SaveReport, TypeInv, WorkerTypes
<1>3. UNCHANGED <<trace, torn, inbox, saved>>
    BY DEF SaveReport
<1>4. \A q \in Procs : State(s, q)' = State(s, q)
    BY <1>2, <1>3 DEF State
<1>5. SavedOK(s)'
    BY <1>2, <1>3 DEF KeptOK, SavedOK
<1>6. ASSUME NEW f \in Files, trace.home[f[1]] = s PROVE Kept(f)' = Kept(f)
    <2>1. Reported(s, f)' = Reported(s, f) + Copies(f, worker[s].report)
        BY SavedReport
    <2>2. State(s, f[1])' = State(s, f[1])
        BY <1>4, FileParts
    <2>3. Kept(f) = Reported(s, f) + Copies(f, State(s, f[1]).report) + Copies(f, worker[s].report)
        BY <1>1, <1>6, KeptIs
    <2>4. Kept(f)' = Reported(s, f)' + Copies(f, State(s, f[1]).report) + 0
        BY <1>2, <1>3, <1>6, <2>2, KeptAfter
    <2>5. /\ Reported(s, f) \in Nat /\ Copies(f, worker[s].report) \in Nat
          /\ Copies(f, State(s, f[1]).report) \in Nat
        BY CopiesTyped
    <2> QED
        BY <2>1, <2>3, <2>4, <2>5
<1> QED
    BY <1>2, <1>3, <1>4, <1>5, <1>6, KeptStays

LEMMA MergeKept ==
    ASSUME TypeInv, TypeInv', NEW s \in Shards, MergerOK(s), KeptOK(s),
           MergeMetadata(s) \/ MergeOwn(s) \/ MergeReport(s) \/ Unlink(s)
    PROVE  KeptOK(s)'
<1>1. UNCHANGED <<trace, torn, inbox, saved, worker>>
    BY DEF MergeMetadata, LoadGenealogy, LoadSources, SaveMerged, MergeOwn, MergeReport,
           LoadReports, SaveAggregate, Unlink
<1>2. \A q \in Procs : State(s, q)' = State(s, q)
    BY <1>1 DEF State
<1>3. SavedOK(s)'
    BY <1>1 DEF KeptOK, SavedOK
<1>4. ASSUME NEW f \in Files, trace.home[f[1]] = s PROVE Kept(f)' = Kept(f)
    <2>1. Reported(s, f)' = Reported(s, f)
        BY MergeKeepsReported
    <2>2. State(s, f[1])' = State(s, f[1])
        BY <1>2, FileParts
    <2> QED
        BY <1>1, <1>4, <2>1, <2>2, KeptSame
<1> QED
    BY <1>1, <1>2, <1>3, <1>4, KeptStays


(* The samples that wait behind a file waited before, unless sections      *)
(* changed, or are those at its end, if a section is open.                 *)
LEMMA WaitingFiles ==
    ASSUME TypeInv, NEW s \in Shards, NEW f \in Files, NEW g \in DOMAIN Waiting(s, f)
    PROVE  \/ g \in DOMAIN State(s, f[1]).report /\ f \notin trace.changes
           \/ g = f /\ f \in trace.open
<1> DEFINE b == IF f \in trace.changes THEN EmptyBag ELSE State(s, f[1]).report
           c == IF f \in trace.open THEN SetToBag({f}) ELSE EmptyBag
<1>1. State(s, f[1]).report \in Reports
    BY FileParts, StatesTyped, StateReport
<1>2. b \in Reports /\ c \in Reports
    BY <1>1, EmptyReport, OneFile
<1>3. Waiting(s, f) = b (+) c
    BY DEF Waiting
<1>4. g \in DOMAIN b => g \in DOMAIN State(s, f[1]).report /\ f \notin trace.changes
    BY EmptyReport
<1>5. g \in DOMAIN c => g = f /\ f \in trace.open
    BY EmptyReport, OneFile
<1> HIDE DEF b, c
<1>6. DOMAIN (b (+) c) = DOMAIN b \cup DOMAIN c
    BY <1>2, AddReports
<1> QED
    BY <1>3, <1>4, <1>5, <1>6

(* A file that is read is accounted for, the others stay as they were.     *)
LEMMA ProcessKept ==
    ASSUME TypeInv, NEW s \in Shards, NEW f \in Files, UnsavedOK(s), KeptOK(s), Process(s, f)
    PROVE  KeptOK(s)'
<1> DEFINE p == f[1]
<1>1. /\ worker[s] \in WorkerTypes /\ worker[s].pc = "work" /\ p \in Procs /\ f[2] \in Nat
      /\ trace.home[p] = s /\ f \in inbox \ worker[s].seen /\ f[2] = State(s, p).ordinal + 1
    BY FileParts DEF TypeInv, Process, Offered, CanProcess
<1>2. /\ worker'[s].pc = "work"
      /\ worker'[s].states =
            SetState(worker[s], p, [ordinal |-> f[2], report |-> Waiting(s, f)])
      /\ worker'[s].unsaved = worker[s].unsaved \cup {p}
      /\ worker'[s].seen = worker[s].seen \cup {f} /\ worker'[s].failed = worker[s].failed
      /\ worker'[s].report = worker[s].report (+) Counted(s, f)
    BY <1>1 DEF Process, TypeInv, WorkerTypes
<1>3. UNCHANGED <<trace, torn, inbox, saved, parts, merged, merger>>
    BY DEF Process
<1>4. /\ DOMAIN worker'[s].states = worker[s].unsaved \cup {p}
      /\ worker'[s].states[p] = [ordinal |-> f[2], report |-> Waiting(s, f)]
      /\ \A q \in worker[s].unsaved \ {p} : worker'[s].states[q] = worker[s].states[q]
      /\ DOMAIN worker[s].states = worker[s].unsaved
    BY <1>1, <1>2 DEF UnsavedOK, SetState
<1>5. State(s, p)' = [ordinal |-> f[2], report |-> Waiting(s, f)]
    BY <1>4 DEF State
<1>6. \A q \in Procs \ {p} : State(s, q)' = State(s, q)
    BY <1>3, <1>4 DEF State
<1>7. SavedOK(s)'
    BY <1>1, <1>2, <1>3, <1>4 DEF KeptOK, SavedOK
<1>8. ASSUME NEW g \in Files, trace.home[g[1]] = s
      PROVE  Kept(g) \in Nat /\ Kept(g)' = Kept(g) + (IF g = f THEN 1 ELSE 0)
    <2>1. Kept(g) = Reported(s, g) + Copies(g, State(s, g[1]).report) + Copies(g, worker[s].report)
        BY <1>1, <1>8, KeptIs
    <2>2. Kept(g)' = Reported(s, g)' + Copies(g, (State(s, g[1])').report)
                     + Copies(g, worker'[s].report)
        BY <1>2, <1>3, <1>8, KeptAfter
    <2>3. Reported(s, g)' = Reported(s, g)
        BY <1>3 DEF Reported, Stale, PartsOf
    <2>4. /\ Copies(g, Counted(s, f)) \in Nat /\ Copies(g, Waiting(s, f)) \in Nat
          /\ Copies(g, Counted(s, f)) + Copies(g, Waiting(s, f)) =
                Copies(g, State(s, p).report) + (IF g = f THEN 1 ELSE 0)
          /\ g[1] # p => Copies(g, Counted(s, f)) = 0
          /\ Copies(g, worker'[s].report) = Copies(g, worker[s].report) + Copies(g, Counted(s, f))
        BY <1>2, ReadCopies
    <2>5. /\ Reported(s, g) \in Nat /\ Copies(g, worker[s].report) \in Nat /\ g[1] \in Procs
          /\ Copies(g, State(s, g[1]).report) \in Nat
        BY CopiesTyped
    <2>6. CASE g[1] # p
        <3>1. State(s, g[1])' = State(s, g[1]) /\ g # f
            BY <1>6, <2>5, <2>6
        <3> QED
            BY <2>1, <2>2, <2>3, <2>4, <2>5, <2>6, <3>1
    <2>7. CASE g[1] = p
        <3>1. (State(s, g[1])').report = Waiting(s, f)
            BY <1>5, <2>7
        <3> QED
            BY <2>1, <2>2, <2>3, <2>4, <2>5, <2>7, <3>1
    <2> QED
        BY <2>6, <2>7
<1>9. ASSUME NEW g \in Files, trace.home[g[1]] = s, g[2] <= trace.size[g[1]], g[1] \notin torn
      PROVE  FileOK(g)' /\ WaitingOK(g)'
    <2>1. FileOK(g) /\ WaitingOK(g) /\ g[1] \in Procs /\ g[2] \in Nat /\ g = <<g[1], g[2]>>
        BY <1>9, FileParts DEF KeptOK
    <2>2. Kept(g) \in Nat /\ Kept(g)' = Kept(g) + (IF g = f THEN 1 ELSE 0)
        BY <1>8, <1>9
    <2>3. CASE g[1] # p
        <3>1. State(s, g[1])' = State(s, g[1]) /\ Kept(g)' = Kept(g) /\ g # f
            BY <1>6, <2>1, <2>2, <2>3
        <3>2. f # g /\ (g \in inbox' \ worker'[s].seen <=> g \in inbox \ worker[s].seen)
            BY <1>2, <1>3, <3>1
        <3> QED
            BY <1>3, <1>9, <2>1, <3>1, <3>2, StillKept
    <2>4. CASE g[1] = p
        <3>1. (State(s, g[1])').ordinal = f[2] /\ (State(s, g[1])').report = Waiting(s, f)
            BY <1>5, <2>4
        <3>2. FileOK(g)'
            <4>1. FileOK(g)' <=> IF g \in inbox \ (worker[s].seen \cup {f})
                                 THEN g[2] > f[2] /\ Kept(g)' = 0
                                 ELSE Kept(g)' = 1 \/ (Kept(g)' = 0 /\ Unfinished(g))
                BY <1>2, <1>3, <1>9, <3>1 DEF FileOK, State, Unfinished
            <4>2. IF g \in inbox \ worker[s].seen
                  THEN g[2] > State(s, p).ordinal /\ Kept(g) = 0
                  ELSE Kept(g) = 1 \/ (Kept(g) = 0 /\ Unfinished(g))
                BY <1>9, <2>1, <2>4 DEF FileOK
            <4>3. CASE g = f
                BY <1>1, <2>2, <4>1, <4>2, <4>3
            <4>4. CASE g # f
                <5>1. g[2] # f[2] /\ State(s, p).ordinal \in Nat
                    BY <2>1, <2>4, <4>4, FileParts, CopiesTyped
                <5> QED
                    BY <1>1, <2>1, <2>2, <4>1, <4>2, <4>4, <5>1
            <4> QED
                BY <4>3, <4>4
        <3>3. WaitingOK(g)'
            <4> SUFFICES ASSUME g \in DOMAIN Waiting(s, f)
                         PROVE  /\ g \in trace.open
                                /\ \A n \in g[2] + 1 .. f[2] : <<g[1], n>> \notin trace.changes
                BY <1>3, <1>9, <3>1 DEF WaitingOK, State
            <4>1. CASE g \in DOMAIN State(s, p).report /\ f \notin trace.changes
                <5>1. /\ g \in trace.open
                      /\ \A n \in g[2] + 1 .. State(s, p).ordinal : <<p, n>> \notin trace.changes
                    BY <1>9, <2>1, <2>4, <4>1 DEF WaitingOK
                <5>2. <<p, f[2]>> \notin trace.changes /\ State(s, p).ordinal \in Nat
                    BY <4>1, FileParts, CopiesTyped
                <5> QED
                    BY <1>1, <2>1, <2>4, <5>1, <5>2
            <4>2. CASE g = f /\ f \in trace.open
                BY <2>1, <4>2
            <4> QED
                BY <4>1, <4>2, WaitingFiles
        <3> QED
            BY <3>2, <3>3
    <2> QED
        BY <2>3, <2>4
<1> QED
    BY <1>3, <1>7, <1>9 DEF KeptOK


(* The states of ended streams are gone with the worker; what waited in    *)
(* them waited for the end of a section that never comes.                  *)
LEMMA FinishKept ==
    ASSUME TypeInv, NEW s \in Shards, UnsavedOK(s), KeptOK(s), Finish(s), Calm'
    PROVE  KeptOK(s)'
<1>1. /\ worker[s].pc = "saved" /\ worker[s].unsaved = {} /\ worker'[s] = NoWorker
      /\ inbox' = inbox \ worker[s].seen
      /\ UNCHANGED <<trace, torn, saved, parts, merged, merger>>
    BY DEF Finish, Happens, Calm, UnsavedOK, TypeInv
<1> DEFINE Ended(p) == p \in DOMAIN worker[s].states /\ State(s, p).ordinal = trace.size[p]
<1>2. ASSUME NEW p \in Procs
      PROVE  State(s, p)' = IF Ended(p) THEN Initial ELSE State(s, p)
    <2>1. State(s, p)' = saved[s][p]
        BY <1>1, NoWorkerTyped DEF State
    <2> QED
        BY <1>1, <2>1 DEF State, KeptOK, SavedOK
<1>3. SavedOK(s)'
    BY <1>1, NoWorkerTyped DEF SavedOK
<1>4. ASSUME NEW g \in Files, trace.home[g[1]] = s, g[2] <= trace.size[g[1]], g[1] \notin torn
      PROVE  FileOK(g)' /\ WaitingOK(g)'
    <2> DEFINE p == g[1]
               k == Reported(s, g)
               c == Copies(g, State(s, p).report)
    <2>1. FileOK(g) /\ WaitingOK(g) /\ p \in Procs /\ g[2] \in Nat
        BY <1>4, FileParts DEF KeptOK
    <2>2. g \in inbox' \ worker'[s].seen <=> g \in inbox \ worker[s].seen
        BY <1>1, NoWorkerTyped
    <2>3. k \in Nat /\ c \in Nat /\ Kept(g) = k + c
        <3>1. Kept(g) = k + c + 0
            BY <1>1, <1>4, KeptIs
        <3> QED
            BY <3>1, CopiesTyped
    <2>4. Kept(g)' = k + Copies(g, (State(s, p)').report) + 0
        <3>1. Reported(s, g)' = Reported(s, g)
            BY <1>1 DEF Reported, Stale, PartsOf
        <3>2. worker'[s].pc # "saved" /\ Copies(g, worker'[s].report) = 0
            BY <1>1, NoWorkerTyped, EmptyReport
        <3> QED
            BY <1>1, <1>4, <3>1, <3>2, KeptAfter
    <2>5. CASE ~ Ended(p)
        <3>1. State(s, p)' = State(s, p)
            BY <1>2, <2>1, <2>5
        <3>2. Kept(g)' = Kept(g)
            BY <2>3, <2>4, <3>1
        <3> QED
            BY <1>1, <1>4, <2>1, <2>2, <3>1, <3>2, StillKept
    <2>6. CASE Ended(p)
        <3>1. State(s, p)' = Initial /\ State(s, p).ordinal = trace.size[p]
            BY <1>2, <2>1, <2>6
        <3>2. Kept(g)' = k
            <4>1. Copies(g, (State(s, p)').report) = 0
                BY <3>1, InitialTyped, EmptyReport
            <4> QED
                BY <2>3, <2>4, <4>1
        <3>3. c # 0 => Unfinished(g)
            <4> SUFFICES ASSUME c # 0 PROVE Unfinished(g)
                OBVIOUS
            <4>1. State(s, p).report \in Reports
                BY <2>1, StatesTyped, StateReport
            <4>2. g \in DOMAIN State(s, p).report
                BY <4>1, CopiesType
            <4> QED
                BY <1>4, <2>1, <3>1, <4>2 DEF WaitingOK, Unfinished
        <3>4. g \notin inbox \ worker[s].seen /\ (Kept(g) = 1 \/ (Kept(g) = 0 /\ Unfinished(g)))
            <4>1. ~ (g[2] > State(s, p).ordinal)
                <5>1. State(s, p).ordinal \in Nat
                    BY CopiesTyped
                <5> QED
                    BY <1>4, <2>1, <3>1, <5>1
            <4> QED
                BY <1>4, <2>1, <4>1 DEF FileOK
        <3>5. k = 1 \/ (k = 0 /\ Unfinished(g))
            <4> HIDE DEF k, c
            <4> QED
                BY <2>3, <3>3, <3>4
        <3>6. FileOK(g)'
            BY <1>1, <1>4, <2>2, <3>2, <3>4, <3>5 DEF FileOK, Unfinished
        <3>7. WaitingOK(g)'
            BY <1>1, <1>4, <3>1, InitialTyped, EmptyReport DEF WaitingOK, State
        <3> QED
            BY <3>6, <3>7
    <2> QED
        BY <2>5, <2>6
<1> QED
    BY <1>1, <1>3, <1>4 DEF KeptOK

(* No step but the start of a worker needs more of what is on disk.        *)
LEMMA WorkerDisk ==
    ASSUME TypeInv, NEW s \in Shards, UnsavedOK(s), DiskOK(s),
           \/ Save(s) \/ Crash(s)
           \/ \E f \in Files : Process(s, f)
    PROVE  DiskOK(s)'
<1>1. worker[s] \in WorkerTypes /\ ShapeInv
    BY DEF TypeInv
<1>2. CASE SaveReport(s) \/ Finish(s) \/ Crash(s)
    <2>1. worker'[s].pc \in {"saved", "off"}
        BY <1>1, <1>2, NoWorkerTyped DEF SaveReport, Finish, Crash, ShapeInv, WorkerTypes
    <2> QED
        BY <2>1 DEF DiskOK
<1>3. CASE SaveGenealogy(s) \/ SaveSources(s)
    <2>1. /\ worker'[s].states = worker[s].states /\ worker'[s].unsaved = worker[s].unsaved
          /\ worker[s].pc \in {"work", "states"} /\ worker'[s].pc # "work"
        BY <1>1, <1>3 DEF SaveGenealogy, SaveSources, ShapeInv, WorkerTypes
    <2>2. UNCHANGED <<trace, torn, inbox, saved, merged, merger>>
        BY <1>3 DEF SaveGenealogy, SaveSources
    <2>3. PartsOf(s, "report")' = PartsOf(s, "report")
        BY <1>1, <1>3, MetadataParts
    <2>4. \A f \in Files : Reported(s, f)' = Reported(s, f)
        BY <2>2, <2>3, SameReported
    <2>5. HalfSaved(s) \subseteq HalfSaved(s)'
        BY <2>1 DEF HalfSaved
    <2> QED
        BY <2>1, <2>2, <2>4, <2>5, DiskStays
<1>4. ASSUME NEW p \in Procs, SaveState(s, p) PROVE DiskOK(s)'
    <2>1. /\ worker'[s].states = worker[s].states
          /\ worker'[s].unsaved = worker[s].unsaved \ {p} /\ p \in DOMAIN worker[s].states
          /\ worker[s].pc = "states" /\ worker'[s].pc = "states"
        BY <1>1, <1>4 DEF SaveState, ShapeInv, WorkerTypes, TypeInv, WorkerOK
    <2>2. UNCHANGED <<trace, torn, inbox, parts, merged, merger>>
        BY <1>4 DEF SaveState
    <2>3. \A f \in Files : Reported(s, f)' = Reported(s, f)
        BY <2>2 DEF Reported, Stale, PartsOf
    <2>4. HalfSaved(s) \subseteq HalfSaved(s)' /\ p \in HalfSaved(s)'
        BY <2>1 DEF HalfSaved
    <2>5. \A q \in Procs \ {p} : saved'[s][q] = saved[s][q]
        BY <1>4 DEF SaveState, TypeInv
    <2> QED
        BY <2>1, <2>2, <2>3, <2>4, <2>5, DiskStays
<1>5. ASSUME NEW f \in Files, Process(s, f) PROVE DiskOK(s)'
    <2>1. worker[s].pc = "work" /\ worker'[s].pc = "work"
        BY <1>1, <1>5 DEF Process, Offered, ShapeInv, WorkerTypes
    <2>2. UNCHANGED <<trace, torn, inbox, saved, parts, merged, merger>>
        BY <1>5 DEF Process
    <2>3. \A g \in Files : Reported(s, g)' = Reported(s, g)
        BY <2>2 DEF Reported, Stale, PartsOf
    <2>4. HalfSaved(s) \subseteq HalfSaved(s)'
        BY <2>1 DEF HalfSaved
    <2> QED
        BY <2>1, <2>2, <2>3, <2>4, DiskStays
<1> QED
    BY <1>2, <1>3, <1>4, <1>5 DEF Save

LEMMA MergeDisk ==
    ASSUME TypeInv, TypeInv', NEW s \in Shards, MergerOK(s), DiskOK(s),
           MergeMetadata(s) \/ MergeOwn(s) \/ MergeReport(s) \/ Unlink(s)
    PROVE  DiskOK(s)'
<1>1. UNCHANGED <<trace, torn, inbox, saved, worker>>
    BY DEF MergeMetadata, LoadGenealogy, LoadSources, SaveMerged, MergeOwn, MergeReport,
           LoadReports, SaveAggregate, Unlink
<1>2. \A f \in Files : Reported(s, f)' = Reported(s, f)
    BY MergeKeepsReported
<1>3. HalfSaved(s)' = HalfSaved(s)
    BY <1>1 DEF HalfSaved
<1> QED
    BY <1>1, <1>2, <1>3, DiskStays

(* A worker that is killed leaves what is on disk; what it had read is to  *)
(* be read again, and the processes it had saved are torn.                 *)
LEMMA CrashKept ==
    ASSUME TypeInv, NEW s \in Shards, DiskOK(s), Crash(s)
    PROVE  KeptOK(s)'
<1>1. /\ worker[s].pc \in {"work", "states", "reports"} /\ worker'[s] = NoWorker
      /\ torn' = torn \cup HalfSaved(s)
      /\ UNCHANGED <<trace, inbox, saved, parts, merged, merger>>
    BY DEF Crash, TypeInv, ShapeInv
<1>2. SavedOK(s)'
    BY <1>1, NoWorkerTyped DEF SavedOK
<1>3. ASSUME NEW f \in Files, trace.home[f[1]] = s, f[2] <= trace.size[f[1]], f[1] \notin torn'
      PROVE  FileOK(f)' /\ WaitingOK(f)'
    <2>1. DiskFileOK(f)
        BY <1>1, <1>3 DEF DiskOK
    <2>2. State(s, f[1])' = saved[s][f[1]]
        BY <1>1, NoWorkerTyped DEF State
    <2>3. Reported(s, f)' = Reported(s, f)
        BY <1>1 DEF Reported, Stale, PartsOf
    <2>4. Kept(f)' = Reported(s, f) + Copies(f, saved[s][f[1]].report) + 0
        BY <1>1, <1>3, <2>2, <2>3, KeptAfter, NoWorkerTyped, EmptyReport
    <2>5. Reported(s, f) \in Nat /\ Copies(f, saved[s][f[1]].report) \in Nat
        BY CopiesTyped
    <2>6. f \in inbox' \ worker'[s].seen <=> f \in inbox
        BY <1>1, NoWorkerTyped
    <2>7. FileOK(f)'
        <3>1. FileOK(f)' <=> IF f \in inbox' \ worker'[s].seen
                             THEN f[2] > (State(s, f[1])').ordinal /\ Kept(f)' = 0
                             ELSE Kept(f)' = 1 \/ (Kept(f)' = 0 /\ Unfinished(f))
            BY <1>1, <1>3 DEF FileOK, State, Unfinished
        <3> QED
            BY <1>3, <2>1, <2>2, <2>4, <2>5, <2>6, <3>1 DEF DiskFileOK
    <2>8. WaitingOK(f)'
        <3>1. WaitingOK(f)' <=> (f \in DOMAIN (State(s, f[1])').report =>
                 /\ f \in trace.open
                 /\ \A n \in f[2] + 1 .. (State(s, f[1])').ordinal :
                       <<f[1], n>> \notin trace.changes)
            BY <1>1, <1>3 DEF WaitingOK, State
        <3> QED
            BY <1>3, <2>1, <2>2, <3>1 DEF DiskFileOK
    <2> QED
        BY <2>7, <2>8
<1> QED
    BY <1>1, <1>2, <1>3 DEF KeptOK

LEMMA KeptStep ==
    ASSUME TypeInv, TypeInv', OnceInv, KeptInv, [Next]_vars
    PROVE  KeptInv'
<1>1. happened \subseteq happened'
    BY EventsStay
<1>2. Calm' => Calm /\ \A s \in Shards : OnceOK(s) /\ KeptOK(s) /\ DiskOK(s)
    BY <1>1 DEF Calm, OnceInv, KeptInv
<1>3. ASSUME NEW s \in Shards, Start(s) \/ Save(s) \/ Crash(s) PROVE KeptInv'
    <2>1. ASSUME Calm' PROVE KeptOK(s)' /\ DiskOK(s)'
        <3>1. UnsavedOK(s) /\ KeptOK(s) /\ DiskOK(s)
            BY <1>2, <2>1 DEF OnceOK
        <3>2. KeptOK(s)'
            BY <1>3, <2>1, <3>1, StartKept, CrashKept, SaveMetadataKept, SaveReportKept,
               FinishKept, SaveStateKept DEF Save
        <3>3. DiskOK(s)'
            BY <1>3, <3>1, StartKept, WorkerDisk
        <3> QED
            BY <3>2, <3>3
    <2>2. ASSUME Calm', SavedOK(s), NEW f \in Files, trace.home[f[1]] # s
          PROVE  f \in inbox' <=> f \in inbox
        BY <1>3, <2>2 DEF Start, Crash, Save, SaveGenealogy, SaveSources, SaveReport, SaveState,
               Finish, SavedOK
    <2>3. /\ \A t \in Shards \ {s} : Same(t) /\ saved'[t] = saved[t]
          /\ UNCHANGED trace /\ torn \subseteq torn'
        BY <1>3, OthersStay
    <2> QED
        BY <1>1, <2>1, <2>2, <2>3, KeptShard
<1>4. ASSUME NEW s \in Shards, NEW f \in Files, Process(s, f) \/ ProcessBroken(s, f)
      PROVE  KeptInv'
    <2>1. ASSUME Calm' PROVE KeptOK(s)' /\ DiskOK(s)'
        <3>1. UnsavedOK(s) /\ KeptOK(s) /\ DiskOK(s)
            BY <1>2, <2>1 DEF OnceOK
        <3>2. ~ ProcessBroken(s, f)
            BY <2>1 DEF ProcessBroken, Happens, Calm
        <3> QED
            BY <1>4, <3>1, <3>2, ProcessKept, WorkerDisk
    <2>2. UNCHANGED inbox
        BY <1>4 DEF Process, ProcessBroken
    <2>3. /\ \A t \in Shards \ {s} : Same(t) /\ saved'[t] = saved[t]
          /\ UNCHANGED trace /\ torn \subseteq torn'
        BY <1>4, OthersStay
    <2> QED
        BY <1>1, <2>1, <2>2, <2>3, KeptShard
<1>5. ASSUME NEW s \in Shards,
             \/ MergeMetadata(s) \/ MergeReport(s) \/ MergeOwn(s)
             \/ Unlink(s) \/ MergerCrash(s)
      PROVE  KeptInv'
    <2>1. ASSUME Calm' PROVE KeptOK(s)' /\ DiskOK(s)'
        <3>1. MergerOK(s) /\ KeptOK(s) /\ DiskOK(s)
            BY <1>2, <2>1 DEF OnceOK
        <3>2. ~ MergerCrash(s)
            BY <2>1 DEF MergerCrash, Happens, Calm
        <3> QED
            BY <1>5, <3>1, <3>2, MergeKept, MergeDisk
    <2>2. UNCHANGED inbox
        BY <1>5 DEF MergeMetadata, LoadGenealogy, LoadSources, SaveMerged, MergeOwn, MergeReport,
               LoadReports, SaveAggregate, Unlink, MergerCrash
    <2>3. /\ \A t \in Shards \ {s} : Same(t) /\ saved'[t] = saved[t]
          /\ UNCHANGED trace /\ torn \subseteq torn'
        BY <1>5, OthersStay
    <2> QED
        BY <1>1, <2>1, <2>2, <2>3, KeptShard
<1>6. CASE UNCHANGED vars
    <2>1. ASSUME NEW s \in Shards, KeptOK(s) PROVE KeptOK(s)'
        <3>1. /\ \A p \in Procs : State(s, p)' = State(s, p)
              /\ \A f \in Files : Reported(s, f)' = Reported(s, f)
            BY <1>6 DEF vars, State, Reported, Stale, PartsOf
        <3>2. SavedOK(s)'
            BY <1>6, <2>1 DEF vars, KeptOK, SavedOK
        <3>3. ASSUME NEW f \in Files, trace.home[f[1]] = s PROVE Kept(f)' = Kept(f)
            BY <1>6, <3>1, <3>3, FileParts, KeptSame DEF vars
        <3> QED
            BY <1>6, <2>1, <3>1, <3>2, <3>3, KeptStays DEF vars
    <2>2. ASSUME NEW s \in Shards, DiskOK(s) PROVE DiskOK(s)'
        <3>1. HalfSaved(s)' = HalfSaved(s) /\ UNCHANGED <<trace, inbox, worker, torn>>
            BY <1>6 DEF vars, HalfSaved
        <3>2. \A f \in Files : Reported(s, f)' = Reported(s, f)
            BY <1>6 DEF vars, Reported, Stale, PartsOf
        <3>3. \A f \in Files : Unfinished(f)' = Unfinished(f)
            BY <3>1 DEF Unfinished
        <3>4. ASSUME NEW f \in Files, trace.home[f[1]] = s, DiskFileOK(f)
              PROVE  DiskFileOK(f)'
            BY <1>6, <3>1, <3>2, <3>3, <3>4 DEF vars, DiskFileOK
        <3> QED
            BY <2>2, <3>1, <3>4 DEF DiskOK
    <2> QED
        BY <1>6, <2>1, <2>2 DEF vars, KeptInv
<1> QED
    BY <1>3, <1>4, <1>5, <1>6 DEF Next

LEMMA KeptInvariant == Spec => []KeptInv
BY InitKept, KeptStep, OnceInvariant, TypesInvariant, PTL DEF Spec

(* The samples of a trace file that was deleted are in a report, a part, a *)
(* state or a worker that will write them, exactly once, for any number of *)
(* shards, processes and files, unless the section they wait for never     *)
(* ends.  Workers may be killed; only the processes whose state such a     *)
(* worker had saved are left out.                                          *)
THEOREM NothingIsLost == Spec => []Accounted
<1>1. TypeInv /\ KeptInv => Accounted
    <2> SUFFICES ASSUME TypeInv, KeptInv, Calm, NEW f \in Files, f[2] <= trace.size[f[1]],
                        f \notin inbox, f[1] \notin torn
                 PROVE  Kept(f) = 1 \/ (Kept(f) = 0 /\ Unfinished(f))
        BY DEF Accounted, Calm
    <2>1. trace.home[f[1]] \in Shards
        BY FileParts, TraceTyped DEF TypeInv
    <2>2. FileOK(f)
        BY <2>1 DEF KeptInv, KeptOK, Calm
    <2> QED
        BY <2>2 DEF FileOK
<1> QED
    BY <1>1, KeptInvariant, TypesInvariant, PTL
=============================================================================
