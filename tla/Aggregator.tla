----------------------------- MODULE Aggregator -----------------------------
(***************************************************************************)
(* How trace files end up in merged reports                                *)
(* (lib/Devel/StatProfiler/Aggregator.pm, Utils.pm).                       *)
(*                                                                         *)
(* Trace files belong to streams, one per profiled process, and are taken  *)
(* in the order of their ordinals.  A worker reads some, keeps what it     *)
(* learned in memory and saves it with save_part(): the state of each      *)
(* process, to go on with the next file, and parts of the reports and of   *)
(* the metadata.  A merger folds the parts into the merged files of the    *)
(* shard and deletes them.  Every file is written under another name and   *)
(* renamed, so writing one is a step; anything may be killed between two.  *)
(*                                                                         *)
(* Workers and mergers are objects of one Perl class; here each shard has  *)
(* at most one of each at a time, and the program that uses them sends     *)
(* every process to one shard.  It deletes trace files that were saved.    *)
(*                                                                         *)
(* A trace file stands for its samples after the last change of sections.  *)
(* While a section is open they wait, in the state of the process, for the *)
(* file where it is closed; there is one report.                           *)
(***************************************************************************)
EXTENDS Integers, FiniteSets, Bags

CONSTANTS
    Shards,
    Procs,        \* profiled processes
    Root,         \* the first one; the others come from its first file
    MaxOrdinal,   \* files of a process
    Traces,       \* the sets of trace files considered, a subset of AllTraces
    Events,       \* what goes wrong, a subset of AllEvents
    MaxEvents     \* how much of it in one behaviour, a bound for TLC

(* crash:      a worker is killed before save_part() is through            *)
(* mergecrash: a merger is killed                                          *)
(* keep:       trace files that were saved are not deleted                 *)
(* broken:     a file is damaged, and the program goes on with save_part() *)
(* overlap:    a merger reads metadata while a worker of its shard saves   *)
(* own:        merge_metadata() is called on the worker itself             *)
(* Each one happens at most once.                                          *)
AllEvents == {"crash", "mergecrash", "keep", "broken", "overlap", "own"}

ASSUME RootAssumption == Root \in Procs /\ IsFiniteSet(Procs) /\ IsFiniteSet(Shards)
ASSUME BoundsAssumption == MaxOrdinal \in Nat \ {0} /\ MaxEvents \in Nat
ASSUME EventsAssumption == Events \subseteq AllEvents

Kinds == {"genealogy", "source", "report"}
Files == Procs \X (1 .. MaxOrdinal)
Of(p) == {f \in Files : f[1] = p}
Parent(f) == IF f[1] = Root THEN f ELSE <<Root, 1>>

(* A file without changes ends in the sections the one before it ended in. *)
AllTraces ==
    {t \in [home : [Procs -> Shards],         \* where the files of a process are sent
            size : [Procs -> 1 .. MaxOrdinal],
            changes : SUBSET Files,           \* sections change in the file
            open : SUBSET Files,              \* it ends in a section
            mapped : BOOLEAN] :               \* the workers map eval names
        \A f \in Files :
            IF f[2] > t.size[f[1]] THEN f \notin t.changes \cup t.open
            ELSE \/ f \in t.changes
                 \/ f \in t.open <=> f[2] > 1 /\ <<f[1], f[2] - 1>> \in t.open}

ASSUME TracesAssumption == Traces \subseteq AllTraces

VARIABLES
    trace,      \* the trace files
    inbox,      \* those still there
    saved,      \* processed.<id> of each shard
    parts,      \* parts of each shard, by kind
    merged,     \* merged files of each shard, by kind
    worker,     \* the worker of each shard
    merger,     \* the merger of each shard
    happened,   \* history: the events there were so far
    ended,      \* history: the processes whose state was deleted
    torn        \* history: those saved by a worker that was killed before its reports

vars == <<trace, inbox, saved, parts, merged, worker, merger, happened, ended, torn>>

Initial == [ordinal |-> 0, report |-> EmptyBag]
NoWorker == [pc |-> "off", states |-> <<>>, unsaved |-> {}, failed |-> {}, seen |-> {},
             report |-> EmptyBag, known |-> {}]
NoMerger == [pc |-> "off", parts |-> {}, genealogy |-> {}, source |-> {},
             report |-> EmptyBag]

TypeOK ==
    /\ inbox \subseteq Files /\ happened \subseteq Events
    /\ ended \subseteq Procs /\ torn \subseteq Procs
    /\ \A s \in Shards : \A p \in Procs :
          /\ saved[s][p].ordinal \in 0 .. trace.size[p] - 1
          /\ BagToSet(saved[s][p].report) \subseteq {f \in Of(p) : f[2] <= saved[s][p].ordinal}
    /\ \A s \in Shards :
          /\ \A x \in parts[s] : x.kind \in Kinds /\ x.name \in Nat
          /\ worker[s].pc \in {"off", "work", "states", "reports", "saved"}
          /\ merger[s].pc \in {"off", "sources", "save", "genealogy", "report", "unlink"}
          /\ worker[s].unsaved \subseteq DOMAIN worker[s].states
          /\ worker[s].seen \subseteq Files

Init ==
    /\ trace \in Traces
    /\ inbox = {f \in Files : f[2] <= trace.size[f[1]]}
    /\ saved = [s \in Shards |-> [p \in Procs |-> Initial]]
    /\ parts = [s \in Shards |-> {}]
    /\ merged = [s \in Shards |-> [genealogy |-> {}, source |-> {}, report |-> EmptyBag]]
    /\ worker = [s \in Shards |-> NoWorker]
    /\ merger = [s \in Shards |-> NoMerger]
    /\ happened = {} /\ ended = {} /\ torn = {}

(* An event happens now.                                                   *)
Happens(e) ==
    /\ e \in Events \ happened /\ Cardinality(happened) < MaxEvents
    /\ happened' = happened \cup {e}

(* write_data_part(): a new file, also if there is one like it.            *)
AddPart(s, kind, data) ==
    LET name == CHOOSE n \in 1 .. Cardinality(parts[s]) + 1 :
                    [kind |-> kind, name |-> n, data |-> data] \notin parts[s]
    IN  parts' = [parts EXCEPT ![s] = @ \cup {[kind |-> kind, name |-> name, data |-> data]}]

PartsOf(s, kind) == {x \in parts[s] : x.kind = kind}
MergedSets(P) == UNION {x.data : x \in P}

(* How often f is in the bag b, and in all the parts of P together.        *)
Copies(f, b) == IF f \in DOMAIN b THEN b[f] ELSE 0
Count(f, P) == Cardinality(UNION {{x} \X (1 .. Copies(f, x.data)) : x \in P})

MergedReports(P) == [f \in UNION {DOMAIN x.data : x \in P} |-> Count(f, P)]

-----------------------------------------------------------------------------
(* process_trace_files()                                                   *)

(* Mutant of Known: the mapper knows the genealogy of its own shard.       *)
KnownAlone(s) == merged[s].genealogy

(* The mapper of a worker knows the merged genealogy of every shard.       *)
Known(s) == IF trace.mapped THEN UNION {merged[t].genealogy : t \in Shards} ELSE {}

Start(s) ==
    /\ worker[s].pc = "off" /\ \E f \in inbox : trace.home[f[1]] = s
    /\ worker' = [worker EXCEPT ![s] = [NoWorker EXCEPT !.pc = "work", !.known = Known(s)]]
    /\ UNCHANGED <<trace, torn, inbox, saved, parts, merged, merger, happened, ended>>

(* _state(): what the worker knows, or else what is on disk.               *)
State(s, p) ==
    IF p \in DOMAIN worker[s].states THEN worker[s].states[p] ELSE saved[s][p]

(* Mutant of CanProcess: the last file is accepted again.                  *)
CanProcessAgain(s, f) == f[2] \in {State(s, f[1]).ordinal, State(s, f[1]).ordinal + 1}

CanProcess(s, f) ==
    /\ f[2] = State(s, f[1]).ordinal + 1
    /\ trace.mapped => f[1] = Root \/ Parent(f) \in worker[s].known \cup worker[s].seen

(* The samples that waited are counted as soon as sections change; those   *)
(* at the end of the file are, unless a section is open.                   *)
Counted(s, f) ==
    LET waiting == State(s, f[1]).report
    IN  (IF f \in trace.changes THEN waiting ELSE EmptyBag)
        (+) (IF f \in trace.open THEN EmptyBag ELSE SetToBag({f}))

Waiting(s, f) ==
    (IF f \in trace.changes THEN EmptyBag ELSE State(s, f[1]).report)
    (+) (IF f \in trace.open THEN SetToBag({f}) ELSE EmptyBag)

SetState(w, p, st) ==
    [q \in DOMAIN w.states \cup {p} |-> IF q = p THEN st ELSE w.states[q]]

(* The program offers a file of the shard that it did not offer before.    *)
Offered(s, f) ==
    worker[s].pc = "work" /\ f \in inbox \ worker[s].seen /\ trace.home[f[1]] = s

Process(s, f) ==
    /\ Offered(s, f) /\ CanProcess(s, f)
    /\ worker' = [worker EXCEPT
          ![s].states = SetState(worker[s], f[1], [ordinal |-> f[2], report |-> Waiting(s, f)]),
          ![s].unsaved = @ \cup {f[1]},
          ![s].seen = @ \cup {f},
          ![s].report = @ (+) Counted(s, f)]
    /\ UNCHANGED <<trace, torn, inbox, saved, parts, merged, merger, happened, ended>>

(* Reading dies behind the section changes of the file: the stream counts  *)
(* as ended, but its state is not marked as modified.                      *)
CountedBroken(s, f) == IF f \in trace.changes THEN State(s, f[1]).report ELSE EmptyBag
StateBroken(s, f) == [State(s, f[1]) EXCEPT !.report = @ (-) CountedBroken(s, f)]

ProcessBroken(s, f) ==
    /\ Offered(s, f) /\ CanProcess(s, f) /\ Happens("broken")
    /\ worker' = [worker EXCEPT
          ![s].states = SetState(worker[s], f[1], StateBroken(s, f)),
          ![s].failed = @ \cup {f[1]},
          ![s].seen = @ \cup {f},
          ![s].report = @ (+) CountedBroken(s, f)]
    /\ UNCHANGED <<trace, torn, inbox, saved, parts, merged, merger, ended>>

-----------------------------------------------------------------------------
(* save_part()                                                             *)

SaveGenealogy(s) ==
    /\ worker[s].pc = "work"
    /\ IF worker[s].seen = {} THEN UNCHANGED parts
       ELSE AddPart(s, "genealogy", worker[s].seen)
    /\ worker' = [worker EXCEPT ![s].pc = "states"]
    /\ UNCHANGED <<trace, torn, inbox, saved, merged, merger, happened, ended>>

Ends(s, p) == worker[s].states[p].ordinal = trace.size[p] \/ p \in worker[s].failed

(* Mutant of SaveState: the state of an ended stream is kept.              *)
SaveStateAlways(s, p) ==
    /\ worker[s].pc = "states" /\ p \in worker[s].unsaved
    /\ saved' = [saved EXCEPT ![s][p] = worker[s].states[p]]
    /\ worker' = [worker EXCEPT ![s].unsaved = @ \ {p}]
    /\ UNCHANGED <<trace, torn, inbox, parts, merged, merger, happened, ended>>

(* Written, or deleted if the stream has ended.                            *)
SaveState(s, p) ==
    /\ worker[s].pc = "states" /\ p \in worker[s].unsaved
    /\ saved' = [saved EXCEPT ![s][p] =
                    IF Ends(s, p) THEN Initial ELSE worker[s].states[p]]
    /\ ended' = IF Ends(s, p) THEN ended \cup {p} ELSE ended
    /\ worker' = [worker EXCEPT ![s].unsaved = @ \ {p}]
    /\ UNCHANGED <<trace, torn, inbox, parts, merged, merger, happened>>

SaveSources(s) ==
    /\ worker[s].pc = "states" /\ worker[s].unsaved = {}
    /\ IF worker[s].seen = {} THEN UNCHANGED parts
       ELSE AddPart(s, "source", worker[s].seen)
    /\ worker' = [worker EXCEPT ![s].pc = "reports"]
    /\ UNCHANGED <<trace, torn, inbox, saved, merged, merger, happened, ended>>

SaveReport(s) ==
    /\ worker[s].pc = "reports"
    /\ IF worker[s].report = EmptyBag THEN UNCHANGED parts
       ELSE AddPart(s, "report", worker[s].report)
    /\ worker' = [worker EXCEPT ![s].pc = "saved"]
    /\ UNCHANGED <<trace, torn, inbox, saved, merged, merger, happened, ended>>

(* The program deletes the files the worker took and drops the worker.     *)
Finish(s) ==
    /\ worker[s].pc = "saved"
    /\ \/ inbox' = inbox \ worker[s].seen /\ UNCHANGED happened
       \/ Happens("keep") /\ UNCHANGED inbox
    /\ worker' = [worker EXCEPT ![s] = NoWorker]
    /\ UNCHANGED <<trace, torn, saved, parts, merged, merger, ended>>

(* The processes whose state the worker has saved, but not their reports.  *)
HalfSaved(s) ==
    IF worker[s].pc = "work" THEN {} ELSE DOMAIN worker[s].states \ worker[s].unsaved

Crash(s) ==
    /\ worker[s].pc \in {"work", "states", "reports"} /\ Happens("crash")
    /\ torn' = torn \cup HalfSaved(s)
    /\ worker' = [worker EXCEPT ![s] = NoWorker]
    /\ UNCHANGED <<trace, inbox, saved, parts, merged, merger, ended>>

-----------------------------------------------------------------------------
(* merge_metadata()                                                        *)

Saving(s) == worker[s].pc \in {"states", "reports"}

(* Mutant of LoadGenealogy: what was merged before is not loaded.          *)
LoadGenealogyParts(s) ==
    /\ merger[s].pc = "off"
    /\ IF Saving(s) THEN Happens("overlap") ELSE UNCHANGED happened
    /\ PartsOf(s, "genealogy") \cup PartsOf(s, "source") # {}
    /\ LET P == PartsOf(s, "genealogy")
       IN  merger' = [merger EXCEPT ![s] =
                        [NoMerger EXCEPT !.pc = "sources", !.parts = P,
                                         !.genealogy = MergedSets(P)]]
    /\ UNCHANGED <<trace, torn, inbox, saved, parts, merged, worker, ended>>

LoadGenealogy(s) ==
    /\ merger[s].pc = "off"
    /\ IF Saving(s) THEN Happens("overlap") ELSE UNCHANGED happened
    /\ PartsOf(s, "genealogy") \cup PartsOf(s, "source") # {}
    /\ LET P == PartsOf(s, "genealogy")
       IN  merger' = [merger EXCEPT ![s] =
                        [NoMerger EXCEPT !.pc = "sources", !.parts = P,
                             !.genealogy = merged[s].genealogy \cup MergedSets(P)]]
    /\ UNCHANGED <<trace, torn, inbox, saved, parts, merged, worker, ended>>

LoadSources(s) ==
    /\ merger[s].pc = "sources"
    /\ LET P == PartsOf(s, "source")
       IN  merger' = [merger EXCEPT ![s].pc = "save", ![s].parts = @ \cup P,
                                    ![s].source = merged[s].source \cup MergedSets(P)]
    /\ UNCHANGED <<trace, torn, inbox, saved, parts, merged, worker, happened, ended>>

(* _load_all_metadata() loads nothing into a worker that read trace files. *)
MergeOwn(s) ==
    /\ merger[s].pc = "off" /\ worker[s].pc = "saved" /\ worker[s].seen # {}
    /\ Happens("own")
    /\ merger' = [merger EXCEPT ![s] =
                    [NoMerger EXCEPT !.pc = "save", !.genealogy = worker[s].seen,
                                     !.source = worker[s].seen]]
    /\ UNCHANGED <<trace, torn, inbox, saved, parts, merged, worker, ended>>

(* Mutant of SaveMerged: the genealogy is written first.                   *)
SaveMergedGenealogyFirst(s) ==
    /\ \/ /\ merger[s].pc = "save"
          /\ merged' = [merged EXCEPT ![s].genealogy = merger[s].genealogy]
          /\ merger' = [merger EXCEPT ![s].pc = "genealogy"]
       \/ /\ merger[s].pc = "genealogy"
          /\ merged' = [merged EXCEPT ![s].source = merger[s].source]
          /\ merger' = [merger EXCEPT ![s].pc = "unlink"]
    /\ UNCHANGED <<trace, torn, inbox, saved, parts, worker, happened, ended>>

SaveMerged(s) ==
    /\ \/ /\ merger[s].pc = "save"
          /\ merged' = [merged EXCEPT ![s].source = merger[s].source]
          /\ merger' = [merger EXCEPT ![s].pc = "genealogy"]
       \/ /\ merger[s].pc = "genealogy"
          /\ merged' = [merged EXCEPT ![s].genealogy = merger[s].genealogy]
          /\ merger' = [merger EXCEPT ![s].pc = "unlink"]
    /\ UNCHANGED <<trace, torn, inbox, saved, parts, worker, happened, ended>>

-----------------------------------------------------------------------------
(* merge_report()                                                          *)

LoadReports(s) ==
    /\ merger[s].pc = "off"
    /\ LET P == PartsOf(s, "report")
       IN  /\ P # {}
           /\ merger' = [merger EXCEPT ![s] =
                            [NoMerger EXCEPT !.pc = "report", !.parts = P,
                                 !.report = merged[s].report (+) MergedReports(P)]]
    /\ UNCHANGED <<trace, torn, inbox, saved, parts, merged, worker, happened, ended>>

SaveAggregate(s) ==
    /\ merger[s].pc = "report"
    /\ merged' = [merged EXCEPT ![s].report = merger[s].report]
    /\ merger' = [merger EXCEPT ![s].pc = "unlink"]
    /\ UNCHANGED <<trace, torn, inbox, saved, parts, worker, happened, ended>>

(* Mutant of Unlink: all parts are deleted, also newer ones.               *)
UnlinkAll(s) ==
    /\ merger[s].pc = "unlink"
    /\ parts' = [parts EXCEPT ![s] = {}]
    /\ merger' = [merger EXCEPT ![s] = NoMerger]
    /\ UNCHANGED <<trace, torn, inbox, saved, merged, worker, happened, ended>>

(* The parts that were loaded are deleted.                                 *)
Unlink(s) ==
    /\ merger[s].pc = "unlink"
    /\ parts' = [parts EXCEPT ![s] = @ \ merger[s].parts]
    /\ merger' = [merger EXCEPT ![s] = NoMerger]
    /\ UNCHANGED <<trace, torn, inbox, saved, merged, worker, happened, ended>>

MergerCrash(s) ==
    /\ merger[s].pc # "off" /\ Happens("mergecrash")
    /\ merger' = [merger EXCEPT ![s] = NoMerger]
    /\ UNCHANGED <<trace, torn, inbox, saved, parts, merged, worker, ended>>

-----------------------------------------------------------------------------
Save(s) ==
    \/ SaveGenealogy(s) \/ SaveSources(s) \/ SaveReport(s) \/ Finish(s)
    \/ \E p \in Procs : SaveState(s, p)

MergeMetadata(s) == LoadGenealogy(s) \/ LoadSources(s) \/ SaveMerged(s)
MergeReport(s) == LoadReports(s) \/ SaveAggregate(s)

Next ==
    \E s \in Shards :
        \/ Start(s) \/ Save(s) \/ Crash(s)
        \/ \E f \in Files : Process(s, f) \/ ProcessBroken(s, f)
        \/ MergeMetadata(s) \/ MergeReport(s) \/ MergeOwn(s) \/ Unlink(s) \/ MergerCrash(s)

Spec == Init /\ [][Next]_vars

(* The program runs workers and mergers as long as there is something for  *)
(* them, and a worker that is offered files again and again takes one.     *)
Fairness ==
    \A s \in Shards :
        /\ WF_vars(Start(s)) /\ WF_vars(Save(s))
        /\ SF_vars(\E f \in Files : Process(s, f))
        /\ WF_vars(MergeMetadata(s) \/ MergeReport(s) \/ Unlink(s))

FairSpec == Spec /\ Fairness

-----------------------------------------------------------------------------
(* Properties                                                              *)

(* Parts that are in the merged report and about to be deleted.            *)
Stale(s) == IF merger[s].pc = "unlink" THEN merger[s].parts ELSE {}

(* How often f is in the merged report and the parts that will be.         *)
Reported(s, f) ==
    Copies(f, merged[s].report) + Copies(f, MergedReports(PartsOf(s, "report") \ Stale(s)))

(* No file is in reports, parts and states more than once as long as the   *)
(* state of its process exists, also after a worker was killed in          *)
(* save_part() and when files that were saved are offered again.           *)
NeverTwice ==
    happened \cap {"mergecrash", "broken"} = {} =>
        \A s \in Shards : \A f \in Files :
            f[1] \notin ended => Reported(s, f) + Copies(f, saved[s][f[1]].report) <= 1

(* The stream ends in a section that was open when f ended.                *)
Unfinished(f) ==
    f \in trace.open /\ \A n \in f[2] + 1 .. trace.size[f[1]] : <<f[1], n>> \notin trace.changes

(* The samples of f on disk or in the worker of its shard.                 *)
Kept(f) ==
    LET s == trace.home[f[1]]
    IN  Reported(s, f) + Copies(f, State(s, f[1]).report)
        + (IF worker[s].pc = "saved" THEN 0 ELSE Copies(f, worker[s].report))

(* A trace file that was deleted is not lost: its samples are on disk or   *)
(* about to be, unless they wait for a section end that never comes.  Nor  *)
(* is it when a worker is killed, unless this happens after the state of   *)
(* its process was saved and before the reports were: the samples that     *)
(* waited in that state are in no report then, and not in the state.       *)
Accounted ==
    happened \subseteq {"overlap", "own", "crash"} =>
        \A f \in Files :
            f[2] <= trace.size[f[1]] /\ f \notin inbox /\ f[1] \notin torn =>
                Kept(f) = 1 \/ (Kept(f) = 0 /\ Unfinished(f))

(* If a file is in the merged genealogy, so that files of child processes  *)
(* are accepted, its sources are merged, too.                              *)
SourcesSaved ==
    \A s \in Shards : merged[s].genealogy \subseteq merged[s].source

SourcesFirst == happened \cap {"crash", "overlap", "own"} = {} => SourcesSaved

(* The merged genealogy only grows: no process that was seen is forgotten. *)
GenealogyKept ==
    [][\A s \in Shards : "own" \notin happened =>
          merged[s].genealogy \subseteq merged'[s].genealogy]_vars

(* Every file is in a merged report in the end, although children wait     *)
(* until the genealogy of their parents was merged, in whatever shard.     *)
AllMerged ==
    <>(happened # {} \/ \A f \in Files :
          \/ f[2] > trace.size[f[1]] \/ Unfinished(f)
          \/ Copies(f, merged[trace.home[f[1]]].report) > 0)

-----------------------------------------------------------------------------
(* The inductive invariants of AggregatorProofs.                           *)

(* Sources of shard s that are merged or will be.                          *)
Sources(s) == merged[s].source \cup MergedSets(PartsOf(s, "source"))

(* The variables and their records have the fields they started with.      *)
ShapeInv ==
    /\ DOMAIN merged = Shards /\ DOMAIN merger = Shards
    /\ DOMAIN worker = Shards /\ DOMAIN parts = Shards
    /\ \A s \in Shards :
          /\ DOMAIN merged[s] = {"genealogy", "source", "report"}
          /\ DOMAIN merger[s] = {"pc", "parts", "genealogy", "source", "report"}
          /\ DOMAIN worker[s] = {"pc", "states", "unsaved", "failed", "seen", "report", "known"}

(* A merger holds what was merged before.                                  *)
HoldsMerged(s) ==
    merger[s].pc \in {"sources", "save", "genealogy"} =>
        merged[s].genealogy \subseteq merger[s].genealogy

(* Every genealogy part has its sources, or the worker that wrote it is    *)
(* about to write them.                                                    *)
PartsCovered(s) ==
    \A x \in PartsOf(s, "genealogy") :
        \/ x.data \subseteq Sources(s)
        \/ worker[s].pc = "states" /\ x.data \subseteq worker[s].seen

(* The genealogy a merger read has its sources among those it read or will *)
(* read, and it deletes only sources that are merged.                      *)
MergerCovered(s) ==
    LET m == merger[s]
        read == MergedSets({x \in m.parts : x.kind = "source"})
    IN  /\ merged[s].genealogy \subseteq merged[s].source
        /\ m.pc \in {"sources", "report"} => read = {}
        /\ m.pc = "sources" => m.genealogy \subseteq Sources(s)
        /\ m.pc \in {"save", "genealogy"} => m.genealogy \subseteq m.source
        /\ m.pc = "save" => read \cup merged[s].source \subseteq m.source
        /\ m.pc = "genealogy" => m.source = merged[s].source
        /\ m.pc \in {"genealogy", "unlink"} => read \subseteq merged[s].source

MetadataInv ==
    /\ ShapeInv
    /\ "own" \notin happened => \A s \in Shards : HoldsMerged(s)
    /\ happened \cap {"crash", "overlap", "own"} = {} =>
          \A s \in Shards : PartsCovered(s) /\ MergerCovered(s)

-----------------------------------------------------------------------------
(* Types, and what each state says of its process.                         *)

Reports == UNION {[S -> Nat \ {0}] : S \in SUBSET Files}
States == [ordinal : Nat, report : Reports]
Merged == [genealogy : SUBSET Files, source : SUBSET Files, report : Reports]
WorkerTypes ==
    [pc : {"off", "work", "states", "reports", "saved"},
     states : UNION {[P -> States] : P \in SUBSET Procs}, unsaved : SUBSET Procs,
     failed : SUBSET Procs, seen : SUBSET Files, report : Reports, known : SUBSET Files]

StateOK(p, st) ==
    /\ st.ordinal <= trace.size[p]
    /\ DOMAIN st.report \subseteq {f \in Of(p) : f[2] <= st.ordinal}

WorkerOK(s) ==
    /\ \A p \in Procs : StateOK(p, saved[s][p]) /\ saved[s][p].ordinal # trace.size[p]
    /\ \A p \in DOMAIN worker[s].states : StateOK(p, worker[s].states[p])
    /\ worker[s].unsaved \subseteq DOMAIN worker[s].states
    /\ worker[s].pc = "off" => worker[s] = NoWorker

PartsOK(s) ==
    /\ IsFiniteSet(parts[s])
    /\ \A x \in parts[s] :
          /\ x.kind \in Kinds /\ x.name \in Nat
          /\ x.data \in (IF x.kind = "report" THEN Reports ELSE SUBSET Files)
    /\ merger[s].pc \in {"off", "sources", "save", "genealogy", "report", "unlink"}
    /\ merger[s].parts \subseteq parts[s]
    /\ merger[s].genealogy \subseteq Files /\ merger[s].source \subseteq Files
    /\ merger[s].report \in Reports

TypeInv ==
    /\ ShapeInv
    /\ trace \in AllTraces /\ happened \subseteq Events /\ ended \subseteq Procs
    /\ inbox \subseteq {f \in Files : f[2] <= trace.size[f[1]]}
    /\ saved \in [Shards -> [Procs -> States]]
    /\ merged \in [Shards -> Merged]
    /\ worker \in [Shards -> WorkerTypes]
    /\ \A s \in Shards : WorkerOK(s) /\ PartsOK(s)

(* A merger of reports will write what is merged and its parts, and no     *)
(* other merger deletes report parts.                                      *)
MergerOK(s) ==
    /\ merger[s].pc = "report" =>
          /\ \A x \in merger[s].parts : x.kind = "report"
          /\ merger[s].report = merged[s].report (+) MergedReports(merger[s].parts)
    /\ merger[s].pc \in {"sources", "save", "genealogy"} =>
          \A x \in merger[s].parts : x.kind # "report"

(* What is saved of p when the worker is through with the states.          *)
Target(s, p) ==
    IF p \in worker[s].unsaved THEN worker[s].states[p] ELSE saved[s][p]

(* No file counts twice, whether the worker is killed or goes on.          *)
Once(s, f) ==
    /\ Reported(s, f) + Copies(f, saved[s][f[1]].report) <= 1
    /\ f[2] > saved[s][f[1]].ordinal => Reported(s, f) = 0
    /\ worker[s].pc \in {"work", "states", "reports"} =>
          LET n == Reported(s, f) + Copies(f, worker[s].report)
          IN  /\ n + Copies(f, Target(s, f[1]).report) <= 1
              /\ f[2] > Target(s, f[1]).ordinal => n = 0

UnsavedOK(s) ==
    /\ worker[s].pc = "work" => DOMAIN worker[s].states = worker[s].unsaved
    /\ worker[s].pc \in {"reports", "saved"} => worker[s].unsaved = {}

OnceOK(s) ==
    /\ MergerOK(s) /\ UnsavedOK(s)
    /\ \A f \in Files : f[1] \notin ended => Once(s, f)

OnceInv ==
    happened \cap {"mergecrash", "broken"} = {} => \A s \in Shards : OnceOK(s)

(* Files that were read are accounted for, files that wait were not.       *)
FileOK(f) ==
    LET s == trace.home[f[1]]
    IN  IF f \in inbox \ worker[s].seen
        THEN f[2] > State(s, f[1]).ordinal /\ Kept(f) = 0
        ELSE Kept(f) = 1 \/ (Kept(f) = 0 /\ Unfinished(f))

(* Samples wait in a state while the section they are in stays open.       *)
WaitingOK(f) ==
    LET st == State(trace.home[f[1]], f[1])
    IN  f \in DOMAIN st.report =>
            f \in trace.open /\ \A n \in f[2] + 1 .. st.ordinal : <<f[1], n>> \notin trace.changes

(* What a worker saved of its states, those of ended streams are deleted.  *)
SavedOK(s) ==
    /\ \A f \in worker[s].seen : trace.home[f[1]] = s
    /\ worker[s].failed = {}
    /\ \A p \in DOMAIN worker[s].states \ worker[s].unsaved :
          saved[s][p] = IF worker[s].states[p].ordinal = trace.size[p] THEN Initial
                        ELSE worker[s].states[p]

KeptOK(s) ==
    /\ SavedOK(s)
    /\ \A f \in Files :
          trace.home[f[1]] = s /\ f[2] <= trace.size[f[1]] /\ f[1] \notin torn =>
              FileOK(f) /\ WaitingOK(f)

(* What KeptOK would say of f if the worker of its shard was killed now.   *)
DiskFileOK(f) ==
    LET s == trace.home[f[1]]
        st == saved[s][f[1]]
        n == Reported(s, f) + Copies(f, st.report)
    IN  /\ IF f \in inbox THEN f[2] > st.ordinal /\ n = 0
           ELSE n = 1 \/ (n = 0 /\ Unfinished(f))
        /\ f \in DOMAIN st.report =>
              f \in trace.open
              /\ \A m \in f[2] + 1 .. st.ordinal : <<f[1], m>> \notin trace.changes

DiskOK(s) ==
    worker[s].pc \in {"work", "states", "reports"} =>
        \A f \in Files :
            trace.home[f[1]] = s /\ f[2] <= trace.size[f[1]]
            /\ f[1] \notin torn \cup HalfSaved(s) => DiskFileOK(f)

KeptInv ==
    happened \subseteq {"overlap", "own", "crash"} =>
        \A s \in Shards : KeptOK(s) /\ DiskOK(s)
=============================================================================
