---------------------------- MODULE TraceSession ----------------------------
(***************************************************************************)
(* Which trace files a profiled program leaves behind (Cxt in              *)
(* src/runloop.cpp, TraceFileWriter in src/tracefile.cpp).                 *)
(*                                                                         *)
(* Every context (a process or an ithread) writes a stream: files with the *)
(* same id and ordinals 1, 2, ...  Files are rotated by size, at a fork and*)
(* at a clone; a forked child, a cloned ithread and a profile started      *)
(* again begin a new stream, whose header names the file of the stream it  *)
(* comes from.  Section markers are written as they happen and written     *)
(* again at the start of a stream that begins inside sections.             *)
(*                                                                         *)
(* Readers see streams only through these files: ReadStream is what        *)
(* TraceFileReader makes of one, carrying its state from file to file.     *)
(*                                                                         *)
(* A fork is three steps: the fork, with the handler that prepares it, and *)
(* the handlers of the parent and of the child, in either order.           *)
(***************************************************************************)
EXTENDS Integers, Sequences, FiniteSets, SequencesExt

CONSTANTS
    Ctxs,        \* contexts: processes and ithreads
    Sections,    \* section names
    MaxNest,     \* how often the program opens one section
    MaxIds,      \* stream ids, one less after rare events, a bound for TLC
    MaxOrdinal,  \* files of a stream, a bound for TLC
    MaxRecords,  \* records a file is left open for, a bound for TLC
    Events       \* what happens, a subset of AllEvents

(* fork, clone: contexts fork, start ithreads                              *)
(* early:    they start ithreads also before they wrote a trace file       *)
(* disable:  disable_profile() is called                                   *)
(* guards:   sections stay open when profiling is switched on or off        *)
(* openfail: a trace file cannot be opened                                 *)
(* nothread: a forked child cannot start its counter thread, and croaks    *)
(* evals:    eval sources are saved                                        *)
(* always:   they are, also when profiling is off (all_evals_always)       *)
(* crash:    contexts disappear without closing their trace                *)
AllEvents == {"fork", "clone", "early", "disable", "guards", "openfail", "nothread",
              "evals", "always", "crash"}

(* A behaviour has at most one kind of these, a bound for TLC.             *)
Rare == {"early", "guards", "openfail", "nothread", "evals", "always"}

ASSUME BoundsAssumption ==
    /\ MaxNest \in Nat /\ MaxIds \in Nat \ {0} /\ MaxOrdinal \in Nat /\ MaxRecords \in Nat
ASSUME SetsAssumption == IsFiniteSet(Sections) /\ Events \subseteq AllEvents

VARIABLES
    state,    \* "none", "live", "parent" and "child" (a fork handler is due), "gone"
    cxt,      \* the Cxt of each context
    held,     \* the sections each program opened and has not closed
    disk,     \* finished trace files
    lost,     \* files that crashed contexts left under their temporary name
    nextId,   \* the next id
    line,     \* history: the last file each context or an ancestor of it opened
    happened, \* history: the rare events so far
    garbled,  \* history: files a forked child wrote to when it shut them
    unmarked  \* history: streams with fewer markers than open sections at their start

vars == <<state, cxt, held, disk, lost, nextId, line, happened, garbled, unmarked>>

-----------------------------------------------------------------------------
(* Trace files                                                             *)

Records == {"start", "end"} \X Sections \cup {<<"eval">>}
Refs == [id : 0 .. MaxIds, ordinal : 0 .. MaxOrdinal]
NoParent == [id |-> 0, ordinal |-> 0]

(* buffered: records that did not reach the file yet.                      *)
Traces == [ref : Refs, parent : Refs, records : Seq(Records), buffered : BOOLEAN]
NoTrace == [ref |-> NoParent, parent |-> NoParent, records |-> <<>>, buffered |-> FALSE]

(* What a context leaves behind.                                           *)
TraceFiles == [ref : Refs, parent : Refs, records : Seq(Records), last : BOOLEAN]

Valid(x) == x.trace # NoTrace                              \* is_valid()
IsRunning(x) == x.running \/ Valid(x)                      \* is_running()
Write(x, recs) == [x EXCEPT !.trace.records = @ \o recs,
                            !.trace.buffered = @ \/ recs # <<>>]

(* The file a context leaves when it closes its trace, with the tag that   *)
(* ends the stream or only the file.                                       *)
Finished(x, last) ==
    IF Valid(x) THEN {[ref |-> x.trace.ref, parent |-> x.trace.parent,
                       records |-> x.trace.records, last |-> last]}
    ELSE {}
Closed(x) == [x EXCEPT !.trace = NoTrace]

-----------------------------------------------------------------------------
(* Cxt: each operator maps a context to its next states.                   *)

Cxts == [enabled : BOOLEAN, running : BOOLEAN, id : 0 .. MaxIds, ordinal : 0 .. MaxOrdinal,
         parent : Refs, written : BOOLEAN, restore : BOOLEAN,
         sections : [Sections -> Nat], trace : Traces]

(* The last file of its stream.                                            *)
Ref(x) == [id |-> x.id, ordinal |-> x.ordinal]

NewCxt(i) ==
    [enabled |-> TRUE, running |-> FALSE, id |-> i, ordinal |-> 0,
     parent |-> NoParent, written |-> FALSE, restore |-> FALSE,
     sections |-> [s \in Sections |-> 0], trace |-> NoTrace]

May(e) == e \in Events /\ happened \subseteq {e} /\ nextId <= MaxIds
MayBegin == nextId + Cardinality(happened) <= MaxIds

(* The header, with the context's genealogy.  The output is a template, to *)
(* which id and ordinal are appended.  A file named with -file is not: a   *)
(* stream that opens it again overwrites it.                               *)
Open(x) ==
    {[x EXCEPT !.written = TRUE,
               !.trace = [ref |-> Ref(x), parent |-> x.parent, records |-> <<>>,
                          buffered |-> FALSE]]}
    \cup (IF May("openfail") THEN {x} ELSE {})

(* Mutant of RestoreSections: nothing is written again.                    *)
RestoreSectionsNot(x) == x

(* One marker for each open section.                                       *)
Markers(x) == SetToSeq({<<"start", s>> : s \in {t \in Sections : x.sections[t] > 0}})
RestoreSections(x) == IF Valid(x) THEN Write(x, Markers(x)) ELSE x

(* The stream of x begins inside sections and has no marker for each time  *)
(* they were opened, nor will it get one with its first file.              *)
Unmarked(x) ==
    LET markers == IF Valid(x) \/ x.restore THEN 1 ELSE 0
    IN  IF \E s \in Sections : x.sections[s] > markers THEN {x.id} ELSE {}

CreateTrace(x) ==
    IF Valid(x) THEN {x}
    ELSE {IF Valid(y) /\ y.restore THEN RestoreSections([y EXCEPT !.restore = FALSE])
          ELSE y : y \in Open([x EXCEPT !.ordinal = @ + 1])}

(* reopen_output_file(); Finished(x, FALSE) goes to disk.                  *)
Reopen(x) == Open([Closed(x) EXCEPT !.ordinal = @ + 1])

(* The genealogy of the stream that follows the current one.               *)
Descend(x) ==
    IF x.written THEN [x EXCEPT !.parent = Ref(x), !.written = FALSE] ELSE x

Restart(x, i) == [Descend(x) EXCEPT !.id = i, !.ordinal = 0]

(* Mutant of PidChanged: the parent is forgotten.                          *)
PidChangedUnrelated(x, i) == [x EXCEPT !.id = i, !.ordinal = 0, !.written = FALSE]

(* Mutant of PidChanged: the child writes to the stream of its parent.     *)
PidChangedKeepsId(x, i) == [Descend(x) EXCEPT !.ordinal = 0]

PidChanged(x, i) == [Descend(x) EXCEPT !.id = i, !.ordinal = 0]

(* The clone constructor.                                                  *)
Clone(x, i) ==
    [NewCxt(i) EXCEPT !.enabled = x.enabled, !.parent = Ref(x), !.restore = TRUE,
                      !.sections = x.sections]

-----------------------------------------------------------------------------
TypeOK ==
    /\ state \in [Ctxs -> {"none", "live", "parent", "child", "gone"}]
    /\ cxt \in [Ctxs -> Cxts]
    /\ held \in [Ctxs -> [Sections -> 0 .. MaxNest]]
    /\ disk \subseteq TraceFiles /\ lost \subseteq TraceFiles
    /\ nextId \in 1 .. MaxIds + 1
    /\ line \in [Ctxs -> Refs]
    /\ happened \subseteq Rare
    /\ garbled \subseteq Refs
    /\ unmarked \subseteq 1 .. MaxIds

Nothing == [s \in Sections |-> 0]

(* One process, profiled from the start or not (-nostart).                 *)
Init ==
    \E c \in Ctxs, on \in BOOLEAN :
        /\ state = [d \in Ctxs |-> IF d = c THEN "live" ELSE "none"]
        /\ cxt = [d \in Ctxs |-> IF d = c THEN [NewCxt(1) EXCEPT !.enabled = on] ELSE NewCxt(0)]
        /\ held = [d \in Ctxs |-> Nothing]
        /\ disk = {} /\ lost = {} /\ nextId = 2 /\ happened = {} /\ garbled = {}
        /\ unmarked = {}
        /\ line = [d \in Ctxs |-> NoParent]

Live(c) == state[c] = "live"
Latest(c, x) == IF Valid(x) THEN x.trace.ref ELSE line[c]

(* Every open counts, also one that fails.                                 *)
Unopened(x, y) ==
    IF y.ordinal # 0 /\ <<y.id, y.ordinal>> # <<x.id, x.ordinal>> /\ ~Valid(y)
    THEN {"openfail"} ELSE {}

(* The context becomes x, in spite of the events es.                       *)
BecomeAfter(c, x, es) ==
    /\ \A e \in es : May(e)
    /\ cxt' = [cxt EXCEPT ![c] = x]
    /\ line' = [line EXCEPT ![c] = Latest(c, x)]
    /\ happened' = happened \cup es \cup Unopened(cxt[c], x)
Become(c, x) == BecomeAfter(c, x, {})
Save(files) == disk' = disk \cup files
MayFollow(c) == cxt[c].ordinal < MaxOrdinal
MayOpen(c) == Valid(cxt[c]) \/ MayFollow(c)
MayRecord(c) == Len(cxt[c].trace.records) < MaxRecords

(* Markers are written only while profiling is enabled.                    *)
Guarded(c) == IF held[c] = Nothing THEN {} ELSE {"guards"}

-----------------------------------------------------------------------------
(* The profiled program                                                    *)

(* A profiling run loop starts, the outermost one or an inner one.         *)
EnterLoop(c) ==
    /\ Live(c) /\ cxt[c].enabled /\ ~(cxt[c].running /\ Valid(cxt[c])) /\ MayOpen(c)
    /\ \E y \in CreateTrace([cxt[c] EXCEPT !.running = TRUE]) : Become(c, y)
    /\ UNCHANGED <<state, held, disk, lost, nextId, garbled, unmarked>>

(* It ends, profiling stays enabled.                                       *)
LeaveLoop(c) ==
    /\ Live(c) /\ cxt[c].running
    /\ Become(c, [cxt[c] EXCEPT !.running = FALSE])
    /\ UNCHANGED <<state, held, disk, lost, nextId, garbled, unmarked>>

(* enable_profile(): a closed trace means a new stream.  The run loop is   *)
(* entered afterwards.                                                     *)
Enable(c) ==
    /\ Live(c) /\ ~(cxt[c].enabled /\ Valid(cxt[c]))
    /\ IF Valid(cxt[c])
       THEN BecomeAfter(c, [cxt[c] EXCEPT !.enabled = TRUE], Guarded(c)) /\ UNCHANGED nextId
       ELSE /\ MayBegin /\ nextId' = nextId + 1
            /\ BecomeAfter(c, [Restart(cxt[c], nextId) EXCEPT !.enabled = TRUE], Guarded(c))
    /\ UNCHANGED <<state, held, disk, lost, garbled, unmarked>>

(* disable_profile(): the trace stays open.                                *)
Disable(c) ==
    /\ "disable" \in Events /\ Live(c) /\ cxt[c].enabled
    /\ BecomeAfter(c, [cxt[c] EXCEPT !.enabled = FALSE, !.running = FALSE], Guarded(c))
    /\ UNCHANGED <<state, held, disk, lost, nextId, garbled, unmarked>>

(* stop_profile(): the stream ends.                                        *)
Stop(c) ==
    /\ Live(c)
    /\ Save(Finished(cxt[c], TRUE))
    /\ BecomeAfter(c, [Closed(cxt[c]) EXCEPT !.enabled = FALSE, !.running = FALSE,
                                             !.sections = Nothing], Guarded(c))
    /\ UNCHANGED <<state, held, lost, nextId, garbled, unmarked>>

(* collect_sample() finds that the file is full.                           *)
Rotate(c) ==
    /\ Live(c) /\ cxt[c].running /\ Valid(cxt[c]) /\ MayFollow(c)
    /\ Save(Finished(cxt[c], FALSE))
    /\ \E y \in Reopen(cxt[c]) : Become(c, y)
    /\ UNCHANGED <<state, held, lost, nextId, garbled, unmarked>>

(* Writes a marker, if profiling is enabled and the file can be opened, and *)
(* notes the new depth of its section.                                     *)
Record(c, rec, depth) ==
    IF cxt[c].enabled
    THEN /\ MayOpen(c) /\ MayRecord(c)
         /\ \E y \in CreateTrace(cxt[c]) :
                Become(c, [IF Valid(y) THEN Write(y, <<rec>>) ELSE y
                           EXCEPT !.sections[rec[2]] = depth])
    ELSE UNCHANGED <<cxt, line, happened>>

StartSection(c, s) ==
    /\ Live(c) /\ held[c][s] < MaxNest
    /\ held' = [held EXCEPT ![c][s] = @ + 1]
    /\ Record(c, <<"start", s>>, cxt[c].sections[s] + 1)
    /\ UNCHANGED <<state, disk, lost, nextId, garbled, unmarked>>

(* Mutant of EndSection: the depth of a section that is not open wraps.    *)
EndSectionUnderflow(c, s) ==
    /\ Live(c) /\ held[c][s] > 0
    /\ held' = [held EXCEPT ![c][s] = @ - 1]
    /\ Record(c, <<"end", s>>, cxt[c].sections[s] - 1)
    /\ UNCHANGED <<state, disk, lost, nextId, garbled, unmarked>>

(* A section that is not open is written, too.                             *)
EndSection(c, s) ==
    /\ Live(c) /\ held[c][s] > 0
    /\ held' = [held EXCEPT ![c][s] = @ - 1]
    /\ LET n == cxt[c].sections[s] IN Record(c, <<"end", s>>, IF n = 0 THEN 0 ELSE n - 1)
    /\ UNCHANGED <<state, disk, lost, nextId, garbled, unmarked>>

(* The text of an eval is saved when it ends.                              *)
SaveEval(c) ==
    /\ Live(c) /\ MayOpen(c) /\ MayRecord(c)
    /\ \E y \in CreateTrace(cxt[c]) :
           BecomeAfter(c, IF Valid(y) THEN Write(y, <<<<"eval">>>>) ELSE y,
                       IF cxt[c].enabled THEN {"evals"} ELSE {"always"})
    /\ UNCHANGED <<state, held, disk, lost, nextId, garbled, unmarked>>

-----------------------------------------------------------------------------
(* fork()                                                                  *)

(* Mutant of Flushed: the buffer is copied into the child.                 *)
FlushedNot(x) == x

(* prepare_fork().                                                         *)
Flushed(x) == [x EXCEPT !.trace.buffered = FALSE]

Fork(c, d) ==
    /\ "fork" \in Events /\ Live(c) /\ state[d] = "none" /\ MayFollow(c)
    /\ state' = [state EXCEPT ![c] = "parent", ![d] = "child"]
    /\ cxt' = [cxt EXCEPT ![c] = Flushed(cxt[c]), ![d] = Flushed(cxt[c])]
    /\ held' = [held EXCEPT ![d] = held[c]]
    /\ line' = [line EXCEPT ![d] = line[c]]
    /\ UNCHANGED <<disk, lost, nextId, happened, garbled, unmarked>>

(* Mutant of ForkParent: the file the child depends on stays open.         *)
ForkParentKeepsFile(c) ==
    /\ state[c] = "parent"
    /\ state' = [state EXCEPT ![c] = "live"]
    /\ UNCHANGED <<cxt, held, disk, lost, nextId, line, happened, garbled, unmarked>>

(* parent_after_fork().                                                    *)
ForkParent(c) ==
    /\ state[c] = "parent"
    /\ state' = [state EXCEPT ![c] = "live"]
    /\ Save(Finished(cxt[c], FALSE))
    /\ IF Valid(cxt[c]) /\ cxt[c].running
       THEN \E y \in Reopen(cxt[c]) : Become(c, y)
       ELSE Become(c, Closed(cxt[c]))
    /\ UNCHANGED <<held, lost, nextId, garbled, unmarked>>

(* shut() closes the file without an end tag.                              *)
Shut(d) ==
    garbled' = IF cxt[d].trace.buffered THEN garbled \cup {cxt[d].trace.ref} ELSE garbled

(* child_after_fork(): a running child opens the first file of its stream. *)
ForkChild(d) ==
    /\ state[d] = "child" /\ MayBegin
    /\ state' = [state EXCEPT ![d] = "live"]
    /\ nextId' = nextId + 1
    /\ Shut(d)
    /\ LET x == PidChanged(Closed(cxt[d]), nextId)
       IN  IF IsRunning(cxt[d]) THEN \E y \in Reopen(x) : Become(d, RestoreSections(y))
           ELSE Become(d, x)
    /\ unmarked' = unmarked \cup Unmarked(cxt'[d])
    /\ UNCHANGED <<held, disk, lost>>

(* The counter thread cannot be started: the child croaks, and goes on if  *)
(* it catches that, under its parent's id.                                 *)
ForkChildCroaks(d) ==
    /\ state[d] = "child" /\ IsRunning(cxt[d])
    /\ state' = [state EXCEPT ![d] = "live"]
    /\ Shut(d)
    /\ BecomeAfter(d, Closed(cxt[d]), {"nothread"})
    /\ UNCHANGED <<held, disk, lost, nextId, unmarked>>

-----------------------------------------------------------------------------
(* ithreads, exit                                                          *)

(* clone_runloop().                                                        *)
CloneThread(c, d) ==
    /\ "clone" \in Events /\ Live(c) /\ state[d] = "none" /\ MayBegin
    /\ ~Valid(cxt[c]) \/ MayFollow(c)
    /\ state' = [state EXCEPT ![d] = "live"]
    /\ nextId' = nextId + 1
    /\ held' = [held EXCEPT ![d] = held[c]]
    /\ Save(Finished(cxt[c], FALSE))
    /\ \E y \in IF Valid(cxt[c]) THEN Reopen(cxt[c]) ELSE {cxt[c]} :
           LET es == IF cxt[c].written THEN {} ELSE {"early"}
           IN  /\ \A e \in es : May(e)
               /\ cxt' = [cxt EXCEPT ![c] = y, ![d] = Clone(cxt[c], nextId)]
               /\ line' = [line EXCEPT ![c] = Latest(c, y), ![d] = line[c]]
               /\ happened' = happened \cup es \cup Unopened(cxt[c], y)
    /\ unmarked' = unmarked \cup Unmarked(cxt'[d])
    /\ UNCHANGED <<lost, garbled>>

(* ~Cxt() ends the stream.                                                 *)
Exit(c) ==
    /\ Live(c) /\ ~cxt[c].running
    /\ state' = [state EXCEPT ![c] = "gone"]
    /\ Save(Finished(cxt[c], TRUE))
    /\ Become(c, Closed(cxt[c]))
    /\ UNCHANGED <<held, lost, nextId, garbled, unmarked>>

(* The process is killed: its file keeps the temporary name.               *)
Crash(c) ==
    /\ "crash" \in Events /\ state[c] \in {"live", "parent", "child"}
    /\ state' = [state EXCEPT ![c] = "gone"]
    /\ lost' = lost \cup (IF state[c] = "child" THEN {} ELSE Finished(cxt[c], FALSE))
    /\ Become(c, Closed(cxt[c]))
    /\ UNCHANGED <<held, disk, nextId, garbled, unmarked>>

Next ==
    \/ \E c \in Ctxs :
          \/ EnterLoop(c) \/ LeaveLoop(c) \/ Enable(c) \/ Disable(c) \/ Stop(c)
          \/ Rotate(c) \/ SaveEval(c)
          \/ \E s \in Sections : StartSection(c, s) \/ EndSection(c, s)
          \/ ForkParent(c) \/ ForkChild(c) \/ ForkChildCroaks(c)
          \/ Exit(c) \/ Crash(c)
    \/ \E c, d \in Ctxs : c # d /\ (Fork(c, d) \/ CloneThread(c, d))

Spec == Init /\ [][Next]_vars

-----------------------------------------------------------------------------
(* Reading streams (TraceFileReader)                                       *)

OpenFiles ==
    UNION {Finished(cxt[c], FALSE) : c \in {d \in Ctxs : state[d] \in {"live", "parent"}}}
Files == disk \cup lost \cup OpenFiles

(* A section end without its start kills the reader.                       *)
ReadRecord(st, rec) ==
    CASE rec[1] = "start" -> [st EXCEPT !.open[rec[2]] = @ + 1]
      [] rec[1] = "end"   -> IF st.open[rec[2]] = 0 THEN [st EXCEPT !.dead = TRUE]
                             ELSE [st EXCEPT !.open[rec[2]] = @ - 1]
      [] rec[1] = "eval"  -> st

ReadRecords(st, recs) ==
    LET after[n \in 0 .. Len(recs)] == IF n = 0 THEN st ELSE ReadRecord(after[n - 1], recs[n])
    IN  after[Len(recs)]

(* The records of a file, none if it does not exist.                       *)
RecordsOf(r) ==
    LET files == {f \in Files : f.ref = r}
    IN  IF files = {} THEN <<>> ELSE (CHOOSE f \in files : TRUE).records

Unread == [open |-> Nothing, dead |-> FALSE]

(* A reader takes its state from file to file (get_reader_state,           *)
(* set_reader_state).                                                      *)
ReadFiles(files) ==
    LET after[n \in 0 .. MaxOrdinal] ==
            IF n = 0 THEN Unread ELSE ReadRecords(after[n - 1], files[n])
    IN  after[MaxOrdinal]

(* Its state after everything stream i holds so far.                       *)
ReadStream(i) == ReadFiles([n \in 1 .. MaxOrdinal |-> RecordsOf([id |-> i, ordinal |-> n])])

-----------------------------------------------------------------------------
(* Properties                                                              *)

(* Every stream can be read: no section ends that did not start in it, and *)
(* the sections a reader finds open are the ones the writer has open, over *)
(* rotations, forks, clones and restarts, unless a file could not be       *)
(* opened, a child croaked, or the profile was switched inside a section.  *)
(* Streams that began with too few markers are those of contexts forked or *)
(* cloned inside a section opened twice, and of contexts forked without a  *)
(* trace file inside a section.                                            *)
SectionsMatched ==
    happened \cap {"guards", "openfail", "nothread"} = {} =>
    /\ \A i \in (1 .. MaxIds) \ unmarked : ~ReadStream(i).dead
    /\ \A c \in Ctxs : Live(c) /\ Valid(cxt[c]) /\ cxt[c].id \notin unmarked =>
           ReadStream(cxt[c].id).open = cxt[c].sections

(* No file is written by two contexts, or overwritten by a later one, even *)
(* if some cannot be opened, unless a child croaked in its fork handler.   *)
OneWriter ==
    "nothread" \notin happened =>
    /\ \A f, g \in Files : f.ref = g.ref => f = g
    /\ \A c, d \in Ctxs :
          /\ state[c] \in {"live", "parent"} /\ Valid(cxt[c])
          /\ state[d] \in {"live", "parent"} /\ Valid(cxt[d])
          /\ cxt[c].trace.ref = cxt[d].trace.ref
          => c = d

(* The genealogy skips nobody: the parent of a stream is the last file     *)
(* that the context, or the one it comes from, opened before.  A clone of  *)
(* a context without files and a file that cannot be opened break it.      *)
LineageKept ==
    happened \cap {"early", "openfail"} = {} =>
    \A c \in Ctxs : Live(c) =>
        line[c] = IF cxt[c].written THEN Ref(cxt[c]) ELSE cxt[c].parent

(* A forked child leaves the file of its parent alone, whatever happens.   *)
ChildShutsQuietly == garbled = {}

-----------------------------------------------------------------------------
(* TraceSession implements TraceStream: an open file is frozen from the    *)
(* fork on, although its parent finishes it only later.                    *)
FileStatus(f) ==
    IF f \in disk THEN "finished"
    ELSE IF f \in lost THEN "lost"
    ELSE IF \E c \in Ctxs : state[c] = "parent" /\ cxt[c].trace.ref = f.ref THEN "frozen"
    ELSE "open"

StreamFiles ==
    LET all == Files IN
    [r \in {f.ref : f \in all} |->
        LET f == CHOOSE g \in all : g.ref = r
        IN  [parent |-> f.parent, records |-> f.records, last |-> f.last,
             status |-> FileStatus(f)]]

Stream == INSTANCE TraceStream WITH files <- StreamFiles

(* Readers can rely on the files a program leaves: those of a stream have  *)
(* ordinals 1, 2, ... without a gap, each one finished before the next is  *)
(* opened and nothing behind the file that ends the stream; the file that  *)
(* a header names as its parent exists and is frozen or finished, and      *)
(* nothing is written to it any more.  It ends with an early clone, a file  *)
(* that cannot be opened, a child that croaks, an eval after the end.      *)
ImplementsStream ==
    Stream!Init /\ [][happened' \subseteq {"guards", "evals"} => Stream!Next]_StreamFiles
-----------------------------------------------------------------------------
(* The inductive invariants of TraceSessionProofs.                         *)

Owns(c) == state[c] \in {"live", "parent"}
Alive(c) == Owns(c) \/ state[c] = "child"

(* A context writes the last file of its stream.  It has an id of its own  *)
(* or, in the handler of a fork, its parent's; no handler has anything to  *)
(* flush.                                                                  *)
CxtInv(c) ==
    /\ Valid(cxt[c]) => Alive(c) /\ cxt[c].written /\ cxt[c].trace.ref = Ref(cxt[c])
    /\ Alive(c) => cxt[c].id \in 1 .. nextId - 1
    /\ state[c] \in {"parent", "child"} =>
          cxt[c].ordinal < MaxOrdinal /\ ~cxt[c].trace.buffered

BaseInv == TypeOK /\ ChildShutsQuietly /\ \A c \in Ctxs : CxtInv(c)

(* Streams have one context each, whose last file is the only one that may *)
(* be missing among the finished ones.                                     *)
OwnersInv ==
    "nothread" \notin happened =>
    /\ \A c, d \in Ctxs : Owns(c) /\ Owns(d) /\ cxt[c].id = cxt[d].id => c = d
    /\ \A f, g \in disk \cup lost : f.ref = g.ref => f = g
    /\ \A f \in disk \cup lost :
          /\ f.ref.id < nextId
          /\ \A c \in Ctxs : Owns(c) /\ cxt[c].id = f.ref.id =>
                f.ref.ordinal <= cxt[c].ordinal /\ (Valid(cxt[c]) => f.ref # Ref(cxt[c]))

LineInv ==
    happened \cap {"early", "openfail"} = {} =>
    \A c \in Ctxs : Alive(c) =>
        line[c] = IF cxt[c].written THEN Ref(cxt[c]) ELSE cxt[c].parent

(* A file that does not change any more.                                   *)
Settled(r) ==
    \/ \E f \in disk \cup lost : f.ref = r
    \/ \E c \in Ctxs : state[c] = "parent" /\ Valid(cxt[c]) /\ cxt[c].trace.ref = r

(* A context that may open the next file of its stream has finished the    *)
(* one before.                                                             *)
Continued(c) ==
    \E f \in disk : f.ref = Ref(cxt[c]) /\ ~f.last /\ f.parent = cxt[c].parent

ChainInv ==
    happened \subseteq {"guards", "evals"} =>
    /\ \A f \in lost : ~f.last
    /\ \A c \in Ctxs :
          /\ Alive(c) => cxt[c].parent = NoParent \/ Settled(cxt[c].parent)
          /\ Alive(c) /\ cxt[c].written /\ (state[c] = "child" \/ ~Valid(cxt[c])) =>
                Settled(Ref(cxt[c]))
          /\ Owns(c) /\ ~Valid(cxt[c]) /\ cxt[c].enabled /\ cxt[c].ordinal > 0 => Continued(c)
          /\ Owns(c) /\ Valid(cxt[c]) => cxt[c].trace.parent = cxt[c].parent

(* A context knows the sections its program has open, if it is enabled, and*)
(* what a reader finds open, but for markers that are still to be restored.*)
Counted(c) ==
    /\ cxt[c].sections = IF cxt[c].enabled THEN held[c] ELSE Nothing
    /\ cxt[c].running => Valid(cxt[c])
    /\ Valid(cxt[c]) => ~cxt[c].restore /\ cxt[c].ordinal > 0
Marked(c) ==
    /\ ReadStream(cxt[c].id) =
          [open |-> IF cxt[c].restore THEN Nothing ELSE cxt[c].sections, dead |-> FALSE]
    /\ cxt[c].restore => \A s \in Sections : cxt[c].sections[s] <= 1

SectionsInv ==
    happened \cap {"guards", "openfail", "nothread"} = {} =>
    /\ \A i \in (1 .. MaxIds) \ unmarked : ~ReadStream(i).dead
    /\ \A c \in Ctxs : Alive(c) => Counted(c)
    /\ \A c \in Ctxs : Owns(c) /\ cxt[c].id \notin unmarked => Marked(c)

IInv == BaseInv /\ OwnersInv /\ LineInv /\ ChainInv /\ SectionsInv
=============================================================================
